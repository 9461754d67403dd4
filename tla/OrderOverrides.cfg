SPECIFICATION Spec
CONSTANTS
  Orders = {o1}
  Workers = {w1, w2}
  Products = {p1}
  Carts <- SmallCarts
  Fees = {f1}
  NoFee = NoFee
  Addresses = {a1}
  NoDelivery = NoDelivery
  Placers = {"STAFF"}
  Handlers <- StaffHandlers
  InitialStock <- OneProductStock
  Corrections <- Adjustments
  MaxOnHand = 2
  MaxHeld = 2
SYMMETRY OrderSymmetry
INVARIANT TypeOK
PROPERTY CancelledIsOver
CHECK_DEADLOCK FALSE
