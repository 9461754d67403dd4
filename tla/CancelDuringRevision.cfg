SPECIFICATION Spec
CONSTANTS
  Orders = {o1}
  Workers = {w1, w2}
  Products = {p1}
  Carts <- SmallCarts
  Fees = {f1}
  NoFee = NoFee
  Addresses = {a1}
  NoDelivery = NoDelivery
  Placers = {"CUSTOMER"}
  Handlers <- CancelAndRevise
  InitialStock <- OneProductStock
  Corrections <- Adjustments
  MaxOnHand = 2
  MaxHeld = 2
INVARIANT ReservedCountsHolds
CHECK_DEADLOCK FALSE
