SPECIFICATION Spec
CONSTANTS
  Orders = {o1, o2}
  Workers = {w1, w2}
  Products = {p1}
  Carts <- SmallCarts
  Fees = {f1}
  NoFee = NoFee
  Addresses = {}
  NoDelivery = NoDelivery
  Placers = {"CUSTOMER"}
  Handlers <- HoldHandlers
  InitialStock <- OneProductStock
  Corrections = {}
  MaxOnHand = 2
  MaxHeld = 4
SYMMETRY OrderSymmetry
INVARIANTS NeverOversold ReservedIsAccountedFor
CHECK_DEADLOCK FALSE
