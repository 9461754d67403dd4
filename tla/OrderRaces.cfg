SPECIFICATION Spec
CONSTANTS
  Orders = {o1}
  Workers = {w1, w2}
  Products = {p1}
  Carts <- SmallCarts
  Fees = {f1, f2}
  NoFee = NoFee
  Addresses = {a1, a2}
  NoDelivery = NoDelivery
  Placers = {"CUSTOMER"}
  Handlers <- Kinds
  InitialStock <- OneProductStock
  Corrections = {}
  MaxOnHand = 2
  MaxHeld = 2
SYMMETRY WorkerSymmetry
INVARIANTS StockLeavesOnce FulfilmentIsPaid PaidWhatWasSeen HoldsMatchOrders QuotedOrdersHoldStock
PROPERTIES DeliveryLocked ImplementsLifecycle
CHECK_DEADLOCK FALSE
