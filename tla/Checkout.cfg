SPECIFICATION Spec
CONSTANTS
  c1 = c1
  c2 = c2
  Carts = {c1, c2}
  Area <- MCArea
  Workers = {w1, w2}
  InitialStock = 2
  MaxOnHand = 2
  MaxSends <- MCSends
  MaxFailures = 1
PROPERTIES OneOrderPerCheckout NoForgottenOrder LapsedHoldsEnd
CHECK_DEADLOCK FALSE
