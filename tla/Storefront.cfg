SPECIFICATION Spec
CONSTANTS
  Users = {u1, u2}
  Sessions = {s1}
  Products = {p1, p2}
  RoomsOf <- Rooms
  Workers = {w1, w2}
  Periods <- Windows
  Scenes <- Few
  Price <- Prices
  TopTiles = 1
  MaxDay = 3
SYMMETRY Symmetry
INVARIANTS OpenedOnce FailsOnlyOverRemoval SalesAddUp PagesAgree NewOrRepeatOnce FunnelIsCumulative
CHECK_DEADLOCK FALSE
