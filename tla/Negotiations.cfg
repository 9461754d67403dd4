SPECIFICATION Spec
CONSTANTS
  Workers = {w1, w2}
  Customers = {c1}
  Products = {p1}
  Posters = {"STAFF"}
  PageSize = 1
  MaxThreads = 2
  MaxLog = 3
  MaxTime = 2
  MaxChips = 1
SYMMETRY WorkerSymmetry
INVARIANTS InboxIsTrue MessagesArePushed
PROPERTIES ChipsOnlyAdvance
CHECK_DEADLOCK FALSE
