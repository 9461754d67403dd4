SPECIFICATION Spec
CONSTANTS
  Workers = {w1, w2}
  Users = {c1, a1}
  Clients = {c1}
  Sessions = {s1}
  Products = {p1, p2}
  Floors = {p1, p2}
  Walls = {p2}
  None = None
  Switched = {p2}
  Verdicts = {"ACCEPTED"}
  MaxPicks = 2
  MaxConversations = 1
  MaxMessages = 4
  MaxJobs = 1
  MaxNamed = 0
  MaxRows = 3
  MaxDecided = 1
INVARIANTS HistoryIsWhatWasShown BarredStaysOut InquiriesAreFollowUps
SYMMETRY WorkerSymmetry
CHECK_DEADLOCK FALSE
