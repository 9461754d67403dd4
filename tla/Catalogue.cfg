SPECIFICATION Spec
CONSTANTS
  Keys = {"list:public", "collection", "threshold"}
  Fillers = {f1, f2}
  Writers = {w1}
  Life <- MCLife
  FillTime = 1
SYMMETRY FillerSymmetry
INVARIANTS StaleForALifeAtMost MembershipFollows InactiveIsExcluded
CHECK_DEADLOCK FALSE
