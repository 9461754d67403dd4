SPECIFICATION Spec
CONSTANTS
  Users = {u1, u2}
  Founders = {u1}
  Tokens = {t1, t2, t3}
  NoUser = NoUser
  NoToken = NoToken
  Workers = {w1, w2}
SYMMETRY AccountSymmetry
INVARIANTS TypeOK RotatedOnceWhileLive
PROPERTIES LastAdminOnlyGoesUnseen
CHECK_DEADLOCK FALSE
