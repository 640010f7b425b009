SPECIFICATION Spec
CONSTANTS
  Thread = {t1, t2}
  User = {u1, u2}
  Node = {n1, n2, n3}
  NULL = NULL
  GARBAGE = GARBAGE
  GROUP_NUM_MAX = 2
SYMMETRY Symmetry
INVARIANT NewGid
CHECK_DEADLOCK FALSE
