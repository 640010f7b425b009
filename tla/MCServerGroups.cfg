SPECIFICATION FairSpec
CONSTANTS
  Thread = {t1, t2}
  User = {u1}
  Node = {n1, n2}
  NULL = NULL
  GARBAGE = GARBAGE
  GROUP_NUM_MAX = 2
INVARIANTS TypeOK GroupsApart
PROPERTY HandlerReturns
CHECK_DEADLOCK FALSE
