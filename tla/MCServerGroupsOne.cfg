SPECIFICATION Spec
CONSTANTS
  Thread = {t1, t2}
  User = {u1, u2}
  Node = {n1, n2, n3}
  NULL = NULL
  GARBAGE = GARBAGE
  GROUP_NUM_MAX = 1
SYMMETRY Symmetry
CONSTRAINT OneInvited
INVARIANTS MembersConsented ListedOnce ForwardedOnce JoinedIsMember
PROPERTY ForwardReachesAll
CHECK_DEADLOCK FALSE
