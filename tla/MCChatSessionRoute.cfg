SPECIFICATION Spec
CONSTANTS
  Conn = {c1, c2, c3}
  User = {u1, u2}
  Known = {u1}
  Data = {d1, d2, d3, d4}
  Fd = {4, 5}
  NULL = NULL
  MaxLogins = 2
  MaxSends = 1
SYMMETRY Symmetry
INVARIANT ArrivesAtRecipient
CHECK_DEADLOCK FALSE
