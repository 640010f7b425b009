SPECIFICATION Spec
CONSTANTS
  Conn = {c1, c2}
  User = {u1, u2}
  Known = {u1}
  Data = {d1, d2, d3}
  Fd = {4, 5}
  NULL = NULL
  MaxLogins = 2
  MaxSends = 1
SYMMETRY Symmetry
INVARIANT NewLoginUidAuthenticated
CHECK_DEADLOCK FALSE
