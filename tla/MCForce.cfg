CONSTANTS
  Token = {t1, t2, t3}
  Subject = {s1}
  Request = {r1, r2}
  None = None
SPECIFICATION Spec
INVARIANT ForceLogoutTotal
SYMMETRY Symmetry
