CONSTANTS
  Account = {u1}
  Admin = {}
  Enrolment = {e1, e2}
  Backup = {b1}
  Request = {r1, r2}
  Totp = Totp
  None = None
SPECIFICATION Spec
INVARIANT EnrolledWasVerified
SYMMETRY Symmetry
