CONSTANTS
  Account = {u1, a1}
  Admin = {a1}
  Enrolment = {e1, e2}
  Backup = {b1}
  Request = {r1, r2}
  Totp = Totp
  None = None
SPECIFICATION Spec
INVARIANTS IInv EnrolledShowedACode
PROPERTIES SpentDrains ReplacedDrains EnrolledDrains
SYMMETRY Symmetry
