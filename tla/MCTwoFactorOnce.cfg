CONSTANTS
  Account = {u1}
  Admin = {}
  Enrolment = {e1}
  Backup = {b1}
  Request = {r1, r2}
  Totp = Totp
  None = None
SPECIFICATION Spec
PROPERTY BackupUsedOnce
SYMMETRY Symmetry
