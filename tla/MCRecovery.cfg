CONSTANTS
  Token = {t1, t2}
  Subject = {s1}
  Request = {r1, r2}
  Reset = {k1, k2}
  None = None
SPECIFICATION RecoverySpec
CHECK_DEADLOCK FALSE
INVARIANTS RecoveryInv ResetCutsOff
PROPERTIES ResetSingleUse DeletedDrains ImplementsPromise
SYMMETRY Symmetry
