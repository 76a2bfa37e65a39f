CONSTANTS
  Token = {t1, t2, t3}
  Subject = {s1, s2}
  Request = {r1, r2}
  None = None
SPECIFICATION Spec
INVARIANTS TypeOK OneLivePerLogin IInv
PROPERTIES EndedStaysEnded GoneAccountDrains ImplementsChains
SYMMETRY Symmetry
