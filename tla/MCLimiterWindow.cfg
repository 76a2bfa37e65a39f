CONSTANTS
  IP = {a1}
  Call = {c1, c2}
  Limit = 2
  Window = 3
  SweepInt = 1
  MaxWait = 1
  NoIP = NoIP
SPECIFICATION Spec
INVARIANT WindowLimit
