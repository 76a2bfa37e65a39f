CONSTANTS
  Process = {p1, p2, p3}
  Key = {k1, k2, k3}
  Verifier = {v1}
  Absent = Absent
  Empty = Empty
SPECIFICATION TokensSpec
CHECK_DEADLOCK FALSE
INVARIANTS TokensInv KindsApart VerdictsTell
PROPERTIES SettledStays RaceDrains TokensLast
SYMMETRY Symmetry
