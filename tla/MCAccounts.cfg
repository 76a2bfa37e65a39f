CONSTANTS
  User = {u1, u2}
  Admin = {d1}
  Email = {e1}
  Password = {w1, w2}
  Request = {r1, r2}
  None = None
SPECIFICATION Spec
INVARIANTS IInv RegisteredIsFound
PROPERTIES EntryNeedsPassword ImplementsDirectory
SYMMETRY Symmetry
