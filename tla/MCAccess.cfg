CONSTANTS
  Jti = {j1, j2}
  Call = {c1, c2}
  AccessTTL = 2
  Skew = 1
  Asked = {0, 2, 3, 5, 7}
  MaxTime = 4
  None = None
SPECIFICATION Spec
INVARIANTS TypeOK RowOutlivesToken
PROPERTY RefusedButLastSkew
SYMMETRY Symmetry
