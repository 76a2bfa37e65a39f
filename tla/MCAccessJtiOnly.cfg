CONSTANTS
  Jti = {j1}
  Call = {c1}
  AccessTTL = 2
  Skew = 0
  Asked = {0}
  MaxTime = 3
  None = None
SPECIFICATION Spec
PROPERTY RevokedMeansRefused
