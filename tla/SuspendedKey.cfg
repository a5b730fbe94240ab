SPECIFICATION Spec
CONSTANTS
  k1 = k1  k2 = k2
  shop = shop  w1 = w1  w2 = w2
  Workers = {w1, w2}
  Apps = {shop}
  Keys = {k1, k2}
  AppOf <- MCAppOf
  TTL = 2
  None = None
PROPERTY
  SuspendedRefused
