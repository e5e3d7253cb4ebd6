SPECIFICATION Spec
CONSTANTS
  Emails = {e1, e2}
  Creds = {k1, k2}
  Threads = {w1, w2}
  Browsers = {b1}
  None = None
  MaxFails = 2
SYMMETRY Symmetry
INVARIANTS AlwaysAFactor AcknowledgedIsKept
PROPERTY DeletedIsRefused
