SPECIFICATION Spec
CONSTANTS
  Emails = {e1}
  Creds = {k1, k2}
  Threads = {w1, w2}
  Browsers = {}
  None = None
  MaxFails = 0
SYMMETRY Symmetry
INVARIANTS DeletedStaysDeleted
