SPECIFICATION FairSpec
CONSTANTS
  Machines = {m1}
  Consoles = {c1}
  Codes = {d1}
  None = None
  TTL = 2
  MaxStarts = 2
  MaxFaults = 2
PROPERTIES ApprovalArrives SignInSettles
CHECK_DEADLOCK FALSE
