SPECIFICATION Spec
CONSTANTS
  Machines = {m1, m2}
  Consoles = {c1, c2}
  Codes = {d1}
  None = None
  TTL = 1
  MaxStarts = 2
  MaxFaults = 1
SYMMETRY Symmetry
INVARIANTS OneSessionPerRequest DenialIsFinal SealedForMachine
CHECK_DEADLOCK FALSE
