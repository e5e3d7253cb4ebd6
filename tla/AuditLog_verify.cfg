SPECIFICATION AuditSpec
CONSTANTS
  Writers = {w1, w2}
  Events = {e1}
  LegacyEvents = {}
  NoHash = NoHash
  NoRow = NoRow
  Faults = FALSE
  PowerFails = FALSE
  MaxRows = 2
INVARIANTS VerifiesUntilTampered
