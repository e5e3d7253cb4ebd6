SPECIFICATION ServerSpec
CONSTANTS
  Names = {a1, a2}
  Ciphertexts = {b1, b2}
  Metas = {m1, m2}
  SessionIds = {s1}
  Providers = {p1}
  Defs = {d1}
  NoEntry = NoEntry
  NoSession = NoSession
  NoTx = NoTx
  MaxAudit = 3
  MaxItems = 2
  Writers = {b1, b2}
  Events = {e1}
  LegacyEvents = {l1, l2}
  NoHash = NoHash
  NoRow = NoRow
  Faults = TRUE
  PowerFails = TRUE
  MaxRows = 3
  Emails = {a1, a2}
  Workers = {b1, b2}
  Vacant = Vacant
  NoRequest = NoRequest
  ConsoleTTL = 1
  DeviceTTL = 2
  MaxIds = 3
  MaxTime = 2
SYMMETRY Symmetry
INVARIANTS EntryIsNewestVersion HistoryIsAudited ChainVerifies ImportedOnce JournalIsCommitted FileIsReplica OneConsolePerAccount RevokedStaysRevoked
PROPERTIES HistorySpec HistoryOnlyGrows ReplacedStaysRestorable ChainOnlyGrows DeviceOutlivesLogins NoExpiredLookup
