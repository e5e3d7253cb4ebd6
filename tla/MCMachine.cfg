SPECIFICATION Spec
CONSTANTS
  Order <- MCOrder
  Parent <- MCParent
  Leaf <- MCLeaf
  Required <- MCRequired
  Optional <- MCOptional
  Spells <- MCSpells
  Letters = {"t"}
  Typed = {"new"}
  Vaults <- MCVaults
  Foreigner <- MCForeigner
  MaxWrites = 2
  Updaters = {u1, u2}
  Old = Old
  Genuine = {g1}
  Junk = Junk
  Blank = Blank
  NoFile = NoFile
  MaxRuns = 3
  Programs = {p1, p2}
  NoKey = NoKey
  Shared = Shared
  MaxStores = 3
INVARIANTS ScreenIsRegister InstalledIsVerified ReportedSurvives StoredIsLoaded DeletedIsGone
PROPERTIES RevealIsOfOneRow OnlyWhatWasEdited TypedIsKept ForeignEntriesStay FailsClosed ImplementsSlot
CHECK_DEADLOCK FALSE
