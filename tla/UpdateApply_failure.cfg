SPECIFICATION UpdateSpec
CONSTANTS
  Updaters = {u1}
  Old = Old
  Genuine = {g1}
  Junk = Junk
  Blank = Blank
  NoFile = NoFile
  MaxRuns = 1
PROPERTIES FailureLeavesProgram
CHECK_DEADLOCK FALSE
