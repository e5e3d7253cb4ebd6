SPECIFICATION Spec
CONSTANTS
  Terminals = {t1, t2}
  Browsers = {b1}
  Names = {n1, n2}
  Absent = Absent
  Foreign = Foreign
  NoSave = NoSave
  MaxSaves = 3
  LateAnswers = TRUE
SYMMETRY Symmetry
PROPERTIES SavesAreEdits ForeignIsKept SuccessWasUndisturbed
CHECK_DEADLOCK FALSE
