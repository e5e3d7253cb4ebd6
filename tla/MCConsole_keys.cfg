CONSTANTS
  Tabs = {t1, t2}
  Ops = {o1, o2}
  None = None
  MaxBegun = 2
  MaxLag = 2
  MaxExpiries = 0
SYMMETRY Interchangeable
SPECIFICATION Spec
INVARIANT VaultHasOneKey
CHECK_DEADLOCK FALSE
