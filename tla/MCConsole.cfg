CONSTANTS
  Tabs = {t1, t2}
  Ops = {o1, o2}
  None = None
  MaxBegun = 2
  MaxLag = 2
  MaxExpiries = 1
SYMMETRY Interchangeable
SPECIFICATION Spec
INVARIANTS ViewsSettle PendingIsBusy OneVaultKey PlaintextIsDropped
CHECK_DEADLOCK FALSE
