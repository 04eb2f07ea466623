SPECIFICATION Spec
CONSTANTS
  Task = {t1, t2, t3}
  SortLinkLen = 4
  MaxTicks = 9
INVARIANTS
  IndexAgrees
PROPERTY
  ImplementsCountdown
SYMMETRY MCSymmetry
