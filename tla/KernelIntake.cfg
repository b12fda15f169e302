SPECIFICATION FairSpec
CONSTANTS
  Apps = {a1, a2}
  Jobs = {j1, j2}
  Refused = {3}
  MaxKernels = 3
  MaxClicks = 3
  MaxResends = 1
INVARIANTS
  KernelsAccounted
  RunsWhatUserChose
PROPERTIES
  RequestsAnswered
CHECK_DEADLOCK FALSE
