SPECIFICATION FairSpec
CONSTANTS
  Addresses = {a1, a2}
  Wavefronts = {w1, w2}
  First = w1
  MaxClicks = 5
  None = None
INVARIANTS
  RequestsAccounted
  BreakpointsAgree
  UiShowsRun
  RegistersFollowContext
  ReaderStuckIsDisturbed
PROPERTIES
  NoPauseAfterEnd
  ImplementsRemoteControl
  PauseReachesUser
  ExitReturns
CHECK_DEADLOCK FALSE
