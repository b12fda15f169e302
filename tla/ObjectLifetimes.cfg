SPECIFICATION Spec
CONSTANTS
  Programs = {p1, p2}
  Kernels = {k1, k2}
  Buffers = {b1, b2}
  Sizes = {1, 2}
  GlobalMemory = 2
  MaxCalls = 6
  MaxCommands = 1
  MaxHeld = 2
  MaxCallbacks = 1
  Unset = Unset
  Null = Null
INVARIANTS
  RefsAccounted
  NoUseAfterDestroy
  MemoryAccounted
  NothingLeaks
SYMMETRY Symmetry
CHECK_DEADLOCK FALSE
