SPECIFICATION ExecutionSpec
CONSTANTS
  Sizes = {1, 2, 3}
  WavefrontSize = 2
  Codes <- MCCodes
INVARIANTS Partition ItemsOfOneWavefrontRunOnce
PROPERTY EndsUnlessBarrier
CHECK_DEADLOCK FALSE
