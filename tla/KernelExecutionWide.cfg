SPECIFICATION ExecutionSpec
CONSTANTS
  Sizes = {1, 3}
  WavefrontSize = 2
  Codes <- MCCodes
INVARIANT ItemsRunOnce
CHECK_DEADLOCK FALSE
