SPECIFICATION Spec
CONSTANTS
  W = 8
  WAVEFRONT_SIZE = 3
  StorageSize = 128
  Float <- AnyFloat
  AsFloat <- EvenOf
  Kernels <- RunKernels
  Contents <- RunContents
INVARIANTS
  KernelComputes
  InputsIntact
PROPERTIES
  ScalarMatchesReference
  VectorMatchesReference
  OnlyActiveLanesWritten
CHECK_DEADLOCK FALSE
