SPECIFICATION Spec
CONSTANTS
  W = 8
  WAVEFRONT_SIZE = 3
  StorageSize = 128
  Float <- AnyFloat
  AsFloat <- EvenOf
  Kernels <- CompareKernels
  Contents <- RunContents
PROPERTIES
  CompareSetsVCC
CHECK_DEADLOCK FALSE
