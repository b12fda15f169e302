SPECIFICATION FairSpec
CONSTANTS
  Readers = {r1, r2}
  Writers = {w1, w2}
  MaxWrites = 2
  NoValue = NoValue
INVARIANTS
  Fifo
  NoLostWakeup
  ExhaustedMissesOnlyLateWrite
PROPERTIES
  ImplementsPipe
  FullSlotIsTaken
  CloseReleasesEveryone
