SPECIFICATION Spec
CONSTANTS
  Cap = 2
  IndexMod = 4
  MaxSamples = 2
  Counts <- MCCounts
  Data = {d1, d2}
  Silence = d1
  MaxAccepted = 6
INVARIANTS
  IInv
  NoDataRace
PROPERTIES
  HeldFramesStable
  FifoSpec
