SPECIFICATION Spec
CONSTANTS
  Cap = 3
  SeqMod = 9
  Starts <- MCStarts
  MaxSent = 6
  MaxDelay = 4
INVARIANTS
  TypeOK
  Authentic
  InOrder
  NeverOvertakes
PROPERTIES
  ConcealsOnlyGaps
  FallsSilent
  Reaches
