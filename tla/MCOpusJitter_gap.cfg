SPECIFICATION Spec
CONSTANTS
  Cap = 3
  SeqMod = 9
  Starts <- MCStarts
  MaxSent = 6
  MaxDelay = 1
INVARIANTS
  LaterPacketLetsPlaybackAdvance
