SPECIFICATION Spec
CONSTANTS
  CaptureModes = {"always_on"}
  Identities <- MCOneIdentity
  LocalStates = {}
  MaxPlayers = 1
  Packets = {}
  FlagsOf <- MCFlagsOf
  RingCap = 1
  OutCap = 1
  EventCap = 3
  JitterCap = 2
  SeqMod = 8
  ClockMod = 8
  ClockStart = 0
  Timeout = 1
  MaxTime = 0
  MaxFrames = 2
  MaxUnseen = 0
INVARIANTS
  HostKnows
  LastTwoMessagesIntact
