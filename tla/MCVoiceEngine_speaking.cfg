SPECIFICATION Spec
CONSTANTS
  CaptureModes = {"always_on"}
  Identities = {}
  LocalStates = {}
  MaxPlayers = 2
  Packets <- MCPackets
  FlagsOf <- MCFlagsOf
  RingCap = 1
  OutCap = 1
  EventCap = 2
  JitterCap = 2
  SeqMod = 8
  ClockMod = 8
  ClockStart = 7
  Timeout = 1
  MaxTime = 2
  MaxFrames = 0
  MaxUnseen = 0
INVARIANTS
  TypeOK
  HostKnows
  PcmIntact
  MixIsCurrent
PROPERTIES
  SpeakingFollowsTime
  SpeakingEnds
