SPECIFICATION Spec
CONSTANTS
  CaptureModes = {"always_on", "ptt_only"}
  Identities <- MCIdentities
  LocalStates <- MCKeyAndRadio
  MaxPlayers = 1
  Packets = {}
  FlagsOf <- MCFlagsOf
  RingCap = 1
  OutCap = 2
  EventCap = 1
  JitterCap = 2
  SeqMod = 8
  ClockMod = 8
  ClockStart = 0
  Timeout = 1
  MaxTime = 0
  MaxFrames = 3
  MaxUnseen = 1
INVARIANTS
  VoiceIsAnnounced
  FewAfterDisconnect
PROPERTIES
  SessionSpec
VIEW SendView
