SPECIFICATION Spec
CONSTANTS
  Ids = {s1, s2}
  Routed = s1
  Players = {p1, p2, p3}
  Addrs = {a1, a2}
  MaxSessions = 2
  MaxClients = 2
  None = None
SYMMETRY Symmetry
INVARIANTS
  TypeOK
  OneSlotPerSession
  OneEntryPerPlayer
  EntriesCurrent
  JoinedAreBound
  VoiceReachesOthers
