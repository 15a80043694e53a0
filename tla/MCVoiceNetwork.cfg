SPECIFICATION Spec
CONSTANTS
  h1 = h1
  h2 = h2
  a1 = a1
  a2 = a2
  a3 = a3
  None = None
  Hosts = {h1, h2}
  AddrsOf <- MCAddrsOf
  Identities <- MCIdentities
  LocalStates <- MCLocalStates
  Strays <- MCStrays
  OutCap = 2
  SeqMod = 1024
  MaxPlayers = 300
  Routed = 1
  MaxSessions = 1
  MaxClients = 3
  Budget = 3
INVARIANTS
  HeardWasSaid
  NoEcho
  JoinedIsBound
PROPERTIES
  GetsThrough
CHECK_DEADLOCK FALSE
