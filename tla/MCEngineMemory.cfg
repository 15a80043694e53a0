SPECIFICATION Spec
CONSTANTS
  MaxPlayers = 2
INVARIANTS
  AllOrNothing
  FreesItsOwn
CHECK_DEADLOCK FALSE
