\* Three packets of two cells: a recv returns any part of what has been sent, of
\* one packet or of several; Disconnect and the destructor at every point.
SPECIFICATION LinkFairSpec
CONSTANTS
  CellsPerPacket = 2
  MaxPackets = 3
INVARIANTS
  LinkTypeOK
  AloneInPlace
  NothingIsLost
  NoCallbackIntoDeadController
PROPERTIES
  EveryPacketDispatched
  DestroyReturns
CHECK_DEADLOCK FALSE
