\* The same link, asked for the order of the packets: a recv that returns cells of
\* two packets breaks it.
SPECIFICATION LinkSpec
CONSTANTS
  CellsPerPacket = 2
  MaxPackets = 3
INVARIANTS
  FramesInOrder
CHECK_DEADLOCK FALSE
