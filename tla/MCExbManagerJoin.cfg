SPECIFICATION Spec
CONSTANTS
  Buffer <- MCBuffer
  Packet <- MCPacket
  ExbNum = 2
  ExbSize = 3
  EnableInterrupt = TRUE
PROPERTY SamePacketJoins
