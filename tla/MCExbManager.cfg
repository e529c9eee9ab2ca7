SPECIFICATION Spec
CONSTANTS
  Buffer <- MCBuffer
  Packet <- MCPacket
  ExbNum = 2
  ExbSize = 3
  EnableInterrupt = TRUE
INVARIANTS
  TypeOK
  StatusConsistent
  OccupiedInUse
  ForwardWindow
PROPERTY PoolService
