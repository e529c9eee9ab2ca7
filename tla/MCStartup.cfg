SPECIFICATION FairSpec
CONSTANTS
  Files <- MCFiles
CHECK_DEADLOCK FALSE
INVARIANTS
  TypeOK
  RingsAsAllocated
  OwnPacketDetached
  TablesComplete
  DestinationKnown
  PartnersArePaired
  WeightsCount
  ExbFitsPackets
PROPERTIES
  Starts
