SPECIFICATION Spec
CONSTANTS
  MeshDim = 2
  Lengths = {1, 3}
  Pairs <- AllPairs
  N <- MCN
  Ring <- MCRing
  NodesOn <- MCNodesOn
  NextNode <- MCNextNode
  Route <- MCRoute
  Offer <- MCOffer
  EjPorts = 1
  ExbNum = 2
  ExbSize = 3
  EnableInterrupt = FALSE
  MaxPackets = 3
  MaxCycle = 2
INVARIANTS
  TypeOK
  FreshIds
  WireExclusive
  BufferedOnce
  ExbInUse
  Conservation
PROPERTIES
  DeliveryService
