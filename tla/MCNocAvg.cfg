SPECIFICATION Spec
CONSTANTS
  MeshDim = 2
  Lengths = {1, 5}
  Pairs <- ToCorner
  N <- MCN
  Ring <- MCRing
  NodesOn <- MCNodesOn
  NextNode <- MCNextNode
  Route <- MCRoute
  Offer <- MCOffer
  EjPorts = 1
  ExbNum = 1
  ExbSize = 3
  EnableInterrupt = TRUE
  MaxPackets = 4
  MaxCycle = 3
INVARIANTS
  BufferedOnce
  OngoingConsistent
  EjectedInOrder
  InterruptWindow
PROPERTIES
  DeliveryService
