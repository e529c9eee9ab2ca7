SPECIFICATION Spec
CONSTANTS
  MeshDim = 4
  Lengths = {1, 3}
  Pairs <- ToCentre
  N <- MCN
  Ring <- MCRing
  NodesOn <- MCNodesOn
  NextNode <- MCNextNode
  Route <- MCRoute
  Offer <- MCOffer
  EjPorts = 1
  ExbNum = 2
  ExbSize = 2
  EnableInterrupt = TRUE
  MaxPackets = 4
  MaxCycle = 2
INVARIANTS
  EjectedInOrder
PROPERTIES
  DeliveryService
