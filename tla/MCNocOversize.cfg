SPECIFICATION FairSpec
CONSTANTS
  MeshDim = 2
  Lengths = {1, 5}
  Pairs <- ToCorner
  N <- MCN
  Ring <- MCRing
  NodesOn <- MCNodesOn
  NextNode <- MCNextNode
  Route <- MCRoute
  Offer <- MCOffer
  EjPorts = 1
  ExbNum = 1
  ExbSize = 1
  EnableInterrupt = FALSE
  MaxPackets = 3
  MaxCycle = 2
INVARIANTS
  ExbInUse
PROPERTIES
  Drains
