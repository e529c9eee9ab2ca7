SPECIFICATION SimSpec
CONSTANTS
  MeshDim = 2
  Pattern = "BitReverse"
  Lengths = {1, 5}
  N <- MCN
  Ring <- MCRing
  NodesOn <- MCNodesOn
  NextNode <- MCNextNode
  Route <- MCRoute
  Offer <- MCOffer
  EjPorts = 1
  ExbNum = 1
  ExbSize = 3
  EnableInterrupt = TRUE
  MaxPackets = 4
  MaxCycle = 4
  SimWarmup = 2
  SimTime = 10
CHECK_DEADLOCK FALSE
INVARIANTS
  OngoingConsistent
  SummaryExact
  PhasesBalance
  EjectionRate
  NeverEarly
PROPERTIES
  DeliveryService
