---------------------------- MODULE MCSimulation ----------------------------
(***************************************************************************)
(* Instances of Simulation on the RLrec topology of a small mesh, with the *)
(* traffic of the patterns.                                                *)
(***************************************************************************)
EXTENDS Simulation, Topology, Traffic

CONSTANTS MeshDim,   \* mesh_dim_x
          Pattern,   \* traffic_type
          Lengths    \* packet lengths of the traffic

Tuples == RlrecTuples(MeshDim)
Orders == [r \in 0..(Len(Tuples) - 1) |-> NodeOrder(MeshDim, Tuples[r + 1])]

MCN == MeshDim * MeshDim
MCRing == DOMAIN Orders
MCNodesOn == [r \in MCRing |-> ToSet(Orders[r])]
MCNextNode == [r \in MCRing |-> Successor(Orders[r])]
MCRoute == [n \in 0..(MCN - 1) |-> [d \in 0..(MCN - 1) |-> RingsVia(Orders, n, d)]]
MCOffer ==
  [n \in 0..(MCN - 1) |-> [dst : Destinations(Pattern, MCN, <<>>, n), length : Lengths]]
=============================================================================
