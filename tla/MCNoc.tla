------------------------------- MODULE MCNoc -------------------------------
(***************************************************************************)
(* Instances of Noc on the RLrec topology of a small mesh.                 *)
(***************************************************************************)
EXTENDS Noc, Topology

CONSTANTS MeshDim,   \* mesh_dim_x
          Lengths,   \* packet lengths of the traffic
          Pairs      \* source -> destinations of the traffic

Tuples == RlrecTuples(MeshDim)
Orders == [r \in 0..(Len(Tuples) - 1) |-> NodeOrder(MeshDim, Tuples[r + 1])]

MCN == MeshDim * MeshDim
MCRing == DOMAIN Orders
MCNodesOn == [r \in MCRing |-> ToSet(Orders[r])]
MCNextNode == [r \in MCRing |-> Successor(Orders[r])]
MCRoute == [n \in 0..(MCN - 1) |-> [d \in 0..(MCN - 1) |-> RingsVia(Orders, n, d)]]

\* Every node may send to every other one.
AllPairs == [n \in 0..(MCN - 1) |-> (0..(MCN - 1)) \ {n}]
\* All traffic meets at node 0, whose own packets cross the mesh.
ToCorner == [n \in 0..(MCN - 1) |-> {IF n = 0 THEN MCN - 1 ELSE 0}]
\* Sources around the centre of a 4 x 4 mesh, all sending to one node of it.
ToCentre == [n \in 0..(MCN - 1) |-> IF n \in {4, 6, 10, 13} THEN {5} ELSE {}]
MCOffer == [n \in 0..(MCN - 1) |-> [dst : Pairs[n], length : Lengths]]
=============================================================================
