----------------------------- MODULE MCStartup -----------------------------
(***************************************************************************)
(* Configuration files for Startup: every pattern, method and EXB mode, on *)
(* meshes that are refused, of two by two and of four by four nodes.       *)
(***************************************************************************)
EXTENDS Startup

\* Patterns and lengths on the smallest mesh.
SmallFiles ==
  [mesh_dim : {2}, traffic_type : {"Uniform", "Transpose", "BitReverse"},
   exb_strategy : {"Max", "Avg"}, long : {1, 4, 5, 6}]
WeightedFiles ==
  [method : {1}, packet_ratio : {<<<<5, 2>>>>, <<<<1, 3>>, <<7, 1>>>>,
                                 <<<<1, 2>>, <<3, 0>>, <<5, 1>>>>},
   traffic_type : {"Hotspot"},
   hotspot : {<<<<0, 10>>>>, <<<<1, 2>>, <<3, 1>>>>, <<<<3, 1>>, <<2, 2>>, <<0, 1>>>>,
              <<<<2, 1>>, <<4, 1>>>>}]
LargeFiles == [mesh_dim : {4}, traffic_type : {"Uniform", "Transpose", "BitReverse"}]
\* Meshes that are odd or too small, a warm-up that is too long, and words
\* that are not known.
OtherFiles ==
  [mesh_dim : {0, 1, 3}]
    \cup [mesh_dim : {2, 3}, ring_strategy : {"IMR"}]
    \cup [sim_time : {5}, sim_warmup : {4, 5, 6}]
    \cup [exb_strategy : {"max"}, traffic_type : {"uniform"}, short : {2}]

\* A bit reversal alone.
SelfFiles == [traffic_type : {"BitReverse"}, long : {1}]

MCFiles == SmallFiles \cup WeightedFiles \cup LargeFiles \cup OtherFiles
=============================================================================
