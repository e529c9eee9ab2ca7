--------------------------- MODULE StartupProofs ----------------------------
(***************************************************************************)
(* The start of the program for every configuration that is accepted, on a *)
(* mesh of any size: the rings of RLrec are those the network has places for, *)
(* every control packet returns and is the one that is deleted, the routing *)
(* tables are complete and in order, and every packet that is drawn later has *)
(* a destination they know.                                                *)
(***************************************************************************)
EXTENDS Startup, StartupLemmas

-----------------------------------------------------------------------------
(* The configuration.                                                      *)

\* The parameters the checks let through, with what configure() makes of the
\* simulation time.
Configured(file) ==
  /\ Accepted(Settings(file))
  /\ conf = [Settings(file) EXCEPT !.sim_time = @ + Settings(file).sim_warmup]
\* The stages of a program whose configuration was accepted.
Running == {"topology", "rings", "inject", "move", "handle", "sort", "ready", "crash"}
\* From the first ring on the configuration is one that configure() accepts.
ConfInv ==
  /\ stage \in {"configure", "exit"} \cup Running
  /\ stage \in Running => \E file \in Files : Configured(file)

\* The configuration is settled once and for all before the first ring.
LEMMA ConfInvariance == Spec => []ConfInv
<1>1. Init => ConfInv
  BY DEF Init, ConfInv, Running
<1>2. ConfInv /\ [Next]_vars => ConfInv'
  <2> SUFFICES ASSUME ConfInv, [Next]_vars PROVE ConfInv'
    OBVIOUS
  <2> USE DEF ConfInv, Running
  <2>1. CASE UNCHANGED vars
    BY <2>1 DEF vars, Configured
  <2>2. CASE NoFile
    BY <2>2 DEF NoFile
  <2>3. CASE Refuse
    BY <2>3 DEF Refuse
  <2>4. CASE Configure
    <3>1. \E file \in Files : Configured(file)'
      BY <2>4 DEF Configure, Configured
    <3> QED BY <2>4, <3>1 DEF Configure
  <2>5. CASE GenerateTopology
    BY <2>5 DEF GenerateTopology, Configured
  <2>6. CASE BuildRing
    BY <2>6 DEF BuildRing, Configured
  <2>7. CASE RingsDone
    BY <2>7 DEF RingsDone, Configured
  <2>8. CASE InjectControl
    BY <2>8 DEF InjectControl, NodeLoop, Configured
  <2>9. CASE MoveControl
    BY <2>9 DEF MoveControl, Configured
  <2>10. CASE MissingRing
    BY <2>10 DEF MissingRing, Configured
  <2>11. CASE HandleControl
    <3>1. PICK next : next \in {"sort", "move"} /\ NodeLoop(next) /\ UNCHANGED conf
      BY <2>11 DEF HandleControl
    <3> QED BY <2>11, <3>1 DEF HandleControl, NodeLoop, Configured
  <2>12. CASE SortTables
    BY <2>12 DEF SortTables, Configured
  <2>13. CASE Generate
    BY <2>13 DEF Generate, Configured
  <2> QED BY <2>1, <2>2, <2>3, <2>4, <2>5, <2>6, <2>7, <2>8, <2>9, <2>10,
             <2>11, <2>12, <2>13 DEF Next
<1> QED BY <1>1, <1>2, PTL DEF Spec

\* What the program goes on with.
ConfFacts(c) ==
  /\ c.mesh_dim \in Nat /\ c.mesh_dim > 1
  /\ c.ring_strategy = "RLrec" => c.mesh_dim % 2 = 0
  /\ c.long \in Nat /\ c.short \in 1..c.long
  /\ c.exb_size = IF c.enable_interrupt THEN GetExbSize(c.short, c.long) ELSE c.long
  /\ c.hotspot \in Seq(Int \X Nat) /\ c.packet_ratio \in Seq(Int \X Nat)
  /\ c.traffic_type \in {"Uniform", "Transpose", "BitReverse", "Hotspot"}
  /\ c.traffic_type = "Hotspot" => c.hotspot # <<>> /\ HotspotsInRange(c)
  /\ c.traffic_type = "Transpose" => Halvings(Nodes(c)) % 2 = 0

\* What the checks of configure() leave of the parameters in a file.
LEMMA ConfiguredFacts ==
  ASSUME NEW file \in Files, Configured(file) PROVE ConfFacts(conf)
<1>1. PICK given : given = Read(file)
  OBVIOUS
<1>2. PICK s : s = Settings(file)
  OBVIOUS
<1>3. DOMAIN given = DOMAIN Default
  BY <1>1 DEF Read
<1>4. DOMAIN Default =
        {"mesh_dim", "long", "short", "method", "packet_ratio", "ring_strategy",
         "exb_strategy", "traffic_type", "hotspot", "sim_time", "sim_warmup",
         "exb_size", "enable_interrupt"}
  BY DEF Default
<1>5. /\ s.mesh_dim = given.mesh_dim /\ s.long = given.long /\ s.short = given.short
      /\ s.ring_strategy = RingStrategy(given.ring_strategy)
      /\ s.traffic_type = TrafficType(given.traffic_type)
      /\ s.packet_ratio = IF given.method = 1 THEN given.packet_ratio ELSE <<>>
      /\ s.hotspot = IF TrafficType(given.traffic_type) = "Hotspot"
                     THEN given.hotspot ELSE <<>>
      /\ s.exb_size = ExbSizeOf(ExbStrategy(given.exb_strategy), given.short, given.long)
      /\ s.enable_interrupt = (ExbStrategy(given.exb_strategy) = "Avg")
      /\ DOMAIN s = DOMAIN Default
  BY <1>1, <1>2, <1>3, <1>4 DEF Settings
<1>6. /\ conf.mesh_dim = s.mesh_dim /\ conf.long = s.long /\ conf.short = s.short
      /\ conf.ring_strategy = s.ring_strategy /\ conf.traffic_type = s.traffic_type
      /\ conf.packet_ratio = s.packet_ratio /\ conf.hotspot = s.hotspot
      /\ conf.exb_size = s.exb_size /\ conf.enable_interrupt = s.enable_interrupt
  BY <1>2, <1>4, <1>5 DEF Configured
<1>7. /\ given.mesh_dim \in Int /\ given.long \in Nat /\ given.short \in 1..given.long
      /\ given.packet_ratio \in Seq(Int \X Nat) /\ given.hotspot \in Seq(Int \X Nat)
      /\ given.traffic_type = "Hotspot" => given.hotspot # <<>>
  BY <1>1, FilesAssumption
<1>8. <<>> \in Seq(Int \X Nat)
  BY EmptySeq
<1>9. TrafficType(given.traffic_type) \in {"Uniform", "Transpose", "BitReverse", "Hotspot"}
      /\ (TrafficType(given.traffic_type) = "Hotspot" => given.traffic_type = "Hotspot")
  BY DEF TrafficType, Known
<1>10. s.exb_size = IF s.enable_interrupt THEN GetExbSize(s.short, s.long) ELSE s.long
  BY <1>5 DEF ExbSizeOf, ExbStrategy, Known
<1>11. s.mesh_dim > 1 /\ (s.ring_strategy = "RLrec" => s.mesh_dim % 2 = 0)
       /\ (s.traffic_type = "Hotspot" => HotspotsInRange(s))
       /\ (s.traffic_type = "Transpose" => Halvings(Nodes(s)) % 2 = 0)
  BY <1>2 DEF Configured, Accepted
<1>12. (HotspotsInRange(s) => HotspotsInRange(conf)) /\ Nodes(s) = Nodes(conf)
  BY <1>6 DEF HotspotsInRange, Nodes
<1> QED BY <1>5, <1>6, <1>7, <1>8, <1>9, <1>10, <1>11, <1>12 DEF ConfFacts

\* The configuration of a program that goes on.
LEMMA ConfKnown == ASSUME ConfInv, stage \in Running PROVE ConfFacts(conf)
BY ConfiguredFacts DEF ConfInv

\* Which packets fit an EXB, whatever configuration is accepted: in mode Avg an
\* EXB has the mean of short and long, rounded up, and in mode Max it has long
\* slots, which take all lengths from short to long but none of the lengths that
\* packet_ratio may name beyond long.
THEOREM ExbFits == Spec => []ExbFitsPackets
<1>1. ConfInv => ExbFitsPackets
  <2> SUFFICES ASSUME ConfInv, stage = "topology"
               PROVE  IF conf.enable_interrupt
                      THEN 2 * conf.exb_size \in {conf.short + conf.long, conf.short + conf.long + 1}
                      ELSE /\ \A l \in conf.short..conf.long : l <= conf.exb_size
                           /\ \A i \in DOMAIN conf.packet_ratio :
                                conf.packet_ratio[i][1] <= conf.exb_size
                                  <=> conf.packet_ratio[i][1] <= conf.long
    BY DEF ExbFitsPackets
  <2>1. ConfFacts(conf)
    BY ConfKnown DEF Running
  <2>2. PICK c : c = conf
    OBVIOUS
  <2>3. /\ c.long \in Nat /\ c.short \in 1..c.long
        /\ c.exb_size = IF c.enable_interrupt THEN GetExbSize(c.short, c.long) ELSE c.long
    BY <2>1, <2>2 DEF ConfFacts
  <2>4. 2 * GetExbSize(c.short, c.long) \in {c.short + c.long, c.short + c.long + 1}
    BY <2>3, ExbSizeIsMean
  <2> QED BY <2>2, <2>3, <2>4
<1> QED BY <1>1, ConfInvariance, PTL

\* A draw selects every entry of a list as often as its weight says.
LEMMA Weighted == ASSUME NEW list \in Seq(Int \X Nat) PROVE DrawnByWeight(list)
<1>1. DOMAIN list = 1..Len(list)
  OBVIOUS
<1>2. ASSUME NEW i \in 1..Len(list)
      PROVE  Cardinality({pct \in Percents(list) : Entry(list, pct) = i})
             = WeightOf(list, i) + (IF i = Len(list) THEN 1 ELSE 0)
  BY DrawFacts
<1> QED BY <1>1, <1>2 DEF DrawnByWeight

\* Hotspots and packet lengths are drawn by their weights, whatever list of
\* weights a configuration gives.
THEOREM DrawsFollowWeights == Spec => []WeightsCount
<1>1. ConfInv => WeightsCount
  <2> SUFFICES ASSUME ConfInv, stage = "ready"
               PROVE  DrawnByWeight(conf.hotspot) /\ DrawnByWeight(conf.packet_ratio)
    BY DEF WeightsCount
  <2>1. conf.hotspot \in Seq(Int \X Nat) /\ conf.packet_ratio \in Seq(Int \X Nat)
    BY ConfKnown DEF Running, ConfFacts
  <2> QED BY <2>1, Weighted
<1> QED BY <1>1, ConfInvariance, PTL

-----------------------------------------------------------------------------
(* The rings are built.                                                    *)

\* The rings so far are those of the first tuples.
RingsInv ==
  /\ tuples = IF RlrecUsed THEN RlrecTuples(conf.mesh_dim) ELSE <<>>
  /\ Len(order) \in Nat /\ Len(order) <= Len(tuples)
  /\ order = [i \in 1..Len(order) |-> NodeOrder(conf.mesh_dim, tuples[i])]
\* A node knows the rings it is on, each once and in the order of their ids.
KnownAt(n) ==
  /\ curr_ring[n] \in Seq(Nat)
  /\ \A i, j \in DOMAIN curr_ring[n] : i < j => curr_ring[n][i] < curr_ring[n][j]
  /\ ToSet(curr_ring[n]) = {r \in Built : n \in ToSet(NodesOf(r))}
\* All nodes know their rings.
KnownInv == curr_ring \in [Node -> Seq(Nat)] /\ \A n \in Node : KnownAt(n)
\* The stages after the last ring.
Sending == {"inject", "move", "handle", "sort", "ready"}
\* What holds of the rings: those built are the first of the tuples, each node
\* knows the built rings it is on, and from the first packet on all are built.
BuildInv ==
  /\ stage \in {"configure", "topology", "rings"} => turn = 0
  /\ stage \in {"configure", "topology"} => order = <<>>
  /\ stage \in {"rings"} \cup Sending => RingsInv
  /\ stage = "rings" /\ order # <<>> => KnownInv
  /\ stage \in Sending => Len(order) = Len(tuples) /\ KnownInv /\ turn \in Node
  /\ stage \in {"handle", "sort", "ready"} => Ring \subseteq Built

\* The mesh of a configuration that RLrec takes.
LEMMA MeshFacts ==
  ASSUME ConfFacts(conf)
  PROVE  /\ conf.mesh_dim \in Nat \ {0} /\ LastNode \in Nat \ {0}
         /\ Node = 0..(conf.mesh_dim * conf.mesh_dim - 1)
         /\ RlrecUsed => EvenMesh(conf.mesh_dim)
<1>1. PICK k \in Nat \ {0} : k = conf.mesh_dim /\ k > 1
  BY DEF ConfFacts
<1>2. k * k \in Nat /\ k * k > 1
  <2>1. 1 * k + k <= k * k
    BY <1>1, ProductGrows
  <2> QED BY <1>1, <2>1
<1>3. LastNode = k * k - 1
  BY <1>1 DEF LastNode, Nodes
<1>4. Node = 0..(k * k - 1)
  BY <1>1 DEF Node, Nodes
<1>5. RlrecUsed => EvenMesh(k)
  BY <1>1 DEF ConfFacts, RlrecUsed, EvenMesh
<1> QED BY <1>1, <1>2, <1>3, <1>4, <1>5

\* The rings that are built are cycles of the mesh.
LEMMA NodesOfTuple ==
  ASSUME NEW k, EvenMesh(k), NEW i \in 1..Len(RlrecTuples(k))
  PROVE  IsCycle(k, NodeOrder(k, RlrecTuples(k)[i]))
<1>1. PICK ts : ts = RlrecTuples(k)
  OBVIOUS
<1>2. ts \in Seq(Tuples) /\ \A t \in ToSet(ts) : IsRing(k, t)
  BY <1>1, RlrecFacts
<1>3. DOMAIN ts = 1..Len(ts)
  BY <1>2
<1>4. ts[i] \in ToSet(ts)
  BY <1>1, <1>3 DEF ToSet
<1>5. IsRing(k, ts[i])
  BY <1>2, <1>4
<1>6. PICK r1, c1, r2, c2 : IsRectangle(k, ts[i], r1, c1, r2, c2)
  BY <1>5 DEF IsRing, Describes
<1>7. k \in Nat \ {0}
  BY DEF EvenMesh
<1> QED BY <1>1, <1>6, <1>7, NodeOrderFacts

\* A ring that is built is a cycle of the mesh, the one its tuple describes.
LEMMA BuiltFacts ==
  ASSUME ConfFacts(conf), RingsInv, NEW r \in Built
  PROVE  /\ RlrecUsed /\ r + 1 \in 1..Len(order) /\ r \in Nat
         /\ NodesOf(r) = NodeOrder(conf.mesh_dim, tuples[r + 1])
         /\ IsCycle(conf.mesh_dim, NodesOf(r))
<1>1. Len(order) \in Nat /\ Len(order) <= Len(tuples) /\ r \in 0..(Len(order) - 1)
  BY DEF RingsInv, Built
<1>2. r + 1 \in 1..Len(order) /\ r \in Nat
  BY <1>1
<1>3. RlrecUsed
  <2> SUFFICES ASSUME ~RlrecUsed PROVE FALSE
    OBVIOUS
  <2>1. Len(tuples) = 0
    BY DEF RingsInv
  <2> QED BY <1>1, <2>1
<1>4. NodesOf(r) = NodeOrder(conf.mesh_dim, tuples[r + 1])
  BY <1>2 DEF RingsInv, NodesOf
<1>5. EvenMesh(conf.mesh_dim) /\ tuples = RlrecTuples(conf.mesh_dim)
  BY <1>3, MeshFacts DEF RingsInv
<1>6. r + 1 \in 1..Len(RlrecTuples(conf.mesh_dim))
  <2>1. Len(RlrecTuples(conf.mesh_dim)) \in Nat
    BY <1>5, RlrecFacts
  <2> QED BY <1>1, <1>2, <1>5, <2>1
<1> QED BY <1>2, <1>3, <1>4, <1>5, <1>6, NodesOfTuple

\* A node occurs once on a ring it is on.
LEMMA OccursOnce ==
  ASSUME NEW k, NEW s, IsCycle(k, s), NEW n
  PROVE  Cardinality(Occurrences(s, n)) = IF n \in ToSet(s) THEN 1 ELSE 0
<1>1. DOMAIN s = 1..Len(s)
  BY DEF IsCycle
<1>2. CASE n \in ToSet(s)
  <2>1. PICK i \in DOMAIN s : s[i] = n
    BY <1>2 DEF ToSet
  <2>2. \A j \in DOMAIN s : s[j] = n => j = i
    BY <1>1, <2>1 DEF IsCycle
  <2>3. Occurrences(s, n) = {i}
    BY <2>1, <2>2 DEF Occurrences
  <2> QED BY <1>2, <2>3, FS_Singleton
<1>3. CASE n \notin ToSet(s)
  <2>1. Occurrences(s, n) = {}
    BY <1>3 DEF Occurrences, ToSet
  <2> QED BY <1>3, <2>1, FS_EmptySet
<1> QED BY <1>2, <1>3

\* One more ring.
LEMMA BuildRingStep ==
  ASSUME ConfFacts(conf), stage = "rings", BuildInv, BuildRing
  PROVE  RingsInv' /\ KnownInv' /\ order' # <<>>
<1>1. /\ RingsInv /\ (order # <<>> => KnownInv)
      /\ Len(order) < Len(tuples) /\ Len(order) \in Nat
  BY DEF BuildInv, BuildRing, RingsInv
<1>2. UNCHANGED <<stage, conf, tuples>>
  BY DEF BuildRing
<1>3. RlrecUsed
  <2> SUFFICES ASSUME ~RlrecUsed PROVE FALSE
    OBVIOUS
  <2>1. Len(tuples) = 0
    BY <1>1 DEF RingsInv
  <2> QED BY <1>1, <2>1
<1>4. PICK k : k = conf.mesh_dim
  OBVIOUS
<1>5. EvenMesh(k) /\ k \in Nat \ {0} /\ tuples = RlrecTuples(k)
  BY <1>1, <1>3, <1>4, MeshFacts DEF RingsInv
<1>6. PICK r \in Nat : r = Len(order)
  BY <1>1
<1>7. PICK nodes : nodes = NodeOrder(k, tuples[r + 1])
  OBVIOUS
<1>8. order' = Append(order, nodes)
  BY <1>4, <1>6, <1>7 DEF BuildRing
<1>9. r + 1 \in 1..Len(RlrecTuples(k))
  <2>1. Len(RlrecTuples(k)) \in Nat
    BY <1>5, RlrecFacts
  <2> QED BY <1>1, <1>5, <1>6, <2>1
<1>10. IsCycle(k, nodes)
  BY <1>5, <1>7, <1>9, NodesOfTuple
<1>11. order = [i \in 1..r |-> NodeOrder(k, tuples[i])]
  BY <1>1, <1>4, <1>6 DEF RingsInv
<1>12. order' = [i \in 1..(r + 1) |-> NodeOrder(k, tuples[i])]
  <2>1. PICK T : T = {NodeOrder(k, tuples[i]) : i \in 1..(r + 1)}
    OBVIOUS
  <2>2. order \in [1..r -> T] /\ nodes \in T
    BY <1>7, <1>11, <2>1
  <2>3. order \in Seq(T)
    BY <2>2
  <2>4. /\ Len(order') = r + 1 /\ order' \in Seq(T)
        /\ \A i \in 1..r : order'[i] = order[i]
        /\ order'[r + 1] = nodes
    BY <1>6, <1>8, <2>2, <2>3
  <2>5. \A i \in 1..(r + 1) : order'[i] = NodeOrder(k, tuples[i])
    BY <1>7, <1>11, <2>4
  <2>6. DOMAIN order' = 1..(r + 1) /\ order' = [i \in DOMAIN order' |-> order'[i]]
    BY <2>4
  <2> QED BY <2>5, <2>6
<1>13. Len(order') = r + 1
  <2>1. r + 1 \in Nat
    OBVIOUS
  <2> QED BY <1>12, <2>1
<1>14. RingsInv'
  <2>1. Len(order') \in Nat /\ Len(order') <= Len(tuples)
    BY <1>5, <1>9, <1>13
  <2>2. RlrecUsed'
    BY <1>2, <1>3 DEF RlrecUsed
  <2> QED BY <1>2, <1>4, <1>5, <1>12, <1>13, <2>1, <2>2 DEF RingsInv
<1>15. order' # <<>>
  BY <1>13
<1>16. PICK ring : ring = curr_ring'
  OBVIOUS
<1>17. ring = [n \in Node |->
          (IF r = 0 THEN <<>> ELSE curr_ring[n])
            \o [i \in 1..Cardinality(Occurrences(nodes, n)) |-> r]]
  BY <1>4, <1>6, <1>7, <1>16 DEF BuildRing
<1>18. Built = 0..(r - 1) /\ Built' = 0..r
  BY <1>6, <1>13 DEF Built
<1>19. \A x \in 0..(r - 1) : NodesOf(x)' = NodesOf(x) /\ NodesOf(x) = order[x + 1]
  BY <1>11, <1>12 DEF NodesOf
<1>20. NodesOf(r)' = nodes
  BY <1>7, <1>12 DEF NodesOf
<1>21. ASSUME NEW n \in Node
       PROVE  ring[n] \in Seq(Nat) /\ KnownAt(n)'
  <2>1. PICK old : old = IF r = 0 THEN <<>> ELSE curr_ring[n]
    OBVIOUS
  <2>2. /\ old \in Seq(Nat)
        /\ \A i, j \in DOMAIN old : i < j => old[i] < old[j]
        /\ ToSet(old) = {x \in 0..(r - 1) : n \in ToSet(NodesOf(x))}
    <3>1. CASE r = 0
      <4>1. old = <<>> /\ 0..(r - 1) = {}
        BY <2>1, <3>1
      <4>2. ToSet(<<>>) = {} /\ <<>> \in Seq(Nat) /\ DOMAIN <<>> = {}
        BY DEF ToSet
      <4> QED BY <4>1, <4>2
    <3>2. CASE r # 0
      <4>1. order # <<>>
        BY <1>6, <3>2
      <4>2. KnownAt(n) /\ old = curr_ring[n]
        BY <1>1, <2>1, <3>2, <4>1 DEF KnownInv
      <4> QED BY <1>18, <4>2 DEF KnownAt
    <3> QED BY <3>1, <3>2
  <2>3. ring[n] = old \o [i \in 1..Cardinality(Occurrences(nodes, n)) |-> r]
    BY <1>17, <2>1
  <2>4. /\ ring[n] \in Seq(Nat)
        /\ \A i, j \in DOMAIN ring[n] : i < j => ring[n][i] < ring[n][j]
        /\ ToSet(ring[n]) = IF n \in ToSet(nodes) THEN ToSet(old) \cup {r} ELSE ToSet(old)
    <3>1. CASE n \in ToSet(nodes)
      <4>1. ring[n] = old \o [i \in 1..1 |-> r]
        BY <1>10, <2>3, <3>1, OccursOnce
      <4>2. \A x \in ToSet(old) : x < r
        BY <2>2
      <4>3. PICK new : new = ring[n]
        OBVIOUS
      <4>4. /\ new \in Seq(Nat)
            /\ \A i, j \in DOMAIN new : i < j => new[i] < new[j]
            /\ ToSet(new) = ToSet(old) \cup {r}
        BY <2>2, <4>1, <4>2, <4>3, AppendGreater
      <4> QED BY <3>1, <4>3, <4>4
    <3>2. CASE n \notin ToSet(nodes)
      <4>1. ring[n] = old \o [i \in 1..0 |-> r]
        BY <1>10, <2>3, <3>2, OccursOnce
      <4>2. [i \in 1..0 |-> r] = <<>>
        OBVIOUS
      <4>3. ring[n] = old
        BY <2>2, <4>1, <4>2, ConcatEmptySeq
      <4> QED BY <2>2, <3>2, <4>3
    <3> QED BY <3>1, <3>2
  <2>5. \A x : x \in 0..r <=> x \in 0..(r - 1) \/ x = r
    OBVIOUS
  <2>6. ToSet(ring[n]) = {x \in Built' : n \in ToSet(NodesOf(x)')}
    BY <1>18, <1>19, <1>20, <2>2, <2>4, <2>5
  <2> QED BY <1>16, <2>4, <2>6 DEF KnownAt
<1>22. Node' = Node
  BY <1>2 DEF Node, Nodes
<1>23. KnownInv'
  BY <1>16, <1>17, <1>21, <1>22 DEF KnownInv
<1> QED BY <1>14, <1>15, <1>23

\* What the rings depend on.
LEMMA RingsKept ==
  ASSUME UNCHANGED <<conf, tuples, order>>
  PROVE  /\ RingsInv => RingsInv' /\ Built' = Built /\ Ring' = Ring /\ Node' = Node
         /\ LastNode' = LastNode /\ RlrecUsed' = RlrecUsed
BY DEF RingsInv, Built, Ring, Node, LastNode, Nodes, RlrecUsed

\* What the nodes know stays while no ring is built.
LEMMA KnownKept ==
  ASSUME UNCHANGED <<conf, order, curr_ring>>, KnownInv
  PROVE  KnownInv'
BY DEF KnownInv, KnownAt, Built, NodesOf, Node, Nodes

\* The next turn is that of a node.
LEMMA TurnKept ==
  ASSUME ConfFacts(conf), turn \in Node, NEW next, NodeLoop(next), UNCHANGED conf
  PROVE  turn' \in Node'
<1>1. LastNode \in Nat /\ Node = 0..LastNode /\ Node' = Node
  BY MeshFacts DEF Node, LastNode, Nodes
<1> QED BY <1>1 DEF NodeLoop

\* The rings are built in the order of the tuples, and the nodes know them.
LEMMA BuildInvariance == Spec => []BuildInv
<1>1. Init => BuildInv
  BY DEF Init, BuildInv, Sending
<1>2. ConfInv /\ BuildInv /\ [Next]_vars => BuildInv'
  <2> SUFFICES ASSUME ConfInv, BuildInv, [Next]_vars PROVE BuildInv'
    OBVIOUS
  <2> USE DEF Sending
  <2>a. stage \in Running => ConfFacts(conf)
    BY ConfKnown
  <2>1. CASE UNCHANGED vars
    <3>1. UNCHANGED <<stage, conf, tuples, order, curr_ring, turn>>
      BY <2>1 DEF vars
    <3> QED BY <3>1, RingsKept, KnownKept DEF BuildInv
  <2>2. CASE (NoFile \/ Refuse \/ Configure)
               /\ UNCHANGED <<tuples, order, curr_ring, attached, table, turn, drawn>>
    <3>1. stage = "configure" /\ stage' \in {"exit", "topology"}
      BY <2>2 DEF NoFile, Refuse, Configure
    <3> QED BY <2>2, <3>1 DEF BuildInv
  <2>3. CASE GenerateTopology
    <3>1. order' = <<>> /\ turn' = 0 /\ stage' = "rings" /\ conf' = conf
      BY <2>3 DEF GenerateTopology, BuildInv
    <3>2. tuples' = IF RlrecUsed THEN RlrecTuples(conf.mesh_dim) ELSE <<>>
      BY <2>3 DEF GenerateTopology
    <3>3. Len(tuples') \in Nat
      <4>1. RlrecUsed => Len(RlrecTuples(conf.mesh_dim)) \in Nat
        BY <2>3, <2>a, MeshFacts, RlrecFacts DEF GenerateTopology, Running
      <4> QED BY <3>2, <4>1
    <3>4. RingsInv'
      <4>1. Len(order') = 0 /\ order' = [i \in 1..0 |-> NodeOrder(conf.mesh_dim, tuples'[i])]
        BY <3>1
      <4> QED BY <3>1, <3>2, <3>3, <4>1 DEF RingsInv, RlrecUsed
    <3> QED BY <3>1, <3>4 DEF BuildInv
  <2>4. CASE BuildRing
    <3>1. stage = "rings" /\ stage' = "rings" /\ turn' = turn
      BY <2>4 DEF BuildRing
    <3>2. RingsInv' /\ KnownInv' /\ order' # <<>>
      BY <2>4, <2>a, <3>1, BuildRingStep DEF Running
    <3> QED BY <3>1, <3>2 DEF BuildInv
  <2>5. CASE RingsDone
    <3>1. /\ stage = "rings" /\ stage' = "inject" /\ Len(order) = Len(tuples)
          /\ UNCHANGED <<conf, tuples, order, turn>>
          /\ curr_ring' = IF order = <<>> THEN [n \in Node |-> <<>>] ELSE curr_ring
      BY <2>5 DEF RingsDone
    <3>2. RingsInv'
      BY <3>1, RingsKept DEF BuildInv
    <3>3. turn' \in Node'
      BY <2>a, <3>1, MeshFacts DEF Running, BuildInv, Node, LastNode, Nodes
    <3>4. KnownInv'
      <4>1. CASE order = <<>>
        <5>1. PICK ring : ring = curr_ring' /\ ring = [n \in Node |-> <<>>]
          BY <3>1, <4>1
        <5>2. Built' = {} /\ Node' = Node
          BY <3>1, <4>1 DEF Built, Node, Nodes
        <5>3. ToSet(<<>>) = {} /\ <<>> \in Seq(Nat) /\ DOMAIN <<>> = {}
          BY DEF ToSet
        <5>4. \A n \in Node : ring[n] = <<>>
          BY <5>1
        <5>5. \A n \in Node : KnownAt(n)'
          BY <5>1, <5>2, <5>3, <5>4 DEF KnownAt
        <5> QED BY <5>1, <5>2, <5>3, <5>5 DEF KnownInv
      <4>2. CASE order # <<>>
        BY <3>1, <4>2, KnownKept DEF BuildInv
      <4> QED BY <4>1, <4>2
    <3> QED BY <3>1, <3>2, <3>3, <3>4 DEF BuildInv
  <2>6. CASE InjectControl
    <3>1. /\ stage = "inject" /\ stage' \in {"inject", "move"} /\ NodeLoop("move")
          /\ UNCHANGED <<conf, tuples, order, curr_ring>>
      BY <2>6 DEF InjectControl, NodeLoop
    <3>2. turn' \in Node'
      BY <2>a, <3>1, TurnKept DEF Running, BuildInv
    <3> QED BY <3>1, <3>2, RingsKept, KnownKept DEF BuildInv
  <2>7. CASE MoveControl
    <3>1. /\ stage = "move" /\ stage' = "handle" /\ Ring \subseteq Built
          /\ UNCHANGED <<conf, tuples, order, curr_ring, turn>>
      BY <2>7 DEF MoveControl
    <3> QED BY <3>1, RingsKept, KnownKept DEF BuildInv
  <2>8. CASE MissingRing
    BY <2>8 DEF MissingRing, BuildInv
  <2>9. CASE HandleControl
    <3>1. PICK next : next \in {"sort", "move"} /\ NodeLoop(next)
      BY <2>9 DEF HandleControl
    <3>2. /\ stage = "handle" /\ stage' \in {"handle", "sort", "move"}
          /\ UNCHANGED <<conf, tuples, order, curr_ring>>
      BY <2>9, <3>1 DEF HandleControl, NodeLoop
    <3>3. turn' \in Node'
      BY <2>a, <3>1, <3>2, TurnKept DEF Running, BuildInv
    <3> QED BY <3>2, <3>3, RingsKept, KnownKept DEF BuildInv
  <2>10. CASE SortTables
    <3>1. /\ stage = "sort" /\ stage' = "ready"
          /\ UNCHANGED <<conf, tuples, order, curr_ring, turn>>
      BY <2>10 DEF SortTables
    <3> QED BY <3>1, RingsKept, KnownKept DEF BuildInv
  <2>11. CASE Generate
    <3>1. /\ stage = "ready" /\ stage' = "ready"
          /\ UNCHANGED <<conf, tuples, order, curr_ring, turn>>
      BY <2>11 DEF Generate
    <3> QED BY <3>1, RingsKept, KnownKept DEF BuildInv
  <2> QED BY <2>1, <2>2, <2>3, <2>4, <2>5, <2>6, <2>7, <2>8, <2>9, <2>10, <2>11 DEF Next
<1> QED BY <1>1, <1>2, ConfInvariance, PTL DEF Spec

\* Every place for a ring has its ring.
LEMMA AllBuilt ==
  ASSUME ConfInv, BuildInv, RingsBuilt
  PROVE  /\ ConfFacts(conf) /\ EvenMesh(conf.mesh_dim) /\ RingsInv /\ KnownInv
         /\ Built = Ring
<1>1. stage \in Sending /\ RlrecUsed
  BY DEF RingsBuilt, Sending
<1>2. ConfFacts(conf)
  BY <1>1, ConfKnown DEF Running, Sending
<1>3. EvenMesh(conf.mesh_dim)
  BY <1>1, <1>2, MeshFacts
<1>4. RingsInv /\ KnownInv /\ Len(order) = Len(tuples)
  BY <1>1 DEF BuildInv
<1>5. Len(tuples) = CalRingNum[conf.mesh_dim]
  BY <1>1, <1>3, <1>4, RlrecFacts DEF RingsInv
<1> QED BY <1>2, <1>3, <1>4, <1>5 DEF Built, Ring

\* RLrec makes as many rings as cal_ringnum counts, on every even mesh; each is
\* a cycle of neighbours, and every node knows exactly the rings it is on.
THEOREM RingsInvariance == Spec => []RingsAsAllocated
<1>1. ConfInv /\ BuildInv => RingsAsAllocated
  <2> SUFFICES ASSUME ConfInv, BuildInv, RingsBuilt PROVE RingsAsAllocated
    BY DEF RingsAsAllocated
  <2>1. PICK k : k = conf.mesh_dim
    OBVIOUS
  <2>2. ConfFacts(conf) /\ RingsInv /\ KnownInv /\ Built = Ring
    BY AllBuilt
  <2>3. ASSUME NEW r \in Ring
        PROVE  /\ IsInjective(NodesOf(r))
               /\ \A n \in ToSet(NodesOf(r)) : Neighbours(n, Successor(NodesOf(r))[n])
    <3>1. PICK s : s = NodesOf(r)
      OBVIOUS
    <3>2. IsCycle(k, s)
      BY <2>1, <2>2, <3>1, BuiltFacts
    <3>3. DOMAIN s = 1..Len(s) /\ \A p, q \in 1..Len(s) : s[p] = s[q] => p = q
      BY <3>2 DEF IsCycle
    <3>4. IsInjective(s)
      BY <3>3 DEF IsInjective
    <3>5. ASSUME NEW n \in ToSet(s)
          PROVE  Neighbours(n, Successor(s)[n])
      <4>1. PICK i : i = CHOOSE j \in 1..Len(s) : s[j] = n
        OBVIOUS
      <4>2. i \in 1..Len(s) /\ s[i] = n
        BY <3>3, <4>1 DEF ToSet
      <4>3. Successor(s)[n] = s[After(Len(s), i)]
        BY <4>1 DEF Successor, After
      <4>4. NextTo(k, s[i], s[After(Len(s), i)])
        BY <3>2, <4>2 DEF IsCycle
      <4> QED BY <2>1, <4>2, <4>3, <4>4 DEF NextTo, Neighbours
    <3> QED BY <3>1, <3>4, <3>5
  <2>4. ASSUME NEW n \in Node
        PROVE  /\ ToSet(curr_ring[n]) = {r \in Ring : n \in ToSet(NodesOf(r))}
               /\ \A i \in 2..Len(curr_ring[n]) : curr_ring[n][i - 1] < curr_ring[n][i]
    <3>1. PICK s : s = curr_ring[n]
      OBVIOUS
    <3>2. /\ s \in Seq(Nat) /\ ToSet(s) = {r \in Built : n \in ToSet(NodesOf(r))}
          /\ \A i, j \in DOMAIN s : i < j => s[i] < s[j]
      BY <2>2, <3>1 DEF KnownInv, KnownAt
    <3>3. \A i \in 2..Len(s) : i \in DOMAIN s /\ i - 1 \in DOMAIN s /\ i - 1 < i
      BY <3>2
    <3> QED BY <2>2, <3>1, <3>2, <3>3
  <2> QED BY <2>2, <2>3, <2>4 DEF RingsAsAllocated
<1> QED BY <1>1, ConfInvariance, BuildInvariance, PTL

-----------------------------------------------------------------------------
(* One ring's control packets.                                             *)

\* The packet of node n on a ring of nodes s, after m moves and h hops that
\* were counted.
PacketOf(s, n, m, h) ==
  [src |-> n, node |-> Hops(s, n, m), status |-> "Routing", hop |-> h,
   sniffed |-> [j \in 1..h |-> [node |-> Hops(s, n, j), hop |-> j]]]
\* The last of m moves counts once the node where it ended was served.
Counted(s, n, m, served) == IF Hops(s, n, m) \in served THEN m ELSE m - 1
\* ps are the packets of the nodes in S, in the order of these.
Sent(ps, s, from, m, served) ==
  /\ from \in Seq(Nat) /\ Increasing(from)
  /\ ps = [i \in 1..Len(from) |->
             PacketOf(s, from[i], m, Counted(s, from[i], m, served))]
\* ps are the control packets of the nodes in S after m moves.
Circulating(ps, s, S, m, served) ==
  \E from : Sent(ps, s, from, m, served) /\ ToSet(from) = S
\* The nodes whose packets are still under way.
Away(s, m, served) ==
  IF m < Len(s) THEN ToSet(s) ELSE IF m = Len(s) THEN ToSet(s) \ served ELSE {}

\* The nodes of a ring are nodes of the mesh.
LEMMA CycleNodes ==
  ASSUME NEW k, NEW s, IsCycle(k, s)
  PROVE  /\ ToSet(s) \subseteq 0..(k * k - 1) /\ ToSet(s) \subseteq Nat
         /\ Len(s) \in Nat /\ Len(s) >= 4 /\ DOMAIN s = 1..Len(s)
<1>1. PICK all : all = 0..(k * k - 1)
  OBVIOUS
<1>2. s \in Seq(all) /\ Len(s) >= 4
  BY <1>1 DEF IsCycle
<1>3. DOMAIN s = 1..Len(s) /\ Len(s) \in Nat /\ \A i \in 1..Len(s) : s[i] \in all
  BY <1>2
<1>4. ToSet(s) \subseteq all
  BY <1>3 DEF ToSet
<1>5. all \subseteq Nat
  BY <1>1
<1> QED BY <1>1, <1>2, <1>3, <1>4, <1>5

\* A node's packet joins those of the nodes before it.
LEMMA InjectOne ==
  ASSUME NEW k, NEW s, IsCycle(k, s), NEW n \in Nat, NEW all, all = 0..(k * k - 1),
         NEW ps, Circulating(ps, s, {x \in ToSet(s) : x < n}, 0, all),
         NEW add, add = IF n \in ToSet(s) THEN 1 ELSE 0,
         NEW new, new = ps \o [i \in 1..add |-> NewControl(n)]
  PROVE  Circulating(new, s, {x \in ToSet(s) : x < n + 1}, 0, all)
<1>1. PICK from : Sent(ps, s, from, 0, all) /\ ToSet(from) = {x \in ToSet(s) : x < n}
  BY DEF Circulating
<1>2. ToSet(s) \subseteq Nat /\ ToSet(s) \subseteq all
  BY CycleNodes
<1>3. PICK l \in Nat : l = Len(from) /\ DOMAIN from = 1..l
  BY <1>1 DEF Sent
<1>4. PICK T : T = {PacketOf(s, from[i], 0, Counted(s, from[i], 0, all)) : i \in 1..l}
                   \cup {NewControl(n)}
  OBVIOUS
<1>5. ps = [i \in 1..l |-> PacketOf(s, from[i], 0, Counted(s, from[i], 0, all))]
  BY <1>1, <1>3 DEF Sent
<1>6. ps \in Seq(T) /\ Len(ps) = l
  <2>1. ps \in [1..l -> T]
    BY <1>4, <1>5
  <2> QED BY <1>5, <2>1
<1>7. CASE n \in ToSet(s)
  <2>1. new = ps \o [i \in 1..1 |-> NewControl(n)] /\ NewControl(n) \in T /\ ps \in Seq(T)
    BY <1>4, <1>6, <1>7
  <2>4. new = [i \in 1..(l + 1) |-> IF i = l + 1 THEN NewControl(n) ELSE ps[i]]
    BY <1>6, <2>1, OneMore
  <2>5. PICK more : more = from \o [i \in 1..1 |-> n]
    OBVIOUS
  <2>6. more \in Seq(Nat) /\ Increasing(more) /\ ToSet(more) = ToSet(from) \cup {n}
    <3>1. from \in Seq(Nat) /\ Increasing(from)
      BY <1>1 DEF Sent
    <3>2. \A x \in ToSet(from) : x < n
      BY <1>1
    <3> QED BY <2>5, <3>1, <3>2, AppendGreater DEF Increasing
  <2>7. Len(more) = l + 1 /\ (\A i \in 1..l : more[i] = from[i]) /\ more[l + 1] = n
    <3>1. from \in Seq(Nat)
      BY <1>1 DEF Sent
    <3>2. more = [i \in 1..(l + 1) |-> IF i = l + 1 THEN n ELSE from[i]]
      BY <1>3, <2>5, <3>1, OneMore
    <3>3. Len(more) = l + 1
      BY <1>3, <2>5, <3>1, OneMore
    <3> QED BY <3>2, <3>3
  <2>8. NewControl(n) = PacketOf(s, n, 0, Counted(s, n, 0, all))
    <3>1. Hops(s, n, 0) = n
      BY <1>7, HopFacts
    <3>2. Counted(s, n, 0, all) = 0
      BY <1>2, <1>7, <3>1 DEF Counted
    <3>3. [j \in 1..0 |-> [node |-> Hops(s, n, j), hop |-> j]] = <<>>
      OBVIOUS
    <3> QED BY <3>1, <3>2, <3>3 DEF NewControl, PacketOf
  <2>9. \A i \in 1..(l + 1) :
          new[i] = PacketOf(s, more[i], 0, Counted(s, more[i], 0, all))
    <3> TAKE i \in 1..(l + 1)
    <3>1. CASE i # l + 1
      <4>1. i \in 1..l /\ new[i] = ps[i]
        BY <2>4, <3>1
      <4> QED BY <1>5, <2>7, <4>1
    <3>2. CASE i = l + 1
      BY <2>4, <2>7, <2>8, <3>2
    <3> QED BY <3>1, <3>2
  <2>10. new = [i \in 1..(l + 1) |-> PacketOf(s, more[i], 0, Counted(s, more[i], 0, all))]
    BY <2>4, <2>9
  <2>11. ToSet(more) = {x \in ToSet(s) : x < n + 1}
    <3>1. \A x \in ToSet(s) : x < n + 1 <=> x < n \/ x = n
      BY <1>2
    <3> QED BY <1>1, <1>7, <2>6, <3>1
  <2> QED BY <2>6, <2>7, <2>10, <2>11 DEF Circulating, Sent
<1>8. CASE n \notin ToSet(s)
  <2>1. new = ps \o [i \in 1..0 |-> NewControl(n)]
    BY <1>8
  <2>2. [i \in 1..0 |-> NewControl(n)] = <<>>
    OBVIOUS
  <2>3. new = ps
    BY <1>6, <2>1, <2>2, ConcatEmptySeq
  <2>4. {x \in ToSet(s) : x < n} = {x \in ToSet(s) : x < n + 1}
    <3>1. \A x \in ToSet(s) : x < n + 1 <=> x < n \/ x = n
      BY <1>2
    <3> QED BY <1>8, <3>1
  <2> QED BY <1>1, <2>3, <2>4 DEF Circulating
<1> QED BY <1>7, <1>8

\* Once all nodes have injected, the packets have made no move.
LEMMA InjectAll ==
  ASSUME NEW k, NEW s, IsCycle(k, s), NEW all, all = 0..(k * k - 1), NEW ps, NEW n,
         \A x \in all : x < n, Circulating(ps, s, {x \in ToSet(s) : x < n}, 0, all)
  PROVE  Circulating(ps, s, Away(s, 0, all), 0, all)
<1>1. ToSet(s) \subseteq all
  BY CycleNodes
<1>2. {x \in ToSet(s) : x < n} = ToSet(s)
  BY <1>1
<1>3. Away(s, 0, all) = ToSet(s)
  BY DEF Away, IsCycle
<1> QED BY <1>2, <1>3

\* All packets move one hop.
MovedOn(s, p) ==
  IF p.status = "Routing" THEN [p EXCEPT !.node = Successor(s)[@]] ELSE p

\* A move of a ring starts the next round, in which no node is served yet.
LEMMA MoveAll ==
  ASSUME NEW k, NEW s, IsCycle(k, s), NEW m \in Nat, NEW all, all = 0..(k * k - 1),
         NEW ps, Circulating(ps, s, Away(s, m, all), m, all),
         NEW new, new = [i \in DOMAIN ps |-> MovedOn(s, ps[i])]
  PROVE  Circulating(new, s, Away(s, m + 1, {}), m + 1, {})
<1>1. PICK from : Sent(ps, s, from, m, all) /\ ToSet(from) = Away(s, m, all)
  BY DEF Circulating
<1>2. ToSet(s) \subseteq all /\ Len(s) \in Nat
  BY CycleNodes
<1>3. Away(s, m + 1, {}) = Away(s, m, all)
  <2>1. ToSet(s) \ all = {} /\ ToSet(s) \ {} = ToSet(s)
    BY <1>2
  <2>2. CASE m + 1 < Len(s)
    BY <1>2, <2>2 DEF Away
  <2>3. CASE m + 1 = Len(s)
    BY <1>2, <2>1, <2>3 DEF Away
  <2>4. CASE m = Len(s)
    <3>1. ~(m < Len(s)) /\ ~(m + 1 < Len(s)) /\ ~(m + 1 = Len(s))
      BY <1>2, <2>4
    <3> QED BY <2>1, <2>4, <3>1 DEF Away
  <2>5. CASE m > Len(s)
    BY <1>2, <2>5 DEF Away
  <2> QED BY <1>2, <2>2, <2>3, <2>4, <2>5
<1>4. PICK l \in Nat : l = Len(from) /\ DOMAIN from = 1..l
  BY <1>1 DEF Sent
<1>5. ps = [i \in 1..l |-> PacketOf(s, from[i], m, Counted(s, from[i], m, all))]
  BY <1>1, <1>4 DEF Sent
<1>6. ASSUME NEW i \in 1..l
      PROVE  MovedOn(s, ps[i]) = PacketOf(s, from[i], m + 1, Counted(s, from[i], m + 1, {}))
  <2>1. PICK n : n = from[i]
    OBVIOUS
  <2>2. n \in ToSet(s)
    <3>1. n \in ToSet(from)
      BY <1>4, <2>1 DEF ToSet
    <3> QED BY <1>1, <3>1 DEF Away
  <2>3. Hops(s, n, m) \in ToSet(s) /\ Hops(s, n, m + 1) = Successor(s)[Hops(s, n, m)]
    BY <2>2, HopFacts
  <2>4. Counted(s, n, m, all) = m /\ Counted(s, n, m + 1, {}) = m
    BY <1>2, <2>3 DEF Counted
  <2>5. ps[i] = PacketOf(s, n, m, m)
    BY <1>5, <2>1, <2>4
  <2>6. MovedOn(s, PacketOf(s, n, m, m)) = PacketOf(s, n, m + 1, m)
    BY <2>3 DEF MovedOn, PacketOf
  <2> QED BY <2>1, <2>4, <2>5, <2>6
<1>7. new = [i \in 1..l |-> PacketOf(s, from[i], m + 1, Counted(s, from[i], m + 1, {}))]
  BY <1>5, <1>6
<1>8. Sent(new, s, from, m + 1, {})
  BY <1>1, <1>4, <1>7 DEF Sent
<1> QED BY <1>1, <1>3, <1>8 DEF Circulating

-----------------------------------------------------------------------------
(* One node handles the control packet of a ring that is at it.            *)

\* flit_check, Handled and Returned of Startup, for the packets ps of a ring s.
HereIn(ps, t) == {i \in DOMAIN ps : ps[i].node = t /\ ps[i].status = "Routing"}
FirstIn(ps, t) == CHOOSE i \in HereIn(ps, t) : \A j \in HereIn(ps, t) : i <= j
HandledIn(ps, t) ==
  LET i == FirstIn(ps, t)
  IN  IF ps[i].src = t
      THEN Detached([ps EXCEPT ![i].hop = @ + 1, ![i].status = "Ejected"])
      ELSE [ps EXCEPT ![i] = Forwarded(ps[i])]
ArrivedIn(ps, s, t) == t \in ToSet(s) /\ HereIn(ps, t) # {}
ReturnedIn(ps, s, t) == ArrivedIn(ps, s, t) /\ ps[FirstIn(ps, t)].src = t

\* What the fields of the packets are.
LEMMA SentFacts ==
  ASSUME NEW k, NEW s, IsCycle(k, s), NEW m \in Nat, NEW served,
         NEW ps, NEW from, Sent(ps, s, from, m, served), ToSet(from) \subseteq ToSet(s)
  PROVE  /\ DOMAIN ps = 1..Len(from) /\ DOMAIN from = 1..Len(from) /\ Len(from) \in Nat
         /\ \A i \in 1..Len(from) :
              /\ from[i] \in ToSet(s) /\ from[i] \in Nat
              /\ Hops(s, from[i], m) \in ToSet(s)
              /\ ps[i] = PacketOf(s, from[i], m, Counted(s, from[i], m, served))
              /\ ps[i].node = Hops(s, from[i], m) /\ ps[i].status = "Routing"
              /\ ps[i].src = from[i]
         /\ \A i, j \in 1..Len(from) : from[i] = from[j] => i = j
<1>1. PICK l \in Nat : l = Len(from) /\ DOMAIN from = 1..l /\ from \in Seq(Nat)
  BY DEF Sent
<1>2. ps = [i \in 1..l |-> PacketOf(s, from[i], m, Counted(s, from[i], m, served))]
  BY <1>1 DEF Sent
<1>3. ASSUME NEW i \in 1..l
      PROVE  /\ from[i] \in ToSet(s) /\ from[i] \in Nat
             /\ Hops(s, from[i], m) \in ToSet(s)
             /\ ps[i] = PacketOf(s, from[i], m, Counted(s, from[i], m, served))
             /\ ps[i].node = Hops(s, from[i], m) /\ ps[i].status = "Routing"
             /\ ps[i].src = from[i]
  <2>1. from[i] \in ToSet(s)
    BY <1>1 DEF ToSet
  <2>2. Hops(s, from[i], m) \in ToSet(s)
    BY <2>1, HopFacts
  <2>3. ps[i] = PacketOf(s, from[i], m, Counted(s, from[i], m, served))
    BY <1>2
  <2> QED BY <1>1, <2>1, <2>2, <2>3 DEF PacketOf
<1>4. ASSUME NEW i \in 1..l, NEW j \in 1..l, from[i] = from[j]
      PROVE  i = j
  <2>1. ~(i < j) /\ ~(j < i)
    BY <1>1, <1>3, <1>4 DEF Sent, Increasing
  <2> QED BY <2>1
<1> QED BY <1>1, <1>2, <1>3, <1>4

\* A node that no packet is at changes none.
LEMMA NoneHere ==
  ASSUME NEW s, NEW m, NEW t \in Nat, NEW ps, NEW from,
         Sent(ps, s, from, m, 0..(t - 1)),
         \A i \in 1..Len(from) : Hops(s, from[i], m) # t
  PROVE  Sent(ps, s, from, m, 0..t)
<1>1. \A x : x # t => (x \in 0..(t - 1) <=> x \in 0..t)
  OBVIOUS
<1>2. \A i \in 1..Len(from) :
        Counted(s, from[i], m, 0..(t - 1)) = Counted(s, from[i], m, 0..t)
  BY <1>1 DEF Counted
<1> QED BY <1>2 DEF Sent

\* Two fields of a packet change.
LEMMA HopAndNotes ==
  ASSUME NEW n, NEW x, NEW st, NEW h, NEW g, NEW old, NEW new, NEW p,
         p = [src |-> n, node |-> x, status |-> st, hop |-> h, sniffed |-> old],
         NEW q, q = [p EXCEPT !.hop = g, !.sniffed = new]
  PROVE  q = [src |-> n, node |-> x, status |-> st, hop |-> g, sniffed |-> new]
<1>2. p = [f \in {"src", "node", "status", "hop", "sniffed"} |-> p[f]]
  OBVIOUS
<1>3. DOMAIN p = {"src", "node", "status", "hop", "sniffed"}
  BY <1>2
<1>4. DOMAIN q = {"src", "node", "status", "hop", "sniffed"} /\ q = [f \in DOMAIN q |-> q[f]]
  BY <1>3
<1>5. q.src = n /\ q.node = x /\ q.status = st
  BY <1>3
<1>6. q.hop = g /\ q.sniffed = new
  BY <1>3
<1> QED BY <1>4, <1>5, <1>6

\* A packet that is forwarded notes the node and counts the hop.
LEMMA ForwardOne ==
  ASSUME NEW s, NEW n, NEW m \in Nat \ {0}
  PROVE  Forwarded(PacketOf(s, n, m, m - 1)) = PacketOf(s, n, m, m)
<1>1. PICK h \in Nat : h = m - 1 /\ h + 1 = m
  <2>1. m - 1 \in Nat /\ (m - 1) + 1 = m
    OBVIOUS
  <2> QED BY <2>1
<1>2. PICK note : note = [j \in 1..m |-> [node |-> Hops(s, n, j), hop |-> j]]
  OBVIOUS
<1>3. PICK old : old = [j \in 1..h |-> [node |-> Hops(s, n, j), hop |-> j]]
  OBVIOUS
<1>4. Append(old, [node |-> Hops(s, n, m), hop |-> m]) = note
  <2>1. PICK T : T = {[node |-> Hops(s, n, j), hop |-> j] : j \in 1..m}
    OBVIOUS
  <2>2. [node |-> Hops(s, n, m), hop |-> m] \in T
    BY <2>1
  <2>3. old \in Seq(T) /\ Len(old) = h
    <3>1. \A j \in 1..h : j \in 1..m
      BY <1>1
    <3>2. old \in [1..h -> T]
      BY <1>3, <2>1, <3>1
    <3> QED BY <1>3, <3>2
  <2>4. PICK new : new = Append(old, [node |-> Hops(s, n, m), hop |-> m])
    OBVIOUS
  <2>5. /\ new \in Seq(T) /\ Len(new) = m
        /\ \A j \in 1..h : new[j] = old[j]
        /\ new[m] = [node |-> Hops(s, n, m), hop |-> m]
    BY <1>1, <2>2, <2>3, <2>4
  <2>6. \A j \in 1..m : new[j] = note[j]
    <3> TAKE j \in 1..m
    <3>1. CASE j = m
      BY <1>2, <2>5, <3>1
    <3>2. CASE j # m
      <4>1. j \in 1..h
        BY <1>1, <3>2
      <4> QED BY <1>2, <1>3, <2>5, <4>1
    <3> QED BY <3>1, <3>2
  <2>7. new = [j \in 1..m |-> new[j]]
    BY <2>5
  <2>8. new = note
    BY <1>2, <2>6, <2>7
  <2> QED BY <2>4, <2>8
<1>5. PICK p : p = PacketOf(s, n, m, h)
  OBVIOUS
<1>6. /\ p = [src |-> n, node |-> Hops(s, n, m), status |-> "Routing", hop |-> h,
              sniffed |-> old]
  BY <1>3, <1>5 DEF PacketOf
<1>7. Forwarded(p) = [src |-> n, node |-> Hops(s, n, m), status |-> "Routing",
                      hop |-> h + 1, sniffed |-> Append(old, [node |-> Hops(s, n, m), hop |-> h + 1])]
  <2>1. PICK x : x = Hops(s, n, m)
    OBVIOUS
  <2>2. PICK new : new = Append(old, [node |-> x, hop |-> h + 1])
    OBVIOUS
  <2>3. p.node = x /\ p.hop = h /\ p.sniffed = old
    BY <1>6, <2>1
  <2>4. Append(p.sniffed, [node |-> p.node, hop |-> p.hop + 1]) = new
    BY <2>2, <2>3
  <2>5. Forwarded(p) = [p EXCEPT !.hop = h + 1, !.sniffed = new]
    BY <1>6, <2>3, <2>4 DEF Forwarded
  <2>6. [p EXCEPT !.hop = h + 1, !.sniffed = new]
          = [src |-> n, node |-> x, status |-> "Routing", hop |-> h + 1, sniffed |-> new]
    <3>1. p = [src |-> n, node |-> x, status |-> "Routing", hop |-> h, sniffed |-> old]
      BY <1>6, <2>1
    <3>2. \A g : [p EXCEPT !.hop = g, !.sniffed = new]
                  = [src |-> n, node |-> x, status |-> "Routing", hop |-> g, sniffed |-> new]
      <4> TAKE g
      <4>1. PICK q : q = [p EXCEPT !.hop = g, !.sniffed = new]
        OBVIOUS
      <4>3. q = [src |-> n, node |-> x, status |-> "Routing", hop |-> g, sniffed |-> new]
        BY ONLY <3>1, <4>1, HopAndNotes
      <4> QED BY ONLY <4>1, <4>3
    <3> QED BY ONLY <3>2
  <2> QED BY <2>1, <2>2, <2>5, <2>6
<1>8. PacketOf(s, n, m, m) = [src |-> n, node |-> Hops(s, n, m), status |-> "Routing",
                              hop |-> m, sniffed |-> note]
  BY <1>2 DEF PacketOf
<1> QED BY <1>1, <1>4, <1>5, <1>7, <1>8

\* The ring's packets after node t's turn, and what came back to it.
Served(ps, s, m, t, left) ==
  /\ Circulating(left, s, Away(s, m, 0..t), m, 0..t)
  /\ ReturnedIn(ps, s, t) <=> m = Len(s) /\ t \in ToSet(s)
  /\ ReturnedIn(ps, s, t) =>
       ps[FirstIn(ps, t)].sniffed
         = [j \in 1..(Len(s) - 1) |-> [node |-> Hops(s, t, j), hop |-> j]]

\* Before the packets are round.
LEMMA HandleOnTheWay ==
  ASSUME NEW k, NEW s, IsCycle(k, s), NEW m \in Nat \ {0}, m < Len(s), NEW t \in Nat,
         NEW ps, Circulating(ps, s, Away(s, m, 0..(t - 1)), m, 0..(t - 1)),
         NEW left, left = IF ArrivedIn(ps, s, t) THEN HandledIn(ps, t) ELSE ps
  PROVE  Served(ps, s, m, t, left)
<1>1. PICK from : Sent(ps, s, from, m, 0..(t - 1)) /\ ToSet(from) = ToSet(s)
  BY DEF Circulating, Away
<1>2. PICK l \in Nat : l = Len(from)
  BY <1>1 DEF Sent
<1>3. /\ DOMAIN ps = 1..l /\ DOMAIN from = 1..l
      /\ \A i \in 1..l :
              /\ from[i] \in ToSet(s) /\ from[i] \in Nat
              /\ Hops(s, from[i], m) \in ToSet(s)
              /\ ps[i] = PacketOf(s, from[i], m, Counted(s, from[i], m, 0..(t - 1)))
              /\ ps[i].node = Hops(s, from[i], m) /\ ps[i].status = "Routing"
              /\ ps[i].src = from[i]
      /\ \A i, j \in 1..l : from[i] = from[j] => i = j
  BY <1>1, <1>2, SentFacts
<1>4. m # Len(s) /\ Len(s) \in Nat
  BY CycleNodes
<1>5. CASE ArrivedIn(ps, s, t)
  <2>1. PICK i \in 1..l : Hops(s, from[i], m) = t /\ i \in HereIn(ps, t)
    BY <1>3, <1>5 DEF ArrivedIn, HereIn
  <2>2. \A j \in 1..l : Hops(s, from[j], m) = t => j = i
    BY <1>3, <2>1, HopsApart
  <2>3. HereIn(ps, t) = {i}
    BY <1>3, <2>1, <2>2 DEF HereIn
  <2>4. FirstIn(ps, t) = i
    <3>1. i <= i
      OBVIOUS
    <3> QED BY <2>3, <3>1 DEF FirstIn
  <2>5. PICK n : n = from[i]
    OBVIOUS
  <2>6. n \in ToSet(s) /\ Hops(s, n, m) = t
    BY <1>3, <2>1, <2>5
  <2>7. n # t
    <3> SUFFICES ASSUME n = t PROVE FALSE
      OBVIOUS
    <3>1. m \in 0..(Len(s) - 1)
      BY <1>4
    <3>2. Distance(s, n, Hops(s, n, m)) = m
      BY <2>6, <3>1, DistanceFacts
    <3>3. Distance(s, n, n) = 0
      BY <2>6, DistanceFacts
    <3> QED BY <2>6, <3>2, <3>3
  <2>8. ~ReturnedIn(ps, s, t)
    BY <1>3, <2>4, <2>5, <2>7 DEF ReturnedIn
  <2>9. left = [ps EXCEPT ![i] = Forwarded(ps[i])]
    <3>1. ps[FirstIn(ps, t)].src # t
      BY <1>3, <2>4, <2>5, <2>7
    <3> QED BY <1>5, <2>4, <3>1 DEF HandledIn
  <2>10. Counted(s, n, m, 0..(t - 1)) = m - 1 /\ Counted(s, n, m, 0..t) = m
    <3>1. t \notin 0..(t - 1) /\ t \in 0..t
      OBVIOUS
    <3> QED BY <2>6, <3>1 DEF Counted
  <2>11. left[i] = PacketOf(s, n, m, m)
    <3>1. left[i] = Forwarded(ps[i])
      BY <1>3, <2>9
    <3>2. ps[i] = PacketOf(s, n, m, m - 1)
      BY <1>3, <2>5, <2>10
    <3> QED BY <3>1, <3>2, ForwardOne
  <2>12. ASSUME NEW j \in 1..l
         PROVE  left[j] = PacketOf(s, from[j], m, Counted(s, from[j], m, 0..t))
    <3>1. CASE j = i
      BY <2>5, <2>10, <2>11, <3>1
    <3>2. CASE j # i
      <4>1. Hops(s, from[j], m) # t
        BY <2>2, <3>2
      <4>2. Hops(s, from[j], m) \in 0..(t - 1) <=> Hops(s, from[j], m) \in 0..t
        BY <4>1
      <4>3. Counted(s, from[j], m, 0..(t - 1)) = Counted(s, from[j], m, 0..t)
        BY <4>2 DEF Counted
      <4>4. left[j] = ps[j]
        BY <1>3, <2>9, <3>2
      <4> QED BY <1>3, <4>3, <4>4
    <3> QED BY <3>1, <3>2
  <2>13. left = [j \in 1..l |-> PacketOf(s, from[j], m, Counted(s, from[j], m, 0..t))]
    <3>1. left = [j \in 1..l |-> left[j]]
      BY <1>3, <2>9
    <3> QED BY <2>12, <3>1
  <2>14. Sent(left, s, from, m, 0..t)
    BY <1>1, <1>2, <2>13 DEF Sent
  <2> QED BY <1>1, <1>4, <2>8, <2>14 DEF Served, Circulating, Away
<1>6. CASE ~ArrivedIn(ps, s, t)
  <2>1. ASSUME NEW i \in 1..l, Hops(s, from[i], m) = t
        PROVE  FALSE
    <3>1. t \in ToSet(s) /\ i \in HereIn(ps, t)
      BY <1>3, <2>1 DEF HereIn
    <3> QED BY <1>6, <3>1 DEF ArrivedIn
  <2>2. Sent(ps, s, from, m, 0..t)
    BY <1>1, <1>2, <2>1, NoneHere
  <2> QED BY <1>1, <1>4, <1>6, <2>2 DEF Served, Circulating, Away, ReturnedIn
<1> QED BY <1>5, <1>6

\* When they are round: only the node's own packet is at it, and first of all.
LEMMA HandleReturned ==
  ASSUME NEW k, NEW s, IsCycle(k, s), NEW m \in Nat \ {0}, m = Len(s), NEW t \in Nat,
         NEW ps, Circulating(ps, s, Away(s, m, 0..(t - 1)), m, 0..(t - 1)),
         NEW left, left = IF ArrivedIn(ps, s, t) THEN HandledIn(ps, t) ELSE ps
  PROVE  Served(ps, s, m, t, left)
<1>1. PICK from : Sent(ps, s, from, m, 0..(t - 1)) /\ ToSet(from) = ToSet(s) \ 0..(t - 1)
  BY DEF Circulating, Away
<1>2. PICK l \in Nat : l = Len(from)
  BY <1>1 DEF Sent
<1>3. /\ DOMAIN ps = 1..l /\ DOMAIN from = 1..l
      /\ \A i \in 1..l :
              /\ from[i] \in ToSet(s) /\ from[i] \in Nat
              /\ ps[i] = PacketOf(s, from[i], m, Counted(s, from[i], m, 0..(t - 1)))
              /\ ps[i].node = Hops(s, from[i], m) /\ ps[i].status = "Routing"
              /\ ps[i].src = from[i]
      /\ \A i, j \in 1..l : from[i] = from[j] => i = j
  BY <1>1, <1>2, SentFacts
<1>4. \A i \in 1..l : Hops(s, from[i], m) = from[i]
  BY <1>3, HopFacts
<1>5. ToSet(s) \subseteq Nat
  BY CycleNodes
<1>6. CASE t \in ToSet(s)
  <2>1. t \in ToSet(from)
    BY <1>1, <1>6
  <2>2. PICK i \in 1..l : from[i] = t
    BY <1>3, <2>1 DEF ToSet
  <2>3. i = 1
    <3> SUFFICES ASSUME i # 1 PROVE FALSE
      OBVIOUS
    <3>1. 1 \in 1..l /\ 1 < i
      OBVIOUS
    <3>2. from[1] < t
      BY <1>1, <1>3, <2>2, <3>1 DEF Sent, Increasing
    <3>3. from[1] \in ToSet(from)
      BY <1>3, <3>1 DEF ToSet
    <3>4. from[1] \in Nat /\ from[1] \notin 0..(t - 1)
      BY <1>1, <1>3, <3>1, <3>3
    <3> QED BY <3>2, <3>4
  <2>4. HereIn(ps, t) = {1}
    <3>1. \A j \in 1..l : ps[j].node = t <=> j = 1
      BY <1>3, <1>4, <2>2, <2>3
    <3> QED BY <1>3, <2>2, <2>3, <3>1 DEF HereIn
  <2>5. FirstIn(ps, t) = 1
    <3>1. 1 <= 1
      OBVIOUS
    <3> QED BY <2>4, <3>1 DEF FirstIn
  <2>6. ArrivedIn(ps, s, t) /\ ReturnedIn(ps, s, t)
    BY <1>3, <1>6, <2>2, <2>3, <2>4, <2>5 DEF ArrivedIn, ReturnedIn
  <2>7. PICK h \in Nat : l = h + 1
    <3>1. l - 1 \in Nat /\ l = (l - 1) + 1
      OBVIOUS
    <3> QED BY <3>1
  <2>8. PICK gone : gone = [ps EXCEPT ![1].hop = @ + 1, ![1].status = "Ejected"]
    OBVIOUS
  <2>9. left = Tail(gone)
    BY <1>3, <2>2, <2>3, <2>5, <2>6, <2>8 DEF HandledIn, Detached
  <2>10. DOMAIN gone = 1..l /\ (\A j \in 1..l : j # 1 => gone[j] = ps[j])
         /\ gone = [j \in 1..l |-> gone[j]]
    BY ZenonT(30), <1>3, <2>8
  <2>11. left = [j \in 1..h |-> ps[j + 1]]
    <3>1. PICK T : T = {gone[j] : j \in 1..l}
      OBVIOUS
    <3>2. gone \in Seq(T) /\ Len(gone) = l
      <4>1. gone \in [1..l -> T]
        BY <2>10, <3>1
      <4> QED BY <2>10, <4>1
    <3>3. Tail(gone) = [j \in 1..h |-> gone[j + 1]]
      <4>1. gone # <<>> /\ Len(gone) - 1 = h
        BY <2>7, <3>2
      <4>2. PICK tail : tail = Tail(gone)
        OBVIOUS
      <4>3. tail \in Seq(T) /\ Len(tail) = h /\ \A j \in 1..h : tail[j] = gone[j + 1]
        BY <3>2, <4>1, <4>2, HeadTailProperties
      <4>4. tail = [j \in 1..h |-> tail[j]]
        BY <4>3
      <4> QED BY <4>2, <4>3, <4>4
    <3>4. \A j \in 1..h : j + 1 \in 1..l /\ j + 1 # 1
      BY <2>7
    <3> QED BY <2>9, <2>10, <3>3, <3>4
  <2>12. PICK rest : rest = Tail(from)
    OBVIOUS
  <2>13. rest \in Seq(Nat) /\ Len(rest) = h /\ DOMAIN rest = 1..h
         /\ \A j \in 1..h : rest[j] = from[j + 1]
    <3>1. from \in Seq(Nat)
      BY <1>1 DEF Sent
    <3>2. from # <<>> /\ Len(from) - 1 = h
      <4>1. Len(from) = h + 1 /\ h + 1 # 0 /\ (h + 1) - 1 = h
        BY <1>2, <2>7
      <4>2. from # <<>>
        BY <3>1, <4>1, EmptySeq
      <4> QED BY <4>1, <4>2
    <3>3. rest \in Seq(Nat) /\ Len(rest) = h /\ \A j \in 1..h : rest[j] = from[j + 1]
      BY <2>12, <3>1, <3>2, HeadTailProperties
    <3> QED BY <3>3
  <2>14. Increasing(rest)
    <3> SUFFICES ASSUME NEW a \in 1..h, NEW b \in 1..h, a < b
                 PROVE  rest[a] < rest[b]
      BY <2>13 DEF Increasing
    <3>1. a + 1 \in 1..l /\ b + 1 \in 1..l /\ a + 1 < b + 1
      BY <2>7
    <3>2. from[a + 1] < from[b + 1]
      BY <1>1, <1>3, <3>1 DEF Sent, Increasing
    <3>3. rest[a] = from[a + 1] /\ rest[b] = from[b + 1]
      BY <2>13
    <3> QED BY <3>2, <3>3
  <2>15. ToSet(rest) = ToSet(s) \ 0..t
    <3>1. \A j \in 1..l : j = 1 \/ \E a \in 1..h : j = a + 1
      <4> TAKE j \in 1..l
      <4>1. CASE j # 1
        <5>1. j - 1 \in 1..h /\ j = (j - 1) + 1
          BY <2>7, <4>1
        <5> QED BY <5>1
      <4> QED BY <4>1
    <3>2. \A a \in 1..h : a + 1 \in 1..l /\ a + 1 # 1
      BY <2>7
    <3>3. ASSUME NEW x \in ToSet(rest)
          PROVE  x \in ToSet(from) \ {t}
      <4>1. PICK a \in 1..h : x = from[a + 1]
        BY <2>13 DEF ToSet
      <4>2. x \in ToSet(from) /\ x # t
        BY <1>3, <2>2, <2>3, <3>2, <4>1 DEF ToSet
      <4> QED BY <4>2
    <3>4. ASSUME NEW x \in ToSet(from) \ {t}
          PROVE  x \in ToSet(rest)
      <4>1. PICK j \in 1..l : x = from[j]
        BY <1>3 DEF ToSet
      <4>2. j # 1
        BY <2>2, <2>3, <4>1
      <4>3. PICK a \in 1..h : j = a + 1
        BY <3>1, <4>2
      <4> QED BY <2>13, <4>1, <4>3 DEF ToSet
    <3>5. \A x \in Nat : x \in 0..t <=> x \in 0..(t - 1) \/ x = t
      OBVIOUS
    <3> QED BY <1>1, <1>5, <3>3, <3>4, <3>5
  <2>16. ASSUME NEW j \in 1..h
         PROVE  left[j] = PacketOf(s, rest[j], m, Counted(s, rest[j], m, 0..t))
    <3>1. PICK i2 \in 1..l : i2 = j + 1 /\ i2 # 1
      BY <2>7
    <3>2. from[i2] # t /\ rest[j] = from[i2] /\ left[j] = ps[i2]
      <4>1. from[i2] # t
        BY <1>3, <2>2, <2>3, <3>1
      <4>2. rest[j] = from[j + 1] /\ left[j] = ps[j + 1]
        BY <2>11, <2>13
      <4> QED BY <3>1, <4>1, <4>2
    <3>3. Hops(s, from[i2], m) \in 0..(t - 1) <=> Hops(s, from[i2], m) \in 0..t
      BY <1>4, <3>2
    <3>4. Counted(s, from[i2], m, 0..(t - 1)) = Counted(s, from[i2], m, 0..t)
      BY <3>3 DEF Counted
    <3> QED BY <1>3, <3>2, <3>4
  <2>17. Sent(left, s, rest, m, 0..t)
    <3>1. left = [j \in 1..h |-> left[j]]
      BY <2>11
    <3> QED BY <2>13, <2>14, <2>16, <3>1 DEF Sent
  <2>18. ps[1].sniffed = [j \in 1..(Len(s) - 1) |-> [node |-> Hops(s, t, j), hop |-> j]]
    <3>1. Counted(s, t, m, 0..(t - 1)) = m - 1
      <4>1. t \notin 0..(t - 1)
        OBVIOUS
      <4> QED BY <1>4, <2>2, <4>1 DEF Counted
    <3>2. ps[1] = PacketOf(s, t, m, m - 1)
      BY <1>3, <2>2, <2>3, <3>1
    <3> QED BY <3>2 DEF PacketOf
  <2> QED BY <1>6, <2>5, <2>6, <2>15, <2>17, <2>18 DEF Served, Circulating, Away
<1>7. CASE t \notin ToSet(s)
  <2>1. ~ArrivedIn(ps, s, t)
    BY <1>7 DEF ArrivedIn
  <2>2. \A i \in 1..l : Hops(s, from[i], m) # t
    BY <1>3, <1>4, <1>7
  <2>3. Sent(ps, s, from, m, 0..t)
    BY <1>1, <1>2, <2>2, NoneHere
  <2>4. ToSet(from) = ToSet(s) \ 0..t
    <3>1. \A x \in ToSet(s) : x \in 0..(t - 1) <=> x \in 0..t
      BY <1>5, <1>7
    <3> QED BY <1>1, <3>1
  <2> QED BY <1>7, <2>1, <2>3, <2>4 DEF Served, Circulating, Away, ReturnedIn
<1> QED BY <1>6, <1>7

\* After that the ring is empty.
LEMMA HandleGone ==
  ASSUME NEW k, NEW s, IsCycle(k, s), NEW m \in Nat \ {0}, m > Len(s), NEW t \in Nat,
         NEW ps, Circulating(ps, s, Away(s, m, 0..(t - 1)), m, 0..(t - 1)),
         NEW left, left = IF ArrivedIn(ps, s, t) THEN HandledIn(ps, t) ELSE ps
  PROVE  Served(ps, s, m, t, left)
<1>1. ~(m < Len(s)) /\ m # Len(s)
  BY CycleNodes
<1>2. PICK from : Sent(ps, s, from, m, 0..(t - 1)) /\ ToSet(from) = {}
  BY <1>1 DEF Circulating, Away
<1>3. Len(from) = 0 /\ DOMAIN ps = {}
  <2>1. DOMAIN from = 1..Len(from) /\ Len(from) \in Nat
    BY <1>2 DEF Sent
  <2>2. \A j \in 1..Len(from) : FALSE
    BY <1>2, <2>1 DEF ToSet
  <2>3. DOMAIN ps = 1..Len(from)
    BY <1>2 DEF Sent
  <2>4. PICK l \in Nat : l = Len(from)
    BY <2>1
  <2>5. ~(1 \in 1..l)
    BY <2>2, <2>4
  <2>6. l = 0
    BY <2>5
  <2> QED BY <2>3, <2>4, <2>6
<1>4. ~ArrivedIn(ps, s, t)
  BY <1>3 DEF ArrivedIn, HereIn
<1>5. Sent(ps, s, from, m, 0..t)
  BY <1>2, <1>3, NoneHere
<1> QED BY <1>1, <1>2, <1>4, <1>5 DEF Served, Circulating, Away, ReturnedIn

\* Node t handles its packet of a ring, wherever that packet is on its round.
LEMMA HandleOne ==
  ASSUME NEW k, NEW s, IsCycle(k, s), NEW m \in Nat \ {0}, NEW t \in Nat,
         NEW ps, Circulating(ps, s, Away(s, m, 0..(t - 1)), m, 0..(t - 1)),
         NEW left, left = IF ArrivedIn(ps, s, t) THEN HandledIn(ps, t) ELSE ps
  PROVE  Served(ps, s, m, t, left)
<1>1. Len(s) \in Nat
  BY CycleNodes
<1>2. m < Len(s) \/ m = Len(s) \/ m > Len(s)
  BY <1>1
<1> QED BY <1>2, HandleOnTheWay, HandleReturned, HandleGone

-----------------------------------------------------------------------------
(* What a node learns from its packets.                                    *)

\* The rings of a mesh.
Web(k, o) == \E c \in Nat : DOMAIN o = 0..(c - 1) /\ \A r \in 0..(c - 1) : IsCycle(k, o[r])
\* What the packet of node n has noted when it is back: the way to each other node.
Notes(s, n) == [j \in 1..(Len(s) - 1) |-> [node |-> Hops(s, n, j), hop |-> j]]
\* The rings in R that n and d are both on.
Shared(o, n, d, R) == {r \in R : {n, d} \subseteq ToSet(o[r])}
\* The rings of a node, few enough for std::sort to keep in order or not.
RingsAt(o, n) == {r \in DOMAIN o : n \in ToSet(o[r])}
Few(o, n) == Cardinality(RingsAt(o, n)) <= StableSort
\* The shorter ring's packet is back first; of two of one length the last
\* one's is handled first.
Earlier(o, a, b) == Len(o[a]) < Len(o[b]) \/ (Len(o[a]) = Len(o[b]) /\ b < a)
\* routing are the ways from n to d over the rings in R, as way lists these.
IsRouting(o, way, routing, n, d) ==
  routing = [i \in 1..Len(way) |-> <<way[i], Distance(o[way[i]], n, d)>>]
\* The rings are in the order in which their packets are handled.
InTurn(o, n, way) ==
  \A i, j \in 1..Len(way) :
    i < j => way[i] # way[j] /\ (Few(o, n) => Earlier(o, way[i], way[j]))
\* routing are the ways over all shared rings in R, in the order of their return.
Learnt(o, routing, n, d, R) ==
  \E way : /\ way \in Seq(Nat) /\ IsRouting(o, way, routing, n, d)
           /\ ToSet(way) = Shared(o, n, d, R) /\ InTurn(o, n, way)
\* The table of node n when the packets of the rings in R are back.
TableOf(o, entry, n, all, R) ==
  /\ DOMAIN entry = {d \in all \ {n} : Shared(o, n, d, R) # {}}
  /\ \A d \in DOMAIN entry : Learnt(o, entry[d], n, d, R)

\* The one way to a node that a packet noted.
LEMMA WaysAre ==
  ASSUME NEW k, NEW s, IsCycle(k, s), NEW n \in ToSet(s), NEW d, d # n, NEW r,
         NEW notes, notes = Notes(s, n)
  PROVE  WaysTo(d, r, notes)
         = IF d \in ToSet(s) THEN [j \in 1..1 |-> <<r, Distance(s, n, d)>>] ELSE <<>>
<1>1. PICK l \in Nat : l = Len(s) - 1 /\ Len(s) = l + 1
  <2>1. Len(s) \in Nat /\ Len(s) >= 4
    BY CycleNodes
  <2>2. Len(s) - 1 \in Nat /\ Len(s) = (Len(s) - 1) + 1
    BY <2>1
  <2> QED BY <2>2
<1>2. notes = [j \in 1..l |-> [node |-> Hops(s, n, j), hop |-> j]]
  BY <1>1 DEF Notes
<1>3. PICK S : S = {j \in 1..l : Hops(s, n, j) = d}
  OBVIOUS
<1>4. PICK x : x = [j \in 1..l |-> <<r, j>>]
  OBVIOUS
<1>5. PICK parts : parts = [i \in DOMAIN notes |->
                              IF notes[i].node = d THEN <<<<r, notes[i].hop>>>> ELSE <<>>]
  OBVIOUS
<1>6. ASSUME NEW i \in 1..l
      PROVE  parts[i] = IF i \in S THEN [j \in 1..1 |-> x[i]] ELSE <<>>
  <2>1. notes[i].node = Hops(s, n, i) /\ notes[i].hop = i
    BY <1>2
  <2>2. parts[i] = IF notes[i].node = d THEN <<<<r, notes[i].hop>>>> ELSE <<>>
    BY <1>2, <1>5
  <2>3. <<<<r, i>>>> = [j \in 1..1 |-> <<r, i>>]
    BY Single
  <2>4. CASE i \in S
    <3>1. parts[i] = <<<<r, i>>>>
      BY <1>3, <2>1, <2>2, <2>4
    <3> QED BY <1>4, <2>3, <2>4, <3>1
  <2>5. CASE i \notin S
    BY <1>3, <2>1, <2>2, <2>5
  <2> QED BY <2>4, <2>5
<1>7. parts = [i \in 1..l |-> IF i \in S THEN [j \in 1..1 |-> x[i]] ELSE <<>>]
  <2>1. parts = [i \in 1..l |-> parts[i]]
    BY <1>2, <1>5
  <2> QED BY <1>6, <2>1
<1>8. PICK T : T = {x[i] : i \in 1..l}
  OBVIOUS
<1>9. \A i \in S \cap (1..l) : x[i] \in T
  BY <1>8
<1>10. PICK at : Picks(at, S, x, l, FlattenSeq(parts))
  BY <1>7, <1>9, FlattenSingles
<1>11. /\ at \in Seq(Nat) /\ Increasing(at) /\ ToSet(at) = S
       /\ WaysTo(d, r, notes) = [j \in 1..Len(at) |-> x[at[j]]]
  <2>1. S \cap (1..l) = S
    BY <1>3
  <2>2. WaysTo(d, r, notes) = FlattenSeq(parts)
    BY <1>5 DEF WaysTo
  <2> QED BY <1>10, <2>1, <2>2 DEF Picks
<1>12. CASE d \in ToSet(s)
  <2>1. PICK h : h = Distance(s, n, d)
    OBVIOUS
  <2>2. h \in 1..l /\ Hops(s, n, h) = d
    <3>1. h \in 0..(Len(s) - 1) /\ Hops(s, n, h) = d /\ h # 0
      BY <1>12, <2>1, DistanceFacts
    <3> QED BY <1>1, <3>1
  <2>3. ASSUME NEW j \in 1..l, Hops(s, n, j) = d
        PROVE  j = h
    <3>1. j \in 0..(Len(s) - 1)
      BY <1>1
    <3> QED BY <2>1, <2>3, <3>1, DistanceFacts
  <2>4. S = {h}
    BY <1>3, <2>2, <2>3
  <2>5. Len(at) = 1 /\ at[1] = h
    BY <1>11, <2>4, OnlyOne
  <2>6. \A j \in 1..1 : x[at[j]] = <<r, h>>
    BY <1>4, <2>2, <2>5
  <2>7. WaysTo(d, r, notes) = [j \in 1..1 |-> x[at[j]]]
    BY <1>11, <2>5
  <2>8. WaysTo(d, r, notes) = [j \in 1..1 |-> <<r, h>>]
    BY <2>6, <2>7
  <2> QED BY <1>12, <2>1, <2>8
<1>13. CASE d \notin ToSet(s)
  <2>1. ASSUME NEW j \in S
        PROVE  FALSE
    <3>1. j \in Nat /\ Hops(s, n, j) = d
      BY <1>3
    <3> QED BY <1>13, <3>1, HopFacts
  <2>2. PICK m \in Nat : m = Len(at) /\ DOMAIN at = 1..m
    BY <1>11
  <2>3. ASSUME NEW j \in 1..m PROVE FALSE
    <3>1. at[j] \in ToSet(at)
      BY <2>2 DEF ToSet
    <3> QED BY <1>11, <2>1, <3>1
  <2>4. ~(1 \in 1..m)
    BY <2>3
  <2>5. m = 0
    BY <2>4
  <2>6. WaysTo(d, r, notes) = [j \in 1..0 |-> x[at[j]]]
    BY <1>11, <2>2, <2>5
  <2>7. [j \in 1..0 |-> x[at[j]]] = <<>>
    OBVIOUS
  <2> QED BY <1>13, <2>6, <2>7
<1> QED BY <1>12, <1>13

-----------------------------------------------------------------------------
(* What the packets that return together bring.                            *)

\* An order of the rings of a node in which their packets may be handled.
IsReturn(o, n, ret) ==
  /\ ret \in Seq(Nat) /\ ToSet(ret) = RingsAt(o, n)
  /\ \A i, j \in 1..Len(ret) : i < j => ret[i] # ret[j] /\ (Few(o, n) => ret[j] < ret[i])
\* The rings whose packets return to the node with move m, and the ways these
\* noted, in the order of their handling.
ComingBack(o, n, m) == {r \in DOMAIN o : Len(o[r]) = m /\ n \in ToSet(o[r])}
WaysBack(o, n, d, m, ret) ==
  [j \in DOMAIN ret |->
     IF ret[j] \in ComingBack(o, n, m) THEN WaysTo(d, ret[j], Notes(o[ret[j]], n)) ELSE <<>>]

\* The new ways to a node are those over the rings that it shares.
LEMMA NewWays ==
  ASSUME NEW k, NEW o, Web(k, o), NEW n, NEW d, d # n, NEW m, NEW ret, IsReturn(o, n, ret)
  PROVE  Learnt(o, FlattenSeq(WaysBack(o, n, d, m, ret)), n, d, ComingBack(o, n, m))
<1>a. PICK Q : Q = ComingBack(o, n, m)
  OBVIOUS
<1>b. Q = {r \in DOMAIN o : Len(o[r]) = m /\ n \in ToSet(o[r])}
  BY <1>a DEF ComingBack
<1>c. PICK parts : parts = WaysBack(o, n, d, m, ret)
  OBVIOUS
<1>d. parts = [j \in DOMAIN ret |->
                 IF ret[j] \in Q THEN WaysTo(d, ret[j], Notes(o[ret[j]], n)) ELSE <<>>]
  BY <1>a, <1>c DEF WaysBack
<1>e. ret \in Seq(Nat) /\ ToSet(ret) = {r \in DOMAIN o : n \in ToSet(o[r])}
  BY DEF RingsAt, IsReturn
<1>1. PICK l \in Nat : l = Len(ret) /\ DOMAIN ret = 1..l
  BY <1>e
<1>5. ASSUME NEW i \in 1..l
      PROVE  ret[i] \in ToSet(ret) /\ ret[i] \in Nat
  BY <1>1, <1>e DEF ToSet
<1>6. \A i \in 1..l : n \in ToSet(o[ret[i]]) /\ ret[i] \in DOMAIN o /\ IsCycle(k, o[ret[i]])
  BY <1>5, <1>e DEF Web
<1>7. PICK S : S = {j \in 1..l : ret[j] \in Q /\ d \in ToSet(o[ret[j]])}
  OBVIOUS
<1>8. PICK x : x = [j \in 1..l |-> <<ret[j], Distance(o[ret[j]], n, d)>>]
  OBVIOUS
<1>9. ASSUME NEW j \in 1..l
      PROVE  parts[j] = IF j \in S THEN [a \in 1..1 |-> x[j]] ELSE <<>>
  <2>1. PICK r : r = ret[j]
    OBVIOUS
  <2>2. parts[j] = IF r \in Q THEN WaysTo(d, r, Notes(o[r], n)) ELSE <<>>
    BY <1>1, <1>d, <2>1
  <2>3. WaysTo(d, r, Notes(o[r], n))
        = IF d \in ToSet(o[r]) THEN [a \in 1..1 |-> <<r, Distance(o[r], n, d)>>] ELSE <<>>
    <3>1. PICK s : s = o[r]
      OBVIOUS
    <3>2. IsCycle(k, s) /\ n \in ToSet(s)
      BY <1>6, <2>1, <3>1
    <3>3. WaysTo(d, r, Notes(s, n))
          = IF d \in ToSet(s) THEN [a \in 1..1 |-> <<r, Distance(s, n, d)>>] ELSE <<>>
      BY <3>2, WaysAre
    <3> QED BY <3>1, <3>3
  <2>4. x[j] = <<r, Distance(o[r], n, d)>>
    BY <1>8, <2>1
  <2>5. j \in S <=> r \in Q /\ d \in ToSet(o[r])
    BY <1>7, <2>1
  <2>6. CASE j \in S
    BY <2>2, <2>3, <2>4, <2>5, <2>6
  <2>7. CASE j \notin S
    BY <2>2, <2>3, <2>5, <2>7
  <2> QED BY <2>6, <2>7
<1>10. parts = [j \in 1..l |-> IF j \in S THEN [a \in 1..1 |-> x[j]] ELSE <<>>]
  <2>1. parts = [j \in 1..l |-> parts[j]]
    BY <1>1, <1>d
  <2> QED BY <1>9, <2>1
<1>11. PICK T : T = {x[i] : i \in 1..l}
  OBVIOUS
<1>12. \A i \in S \cap (1..l) : x[i] \in T
  BY <1>11
<1>13. PICK at : Picks(at, S, x, l, FlattenSeq(parts))
  BY <1>10, <1>12, FlattenSingles
<1>14. PICK c \in Nat : c = Len(at) /\ DOMAIN at = 1..c
  BY <1>13 DEF Picks
<1>15. /\ Increasing(at) /\ ToSet(at) = S
       /\ FlattenSeq(parts) = [j \in 1..c |-> x[at[j]]]
  <2>1. S \cap (1..l) = S
    BY <1>7
  <2> QED BY <1>13, <1>14, <2>1 DEF Picks
<1>16. \A j \in 1..c : at[j] \in S
  BY <1>14, <1>15 DEF ToSet
<1>17. PICK way : way = [j \in 1..c |-> ret[at[j]]]
  OBVIOUS
<1>18. way \in Seq(Nat) /\ Len(way) = c
  <2>1. \A j \in 1..c : ret[at[j]] \in Nat
    BY <1>5, <1>7, <1>16
  <2>2. way \in [1..c -> Nat]
    BY <1>17, <2>1
  <2> QED BY <1>17, <2>2
<1>19. IsRouting(o, way, FlattenSeq(parts), n, d)
  <2>1. ASSUME NEW j \in 1..c
        PROVE  x[at[j]] = <<way[j], Distance(o[way[j]], n, d)>>
    <3>1. at[j] \in 1..l /\ way[j] = ret[at[j]]
      BY <1>7, <1>16, <1>17
    <3> QED BY <1>8, <3>1
  <2> QED BY <1>15, <1>18, <2>1 DEF IsRouting
<1>20. ToSet(way) = Shared(o, n, d, Q)
  <2>1. DOMAIN way = 1..c
    BY <1>17
  <2>2. ASSUME NEW j \in 1..c
        PROVE  way[j] \in Shared(o, n, d, Q)
    <3>1. at[j] \in S /\ way[j] = ret[at[j]]
      BY <1>16, <1>17
    <3>2. ret[at[j]] \in Q /\ d \in ToSet(o[ret[at[j]]]) /\ n \in ToSet(o[ret[at[j]]])
      BY <1>6, <1>7, <3>1
    <3> QED BY <3>1, <3>2 DEF Shared
  <2>3. ASSUME NEW r \in Shared(o, n, d, Q)
        PROVE  \E j \in 1..c : way[j] = r
    <3>1. r \in Q /\ r \in ToSet(ret) /\ d \in ToSet(o[r])
      BY <1>b, <1>e, <2>3 DEF Shared
    <3>4. PICK b \in 1..l : ret[b] = r
      BY <1>1, <3>1 DEF ToSet
    <3>5. b \in ToSet(at)
      BY <1>7, <1>15, <3>1, <3>4
    <3>6. PICK j \in 1..c : at[j] = b
      BY <1>14, <3>5 DEF ToSet
    <3> QED BY <1>17, <3>4, <3>6
  <2> QED BY <2>1, <2>2, <2>3 DEF ToSet
<1>21. InTurn(o, n, way)
  <2> SUFFICES ASSUME NEW i \in 1..c, NEW j \in 1..c, i < j
               PROVE  way[i] # way[j] /\ (Few(o, n) => Earlier(o, way[i], way[j]))
    BY <1>18 DEF InTurn
  <2>1. at[i] < at[j] /\ at[i] \in 1..l /\ at[j] \in 1..l
    BY <1>7, <1>14, <1>15, <1>16 DEF Increasing
  <2>2. way[i] = ret[at[i]] /\ way[j] = ret[at[j]]
    BY <1>17
  <2>3. ret[at[i]] # ret[at[j]] /\ (Few(o, n) => ret[at[j]] < ret[at[i]])
    BY <1>1, <2>1 DEF IsReturn
  <2>7. Len(o[way[i]]) = m /\ Len(o[way[j]]) = m
    <3>1. ret[at[i]] \in Q /\ ret[at[j]] \in Q
      BY <1>7, <1>16
    <3> QED BY <1>17, <1>b, <3>1
  <2> QED BY <2>2, <2>3, <2>7 DEF Earlier
<1> QED BY <1>a, <1>c, <1>18, <1>19, <1>20, <1>21 DEF Learnt

\* What is learnt later comes after what is known.
LEMMA LearnMore ==
  ASSUME NEW o, NEW n, NEW d, NEW R, NEW Q,
         \A r \in R, q \in Q : r # q /\ Len(o[r]) < Len(o[q]),
         NEW old, Learnt(o, old, n, d, R), NEW new, Learnt(o, new, n, d, Q)
  PROVE  Learnt(o, old \o new, n, d, R \cup Q)
<1>1. PICK v : /\ v \in Seq(Nat) /\ IsRouting(o, v, old, n, d)
               /\ ToSet(v) = Shared(o, n, d, R) /\ InTurn(o, n, v)
  BY DEF Learnt
<1>2. PICK w : /\ w \in Seq(Nat) /\ IsRouting(o, w, new, n, d)
               /\ ToSet(w) = Shared(o, n, d, Q) /\ InTurn(o, n, w)
  BY DEF Learnt
<1>3. PICK a \in Nat : a = Len(v) /\ DOMAIN v = 1..a
  BY <1>1
<1>4. PICK b \in Nat : b = Len(w) /\ DOMAIN w = 1..b
  BY <1>2
<1>5. PICK way : way = v \o w
  OBVIOUS
<1>6. /\ way \in Seq(Nat) /\ Len(way) = a + b
      /\ \A i \in 1..(a + b) : way[i] = IF i <= a THEN v[i] ELSE w[i - a]
  BY <1>1, <1>2, <1>3, <1>4, <1>5, ConcatProperties
<1>7. ToSet(way) = ToSet(v) \cup ToSet(w)
  BY <1>1, <1>2, <1>5, ConcatElements
<1>8. ToSet(way) = Shared(o, n, d, R \cup Q)
  BY <1>1, <1>2, <1>7 DEF Shared
<1>9. PICK both : both = old \o new
  OBVIOUS
<1>10. both = [i \in 1..(a + b) |-> IF i <= a THEN old[i] ELSE new[i - a]]
  <2>1. old = [i \in 1..a |-> <<v[i], Distance(o[v[i]], n, d)>>]
    BY <1>1, <1>3 DEF IsRouting
  <2>2. new = [i \in 1..b |-> <<w[i], Distance(o[w[i]], n, d)>>]
    BY <1>2, <1>4 DEF IsRouting
  <2>3. PICK T : T = {old[i] : i \in 1..a} \cup {new[i] : i \in 1..b}
    OBVIOUS
  <2>4. old \in Seq(T) /\ Len(old) = a
    <3>1. old \in [1..a -> T]
      BY <2>1, <2>3
    <3> QED BY <2>1, <3>1
  <2>5. new \in Seq(T) /\ Len(new) = b
    <3>1. new \in [1..b -> T]
      BY <2>2, <2>3
    <3> QED BY <2>2, <3>1
  <2>6. /\ both \in Seq(T) /\ Len(both) = a + b
        /\ \A i \in 1..(a + b) : both[i] = IF i <= a THEN old[i] ELSE new[i - a]
    BY <1>9, <2>4, <2>5, ConcatProperties
  <2>7. both = [i \in 1..(a + b) |-> both[i]]
    BY <2>6
  <2> QED BY <2>6, <2>7
<1>11. IsRouting(o, way, both, n, d)
  <2>1. ASSUME NEW i \in 1..(a + b)
        PROVE  both[i] = <<way[i], Distance(o[way[i]], n, d)>>
    <3>1. CASE i <= a
      <4>1. i \in 1..a
        BY <3>1
      <4>2. old[i] = <<v[i], Distance(o[v[i]], n, d)>>
        BY <1>1, <1>3, <4>1 DEF IsRouting
      <4> QED BY <1>6, <1>10, <3>1, <4>2
    <3>2. CASE ~(i <= a)
      <4>1. PICK j \in 1..b : j = i - a
        BY <3>2
      <4>2. new[j] = <<w[j], Distance(o[w[j]], n, d)>>
        BY <1>2, <1>4 DEF IsRouting
      <4>3. both[i] = new[j] /\ way[i] = w[j]
        BY <1>6, <1>10, <3>2, <4>1
      <4> QED BY <4>2, <4>3
    <3> QED BY <3>1, <3>2
  <2>2. both = [i \in 1..(a + b) |-> both[i]]
    BY <1>10
  <2> QED BY <1>6, <2>1, <2>2 DEF IsRouting
<1>12. InTurn(o, n, way)
  <2> SUFFICES ASSUME NEW i \in 1..(a + b), NEW j \in 1..(a + b), i < j
               PROVE  way[i] # way[j] /\ (Few(o, n) => Earlier(o, way[i], way[j]))
    BY <1>6 DEF InTurn
  <2>1. CASE j <= a
    <3>1. i \in 1..a /\ j \in 1..a
      BY <2>1
    <3>2. way[i] = v[i] /\ way[j] = v[j]
      BY <1>6, <3>1
    <3> QED BY <1>1, <1>3, <3>1, <3>2 DEF InTurn
  <2>2. CASE i <= a /\ ~(j <= a)
    <3>1. PICK q \in 1..b : q = j - a
      BY <2>2
    <3>2. i \in 1..a /\ way[i] = v[i] /\ way[j] = w[q]
      BY <1>6, <2>2, <3>1
    <3>3. v[i] \in ToSet(v) /\ w[q] \in ToSet(w)
      BY <1>3, <1>4, <3>2 DEF ToSet
    <3>4. v[i] \in R /\ w[q] \in Q
      BY <1>1, <1>2, <3>3 DEF Shared
    <3> QED BY <3>2, <3>4 DEF Earlier
  <2>3. CASE ~(i <= a)
    <3>1. PICK p \in 1..b : p = i - a
      BY <2>3
    <3>2. PICK q \in 1..b : q = j - a
      BY <2>3
    <3>3. p < q /\ way[i] = w[p]
      BY <1>6, <2>3, <3>1, <3>2
    <3>4. way[j] = w[q]
      BY <1>6, <2>3, <3>2
    <3> QED BY <1>2, <1>4, <3>3, <3>4 DEF InTurn
  <2> QED BY <2>1, <2>2, <2>3
<1> QED BY <1>6, <1>8, <1>9, <1>11, <1>12 DEF Learnt

\* The table with the packets of some more rings.
LEMMA TableLearns ==
  ASSUME NEW o, NEW n, NEW all, NEW R, NEW Q,
         \A r \in R, q \in Q : r # q /\ Len(o[r]) < Len(o[q]),
         NEW old, TableOf(o, old, n, all, R),
         NEW more, \A d \in all \ {n} : Learnt(o, more[d], n, d, Q),
         NEW new, new = [d \in DOMAIN old \cup {d \in all \ {n} : Shared(o, n, d, Q) # {}} |->
                           (IF d \in DOMAIN old THEN old[d] ELSE <<>>) \o more[d]]
  PROVE  TableOf(o, new, n, all, R \cup Q)
<1>1. \A d : Shared(o, n, d, R \cup Q) = Shared(o, n, d, R) \cup Shared(o, n, d, Q)
  BY DEF Shared
<1>2. DOMAIN old = {d \in all \ {n} : Shared(o, n, d, R) # {}}
  BY DEF TableOf
<1>3. DOMAIN new = {d \in all \ {n} : Shared(o, n, d, R \cup Q) # {}}
  BY <1>1, <1>2
<1>4. ASSUME NEW d \in DOMAIN new
      PROVE  Learnt(o, new[d], n, d, R \cup Q)
  <2>1. d \in all \ {n}
    BY <1>3
  <2>2. PICK was : was = IF d \in DOMAIN old THEN old[d] ELSE <<>>
    OBVIOUS
  <2>3. new[d] = was \o more[d]
    BY <2>2
  <2>4. Learnt(o, was, n, d, R)
    <3>1. CASE d \in DOMAIN old
      BY <2>2, <3>1 DEF TableOf
    <3>2. CASE d \notin DOMAIN old
      <4>1. Shared(o, n, d, R) = {}
        BY <1>2, <2>1, <3>2
      <4>2. PICK way : way = <<>>
        OBVIOUS
      <4>3. way \in Seq(Nat) /\ Len(way) = 0 /\ DOMAIN way = {}
        BY <4>2, EmptySeq
      <4>4. ToSet(way) = {}
        BY <4>3 DEF ToSet
      <4>5. IsRouting(o, way, was, n, d)
        <5>1. was = <<>>
          BY <2>2, <3>2
        <5>2. [i \in 1..0 |-> <<way[i], Distance(o[way[i]], n, d)>>] = <<>>
          OBVIOUS
        <5> QED BY <4>3, <5>1, <5>2 DEF IsRouting
      <4>6. InTurn(o, n, way)
        BY <4>3 DEF InTurn
      <4> QED BY <4>1, <4>3, <4>4, <4>5, <4>6 DEF Learnt
    <3> QED BY <3>1, <3>2
  <2>5. Learnt(o, more[d], n, d, Q)
    BY <2>1
  <2> QED BY <2>3, <2>4, <2>5, LearnMore
<1> QED BY <1>3, <1>4 DEF TableOf

-----------------------------------------------------------------------------
(* The order of the finished tables.                                       *)

\* The order of Distance, length and ring id that RingsVia is defined by.
Lex(x, y) == \E i \in 1..3 : x[i] < y[i] /\ \A j \in 1..(i - 1) : x[j] = y[j]

\* That order, spelt out.
LEMMA LexFacts ==
  ASSUME NEW a \in Int, NEW b \in Int, NEW c \in Int, NEW u \in Int, NEW v \in Int, NEW w \in Int
  PROVE  Lex(<<a, b, c>>, <<u, v, w>>) <=>
           a < u \/ (a = u /\ b < v) \/ (a = u /\ b = v /\ c < w)
<1>1. PICK x : x = <<a, b, c>>
  OBVIOUS
<1>2. PICK y : y = <<u, v, w>>
  OBVIOUS
<1>3. x[1] = a /\ x[2] = b /\ x[3] = c /\ y[1] = u /\ y[2] = v /\ y[3] = w
  BY <1>1, <1>2
<1>4. ASSUME NEW i \in 1..3
      PROVE  i = 1 \/ i = 2 \/ i = 3
  OBVIOUS
<1>5. (\A j \in 1..(1 - 1) : x[j] = y[j])
  OBVIOUS
<1>6. (\A j \in 1..(2 - 1) : x[j] = y[j]) <=> x[1] = y[1]
  <2>1. \A j : j \in 1..(2 - 1) <=> j = 1
    OBVIOUS
  <2> QED BY <2>1
<1>7. (\A j \in 1..(3 - 1) : x[j] = y[j]) <=> x[1] = y[1] /\ x[2] = y[2]
  <2>1. \A j : j \in 1..(3 - 1) <=> j = 1 \/ j = 2
    OBVIOUS
  <2> QED BY <2>1
<1>8. Lex(x, y) <=> \/ x[1] < y[1]
                    \/ x[2] < y[2] /\ x[1] = y[1]
                    \/ x[3] < y[3] /\ x[1] = y[1] /\ x[2] = y[2]
  <2>1. 1 \in 1..3 /\ 2 \in 1..3 /\ 3 \in 1..3
    OBVIOUS
  <2> QED BY <1>4, <1>5, <1>6, <1>7, <2>1 DEF Lex
<1> QED BY <1>1, <1>2, <1>3, <1>8

\* The ring ids in the order of the sorted table.
Nearer(o, n, d, a, b) ==
  \/ Distance(o[a], n, d) < Distance(o[b], n, d)
  \/ Distance(o[a], n, d) = Distance(o[b], n, d) /\ Earlier(o, a, b)

\* RingsVia puts the shared rings in a strict total order.
LEMMA RingsViaIs ==
  ASSUME NEW k, NEW o, Web(k, o), NEW n, NEW d, d # n, NEW rings,
         rings = Shared(o, n, d, DOMAIN o), NEW before,
         before = [b \in rings |-> {a \in rings : Nearer(o, n, d, a, b)}]
  PROVE  /\ RingsVia(o, n, d) = InOrder(rings, before)
         /\ IsOrder(rings, before)
         /\ \A r \in rings : /\ r \in Nat /\ Len(o[r]) \in Nat /\ Distance(o[r], n, d) \in Nat
                             /\ IsCycle(k, o[r])
<1>1. ASSUME NEW r \in rings
      PROVE  /\ r \in Nat /\ Len(o[r]) \in Nat /\ Distance(o[r], n, d) \in Nat
             /\ IsCycle(k, o[r])
  <2>1. r \in DOMAIN o /\ n \in ToSet(o[r]) /\ d \in ToSet(o[r])
    BY DEF Shared
  <2>2. r \in Nat /\ IsCycle(k, o[r])
    BY <2>1 DEF Web
  <2>3. PICK s : s = o[r]
    OBVIOUS
  <2>4. Len(s) \in Nat
    BY <2>2, <2>3, CycleNodes
  <2>5. Distance(s, n, d) \in 0..(Len(s) - 1)
    BY <2>1, <2>2, <2>3, DistanceFacts
  <2>6. Distance(s, n, d) \in Nat
    BY <2>4, <2>5
  <2> QED BY <2>2, <2>3, <2>4, <2>6
<1>2. PICK key : key = [r \in rings |-> <<Distance(o[r], n, d), Len(o[r]), -r>>]
  OBVIOUS
<1>3. ASSUME NEW a \in rings, NEW b \in rings
      PROVE  Lex(key[a], key[b]) <=> Nearer(o, n, d, a, b)
  <2>1. PICK i, j, h : i = Distance(o[a], n, d) /\ j = Len(o[a]) /\ h = -a
    OBVIOUS
  <2>2. PICK u, v, w : u = Distance(o[b], n, d) /\ v = Len(o[b]) /\ w = -b
    OBVIOUS
  <2>3. i \in Int /\ j \in Int /\ h \in Int /\ u \in Int /\ v \in Int /\ w \in Int
    BY <1>1, <2>1, <2>2
  <2>4. key[a] = <<i, j, h>> /\ key[b] = <<u, v, w>>
    BY <1>2, <2>1, <2>2
  <2>5. Lex(<<i, j, h>>, <<u, v, w>>) <=> i < u \/ (i = u /\ j < v) \/ (i = u /\ j = v /\ h < w)
    BY <2>3, LexFacts
  <2>6. h < w <=> b < a
    BY <1>1, <2>1, <2>2
  <2>7. Nearer(o, n, d, a, b) <=> i < u \/ (i = u /\ (j < v \/ (j = v /\ b < a)))
    BY <2>1, <2>2 DEF Nearer, Earlier
  <2> QED BY <2>4, <2>5, <2>6, <2>7
<1>4. RingsVia(o, n, d) = InOrder(rings, before)
  <2>1. rings = {r \in DOMAIN o : {n, d} \subseteq ToSet(o[r])}
    BY DEF Shared
  <2>2. PICK bef : bef = [b \in rings |-> {a \in rings :
                           Lex(<<Distance(o[a], n, d), Len(o[a]), -a>>,
                               <<Distance(o[b], n, d), Len(o[b]), -b>>)}]
    OBVIOUS
  <2>3. RingsVia(o, n, d) = InOrder(rings, bef)
    BY <2>1, <2>2 DEF RingsVia, Lex
  <2>4. \A a, b \in rings : Lex(<<Distance(o[a], n, d), Len(o[a]), -a>>,
                                <<Distance(o[b], n, d), Len(o[b]), -b>>)
                            <=> Nearer(o, n, d, a, b)
    BY <1>2, <1>3
  <2>5. bef = before
    BY <2>2, <2>4
  <2> QED BY <2>3, <2>5
<1>5. IsOrder(rings, before)
  <2>1. \A a, b \in rings : a \in before[b] <=> Nearer(o, n, d, a, b)
    OBVIOUS
  <2>2. ASSUME NEW x \in rings
        PROVE  before[x] \subseteq rings /\ x \notin before[x]
    BY <1>1, <2>1 DEF Nearer, Earlier
  <2>3. ASSUME NEW x \in rings, NEW y \in rings, x # y
        PROVE  x \in before[y] \/ y \in before[x]
    <3>1. PICK dx, dy \in Nat : dx = Distance(o[x], n, d) /\ dy = Distance(o[y], n, d)
      BY <1>1
    <3>2. PICK lx, ly \in Nat : lx = Len(o[x]) /\ ly = Len(o[y])
      BY <1>1
    <3>3. x \in Nat /\ y \in Nat
      BY <1>1
    <3>4. Nearer(o, n, d, x, y) <=> dx < dy \/ (dx = dy /\ (lx < ly \/ (lx = ly /\ y < x)))
      BY <3>1, <3>2 DEF Nearer, Earlier
    <3>5. Nearer(o, n, d, y, x) <=> dy < dx \/ (dy = dx /\ (ly < lx \/ (ly = lx /\ x < y)))
      BY <3>1, <3>2 DEF Nearer, Earlier
    <3>6. Nearer(o, n, d, x, y) \/ Nearer(o, n, d, y, x)
      BY <2>3, <3>3, <3>4, <3>5
    <3> QED BY <2>1, <3>6
  <2>4. ASSUME NEW x \in rings, NEW y \in rings, NEW z \in rings,
               x \in before[y], y \in before[z]
        PROVE  x \in before[z]
    <3>1. PICK dx, dy, dz \in Nat : /\ dx = Distance(o[x], n, d) /\ dy = Distance(o[y], n, d)
                                    /\ dz = Distance(o[z], n, d)
      BY <1>1
    <3>2. PICK lx, ly, lz \in Nat : lx = Len(o[x]) /\ ly = Len(o[y]) /\ lz = Len(o[z])
      BY <1>1
    <3>3. x \in Nat /\ y \in Nat /\ z \in Nat
      BY <1>1
    <3>4. dx < dy \/ (dx = dy /\ (lx < ly \/ (lx = ly /\ y < x)))
      BY <2>1, <2>4, <3>1, <3>2 DEF Nearer, Earlier
    <3>5. dy < dz \/ (dy = dz /\ (ly < lz \/ (ly = lz /\ z < y)))
      BY <2>1, <2>4, <3>1, <3>2 DEF Nearer, Earlier
    <3>6. dx < dz \/ (dx = dz /\ (lx < lz \/ (lx = lz /\ z < x)))
      BY <3>3, <3>4, <3>5
    <3>7. Nearer(o, n, d, x, z)
      BY <3>1, <3>2, <3>6 DEF Nearer, Earlier
    <3> QED BY <2>1, <3>7
  <2> QED BY <2>2, <2>3, <2>4 DEF IsOrder
<1> QED BY <1>1, <1>4, <1>5

\* The sort of a routing, as places.
Sooner(dist, i, j) == dist[i] < dist[j] \/ (dist[i] = dist[j] /\ i < j)
SoonerPlaces(dist, l) == [j \in 1..l |-> {i \in 1..l : Sooner(dist, i, j)}]

\* The places of a routing, in the order of table_sort, are listed once each.
LEMMA SortPlaces ==
  ASSUME NEW l \in Nat, NEW dist, \A i \in 1..l : dist[i] \in Nat, NEW before,
         before = [j \in 1..l |-> {i \in 1..l : Sooner(dist, i, j)}],
         NEW by, by = InOrder(1..l, before)
  PROVE  Lists(by, l, 1..l, before)
<1>1. \A i, j \in 1..l : i \in before[j] <=> Sooner(dist, i, j)
  OBVIOUS
<1>2. IsOrder(1..l, before)
  <2>1. ASSUME NEW x \in 1..l
        PROVE  before[x] \subseteq 1..l /\ x \notin before[x]
    BY <1>1 DEF Sooner
  <2>2. ASSUME NEW x \in 1..l, NEW y \in 1..l, x # y
        PROVE  x \in before[y] \/ y \in before[x]
    BY <1>1, <2>2 DEF Sooner
  <2>3. ASSUME NEW x \in 1..l, NEW y \in 1..l, NEW z \in 1..l,
               x \in before[y], y \in before[z]
        PROVE  x \in before[z]
    BY <1>1, <2>3 DEF Sooner
  <2> QED BY <2>1, <2>2, <2>3 DEF IsOrder
<1>3. IsFiniteSet(1..l) /\ Cardinality(1..l) = l
  <2>1. Cardinality(1..l) = IF 1 > l THEN 0 ELSE l - 1 + 1
    BY FS_Interval
  <2>2. IsFiniteSet(1..l)
    BY FS_Interval
  <2> QED BY <2>1, <2>2
<1> QED BY <1>2, <1>3, InOrderLists

\* p lists the elements of S, each of them once.
Once(p, l, S) ==
  /\ p \in [1..l -> S] /\ S = {p[i] : i \in 1..l}
  /\ \A i, j \in 1..l : p[i] = p[j] => i = j
\* f tells of the elements listed by p what g tells of those listed by q.
GoesWith(f, p, g, q, l) == \A i, j \in 1..l : p[i] = q[j] => f[i] = g[j]

\* Sequences that go with two lists of the same elements are reorderings.
LEMMA Reordered ==
  ASSUME NEW l \in Nat, NEW S, NEW p, Once(p, l, S), NEW q, Once(q, l, S),
         NEW f, f = [i \in 1..l |-> f[i]], NEW g, DOMAIN g = 1..l,
         GoesWith(f, p, g, q, l)
  PROVE  f \in Reorderings(g)
<1>1. PICK by : by = [i \in 1..l |-> CHOOSE j \in 1..l : q[j] = p[i]]
  OBVIOUS
<1>2. ASSUME NEW i \in 1..l
      PROVE  by[i] \in 1..l /\ q[by[i]] = p[i]
  <2>1. \E j \in 1..l : q[j] = p[i]
    BY DEF Once
  <2> QED BY <1>1, <2>1
<1>3. by \in [1..l -> 1..l]
  BY <1>1, <1>2
<1>4. \A i, j \in 1..l : by[i] = by[j] => i = j
  BY SMTT(30), <1>2 DEF Once
<1>5. ASSUME NEW j \in 1..l
      PROVE  \E i \in 1..l : by[i] = j
  <2>1. q[j] \in S
    BY DEF Once
  <2>a. S = {p[i] : i \in 1..l}
    BY DEF Once
  <2>2. PICK i \in 1..l : p[i] = q[j]
    BY <2>1, <2>a
  <2>3. by[i] \in 1..l /\ q[by[i]] = q[j]
    BY <1>2, <2>2
  <2>4. by[i] = j
    BY <2>3 DEF Once
  <2> QED BY <2>4
<1>6. by \in Bijection(1..l, 1..l)
  BY <1>3, <1>4, <1>5 DEF Bijection, Injection, Surjection, IsInjective
<1>7. f = [i \in 1..l |-> g[by[i]]]
  BY <1>2 DEF GoesWith
<1> QED BY <1>6, <1>7 DEF Reorderings

\* sorted is what std::sort by hops leaves of a routing.
SortsTo(routing, sorted, dist, l) ==
  /\ sorted \in Reorderings(routing) /\ InHops(sorted)
  /\ \E by : /\ Lists(by, l, 1..l, SoonerPlaces(dist, l))
             /\ l <= StableSort => sorted = [i \in 1..l |-> routing[by[i]]]

\* Whatever the length of the routing, it is in the order of hops; if it is
\* short, ties stay in their order.
LEMMA SortedFacts ==
  ASSUME NEW l \in Nat, NEW dist, \A i \in 1..l : dist[i] \in Nat, NEW routing,
         DOMAIN routing = 1..l, \A i \in 1..l : routing[i][2] = dist[i]
  PROVE  SortsTo(routing, Sorted(routing), dist, l)
<1>0. PICK place : place = SoonerPlaces(dist, l)
  OBVIOUS
<1>1. place = [j \in 1..l |-> {i \in 1..l : Sooner(dist, i, j)}]
  BY <1>0 DEF SoonerPlaces
<1>2. PICK by : by = InOrder(1..l, place)
  OBVIOUS
<1>3. Lists(by, l, 1..l, place)
  BY <1>1, <1>2, SortPlaces
<1>4. PICK stable : stable = SortedStably(routing)
  OBVIOUS
<1>5. stable = [i \in 1..l |-> routing[by[i]]]
  <2>1. place = [j \in 1..l |-> {i \in 1..l :
                   routing[i][2] < routing[j][2] \/ (routing[i][2] = routing[j][2] /\ i < j)}]
    BY <1>1 DEF Sooner
  <2> QED BY <1>2, <1>4, <2>1 DEF SortedStably
<1>6. ASSUME NEW i \in 1..l, NEW j \in 1..l, i < j
      PROVE  by[i] \in 1..l /\ by[j] \in 1..l /\ Sooner(dist, by[i], by[j])
  <2>1. by[i] \in 1..l /\ by[j] \in 1..l /\ by[i] \in place[by[j]]
    BY <1>3, <1>6 DEF Lists
  <2> QED BY <1>1, <2>1
<1>7. by \in Bijection(1..l, 1..l)
  <2>1. by \in [1..l -> 1..l] /\ 1..l = {by[i] : i \in 1..l}
    BY <1>3 DEF Lists
  <2>2. ASSUME NEW i \in 1..l, NEW j \in 1..l, by[i] = by[j]
        PROVE  i = j
    <3>1. ASSUME NEW x \in 1..l PROVE ~ Sooner(dist, x, x)
      BY DEF Sooner
    <3>2. ~(i < j) /\ ~(j < i)
      BY <1>6, <2>2, <3>1
    <3> QED BY <3>2
  <2>3. \A t \in 1..l : \E i \in 1..l : by[i] = t
    BY <2>1
  <2> QED BY <2>1, <2>2, <2>3 DEF Bijection, Injection, Surjection, IsInjective
<1>8. stable \in Reorderings(routing)
  BY <1>5, <1>7 DEF Reorderings
<1>9. InHops(stable)
  <2> SUFFICES ASSUME NEW i \in 1..l, NEW j \in 1..l, i < j
               PROVE  stable[i][2] <= stable[j][2]
    BY <1>5 DEF InHops
  <2>1. PICK a \in 1..l : a = by[i]
    BY <1>6
  <2>2. PICK b \in 1..l : b = by[j]
    BY <1>6
  <2>3. Sooner(dist, a, b) /\ dist[a] \in Nat /\ dist[b] \in Nat
    BY <1>6, <2>1, <2>2
  <2>4. stable[i] = routing[a] /\ stable[j] = routing[b]
    BY <1>5, <2>1, <2>2
  <2> QED BY <2>3, <2>4 DEF Sooner
<1>10. Sorted(routing) \in Reorderings(routing) /\ InHops(Sorted(routing))
  <2>1. CASE Len(routing) <= StableSort
    BY <1>4, <1>8, <1>9, <2>1 DEF Sorted
  <2>2. CASE ~(Len(routing) <= StableSort)
    <3>1. PICK all : all = Reorderings(routing)
      OBVIOUS
    <3>2. \E sorted \in all : InHops(sorted)
      BY <1>8, <1>9, <3>1
    <3>3. (CHOOSE sorted \in all : InHops(sorted)) \in all
          /\ InHops(CHOOSE sorted \in all : InHops(sorted))
      BY <3>2
    <3> QED BY <2>2, <3>1, <3>3 DEF Sorted
  <2> QED BY <2>1, <2>2
<1>11. Len(routing) = l
  OBVIOUS
<1>12. l <= StableSort => Sorted(routing) = [i \in 1..l |-> routing[by[i]]]
  BY <1>4, <1>5, <1>11 DEF Sorted
<1> QED BY <1>0, <1>3, <1>10, <1>12 DEF SortsTo

\* The ways of the network model, and a routing that is them but for the order
\* of ties at a node on many rings.
Ways(o, n, d) ==
  [j \in DOMAIN RingsVia(o, n, d) |->
     <<RingsVia(o, n, d)[j], Distance(o[RingsVia(o, n, d)[j]], n, d)>>]
AsWays(o, n, d, routing) ==
  IF Few(o, n) THEN routing = Ways(o, n, d)
  ELSE routing \in Reorderings(Ways(o, n, d)) /\ InHops(routing)

\* The rings in the order of the network model.
LEMMA ViaOnce ==
  ASSUME NEW k, NEW o, Web(k, o), NEW n, NEW d, d # n, NEW rings,
         rings = Shared(o, n, d, DOMAIN o), NEW l \in Nat, NEW way, Once(way, l, rings)
  PROVE  /\ Once(RingsVia(o, n, d), l, rings)
         /\ Few(o, n) => l <= StableSort
<1>1. PICK c \in Nat : DOMAIN o = 0..(c - 1)
  BY DEF Web
<1>2. IsFiniteSet(DOMAIN o)
  BY <1>1, FS_Interval
<1>3. RingsAt(o, n) \in SUBSET (DOMAIN o) /\ rings \in SUBSET RingsAt(o, n)
  BY DEF RingsAt, Shared
<1>4. IsFiniteSet(RingsAt(o, n))
  BY <1>2, <1>3, FS_Subset
<1>5. IsFiniteSet(rings) /\ Cardinality(rings) <= Cardinality(RingsAt(o, n))
  BY <1>3, <1>4, FS_Subset
<1>6. Cardinality(rings) = l
  <2>1. Cardinality({way[i] : i \in 1..l}) = l
    BY ImageSize DEF Once
  <2> QED BY <2>1 DEF Once
<1>7. Few(o, n) => l <= StableSort
  <2>1. Cardinality(RingsAt(o, n)) \in Nat
    BY <1>4, FS_CardinalityType
  <2> QED BY <1>5, <1>6, <2>1 DEF Few, StableSort
<1>8. PICK before : before = [b \in rings |-> {a \in rings : Nearer(o, n, d, a, b)}]
  OBVIOUS
<1>9. PICK via : via = RingsVia(o, n, d)
  OBVIOUS
<1>10. via = InOrder(rings, before) /\ IsOrder(rings, before)
  BY <1>8, <1>9, RingsViaIs
<1>11. Lists(via, l, rings, before)
  BY <1>5, <1>6, <1>10, InOrderLists
<1>12. ASSUME NEW i \in 1..l, NEW j \in 1..l, via[i] = via[j]
       PROVE  i = j
  <2>1. via[i] \in rings
    BY <1>11 DEF Lists
  <2>2. via[i] \notin before[via[i]]
    BY <1>10, <2>1 DEF IsOrder
  <2>3. ~(i < j) /\ ~(j < i)
    BY <1>11, <1>12, <2>2 DEF Lists
  <2> QED BY <2>3
<1>13. Once(via, l, rings)
  BY <1>11, <1>12 DEF Once, Lists
<1> QED BY <1>7, <1>9, <1>13

\* A routing is sorted into the ways of the network model.
LEMMA SortedWays ==
  ASSUME NEW k, NEW o, Web(k, o), NEW n, NEW d, d # n,
         NEW routing, Learnt(o, routing, n, d, DOMAIN o)
  PROVE  /\ AsWays(o, n, d, Sorted(routing))
         /\ Shared(o, n, d, DOMAIN o) # {} => RingsVia(o, n, d) # <<>>
         /\ \E l \in Nat : /\ DOMAIN RingsVia(o, n, d) = 1..l
                           /\ \A j \in 1..l : RingsVia(o, n, d)[j] \in Shared(o, n, d, DOMAIN o)
<1>1. PICK way : /\ way \in Seq(Nat) /\ IsRouting(o, way, routing, n, d)
                 /\ ToSet(way) = Shared(o, n, d, DOMAIN o) /\ InTurn(o, n, way)
  BY DEF Learnt
<1>2. PICK l \in Nat : l = Len(way) /\ DOMAIN way = 1..l
  BY <1>1
<1>3. PICK rings : rings = Shared(o, n, d, DOMAIN o)
  OBVIOUS
<1>4. PICK before : before = [b \in rings |-> {a \in rings : Nearer(o, n, d, a, b)}]
  OBVIOUS
<1>5. /\ RingsVia(o, n, d) = InOrder(rings, before)
      /\ IsOrder(rings, before)
      /\ \A r \in rings : r \in Nat /\ Len(o[r]) \in Nat /\ Distance(o[r], n, d) \in Nat
  BY <1>3, <1>4, RingsViaIs
<1>6. PICK dist : dist = [i \in 1..l |-> Distance(o[way[i]], n, d)]
  OBVIOUS
<1>7. routing = [i \in 1..l |-> <<way[i], dist[i]>>]
  BY <1>1, <1>2, <1>6 DEF IsRouting
<1>8. \A i \in 1..l : way[i] \in rings
  BY <1>1, <1>2, <1>3 DEF ToSet
<1>9. \A i \in 1..l : dist[i] \in Nat
  BY <1>5, <1>6, <1>8
<1>10. Once(way, l, rings)
  <2>1. way \in [1..l -> rings]
    BY <1>1, <1>2, <1>8
  <2>2. rings = {way[i] : i \in 1..l}
    BY <1>1, <1>2, <1>3 DEF ToSet
  <2>3. ASSUME NEW i \in 1..l, NEW j \in 1..l, way[i] = way[j]
        PROVE  i = j
    <3>1. ~(i < j) /\ ~(j < i)
      BY <1>1, <1>2, <2>3 DEF InTurn
    <3> QED BY <3>1
  <2> QED BY <2>1, <2>2, <2>3 DEF Once
<1>11. PICK via : via = RingsVia(o, n, d)
  OBVIOUS
<1>12. Once(via, l, rings) /\ (Few(o, n) => l <= StableSort)
  BY <1>3, <1>10, <1>11, ViaOnce
<1>a. PICK place : place = SoonerPlaces(dist, l)
  OBVIOUS
<1>13. place = [j \in 1..l |-> {i \in 1..l : Sooner(dist, i, j)}]
  BY <1>a DEF SoonerPlaces
<1>14. PICK sorted : sorted = Sorted(routing)
  OBVIOUS
<1>15. PICK by : /\ sorted \in Reorderings(routing) /\ InHops(sorted)
                 /\ Lists(by, l, 1..l, place)
                 /\ l <= StableSort => sorted = [i \in 1..l |-> routing[by[i]]]
  <2>1. DOMAIN routing = 1..l /\ \A i \in 1..l : routing[i][2] = dist[i]
    BY <1>7
  <2>2. SortsTo(routing, Sorted(routing), dist, l)
    BY <1>9, <2>1, SortedFacts
  <2> QED BY <1>a, <1>14, <2>2 DEF SortsTo
<1>16. Ways(o, n, d) = [i \in 1..l |-> <<via[i], Distance(o[via[i]], n, d)>>]
  <2>1. DOMAIN via = 1..l
    BY <1>12 DEF Once
  <2> QED BY <1>11, <2>1 DEF Ways
<1>17. sorted \in Reorderings(Ways(o, n, d))
  <2>1. PICK b \in Bijection(1..l, 1..l) : sorted = [i \in 1..l |-> routing[b[i]]]
    <3>1. DOMAIN routing = 1..l
      BY <1>7
    <3> QED BY <1>15, <3>1 DEF Reorderings
  <2>2. /\ b \in [1..l -> 1..l]
        /\ \A i, j \in 1..l : b[i] = b[j] => i = j
        /\ \A j \in 1..l : \E i \in 1..l : b[i] = j
    BY DEF Bijection, Injection, Surjection, IsInjective
  <2>3. PICK q : q = [i \in 1..l |-> way[b[i]]]
    OBVIOUS
  <2>4. Once(q, l, rings)
    <3>1. q \in [1..l -> rings]
      BY <1>8, <2>2, <2>3
    <3>2. ASSUME NEW r \in rings PROVE \E i \in 1..l : r = q[i]
      <4>1. PICK a \in 1..l : r = way[a]
        BY <1>10 DEF Once
      <4>2. PICK i \in 1..l : b[i] = a
        BY <2>2
      <4> QED BY <2>3, <4>1, <4>2
    <3>3. ASSUME NEW i \in 1..l, NEW j \in 1..l, q[i] = q[j]
          PROVE  i = j
      <4>1. way[b[i]] = way[b[j]] /\ b[i] \in 1..l /\ b[j] \in 1..l
        BY <2>2, <2>3, <3>3
      <4>2. b[i] = b[j]
        BY <1>10, <4>1 DEF Once
      <4> QED BY <2>2, <4>2
    <3>4. rings = {q[i] : i \in 1..l}
      BY <3>1, <3>2
    <3> QED BY <3>1, <3>3, <3>4 DEF Once
  <2>5. ASSUME NEW i \in 1..l
        PROVE  sorted[i] = <<q[i], Distance(o[q[i]], n, d)>>
    <3>1. PICK a \in 1..l : a = b[i]
      BY <2>2
    <3>2. sorted[i] = <<way[a], dist[a]>> /\ q[i] = way[a]
      BY <1>7, <2>1, <2>3, <3>1
    <3> QED BY <1>6, <3>2
  <2>6. PICK g : g = Ways(o, n, d)
    OBVIOUS
  <2>7. GoesWith(sorted, q, g, via, l)
    BY <1>16, <2>5, <2>6 DEF GoesWith
  <2>8. DOMAIN g = 1..l /\ sorted = [i \in 1..l |-> sorted[i]]
    BY <1>16, <2>1, <2>6
  <2>9. sorted \in Reorderings(g)
    BY <1>12, <2>4, <2>7, <2>8, Reordered
  <2> QED BY <2>6, <2>9
<1>18. ASSUME Few(o, n)
       PROVE  sorted = Ways(o, n, d)
  <2>a. sorted = [i \in 1..l |-> routing[by[i]]]
    BY <1>12, <1>15, <1>18
  <2>b. \A i \in 1..l : by[i] \in 1..l
    BY <1>15 DEF Lists
  <2>1. PICK q : q = [i \in 1..l |-> way[by[i]]]
    OBVIOUS
  <2>2. Lists(q, l, rings, before)
    <3>1. q \in [1..l -> rings]
      BY <1>8, <2>1, <2>b
    <3>2. rings = {q[i] : i \in 1..l}
      <4>1. ASSUME NEW r \in rings
            PROVE  \E i \in 1..l : r = q[i]
        <5>1. PICK a \in 1..l : r = way[a]
          BY <1>10 DEF Once
        <5>2. PICK i \in 1..l : by[i] = a
          BY <1>15 DEF Lists
        <5> QED BY <2>1, <5>1, <5>2
      <4> QED BY <3>1, <4>1
    <3>3. ASSUME NEW i \in 1..l, NEW j \in 1..l, i < j
          PROVE  q[i] \in before[q[j]]
      <4>1. PICK a \in 1..l : a = by[i]
        BY <2>b
      <4>2. PICK b \in 1..l : b = by[j]
        BY <2>b
      <4>3. Sooner(dist, a, b)
        <5>1. by[i] \in place[by[j]]
          BY <1>15, <3>3 DEF Lists
        <5> QED BY <1>13, <4>1, <4>2, <5>1
      <4>4. q[i] = way[a] /\ q[j] = way[b]
        BY <2>1, <4>1, <4>2
      <4>5. Nearer(o, n, d, way[a], way[b])
        <5>1. dist[a] = Distance(o[way[a]], n, d) /\ dist[b] = Distance(o[way[b]], n, d)
          BY <1>6
        <5>2. a < b => Earlier(o, way[a], way[b])
          BY <1>1, <1>2, <1>18 DEF InTurn
        <5> QED BY <4>3, <5>1, <5>2 DEF Sooner, Nearer
      <4> QED BY <1>4, <1>8, <4>4, <4>5
    <3> QED BY <3>1, <3>2, <3>3 DEF Lists
  <2>3. via = q
    BY <1>5, <1>11, <2>2, InOrderIs
  <2>4. ASSUME NEW i \in 1..l
        PROVE  routing[by[i]] = <<q[i], Distance(o[q[i]], n, d)>>
    BY <1>6, <1>7, <2>b, <2>1
  <2> QED BY <1>16, <2>a, <2>3, <2>4
<1>19. AsWays(o, n, d, Sorted(routing))
  BY <1>14, <1>15, <1>17, <1>18 DEF AsWays
<1>20. DOMAIN via = 1..l /\ \A j \in 1..l : via[j] \in rings
  BY <1>12 DEF Once
<1>21. rings # {} => via # <<>>
  <2> SUFFICES ASSUME NEW r \in rings, via = <<>> PROVE FALSE
    OBVIOUS
  <2>1. PICK i \in 1..l : r = via[i]
    BY <1>12 DEF Once
  <2>2. DOMAIN via = {}
    OBVIOUS
  <2> QED BY <1>20, <2>1, <2>2
<1> QED BY <1>3, <1>11, <1>19, <1>20, <1>21

-----------------------------------------------------------------------------
(* The control packets of the whole network.                               *)

\* A network has a ring, whatever its size.
LEMMA RingNumPositive == ASSUME NEW k \in Nat, k > 1 PROVE CalRingNum[k] >= 1
<1>1. \A i \in Nat : CalRingNum[i] = IF i = 0 \/ i = 1 THEN 0
                                     ELSE IF i = 2 THEN 2
                                     ELSE 1 + 2 * (i - 2) + i - 1 + CalRingNum[i - 2]
  BY RingNumIs DEF IsRingNum
<1> DEFINE AtLeast(i) == CalRingNum[i] \in Nat /\ (i > 1 => CalRingNum[i] >= 1)
           Done == {n \in Nat : AtLeast(n) /\ AtLeast(n + 1)}
<1>2. 0 \in Done
  BY <1>1
<1>3. ASSUME NEW n \in Nat, n \in Done
      PROVE  n + 1 \in Done
  <2>1. PICK i \in Nat : i = (n + 1) + 1 /\ i - 2 = n /\ i >= 2
    <3>1. (n + 1) + 1 \in Nat /\ ((n + 1) + 1) - 2 = n
      OBVIOUS
    <3> QED BY <3>1
  <2>2. CASE i = 2
    BY <1>1, <1>3, <2>1, <2>2
  <2>3. CASE i # 2
    <3>1. CalRingNum[i] = 1 + 2 * (i - 2) + i - 1 + CalRingNum[i - 2]
      BY <1>1, <2>1, <2>3
    <3>2. CalRingNum[i - 2] \in Nat
      BY <1>3, <2>1
    <3>3. CalRingNum[i] \in Nat /\ CalRingNum[i] >= 1
      BY <2>1, <2>3, <3>1, <3>2
    <3> QED BY <1>3, <2>1, <3>3
  <2> QED BY <2>2, <2>3
<1>4. k \in Done
  <2> HIDE DEF Done
  <2> QED BY <1>2, <1>3, Induction
<1> QED BY <1>4

\* Without rings no control packet is ever handled.
LEMMA HandledOnRlrec ==
  ASSUME ConfInv, BuildInv, stage \in {"handle", "sort", "ready"}
  PROVE  RlrecUsed /\ RingsBuilt
<1>1. ConfFacts(conf) /\ RingsInv /\ Ring \subseteq Built
  BY ConfKnown DEF BuildInv, Running, Sending
<1>2. PICK k \in Nat : k = conf.mesh_dim /\ k > 1
  BY <1>1 DEF ConfFacts
<1>3. CalRingNum[k] \in Int => 0 \in Ring
  <2>1. CalRingNum[k] >= 1
    BY <1>2, RingNumPositive
  <2> QED BY <1>2, <2>1 DEF Ring
<1>4. CalRingNum[k] \in Int
  <2>1. \A i \in Nat : CalRingNum[i] = IF i = 0 \/ i = 1 THEN 0
                                       ELSE IF i = 2 THEN 2
                                       ELSE 1 + 2 * (i - 2) + i - 1 + CalRingNum[i - 2]
    BY RingNumIs DEF IsRingNum
  <2> DEFINE Done == {n \in Nat : CalRingNum[n] \in Int /\ CalRingNum[n + 1] \in Int}
  <2>2. 0 \in Done
    BY <2>1
  <2>3. ASSUME NEW n \in Nat, n \in Done PROVE n + 1 \in Done
    <3>1. (n + 1) + 1 \in Nat /\ ((n + 1) + 1) - 2 = n /\ (n + 1) + 1 >= 2
      OBVIOUS
    <3> QED BY <2>1, <2>3, <3>1
  <2>4. k \in Done
    <3> HIDE DEF Done
    <3> QED BY <2>2, <2>3, Induction
  <2> QED BY <2>4
<1>5. 0 \in Built
  BY <1>1, <1>3, <1>4
<1> QED BY <1>1, <1>5, BuiltFacts DEF RingsBuilt

\* What does not change while the packets are sent.
Orders == [r \in Ring |-> NodesOf(r)]
\* k is the size of the mesh and o the rings; both are settled.
Settled(k, o) ==
  /\ k = conf.mesh_dim /\ EvenMesh(k) /\ RlrecUsed
  /\ o = Orders /\ DOMAIN o = Ring /\ Web(k, o)
  /\ Node = 0..(k * k - 1) /\ LastNode \in Nat \ {0} /\ Node = 0..LastNode
  /\ \A r \in Ring : o[r] = NodesOf(r) /\ IsCycle(k, o[r])
  /\ \A n \in Node :
       /\ curr_ring[n] \in Seq(Nat) /\ Increasing(curr_ring[n])
       /\ ToSet(curr_ring[n]) = {r \in Ring : n \in ToSet(o[r])}

\* Once the rings are built they are settled.
LEMMA Settles ==
  ASSUME ConfInv, BuildInv, RingsBuilt
  PROVE  Settled(conf.mesh_dim, Orders)
<1>1. /\ ConfFacts(conf) /\ EvenMesh(conf.mesh_dim) /\ RingsInv /\ KnownInv
      /\ Built = Ring /\ RlrecUsed
  BY AllBuilt DEF RingsBuilt
<1>2. PICK k : k = conf.mesh_dim
  OBVIOUS
<1>3. PICK o : o = Orders
  OBVIOUS
<1>4. DOMAIN o = Ring /\ \A r \in Ring : o[r] = NodesOf(r)
  BY <1>3 DEF Orders
<1>5. \A r \in Ring : IsCycle(k, o[r])
  BY <1>1, <1>2, <1>4, BuiltFacts
<1>6. Web(k, o)
  <2>1. PICK c \in Nat : Ring = 0..(c - 1)
    BY <1>1 DEF RingsInv, Built
  <2> QED BY <1>4, <1>5, <2>1 DEF Web
<1>7. LastNode \in Nat \ {0} /\ Node = 0..(k * k - 1) /\ Node = 0..LastNode
  BY <1>1, <1>2, MeshFacts DEF Node, LastNode
<1>8. ASSUME NEW n \in Node
      PROVE  /\ curr_ring[n] \in Seq(Nat) /\ Increasing(curr_ring[n])
             /\ ToSet(curr_ring[n]) = {r \in Ring : n \in ToSet(o[r])}
  BY <1>1, <1>4 DEF KnownInv, KnownAt, Increasing
<1> QED BY <1>1, <1>2, <1>3, <1>4, <1>5, <1>6, <1>7, <1>8 DEF Settled

\* They stay settled while conf, order and curr_ring stay.
LEMMA SettledKept ==
  ASSUME NEW k, NEW o, Settled(k, o), UNCHANGED <<conf, order, curr_ring>>
  PROVE  Settled(k, o)' /\ Orders' = Orders /\ Node' = Node /\ Ring' = Ring
BY DEF Settled, Orders, Ring, Node, LastNode, Nodes, NodesOf, RlrecUsed

\* The packets on their way, and the tables.
Injecting(o) ==
  \A r \in Ring : Circulating(attached[r], o[r], {x \in ToSet(o[r]) : x < turn}, 0, Node)
\* The packets after m moves, the last of which the nodes in served handled.
UnderWay(o, m, served) ==
  \A r \in Ring : Circulating(attached[r], o[r], Away(o[r], m, served), m, served)
\* The rings node n has its packet back from.
Back(o, n, m, served) ==
  {r \in DOMAIN o : Len(o[r]) < m \/ (Len(o[r]) = m /\ n \in served)}
\* What the nodes have learnt after that.
Tables(o, m, served) ==
  /\ table = [n \in Node |-> table[n]]
  /\ \A n \in Node : TableOf(o, table[n], n, Node, Back(o, n, m, served))
\* No control packet is left.
Gone == \A r \in Ring : attached[r] = <<>>

\* A node's rings are noted once.
LEMMA NotedOnce ==
  ASSUME NEW known, known \in Seq(Nat), Increasing(known), NEW r
  PROVE  Cardinality(Occurrences(known, r)) = IF r \in ToSet(known) THEN 1 ELSE 0
<1>1. PICK l \in Nat : l = Len(known) /\ DOMAIN known = 1..l
  OBVIOUS
<1>2. CASE r \in ToSet(known)
  <2>1. PICK i \in 1..l : known[i] = r
    BY <1>1, <1>2 DEF ToSet
  <2>2. ASSUME NEW j \in 1..l, known[j] = r
        PROVE  j = i
    <3>1. ~(j < i) /\ ~(i < j)
      BY <1>1, <2>1, <2>2 DEF Increasing
    <3> QED BY <3>1
  <2>3. Occurrences(known, r) = {i}
    BY <1>1, <2>1, <2>2 DEF Occurrences
  <2> QED BY <1>2, <2>3, FS_Singleton
<1>3. CASE r \notin ToSet(known)
  <2>1. Occurrences(known, r) = {}
    BY <1>3 DEF Occurrences, ToSet
  <2> QED BY <1>3, <2>1, FS_EmptySet
<1> QED BY <1>2, <1>3

\* The packets of one more node.
LEMMA InjectStep ==
  ASSUME NEW k, NEW o, Settled(k, o), turn \in Node, Injecting(o), InjectControl
  PROVE  IF turn = LastNode THEN stage' = "move" /\ turn' = 0 /\ UnderWay(o, 0, Node)'
         ELSE stage' = "inject" /\ Injecting(o)'
<1>1. /\ Node = 0..LastNode /\ LastNode \in Nat \ {0} /\ Node = 0..(k * k - 1)
      /\ \A r \in Ring : IsCycle(k, o[r])
  BY DEF Settled
<1>2. PICK n \in Nat : n = turn /\ n <= LastNode
  BY <1>1
<1>3. PICK new : new = attached'
  OBVIOUS
<1>4. new = [r \in Ring |-> attached[r]
               \o [i \in 1..Cardinality(Occurrences(curr_ring[n], r)) |-> NewControl(n)]]
  BY <1>2, <1>3 DEF InjectControl, InjectingNode
<1>5. UNCHANGED <<conf, order, curr_ring>> /\ NodeLoop("move") /\ stage = "inject"
  BY DEF InjectControl
<1>6. Ring' = Ring /\ Node' = Node
  BY <1>5, SettledKept
<1>7. ASSUME NEW r \in Ring
      PROVE  Circulating(new[r], o[r], {x \in ToSet(o[r]) : x < n + 1}, 0, Node)
  <2>1. PICK s : s = o[r]
    OBVIOUS
  <2>2. IsCycle(k, s)
    BY <1>1, <2>1
  <2>3. Circulating(attached[r], s, {x \in ToSet(s) : x < n}, 0, Node)
    BY <1>2, <2>1 DEF Injecting
  <2>4. PICK add : add = IF n \in ToSet(s) THEN 1 ELSE 0
    OBVIOUS
  <2>5. Cardinality(Occurrences(curr_ring[n], r)) = add
    <3>1. /\ curr_ring[n] \in Seq(Nat) /\ Increasing(curr_ring[n])
          /\ (r \in ToSet(curr_ring[n]) <=> n \in ToSet(s))
      BY <1>2, <2>1 DEF Settled
    <3>2. Cardinality(Occurrences(curr_ring[n], r)) = IF r \in ToSet(curr_ring[n]) THEN 1 ELSE 0
      BY <3>1, NotedOnce
    <3> QED BY <2>4, <3>1, <3>2
  <2>6. new[r] = attached[r] \o [i \in 1..add |-> NewControl(n)]
    BY <1>4, <2>5
  <2>7. Circulating(new[r], s, {x \in ToSet(s) : x < n + 1}, 0, Node)
    BY <1>1, <2>2, <2>3, <2>4, <2>6, InjectOne
  <2> QED BY <2>1, <2>7
<1>8. CASE turn = LastNode
  <2>1. stage' = "move" /\ turn' = 0
    BY <1>5, <1>8 DEF NodeLoop
  <2>2. ASSUME NEW r \in Ring
        PROVE  Circulating(new[r], o[r], Away(o[r], 0, Node), 0, Node)
    <3>1. \A x \in Node : x < n + 1
      BY <1>1, <1>2, <1>8
    <3>2. PICK s : s = o[r]
      OBVIOUS
    <3>3. IsCycle(k, s) /\ Circulating(new[r], s, {x \in ToSet(s) : x < n + 1}, 0, Node)
      BY <1>1, <1>7, <3>2
    <3>4. Circulating(new[r], s, Away(s, 0, Node), 0, Node)
      BY <1>1, <3>1, <3>3, InjectAll
    <3> QED BY <3>2, <3>4
  <2> QED BY <1>3, <1>6, <1>8, <2>1, <2>2 DEF UnderWay
<1>9. CASE turn # LastNode
  <2>1. stage' = "inject" /\ turn' = n + 1
    BY <1>2, <1>5, <1>9 DEF NodeLoop
  <2> QED BY <1>3, <1>6, <1>7, <1>9, <2>1 DEF Injecting
<1> QED BY <1>8, <1>9

\* All packets move; no node is served yet.
LEMMA MoveStep ==
  ASSUME NEW k, NEW o, Settled(k, o), NEW m \in Nat, UnderWay(o, m, Node), MoveControl
  PROVE  UnderWay(o, m + 1, {})'
<1>1. /\ Node = 0..(k * k - 1) /\ \A r \in Ring : IsCycle(k, o[r]) /\ o[r] = NodesOf(r)
  BY DEF Settled
<1>2. PICK new : new = attached'
  OBVIOUS
<1>3. UNCHANGED <<conf, order, curr_ring>>
  BY DEF MoveControl
<1>4. Ring' = Ring
  BY <1>3, SettledKept
<1>5. ASSUME NEW r \in Ring
      PROVE  Circulating(new[r], o[r], Away(o[r], m + 1, {}), m + 1, {})
  <2>1. PICK s : s = o[r]
    OBVIOUS
  <2>2. IsCycle(k, s) /\ s = NodesOf(r)
    BY <1>1, <2>1
  <2>3. PICK ps : ps = attached[r]
    OBVIOUS
  <2>4. Circulating(ps, s, Away(s, m, Node), m, Node)
    BY <2>1, <2>3 DEF UnderWay
  <2>5. new[r] = [i \in DOMAIN ps |-> MovedOn(s, ps[i])]
    BY <1>2, <2>2, <2>3 DEF MoveControl, MovedOn
  <2>6. Circulating(new[r], s, Away(s, m + 1, {}), m + 1, {})
    BY <1>1, <2>2, <2>4, <2>5, MoveAll
  <2> QED BY <2>1, <2>6
<1> QED BY <1>2, <1>4, <1>5 DEF UnderWay

-----------------------------------------------------------------------------
(* A node's turn to handle its packets.                                    *)

\* What a node does with a ring depends on the packets of this ring only.
LEMMA SameRing ==
  ASSUME NEW k, NEW o, Settled(k, o), NEW n \in Node, NEW r \in Ring
  PROVE  /\ Arrived(n, r) <=> ArrivedIn(attached[r], o[r], n)
         /\ Returned(n, r) <=> ReturnedIn(attached[r], o[r], n)
         /\ Arrived(n, r) => Handled(n, r) = HandledIn(attached[r], n)
         /\ First(n, r) = FirstIn(attached[r], n)
<1>1. r \in ToSet(curr_ring[n]) <=> n \in ToSet(o[r])
  BY DEF Settled
<1>2. Here(n, r) = HereIn(attached[r], n)
  BY DEF Here, HereIn
<1>3. First(n, r) = FirstIn(attached[r], n)
  BY <1>2 DEF First, FirstIn
<1>4. Arrived(n, r) <=> ArrivedIn(attached[r], o[r], n)
  BY <1>1, <1>2 DEF Arrived, ArrivedIn
<1>5. Returned(n, r) <=> ReturnedIn(attached[r], o[r], n)
  BY <1>3, <1>4 DEF Returned, ReturnedIn
<1>6. ASSUME Arrived(n, r)
      PROVE  Handled(n, r) = HandledIn(attached[r], n)
  <2>1. Returned(n, r) <=> attached[r][FirstIn(attached[r], n)].src = n
    BY <1>3, <1>6 DEF Returned
  <2> QED BY <1>3, <2>1 DEF Handled, HandledIn
<1> QED BY <1>3, <1>4, <1>5, <1>6

\* What comes back to node n in its turn, and what stays.
ServedAll(o, m, n, left) ==
  \A r \in Ring :
    /\ Circulating(left[r], o[r], Away(o[r], m, 0..n), m, 0..n)
    /\ Returned(n, r) <=> Len(o[r]) = m /\ n \in ToSet(o[r])
    /\ Returned(n, r) => Noted(n, r) = Notes(o[r], n)

\* Node n handles its packets of all rings.
LEMMA HandleAll ==
  ASSUME NEW k, NEW o, Settled(k, o), NEW m \in Nat \ {0}, NEW n, n \in Node, n \in Nat,
         UnderWay(o, m, 0..(n - 1)), NEW left,
         left = [r \in Ring |-> IF Arrived(n, r) THEN Handled(n, r) ELSE attached[r]]
  PROVE  ServedAll(o, m, n, left)
<1> SUFFICES ASSUME NEW r \in Ring
             PROVE  /\ Circulating(left[r], o[r], Away(o[r], m, 0..n), m, 0..n)
                    /\ Returned(n, r) <=> Len(o[r]) = m /\ n \in ToSet(o[r])
                    /\ Returned(n, r) => Noted(n, r) = Notes(o[r], n)
  BY DEF ServedAll
<1>1. PICK s : s = o[r]
  OBVIOUS
<1>2. PICK ps : ps = attached[r]
  OBVIOUS
<1>3. IsCycle(k, s)
  BY <1>1 DEF Settled
<1>4. Circulating(ps, s, Away(s, m, 0..(n - 1)), m, 0..(n - 1))
  BY <1>1, <1>2 DEF UnderWay
<1>5. /\ Arrived(n, r) <=> ArrivedIn(ps, s, n)
      /\ Returned(n, r) <=> ReturnedIn(ps, s, n)
      /\ Arrived(n, r) => Handled(n, r) = HandledIn(ps, n)
      /\ First(n, r) = FirstIn(ps, n)
  BY <1>1, <1>2, SameRing
<1>6. left[r] = IF ArrivedIn(ps, s, n) THEN HandledIn(ps, n) ELSE ps
  BY <1>2, <1>5
<1>7. Served(ps, s, m, n, left[r])
  BY <1>3, <1>4, <1>6, HandleOne
<1>8. Noted(n, r) = ps[FirstIn(ps, n)].sniffed
  BY <1>2, <1>5 DEF Noted
<1> QED BY <1>1, <1>5, <1>7, <1>8 DEF Served, Notes

\* The nodes that share one of these rings with node n.
Sharing(o, n, all, R) == {d \in all \ {n} : Shared(o, n, d, R) # {}}

\* The nodes that returned packets noted.
LEMMA NewNodes ==
  ASSUME NEW k, NEW o, Settled(k, o), NEW m, NEW n \in Node, NEW left, ServedAll(o, m, n, left)
  PROVE  NewDestinations(n) = Sharing(o, n, Node, ComingBack(o, n, m))
<1>a. PICK Q : Q = ComingBack(o, n, m)
  OBVIOUS
<1>b. Q = {r \in DOMAIN o : Len(o[r]) = m /\ n \in ToSet(o[r])}
  BY <1>a DEF ComingBack
<1>1. /\ Node = 0..(k * k - 1) /\ DOMAIN o = Ring
      /\ \A r \in Ring : IsCycle(k, o[r])
  BY DEF Settled
<1>2. ASSUME NEW r \in Ring
      PROVE  /\ r \in Q <=> Returned(n, r)
             /\ r \in Q => Noted(n, r) = Notes(o[r], n)
  BY <1>1, <1>b DEF ServedAll
<1>3. PICK notes : notes = UNION {IF Returned(n, r) THEN ToSet(Noted(n, r)) ELSE {} : r \in Ring}
  OBVIOUS
<1>4. NewDestinations(n) = {note.node : note \in notes}
  BY <1>3 DEF NewDestinations
<1>5. ASSUME NEW note \in notes
      PROVE  note.node \in {d \in Node \ {n} : Shared(o, n, d, Q) # {}}
  <2>1. PICK r \in Ring : Returned(n, r) /\ note \in ToSet(Noted(n, r))
    BY <1>3
  <2>2. PICK s : s = o[r]
    OBVIOUS
  <2>3. r \in Q /\ note \in ToSet(Notes(s, n)) /\ n \in ToSet(s) /\ IsCycle(k, s)
    BY <1>1, <1>2, <1>b, <2>1, <2>2
  <2>4. PICK j \in 1..(Len(s) - 1) : note = [node |-> Hops(s, n, j), hop |-> j]
    BY <2>3 DEF ToSet, Notes
  <2>5. PICK d : d = Hops(s, n, j)
    OBVIOUS
  <2>6. Len(s) \in Nat /\ ToSet(s) \subseteq Node
    BY <1>1, <2>3, CycleNodes
  <2>7. d \in ToSet(s)
    <3>1. j \in Nat
      BY <2>6
    <3> QED BY <2>3, <2>5, <3>1, HopFacts
  <2>8. d # n
    <3>1. j \in 0..(Len(s) - 1) /\ j # 0
      BY <2>6
    <3>2. Distance(s, n, d) = j /\ Distance(s, n, n) = 0
      BY <2>3, <2>5, <3>1, DistanceFacts
    <3> QED BY <3>1, <3>2
  <2>9. r \in Shared(o, n, d, Q)
    BY <2>2, <2>3, <2>7 DEF Shared
  <2> QED BY <2>4, <2>5, <2>6, <2>7, <2>8, <2>9
<1>6. ASSUME NEW d \in Node \ {n}, Shared(o, n, d, Q) # {}
      PROVE  \E note \in notes : d = note.node
  <2>1. PICK r \in Q : {n, d} \subseteq ToSet(o[r])
    BY <1>6 DEF Shared
  <2>2. PICK s : s = o[r]
    OBVIOUS
  <2>3. r \in Ring /\ Returned(n, r) /\ Noted(n, r) = Notes(s, n) /\ IsCycle(k, s)
    BY <1>1, <1>2, <1>b, <2>2
  <2>4. PICK j : j = Distance(s, n, d)
    OBVIOUS
  <2>5. j \in 0..(Len(s) - 1) /\ Hops(s, n, j) = d /\ j # 0
    BY <2>1, <2>2, <2>3, <2>4, DistanceFacts
  <2>6. Len(s) \in Nat
    BY <2>3, CycleNodes
  <2>7. j \in 1..(Len(s) - 1)
    BY <2>5, <2>6
  <2>8. PICK note : note = [node |-> Hops(s, n, j), hop |-> j]
    OBVIOUS
  <2>9. note \in ToSet(Notes(s, n)) /\ note.node = d
    BY <2>5, <2>7, <2>8 DEF ToSet, Notes
  <2>10. note \in notes
    BY <1>3, <2>3, <2>9
  <2> QED BY <2>9, <2>10
<1>7. NewDestinations(n) = {d \in Node \ {n} : Shared(o, n, d, Q) # {}}
  BY <1>4, <1>5, <1>6
<1> QED BY <1>a, <1>7 DEF Sharing

\* A node knows whether its rings are few.
LEMMA FewKnown ==
  ASSUME NEW k, NEW o, Settled(k, o), NEW n \in Node
  PROVE  Few(o, n) <=> Len(curr_ring[n]) <= StableSort
<1>1. PICK known : known = curr_ring[n]
  OBVIOUS
<1>2. known \in Seq(Nat) /\ Increasing(known) /\ ToSet(known) = RingsAt(o, n)
  BY <1>1 DEF Settled, RingsAt
<1>3. PICK l \in Nat : l = Len(known) /\ DOMAIN known = 1..l
  BY <1>2
<1>4. ASSUME NEW i \in 1..l, NEW j \in 1..l, known[i] = known[j]
      PROVE  i = j
  <2>1. known[i] \in Nat /\ known[j] \in Nat
    BY <1>2, <1>3
  <2>2. ~(i < j) /\ ~(j < i)
    BY <1>2, <1>3, <1>4, <2>1 DEF Increasing
  <2> QED BY <2>2
<1>5. Cardinality({known[i] : i \in 1..l}) = l
  BY <1>4, ImageSize
<1>6. {known[i] : i \in 1..l} = RingsAt(o, n)
  BY <1>2, <1>3 DEF ToSet
<1> QED BY <1>1, <1>3, <1>5, <1>6 DEF Few

\* b puts l places in another order.
Shuffles(b, l) ==
  /\ b \in [1..l -> 1..l] /\ \A i, j \in 1..l : b[i] = b[j] => i = j
  /\ \A j \in 1..l : \E i \in 1..l : b[i] = j
\* ret are the l rings of node n.
AllOf(o, n, ret, l) ==
  /\ ret \in Seq(Nat) /\ Len(ret) = l /\ ToSet(ret) = RingsAt(o, n)
  /\ \A i, j \in 1..l : i < j => ret[i] # ret[j]

\* Whatever order the sort gives them in, the rings of the node are all there.
LEMMA ReturnFacts ==
  ASSUME NEW k, NEW o, Settled(k, o), NEW n \in Node, NEW ret \in ReturnOrders(n)
  PROVE  IsReturn(o, n, ret)
<1>1. PICK known : known = curr_ring[n]
  OBVIOUS
<1>2. known \in Seq(Nat) /\ Increasing(known) /\ ToSet(known) = RingsAt(o, n)
  BY <1>1 DEF Settled, RingsAt
<1>3. PICK l \in Nat : l = Len(known) /\ DOMAIN known = 1..l
  BY <1>2
<1>4. \A i \in 1..l : known[i] \in Nat /\ known[i] \in ToSet(known)
  BY <1>2, <1>3 DEF ToSet
<1>5. \A i, j \in 1..l : i < j => known[i] < known[j]
  BY <1>2, <1>3 DEF Increasing
<1>6. Few(o, n) <=> l <= StableSort
  BY <1>1, <1>3, FewKnown
<1>7. ASSUME NEW b, Shuffles(b, l), ret = [i \in 1..l |-> known[b[i]]]
      PROVE  AllOf(o, n, ret, l)
  <2>a. /\ b \in [1..l -> 1..l] /\ \A i, j \in 1..l : b[i] = b[j] => i = j
        /\ \A j \in 1..l : \E i \in 1..l : b[i] = j
    BY <1>7 DEF Shuffles
  <2>1. ret \in [1..l -> Nat]
    BY <1>4, <1>7, <2>a
  <2>2. ret \in Seq(Nat) /\ Len(ret) = l /\ DOMAIN ret = 1..l
    BY <1>7, <2>1
  <2>3. ASSUME NEW r \in ToSet(known)
        PROVE  \E i \in 1..l : ret[i] = r
    <3>1. PICK j \in 1..l : known[j] = r
      BY <1>3 DEF ToSet
    <3>2. PICK i \in 1..l : b[i] = j
      BY <2>a
    <3> QED BY <1>7, <3>1, <3>2
  <2>4. \A i \in 1..l : ret[i] \in ToSet(known)
    BY <1>4, <1>7, <2>a
  <2>5. ToSet(ret) = ToSet(known)
    BY ZenonT(30), <2>2, <2>3, <2>4 DEF ToSet
  <2>6. ASSUME NEW i \in 1..l, NEW j \in 1..l, i < j
        PROVE  ret[i] # ret[j]
    <3>1. b[i] \in 1..l /\ b[j] \in 1..l /\ b[i] # b[j]
      BY <2>a, <2>6
    <3>2. b[i] < b[j] \/ b[j] < b[i]
      BY <3>1
    <3>3. known[b[i]] # known[b[j]]
      BY <1>4, <1>5, <3>1, <3>2
    <3> QED BY <1>7, <3>3
  <2> QED BY <1>2, <2>2, <2>5, <2>6 DEF AllOf
<1>8. CASE l <= StableSort
  <2>1. ret = Reverse(known)
    BY <1>1, <1>3, <1>8 DEF ReturnOrders
  <2>2. PICK b : b = [i \in 1..l |-> (l - i) + 1]
    OBVIOUS
  <2>3. /\ b \in [1..l -> 1..l] /\ \A i, j \in 1..l : b[i] = b[j] => i = j
        /\ \A i, j \in 1..l : i < j => b[j] < b[i]
    BY <2>2
  <2>4. \A j \in 1..l : \E i \in 1..l : b[i] = j
    <3> TAKE j \in 1..l
    <3>1. (l - j) + 1 \in 1..l /\ (l - ((l - j) + 1)) + 1 = j
      OBVIOUS
    <3> QED BY <2>2, <3>1
  <2>5. ret = [i \in 1..l |-> known[b[i]]]
    BY <1>3, <2>1, <2>2 DEF Reverse
  <2>6. AllOf(o, n, ret, l)
    <3>1. Shuffles(b, l)
      BY <2>3, <2>4 DEF Shuffles
    <3> QED BY <1>7, <2>5, <3>1
  <2>7. \A i, j \in 1..l : i < j => ret[j] < ret[i]
    BY <1>5, <2>3, <2>5
  <2> QED BY <2>6, <2>7 DEF IsReturn, AllOf
<1>9. CASE ~(l <= StableSort)
  <2>1. PICK b \in Bijection(1..l, 1..l) : ret = [i \in 1..l |-> known[b[i]]]
    <3>1. ret \in Reorderings(known)
      BY <1>1, <1>3, <1>9 DEF ReturnOrders
    <3> QED BY <1>3, <3>1 DEF Reorderings
  <2>2. Shuffles(b, l)
    BY DEF Shuffles, Bijection, Injection, Surjection, IsInjective
  <2>3. AllOf(o, n, ret, l)
    BY <1>7, <2>1, <2>2
  <2> QED BY <1>6, <1>9, <2>3 DEF IsReturn, AllOf
<1> QED BY <1>8, <1>9

\* The new ways.
LEMMA NewRoutes ==
  ASSUME NEW k, NEW o, Settled(k, o), NEW m, NEW n \in Node, NEW left, ServedAll(o, m, n, left),
         NEW d, d # n, NEW ret \in ReturnOrders(n)
  PROVE  Learnt(o, NewRouting(n, d, ret), n, d, ComingBack(o, n, m))
<1>a. PICK Q : Q = ComingBack(o, n, m)
  OBVIOUS
<1>b. Q = {r \in DOMAIN o : Len(o[r]) = m /\ n \in ToSet(o[r])}
  BY <1>a DEF ComingBack
<1>1. IsReturn(o, n, ret)
  BY ReturnFacts
<1>2. /\ ret \in Seq(Nat) /\ ToSet(ret) = RingsAt(o, n) /\ DOMAIN o = Ring /\ Web(k, o)
  BY <1>1 DEF Settled, IsReturn
<1>3. PICK l \in Nat : l = Len(ret) /\ DOMAIN ret = 1..l
  BY <1>2
<1>5. ASSUME NEW j \in 1..l
      PROVE  ret[j] \in Ring
  <2>2. ret[j] \in ToSet(ret)
    BY <1>3 DEF ToSet
  <2> QED BY <1>2, <2>2 DEF RingsAt
<1>6. ASSUME NEW r \in Ring
      PROVE  /\ r \in Q <=> Returned(n, r)
             /\ r \in Q => Noted(n, r) = Notes(o[r], n)
  BY <1>2, <1>b DEF ServedAll
<1>7. PICK parts : parts = WaysBack(o, n, d, m, ret)
  OBVIOUS
<1>c. parts = [j \in DOMAIN ret |->
                 IF ret[j] \in Q THEN WaysTo(d, ret[j], Notes(o[ret[j]], n)) ELSE <<>>]
  BY <1>7, <1>a DEF WaysBack
<1>8. Learnt(o, FlattenSeq(parts), n, d, Q)
  BY <1>1, <1>2, <1>7, <1>a, NewWays
<1>9. parts = [j \in DOMAIN ret |->
                 IF Returned(n, ret[j]) THEN WaysTo(d, ret[j], Noted(n, ret[j])) ELSE <<>>]
  BY <1>3, <1>5, <1>6, <1>c
<1>10. NewRouting(n, d, ret) = FlattenSeq(parts)
  BY <1>9 DEF NewRouting
<1> QED BY <1>8, <1>10, <1>a

\* Only the rings that the two nodes share matter to a table.
LEMMA TableSame ==
  ASSUME NEW o, NEW entry, NEW n, NEW all, NEW R, NEW Q, TableOf(o, entry, n, all, R),
         \A d \in all : Shared(o, n, d, R) = Shared(o, n, d, Q)
  PROVE  TableOf(o, entry, n, all, Q)
<1>1. DOMAIN entry = {d \in all \ {n} : Shared(o, n, d, Q) # {}}
  BY DEF TableOf
<1>2. ASSUME NEW d \in DOMAIN entry
      PROVE  Learnt(o, entry[d], n, d, Q)
  BY <1>1 DEF TableOf, Learnt
<1> QED BY <1>1, <1>2 DEF TableOf

\* The tables once node n has learnt from its packets.
NewTable(n, ret) ==
  [table EXCEPT ![n] = [d \in DOMAIN @ \cup NewDestinations(n) |->
                          (IF d \in DOMAIN @ THEN @[d] ELSE <<>>) \o NewRouting(n, d, ret)]]

\* With it, node n learns the ways of the rings whose packets are back.
LEMMA HandleTables ==
  ASSUME NEW k, NEW o, Settled(k, o), NEW m \in Nat \ {0}, NEW n, n \in Node, n \in Nat,
         NEW left, ServedAll(o, m, n, left), Tables(o, m, 0..(n - 1)), NEW new,
         NEW ret \in ReturnOrders(n), new = NewTable(n, ret)
  PROVE  /\ new = [x \in Node |-> new[x]]
         /\ \A x \in Node : TableOf(o, new[x], x, Node, Back(o, x, m, 0..n))
<1>1. /\ table = [x \in Node |-> table[x]]
      /\ \A x \in Node : TableOf(o, table[x], x, Node, Back(o, x, m, 0..(n - 1)))
  BY DEF Tables
<1>2. new = [x \in Node |-> new[x]] /\ \A x \in Node \ {n} : new[x] = table[x]
  BY <1>1 DEF NewTable
<1>3. ASSUME NEW x \in Node \ {n}
      PROVE  TableOf(o, new[x], x, Node, Back(o, x, m, 0..n))
  <2>1. x \in 0..(n - 1) <=> x \in 0..n
    <3>1. x \in Nat
      BY DEF Settled
    <3> QED BY <3>1
  <2>2. Back(o, x, m, 0..n) = Back(o, x, m, 0..(n - 1))
    BY <2>1 DEF Back
  <2> QED BY <1>1, <1>2, <2>2
<1>4. PICK old : old = table[n]
  OBVIOUS
<1>5. PICK R : R = {r \in DOMAIN o : Len(o[r]) < m}
  OBVIOUS
<1>6. PICK Q : Q = ComingBack(o, n, m)
  OBVIOUS
<1>7. TableOf(o, old, n, Node, R)
  <2>1. n \notin 0..(n - 1)
    OBVIOUS
  <2>2. Back(o, n, m, 0..(n - 1)) = R
    BY <1>5, <2>1 DEF Back
  <2> QED BY <1>1, <1>4, <2>2
<1>8. PICK more : more = [d \in Node \ {n} |-> NewRouting(n, d, ret)]
  OBVIOUS
<1>9. \A d \in Node \ {n} : Learnt(o, more[d], n, d, Q)
  <2> TAKE d \in Node \ {n}
  <2>1. more[d] = NewRouting(n, d, ret) /\ d # n
    BY <1>8
  <2> QED BY <1>6, <2>1, NewRoutes
<1>10. NewDestinations(n) = {d \in Node \ {n} : Shared(o, n, d, Q) # {}}
  <2>1. NewDestinations(n) = Sharing(o, n, Node, Q)
    BY <1>6, NewNodes
  <2> QED BY <2>1 DEF Sharing
<1>11. DOMAIN old \subseteq Node \ {n}
  BY <1>7 DEF TableOf
<1>12. PICK is : is = new[n]
  OBVIOUS
<1>13. is = [d \in DOMAIN old \cup {d \in Node \ {n} : Shared(o, n, d, Q) # {}} |->
               (IF d \in DOMAIN old THEN old[d] ELSE <<>>) \o more[d]]
  <2>1. is = [d \in DOMAIN old \cup NewDestinations(n) |->
                (IF d \in DOMAIN old THEN old[d] ELSE <<>>) \o NewRouting(n, d, ret)]
    BY <1>1, <1>4, <1>12 DEF NewTable
  <2>2. \A d \in DOMAIN old \cup NewDestinations(n) : NewRouting(n, d, ret) = more[d]
    BY <1>8, <1>10, <1>11
  <2>3. is = [d \in DOMAIN old \cup NewDestinations(n) |->
                (IF d \in DOMAIN old THEN old[d] ELSE <<>>) \o more[d]]
    BY <2>1, <2>2
  <2> QED BY <1>10, <2>3
<1>14. TableOf(o, is, n, Node, R \cup Q)
  <2>1. \A r \in R, q \in Q : r # q /\ Len(o[r]) < Len(o[q])
    <3> TAKE r \in R, q \in Q
    <3>1. Len(o[r]) < m /\ Len(o[q]) = m
      BY <1>5, <1>6 DEF ComingBack
    <3>2. r # q
      <4> SUFFICES ASSUME r = q PROVE FALSE
        OBVIOUS
      <4>1. PICK h : h = Len(o[r])
        OBVIOUS
      <4>2. h < m /\ h = m
        BY <3>1, <4>1
      <4> QED BY <4>2
    <3> QED BY <3>1, <3>2
  <2> QED BY ZenonT(30), <1>7, <1>9, <1>13, <2>1, TableLearns
<1>15. TableOf(o, is, n, Node, Back(o, n, m, 0..n))
  <2>1. n \in 0..n
    OBVIOUS
  <2>2. Back(o, n, m, 0..n) = {r \in DOMAIN o : Len(o[r]) < m \/ Len(o[r]) = m}
    BY <2>1 DEF Back
  <2>3. \A d \in Node : Shared(o, n, d, R \cup Q) = Shared(o, n, d, Back(o, n, m, 0..n))
    BY <1>5, <1>6, <2>2 DEF Shared, ComingBack
  <2> QED BY <1>14, <2>3, TableSame
<1> QED BY <1>2, <1>3, <1>12, <1>15

-----------------------------------------------------------------------------
(* The whole start.                                                        *)

\* Every node has learnt the ways of all its rings.
Learned(o) ==
  /\ table = [n \in Node |-> table[n]]
  /\ \A n \in Node : TableOf(o, table[n], n, Node, DOMAIN o)
\* Every node has its ways in order, to all others.
Finished(o) ==
  \A n \in Node :
    /\ DOMAIN table[n] = Node \ {n}
    /\ \A d \in Node \ {n} :
         /\ AsWays(o, n, d, table[n][d]) /\ RingsVia(o, n, d) # <<>>
         /\ \E l \in Nat : /\ DOMAIN RingsVia(o, n, d) = 1..l
                           /\ \A j \in 1..l : RingsVia(o, n, d)[j] \in Shared(o, n, d, DOMAIN o)

\* No packet yet.
LEMMA NoPackets ==
  ASSUME NEW k, NEW s, IsCycle(k, s), NEW all
  PROVE  Circulating(<<>>, s, {x \in ToSet(s) : x < 0}, 0, all)
<1>1. {x \in ToSet(s) : x < 0} = {}
  <2>1. ToSet(s) \subseteq Nat
    BY CycleNodes
  <2> QED BY <2>1
<1>2. PICK from : from = <<>>
  OBVIOUS
<1>3. from \in Seq(Nat) /\ Len(from) = 0 /\ DOMAIN from = {}
  BY <1>2, EmptySeq
<1>4. Increasing(from) /\ ToSet(from) = {}
  BY <1>3 DEF Increasing, ToSet
<1>5. <<>> = [i \in 1..0 |-> PacketOf(s, from[i], 0, Counted(s, from[i], 0, all))]
  OBVIOUS
<1>6. Sent(<<>>, s, from, 0, all)
  BY <1>3, <1>4, <1>5 DEF Sent
<1> QED BY <1>1, <1>4, <1>6 DEF Circulating

\* A ring without packets has given them all back.
LEMMA NoneLeft ==
  ASSUME NEW k, NEW s, IsCycle(k, s), NEW m \in Nat, NEW all,
         Circulating(<<>>, s, Away(s, m, all), m, all)
  PROVE  Len(s) <= m
<1>1. PICK from : Sent(<<>>, s, from, m, all) /\ ToSet(from) = Away(s, m, all)
  BY DEF Circulating
<1>2. PICK l \in Nat : l = Len(from) /\ DOMAIN from = 1..l
  BY <1>1 DEF Sent
<1>3. l = 0
  <2>1. <<>> = [i \in 1..l |-> PacketOf(s, from[i], m, Counted(s, from[i], m, all))]
    BY <1>1, <1>2 DEF Sent
  <2>2. DOMAIN <<>> = 1..l /\ DOMAIN <<>> = {}
    BY <2>1
  <2>3. ~(1 \in 1..l)
    BY <2>2
  <2> QED BY <2>3
<1>4. ToSet(from) = {}
  <2>1. DOMAIN from = {}
    BY <1>2, <1>3
  <2> QED BY <2>1 DEF ToSet
<1>5. Len(s) \in Nat /\ Len(s) >= 4 /\ DOMAIN s = 1..Len(s)
  BY CycleNodes
<1>6. ToSet(s) # {}
  <2>1. 1 \in DOMAIN s
    BY <1>5
  <2> QED BY <2>1 DEF ToSet
<1>7. ~(m < Len(s))
  BY <1>1, <1>4, <1>6 DEF Away
<1> QED BY <1>5, <1>7

\* A node's turn in handle_control_packet, as the next node, the next move or
\* the sort follows.
LEMMA HandleStep ==
  ASSUME NEW k, NEW o, Settled(k, o), o = Orders, turn \in Node, NEW m \in Nat \ {0},
         UnderWay(o, m, 0..(turn - 1)), Tables(o, m, 0..(turn - 1)), HandleControl
  PROVE  \/ /\ stage' = "handle"
            /\ UnderWay(o, m, 0..(turn - 1))' /\ Tables(o, m, 0..(turn - 1))'
         \/ stage' = "move" /\ turn' = 0 /\ UnderWay(o, m, Node)' /\ Tables(o, m, Node)'
         \/ stage' = "sort" /\ Gone' /\ Learned(o)'
<1>0. Node = 0..LastNode /\ LastNode \in Nat \ {0}
  BY DEF Settled
<1>1. PICK n \in Nat : n = turn /\ n \in Node /\ n <= LastNode
  <2>1. turn \in Nat /\ turn <= LastNode
    BY <1>0
  <2> QED BY <2>1
<1>2. PICK left : left = [r \in Ring |-> IF Arrived(n, r) THEN Handled(n, r) ELSE attached[r]]
  OBVIOUS
<1>b. \E ret \in ReturnOrders(turn) : table' = NewTable(turn, ret)
  <2>1. PICK ret \in ReturnOrders(turn) : table' =
          [table EXCEPT ![turn] = [d \in DOMAIN @ \cup NewDestinations(turn) |->
             (IF d \in DOMAIN @ THEN @[d] ELSE <<>>) \o NewRouting(turn, d, ret)]]
    BY Zenon DEF HandleControl
  <2>2. table' = NewTable(turn, ret)
    BY <2>1 DEF NewTable
  <2> QED BY <2>2
<1>a. PICK ret \in ReturnOrders(n) : table' = NewTable(n, ret)
  BY <1>1, <1>b
<1>3. /\ attached' = left /\ stage = "handle"
      /\ NodeLoop(IF \A r \in Ring : left[r] = <<>> THEN "sort" ELSE "move")
      /\ UNCHANGED <<conf, order, curr_ring>>
  BY <1>1, <1>2 DEF HandleControl
<1>4. ServedAll(o, m, n, left)
  BY <1>1, <1>2, HandleAll
<1>5. PICK new : new = table'
  OBVIOUS
<1>6. /\ new = [x \in Node |-> new[x]]
      /\ \A x \in Node : TableOf(o, new[x], x, Node, Back(o, x, m, 0..n))
  <2>1. Tables(o, m, 0..(n - 1))
    BY <1>1
  <2>2. new = NewTable(n, ret)
    BY <1>5, <1>a
  <2> QED BY <1>1, <1>4, <2>1, <2>2, HandleTables
<1>7. Ring' = Ring /\ Node' = Node
  BY <1>3, SettledKept
<1>8. UnderWay(o, m, 0..n)'
  BY <1>3, <1>4, <1>7 DEF UnderWay, ServedAll
<1>9. Tables(o, m, 0..n)'
  BY <1>5, <1>6, <1>7 DEF Tables
<1>10. CASE n # LastNode
  <2>1. stage' = "handle" /\ turn' = n + 1
    BY <1>1, <1>3, <1>10 DEF NodeLoop
  <2>2. 0..(turn' - 1) = 0..n
    BY <2>1
  <2>3. UnderWay(o, m, 0..(turn - 1))'
    BY <1>8, <2>2
  <2>4. Tables(o, m, 0..(turn - 1))'
    BY <1>9, <2>2
  <2> QED BY <2>1, <2>3, <2>4
<1>11. CASE n = LastNode
  <2>1. Node = 0..n
    BY <1>11 DEF Settled
  <2>2. turn' = 0 /\ stage' = IF \A r \in Ring : left[r] = <<>> THEN "sort" ELSE "move"
    BY <1>1, <1>3, <1>11 DEF NodeLoop
  <2>3. UnderWay(o, m, Node)' /\ Tables(o, m, Node)'
    BY <1>7, <1>8, <1>9, <2>1 DEF UnderWay, Tables
  <2>4. CASE ~ \A r \in Ring : left[r] = <<>>
    BY <2>2, <2>3, <2>4
  <2>5. CASE \A r \in Ring : left[r] = <<>>
    <3>1. Gone'
      BY <1>3, <1>7, <2>5 DEF Gone
    <3>2. ASSUME NEW r \in Ring
          PROVE  Len(o[r]) \in Nat /\ Len(o[r]) <= m
      <4>1. PICK s : s = o[r]
        OBVIOUS
      <4>2. IsCycle(k, s)
        BY <4>1 DEF Settled
      <4>3. Circulating(<<>>, s, Away(s, m, Node), m, Node)
        BY <1>4, <2>1, <2>5, <4>1 DEF ServedAll
      <4>4. Len(s) \in Nat
        BY <4>2, CycleNodes
      <4> QED BY <4>1, <4>2, <4>3, <4>4, NoneLeft
    <3>3. ASSUME NEW x \in Node
          PROVE  Back(o, x, m, 0..n) = DOMAIN o
      <4>1. DOMAIN o = Ring /\ x \in 0..n
        BY <2>1 DEF Settled
      <4> QED BY <3>2, <4>1 DEF Back
    <3>4. Learned(o)'
      BY <1>5, <1>6, <1>7, <3>3 DEF Learned
    <3> QED BY <2>2, <2>5, <3>1, <3>4
  <2> QED BY <2>4, <2>5
<1> QED BY <1>10, <1>11

\* Any two nodes share a ring.
LEMMA AllShare ==
  ASSUME ConfInv, BuildInv, RingsBuilt, NEW n \in Node, NEW d \in Node
  PROVE  Shared(Orders, n, d, Ring) # {}
<1>1. PICK k : k = conf.mesh_dim
  OBVIOUS
<1>2. EvenMesh(k) /\ RingsInv /\ Built = Ring /\ RlrecUsed
  BY <1>1, AllBuilt DEF RingsBuilt
<1>3. Settled(k, Orders)
  BY <1>1, Settles
<1>4. Node = 0..(k * k - 1) /\ \A r \in Ring : Orders[r] = NodesOf(r)
  BY <1>3 DEF Settled
<1>5. PICK t \in ToSet(RlrecTuples(k)) : {n, d} \subseteq ToSet(NodeOrder(k, t))
  BY <1>2, <1>4, RingsConnect DEF Share
<1>6. PICK i \in DOMAIN RlrecTuples(k) : RlrecTuples(k)[i] = t
  BY <1>5 DEF ToSet
<1>7. Len(order) = Len(tuples) /\ tuples = RlrecTuples(k) /\ Len(order) \in Nat
  BY <1>1, <1>2 DEF RingsInv, BuildInv, RingsBuilt, Sending
<1>8. i \in 1..Len(order)
  <2>1. RlrecTuples(k) \in Seq(Tuples)
    BY <1>2, RlrecFacts
  <2> QED BY <1>6, <1>7, <2>1
<1>9. PICK r : r = i - 1 /\ r + 1 = i /\ r \in Built
  <2>1. i - 1 \in 0..(Len(order) - 1) /\ (i - 1) + 1 = i
    BY <1>7, <1>8
  <2> QED BY <2>1 DEF Built
<1>10. NodesOf(r) = NodeOrder(k, t)
  BY <1>1, <1>2, <1>6, <1>7, <1>9, BuiltFacts, AllBuilt
<1>11. r \in Ring /\ {n, d} \subseteq ToSet(Orders[r])
  BY <1>2, <1>4, <1>5, <1>9, <1>10
<1> QED BY <1>11 DEF Shared

\* table_sort finishes the tables.
LEMMA SortStep ==
  ASSUME ConfInv, BuildInv, RingsBuilt, NEW k, NEW o, Settled(k, o), Learned(o), SortTables
  PROVE  Finished(o)'
<1>1. UNCHANGED <<conf, order, curr_ring>>
  BY DEF SortTables
<1>2. Node' = Node
  BY <1>1, SettledKept
<1>3. PICK new : new = table'
  OBVIOUS
<1>4. new = [n \in Node |-> [d \in DOMAIN table[n] |-> Sorted(table[n][d])]]
  BY <1>3 DEF SortTables
<1>5. DOMAIN o = Ring /\ o = Orders /\ Web(k, o)
  BY DEF Settled
<1>6. ASSUME NEW n \in Node
      PROVE  /\ DOMAIN new[n] = Node \ {n}
             /\ \A d \in Node \ {n} :
                  /\ AsWays(o, n, d, new[n][d]) /\ RingsVia(o, n, d) # <<>>
                  /\ \E l \in Nat :
                       /\ DOMAIN RingsVia(o, n, d) = 1..l
                       /\ \A j \in 1..l : RingsVia(o, n, d)[j] \in Shared(o, n, d, DOMAIN o)
  <2>1. TableOf(o, table[n], n, Node, DOMAIN o)
    BY DEF Learned
  <2>2. \A d \in Node : Shared(o, n, d, DOMAIN o) # {}
    BY <1>5, AllShare
  <2>3. DOMAIN table[n] = Node \ {n}
    BY <2>1, <2>2 DEF TableOf
  <2>4. new[n] = [d \in Node \ {n} |-> Sorted(table[n][d])]
    BY <1>4, <2>3
  <2>5. ASSUME NEW d \in Node \ {n}
        PROVE  /\ AsWays(o, n, d, new[n][d]) /\ RingsVia(o, n, d) # <<>>
               /\ \E l \in Nat :
                    /\ DOMAIN RingsVia(o, n, d) = 1..l
                    /\ \A j \in 1..l : RingsVia(o, n, d)[j] \in Shared(o, n, d, DOMAIN o)
    <3>1. PICK routing : routing = table[n][d]
      OBVIOUS
    <3>2. Learnt(o, routing, n, d, DOMAIN o) /\ d # n
      BY <2>1, <2>3, <3>1 DEF TableOf
    <3>3. /\ AsWays(o, n, d, Sorted(routing))
          /\ Shared(o, n, d, DOMAIN o) # {} => RingsVia(o, n, d) # <<>>
          /\ \E l \in Nat : /\ DOMAIN RingsVia(o, n, d) = 1..l
                            /\ \A j \in 1..l : RingsVia(o, n, d)[j] \in Shared(o, n, d, DOMAIN o)
      BY <1>5, <3>2, SortedWays
    <3> QED BY <2>2, <2>4, <3>1, <3>3
  <2> QED BY <2>4, <2>5
<1> QED BY <1>2, <1>3, <1>6 DEF Finished

-----------------------------------------------------------------------------
(* What holds from the first packet on.                                    *)

\* What holds from the first packet on: the packets of the rings o are where
\* the moves put them, and the tables hold the ways of those that are back.
SendAt(o) ==
  /\ stage = "inject" => Injecting(o) /\ Tables(o, 0, {})
  /\ stage = "move" => turn = 0 /\ \E m \in Nat : UnderWay(o, m, Node) /\ Tables(o, m, Node)
  /\ stage = "handle" =>
       \E m \in Nat \ {0} : UnderWay(o, m, 0..(turn - 1)) /\ Tables(o, m, 0..(turn - 1))
  /\ stage = "sort" => Gone /\ Learned(o)
  /\ stage = "ready" => Gone /\ Finished(o)
\* The inductive invariant of the control packets.
SendInv == RingsBuilt => \E k, o : Settled(k, o) /\ SendAt(o)

\* The tables are empty before the first packet is back.
LEMMA EmptyTables ==
  ASSUME NEW k, NEW o, Settled(k, o), table = [n \in Node |-> <<>>]
  PROVE  Tables(o, 0, {})
<1>1. ASSUME NEW n \in Node
      PROVE  TableOf(o, table[n], n, Node, Back(o, n, 0, {}))
  <2>1. Back(o, n, 0, {}) = {}
    <3>1. ASSUME NEW r \in DOMAIN o
          PROVE  ~(Len(o[r]) < 0)
      <4>1. PICK s : s = o[r]
        OBVIOUS
      <4>2. IsCycle(k, s)
        BY <4>1 DEF Settled
      <4>3. Len(s) \in Nat
        BY <4>2, CycleNodes
      <4> QED BY <4>1, <4>3
    <3> QED BY <3>1 DEF Back
  <2>2. \A d : Shared(o, n, d, {}) = {}
    BY DEF Shared
  <2>3. DOMAIN table[n] = {}
    OBVIOUS
  <2> QED BY <2>1, <2>2, <2>3 DEF TableOf
<1> QED BY <1>1 DEF Tables

\* Before the first node injects, nothing is on a ring and nothing learnt.
LEMMA FirstPackets ==
  ASSUME NEW k, NEW o, Settled(k, o), turn = 0,
         attached = [r \in Ring |-> <<>>], table = [n \in Node |-> <<>>]
  PROVE  Injecting(o) /\ Tables(o, 0, {})
<1>1. ASSUME NEW r \in Ring
      PROVE  Circulating(attached[r], o[r], {x \in ToSet(o[r]) : x < turn}, 0, Node)
  <2>1. PICK s : s = o[r]
    OBVIOUS
  <2>2. IsCycle(k, s)
    BY <2>1 DEF Settled
  <2>3. Circulating(<<>>, s, {x \in ToSet(s) : x < 0}, 0, Node)
    BY <2>2, NoPackets
  <2>4. attached[r] = <<>>
    OBVIOUS
  <2> QED BY <2>1, <2>3, <2>4
<1> QED BY <1>1, EmptyTables DEF Injecting

\* The tables in the rounds of the packets.
LEMMA TablesKept ==
  ASSUME NEW k, NEW o, Settled(k, o), NEW m, NEW served, Tables(o, m, served),
         UNCHANGED <<conf, order, curr_ring, table>>, NEW p, NEW q,
         \A n \in Node : Back(o, n, p, q) = Back(o, n, m, served)
  PROVE  Tables(o, p, q)'
<1>1. Node' = Node
  BY SettledKept
<1>2. \A n \in Node : TableOf(o, table[n], n, Node, Back(o, n, p, q))
  BY DEF Tables
<1> QED BY <1>1, <1>2 DEF Tables

\* No step disturbs SendAt.
LEMMA SendStep ==
  ASSUME NEW k, NEW o, ConfInv, BuildInv, RingsBuilt, Settled(k, o), SendAt(o), [Next]_vars
  PROVE  RingsBuilt' => Settled(k, o)' /\ SendAt(o)'
<1>1. o = Orders
  BY DEF Settled
<1>2. turn \in Node
  BY DEF BuildInv, RingsBuilt, Sending
<1>3. CASE UNCHANGED vars
  <2>1. UNCHANGED <<stage, conf, order, curr_ring, attached, table, turn>>
    BY <1>3 DEF vars
  <2>2. Settled(k, o)' /\ Node' = Node /\ Ring' = Ring
    BY <2>1, SettledKept
  <2> QED BY <2>1, <2>2 DEF SendAt, Injecting, Tables, UnderWay, Gone, Learned, Finished
<1>4. CASE Generate
  <2>1. UNCHANGED <<stage, conf, order, curr_ring, attached, table, turn>>
    BY <1>4 DEF Generate
  <2>2. Settled(k, o)' /\ Node' = Node /\ Ring' = Ring
    BY <2>1, SettledKept
  <2> QED BY <2>1, <2>2 DEF SendAt, Injecting, Tables, UnderWay, Gone, Learned, Finished
<1>5. CASE InjectControl
  <2>1. stage = "inject" /\ UNCHANGED <<conf, order, curr_ring, table>>
    BY <1>5 DEF InjectControl
  <2>2. Settled(k, o)' /\ Node' = Node
    BY <2>1, SettledKept
  <2>3. Injecting(o) /\ Tables(o, 0, {})
    BY <2>1 DEF SendAt
  <2>4. Tables(o, 0, {})'
    BY <2>1, <2>3, TablesKept
  <2>5. Tables(o, 0, Node)'
    <3>1. ASSUME NEW n \in Node
          PROVE  Back(o, n, 0, Node) = Back(o, n, 0, {})
      <4>1. ASSUME NEW r \in DOMAIN o
            PROVE  Len(o[r]) # 0
        <5>1. PICK s : s = o[r]
          OBVIOUS
        <5>2. IsCycle(k, s)
          BY <5>1 DEF Settled
        <5>3. Len(s) \in Nat /\ Len(s) >= 4
          BY <5>2, CycleNodes
        <5> QED BY <5>1, <5>3
      <4> QED BY <4>1 DEF Back
    <3>2. PICK all : all = Node
      OBVIOUS
    <3>3. Tables(o, 0, all)'
      BY <2>1, <2>3, <3>1, <3>2, TablesKept
    <3> QED BY <2>2, <3>2, <3>3
  <2>6. IF turn = LastNode THEN stage' = "move" /\ turn' = 0 /\ UnderWay(o, 0, Node)'
        ELSE stage' = "inject" /\ Injecting(o)'
    BY <1>2, <1>5, <2>3, InjectStep
  <2>7. 0 \in Nat
    OBVIOUS
  <2> QED BY <2>2, <2>4, <2>5, <2>6, <2>7 DEF SendAt
<1>6. CASE MoveControl
  <2>1. stage = "move" /\ stage' = "handle" /\ UNCHANGED <<conf, order, curr_ring, table, turn>>
    BY <1>6 DEF MoveControl
  <2>2. Settled(k, o)' /\ Node' = Node
    BY <2>1, SettledKept
  <2>3. PICK m \in Nat : turn = 0 /\ UnderWay(o, m, Node) /\ Tables(o, m, Node)
    BY <2>1 DEF SendAt
  <2>4. PICK p \in Nat \ {0} : p = m + 1
    OBVIOUS
  <2>5. UnderWay(o, p, {})'
    BY <1>6, <2>3, <2>4, MoveStep
  <2>6. Tables(o, p, {})'
    <3>1. ASSUME NEW n \in Node
          PROVE  Back(o, n, p, {}) = Back(o, n, m, Node)
      <4>1. ASSUME NEW r \in DOMAIN o
            PROVE  Len(o[r]) < p <=> (Len(o[r]) < m \/ Len(o[r]) = m)
        <5>1. PICK s : s = o[r]
          OBVIOUS
        <5>2. IsCycle(k, s)
          BY <5>1 DEF Settled
        <5>3. Len(s) \in Nat
          BY <5>2, CycleNodes
        <5> QED BY <2>4, <5>1, <5>3
      <4> QED BY <4>1 DEF Back
    <3> QED BY <2>1, <2>3, <3>1, TablesKept
  <2>7. 0..(turn' - 1) = {}
    BY <2>1, <2>3
  <2>8. UnderWay(o, p, 0..(turn - 1))' /\ Tables(o, p, 0..(turn - 1))'
    BY <2>5, <2>6, <2>7
  <2> QED BY <2>1, <2>2, <2>8 DEF SendAt
<1>7. CASE MissingRing
  BY <1>7 DEF MissingRing, RingsBuilt
<1>8. CASE HandleControl
  <2>1. stage = "handle" /\ UNCHANGED <<conf, order, curr_ring>>
    BY <1>8 DEF HandleControl
  <2>2. Settled(k, o)'
    BY <2>1, SettledKept
  <2>3. PICK m \in Nat \ {0} : UnderWay(o, m, 0..(turn - 1)) /\ Tables(o, m, 0..(turn - 1))
    BY <2>1 DEF SendAt
  <2>4. \/ /\ stage' = "handle"
           /\ UnderWay(o, m, 0..(turn - 1))' /\ Tables(o, m, 0..(turn - 1))'
        \/ stage' = "move" /\ turn' = 0 /\ UnderWay(o, m, Node)' /\ Tables(o, m, Node)'
        \/ stage' = "sort" /\ Gone' /\ Learned(o)'
    BY <1>1, <1>2, <1>8, <2>3, HandleStep
  <2> QED BY <2>2, <2>4 DEF SendAt
<1>9. CASE SortTables
  <2>1. /\ stage = "sort" /\ stage' = "ready"
        /\ UNCHANGED <<conf, order, curr_ring, attached>>
    BY <1>9 DEF SortTables
  <2>2. Settled(k, o)' /\ Ring' = Ring
    BY <2>1, SettledKept
  <2>3. Gone /\ Learned(o)
    BY <2>1 DEF SendAt
  <2>4. Finished(o)'
    BY <1>9, <2>3, SortStep
  <2>5. Gone'
    BY <2>1, <2>2, <2>3 DEF Gone
  <2> QED BY <2>1, <2>2, <2>4, <2>5 DEF SendAt
<1>10. CASE (NoFile \/ Refuse \/ Configure)
              /\ UNCHANGED <<tuples, order, curr_ring, attached, table, turn, drawn>>
  BY <1>10 DEF NoFile, Refuse, Configure, RingsBuilt
<1>11. CASE GenerateTopology \/ BuildRing \/ RingsDone
  BY <1>11 DEF GenerateTopology, BuildRing, RingsDone, RingsBuilt
<1> QED BY <1>3, <1>4, <1>5, <1>6, <1>7, <1>8, <1>9, <1>10, <1>11 DEF Next

\* The control packets circulate as the moves say, until all are back.
LEMMA SendInvariance == Spec => []SendInv
<1>1. Init => SendInv
  BY DEF Init, SendInv, RingsBuilt
<1>2. ConfInv /\ BuildInv /\ RingsBuilt => Settled(conf.mesh_dim, Orders)
  BY Settles
<1>3. (ConfInv /\ BuildInv /\ RingsBuilt => Settled(conf.mesh_dim, Orders))'
  BY <1>2, PTL
<1>4. ASSUME NEW k, NEW o
      PROVE  /\ Settled(k, o) /\ turn = 0 /\ attached = [r \in Ring |-> <<>>]
             /\ table = [n \in Node |-> <<>>]
             => Injecting(o) /\ Tables(o, 0, {})
  BY FirstPackets
<1>5. ASSUME NEW k, NEW o
      PROVE  (/\ Settled(k, o) /\ turn = 0 /\ attached = [r \in Ring |-> <<>>]
              /\ table = [n \in Node |-> <<>>]
              => Injecting(o) /\ Tables(o, 0, {}))'
  BY <1>4, PTL
<1>6. ConfInv /\ ConfInv' /\ BuildInv /\ BuildInv' /\ SendInv /\ [Next]_vars => SendInv'
  <2> SUFFICES ASSUME ConfInv, ConfInv', BuildInv, BuildInv', SendInv, [Next]_vars,
                      RingsBuilt'
               PROVE  \E k, o : Settled(k, o)' /\ SendAt(o)'
    BY DEF SendInv
  <2>1. CASE RingsBuilt
    <3>1. PICK k, o : Settled(k, o) /\ SendAt(o)
      BY <2>1 DEF SendInv
    <3>2. Settled(k, o)' /\ SendAt(o)'
      BY <2>1, <3>1, SendStep
    <3> QED BY <3>2
  <2>2. CASE ~RingsBuilt
    <3>1. RingsDone
      <4>1. stage' \in Sending /\ RlrecUsed'
        BY DEF RingsBuilt, Sending
      <4>2. stage \notin Sending \/ ~RlrecUsed
        BY <2>2 DEF RingsBuilt, Sending
      <4> QED BY <4>1, <4>2 DEF Next, vars, Sending, RlrecUsed, NoFile, Refuse, Configure,
                 GenerateTopology, BuildRing, InjectControl, MoveControl, MissingRing,
                 HandleControl, SortTables, Generate
    <3>2. PICK k, o : k = conf.mesh_dim' /\ o = Orders'
      OBVIOUS
    <3>3. Settled(k, o)'
      BY <1>3, <3>2 DEF Settled
    <3>4. /\ stage' = "inject" /\ turn' = 0
          /\ attached' = [r \in Ring' |-> <<>>] /\ table' = [n \in Node' |-> <<>>]
      BY <3>1 DEF RingsDone, BuildInv, Ring, Node, Nodes
    <3>5. Injecting(o)' /\ Tables(o, 0, {})'
      BY <1>5, <3>3, <3>4
    <3>6. SendAt(o)'
      BY <3>4, <3>5 DEF SendAt
    <3> QED BY <3>3, <3>6
  <2> QED BY <2>1, <2>2
<1> QED BY <1>1, <1>6, ConfInvariance, BuildInvariance, PTL DEF Spec

-----------------------------------------------------------------------------
(* What follows for the start.                                             *)

\* The routing tables are complete: on every even mesh every node ends with a
\* way to every other node, over exactly the rings they share, with their hops,
\* the shortest first, and ties in the order that Noc assumes unless the node
\* is on more rings than std::sort keeps in order.
THEOREM TablesInvariance == Spec => []TablesComplete
<1>1. ConfInv /\ BuildInv /\ SendInv => TablesComplete
  <2> SUFFICES ASSUME ConfInv, BuildInv, SendInv, stage = "ready" PROVE TablesComplete
    BY DEF TablesComplete
  <2>1. RingsBuilt
    BY HandledOnRlrec
  <2>2. PICK k, o : Settled(k, o) /\ SendAt(o)
    BY <2>1 DEF SendInv
  <2>3. Finished(o) /\ o = Orders
    BY <2>2 DEF SendAt, Settled
  <2>4. ASSUME NEW n \in Node
        PROVE  /\ DOMAIN table[n] = Node \ {n}
               /\ \A d \in DOMAIN table[n] :
                    /\ RingsVia(o, n, d) # <<>>
                    /\ IF Len(curr_ring[n]) <= StableSort THEN table[n][d] = Ways(o, n, d)
                       ELSE table[n][d] \in Reorderings(Ways(o, n, d)) /\ InHops(table[n][d])
    <3>1. Few(o, n) <=> Len(curr_ring[n]) <= StableSort
      BY <2>2, FewKnown
    <3> QED BY <2>3, <3>1 DEF Finished, AsWays
  <2>5. o = [r \in Ring |-> NodesOf(r)]
    BY <2>3 DEF Orders
  <2> QED BY <2>4, <2>5 DEF TablesComplete, Ways
<1> QED BY <1>1, ConfInvariance, BuildInvariance, SendInvariance, PTL

\* The packets of a ring, and the nodes that sent them.
LEMMA PacketFacts ==
  ASSUME NEW k, NEW s, IsCycle(k, s), NEW S, S \subseteq ToSet(s), NEW m, m \in Nat,
         NEW served, NEW ps, Circulating(ps, s, S, m, served)
  PROVE  /\ \A i \in DOMAIN ps : /\ ps[i].status = "Routing"
                                 /\ ps[i].src \in ToSet(s) /\ ps[i].node \in ToSet(s)
         /\ \A n \in S : \E i \in DOMAIN ps : ps[i].src = n
<1>1. PICK from : Sent(ps, s, from, m, served) /\ ToSet(from) = S
  BY DEF Circulating
<1>2. PICK l \in Nat : l = Len(from) /\ DOMAIN from = 1..l
  BY <1>1 DEF Sent
<1>3. ps = [i \in 1..l |-> PacketOf(s, from[i], m, Counted(s, from[i], m, served))]
  BY <1>1, <1>2 DEF Sent
<1>4. DOMAIN ps = 1..l
  BY <1>3
<1>5. ASSUME NEW i \in 1..l
      PROVE  /\ ps[i].status = "Routing" /\ ps[i].src = from[i] /\ from[i] \in S
             /\ ps[i].node = Hops(s, from[i], m)
  <2>1. ps[i] = PacketOf(s, from[i], m, Counted(s, from[i], m, served))
    BY <1>3
  <2>2. from[i] \in S
    BY <1>1, <1>2 DEF ToSet
  <2> QED BY <2>1, <2>2 DEF PacketOf
<1>6. ASSUME NEW i \in 1..l
      PROVE  ps[i].node \in ToSet(s)
  <2>1. PICK n : n = from[i] /\ n \in ToSet(s)
    BY <1>5
  <2>2. Hops(s, n, m) \in ToSet(s)
    BY <2>1, HopFacts
  <2> QED BY <1>5, <2>1, <2>2
<1>7. ASSUME NEW n \in S
      PROVE  \E i \in 1..l : ps[i].src = n
  <2>1. PICK i \in 1..l : from[i] = n
    BY <1>1, <1>2 DEF ToSet
  <2> QED BY <1>5, <2>1
<1> QED BY <1>4, <1>5, <1>6, <1>7

\* The packets under way are of nodes of the ring.
LEMMA AwayOnRing == ASSUME NEW s, NEW m, NEW served PROVE Away(s, m, served) \subseteq ToSet(s)
BY DEF Away

\* A node that has its packet back has learnt from it.
LEMMA LearntFrom ==
  ASSUME NEW k, NEW o, Settled(k, o), NEW m, NEW served, Tables(o, m, served),
         NEW r \in Ring, NEW n, n \in ToSet(o[r]), r \in Back(o, n, m, served)
  PROVE  \E d \in DOMAIN table[n] : \E j \in DOMAIN table[n][d] : table[n][d][j][1] = r
<1>1. PICK s : s = o[r]
  OBVIOUS
<1>2. IsCycle(k, s) /\ Node = 0..(k * k - 1)
  BY <1>1 DEF Settled
<1>3. Len(s) >= 4 /\ Len(s) \in Nat /\ DOMAIN s = 1..Len(s) /\ ToSet(s) \subseteq Node
  BY <1>2, CycleNodes
<1>4. PICK d \in ToSet(s) : d # n
  <2>1. s[1] # s[2]
    BY <1>2, <1>3 DEF IsCycle
  <2>2. s[1] \in ToSet(s) /\ s[2] \in ToSet(s)
    BY <1>3 DEF ToSet
  <2> QED BY <2>1, <2>2
<1>5. n \in Node /\ d \in Node \ {n} /\ {n, d} \subseteq ToSet(s)
  BY <1>1, <1>3, <1>4
<1>6. PICK R : R = Back(o, n, m, served)
  OBVIOUS
<1>7. r \in Shared(o, n, d, R)
  BY <1>1, <1>5, <1>6 DEF Shared
<1>8. TableOf(o, table[n], n, Node, R)
  BY <1>5, <1>6 DEF Tables
<1>9. d \in DOMAIN table[n]
  BY <1>5, <1>7, <1>8 DEF TableOf
<1>10. PICK routing : routing = table[n][d]
  OBVIOUS
<1>11. Learnt(o, routing, n, d, R)
  BY <1>8, <1>9, <1>10 DEF TableOf
<1>12. PICK way : /\ way \in Seq(Nat) /\ IsRouting(o, way, routing, n, d)
                  /\ ToSet(way) = Shared(o, n, d, R)
  BY <1>11 DEF Learnt
<1>13. PICK l \in Nat : l = Len(way) /\ DOMAIN way = 1..l
  BY <1>12
<1>14. PICK j \in 1..l : way[j] = r
  BY <1>7, <1>12, <1>13 DEF ToSet
<1>15. routing = [i \in 1..l |-> <<way[i], Distance(o[way[i]], n, d)>>]
  BY <1>12, <1>13 DEF IsRouting
<1>16. j \in DOMAIN routing /\ routing[j][1] = r
  <2>1. routing[j] = <<way[j], Distance(o[way[j]], n, d)>> /\ DOMAIN routing = 1..l
    BY <1>15
  <2> QED BY <1>14, <2>1
<1> QED BY <1>9, <1>10, <1>16

\* The packets of one round.
LEMMA RoundFacts ==
  ASSUME NEW k, NEW o, Settled(k, o), NEW m \in Nat, NEW served,
         UnderWay(o, m, served), Tables(o, m, served), NEW r \in Ring
  PROVE  \A n \in ToSet(o[r]) :
           \/ \E i \in DOMAIN attached[r] : attached[r][i].src = n
           \/ \E d \in DOMAIN table[n] : \E j \in DOMAIN table[n][d] : table[n][d][j][1] = r
<1> SUFFICES ASSUME NEW n \in ToSet(o[r]), ~ \E i \in DOMAIN attached[r] : attached[r][i].src = n
             PROVE  \E d \in DOMAIN table[n] : \E j \in DOMAIN table[n][d] : table[n][d][j][1] = r
  OBVIOUS
<1>1. PICK s : s = o[r]
  OBVIOUS
<1>2. IsCycle(k, s)
  BY <1>1 DEF Settled
<1>3. PICK ps : ps = attached[r]
  OBVIOUS
<1>4. Circulating(ps, s, Away(s, m, served), m, served)
  BY <1>1, <1>3 DEF UnderWay
<1>5. Away(s, m, served) \subseteq ToSet(s)
  BY AwayOnRing
<1>6. \A x \in Away(s, m, served) : \E i \in DOMAIN ps : ps[i].src = x
  BY <1>2, <1>4, <1>5, PacketFacts
<1>7. n \notin Away(s, m, served)
  BY <1>3, <1>6
<1>8. Len(s) \in Nat
  BY <1>2, CycleNodes
<1>9. Len(s) < m \/ (Len(s) = m /\ n \in served)
  BY <1>1, <1>7, <1>8 DEF Away
<1>10. r \in Back(o, n, m, served)
  <2>1. r \in DOMAIN o
    BY DEF Settled
  <2> QED BY <1>1, <1>9, <2>1 DEF Back
<1> QED BY <1>10, LearntFrom

\* Whatever the stage, the packets of a ring are those of nodes on it.
LEMMA OnTheRing ==
  ASSUME NEW k, NEW o, Settled(k, o), SendAt(o), RingsBuilt, NEW r \in Ring
  PROVE  \A i \in DOMAIN attached[r] :
           /\ attached[r][i].status = "Routing"
           /\ attached[r][i].src \in ToSet(o[r]) /\ attached[r][i].node \in ToSet(o[r])
<1>1. PICK s : s = o[r]
  OBVIOUS
<1>2. IsCycle(k, s)
  BY <1>1 DEF Settled
<1>3. PICK ps : ps = attached[r]
  OBVIOUS
<1>4. CASE stage = "inject"
  <2>1. Circulating(ps, s, {x \in ToSet(s) : x < turn}, 0, Node)
    BY <1>1, <1>3, <1>4 DEF SendAt, Injecting
  <2>2. {x \in ToSet(s) : x < turn} \subseteq ToSet(s) /\ 0 \in Nat
    OBVIOUS
  <2> QED BY <1>1, <1>2, <1>3, <2>1, <2>2, PacketFacts
<1>5. CASE stage = "move" \/ stage = "handle"
  <2>1. PICK m, served : m \in Nat /\ UnderWay(o, m, served)
    BY <1>5 DEF SendAt
  <2>2. Circulating(ps, s, Away(s, m, served), m, served)
    BY <1>1, <1>3, <2>1 DEF UnderWay
  <2>3. Away(s, m, served) \subseteq ToSet(s)
    BY AwayOnRing
  <2>4. m \in Nat
    BY <2>1
  <2> QED BY <1>1, <1>2, <1>3, <2>2, <2>3, <2>4, PacketFacts
<1>6. CASE stage = "sort" \/ stage = "ready"
  <2>1. DOMAIN attached[r] = {}
    BY <1>6 DEF SendAt, Gone
  <2> QED BY <2>1
<1> QED BY <1>4, <1>5, <1>6 DEF RingsBuilt

\* dettach(0) always deletes the packet that has returned: none that has been
\* ejected stays on a ring, and none is gone before its node has learnt from it.
THEOREM DetachInvariance == Spec => []OwnPacketDetached
<1>1. SendInv => OwnPacketDetached
  <2> SUFFICES ASSUME SendInv, RingsBuilt, NEW r \in Ring
               PROVE  /\ \A i \in DOMAIN attached[r] : attached[r][i].status = "Routing"
                      /\ stage \in {"move", "handle"} =>
                           \A n \in ToSet(NodesOf(r)) :
                             \/ \E i \in DOMAIN attached[r] : attached[r][i].src = n
                             \/ \E d \in DOMAIN table[n] :
                                  \E j \in DOMAIN table[n][d] : table[n][d][j][1] = r
    BY DEF OwnPacketDetached
  <2>1. PICK k, o : Settled(k, o) /\ SendAt(o)
    BY DEF SendInv
  <2>2. \A i \in DOMAIN attached[r] : attached[r][i].status = "Routing"
    BY <2>1, OnTheRing
  <2>3. ASSUME stage \in {"move", "handle"}
        PROVE  \A n \in ToSet(NodesOf(r)) :
                 \/ \E i \in DOMAIN attached[r] : attached[r][i].src = n
                 \/ \E d \in DOMAIN table[n] :
                      \E j \in DOMAIN table[n][d] : table[n][d][j][1] = r
    <3>1. PICK m, served : m \in Nat /\ UnderWay(o, m, served) /\ Tables(o, m, served)
      BY <2>1, <2>3 DEF SendAt
    <3>2. o[r] = NodesOf(r)
      BY <2>1 DEF Settled
    <3>3. \A n \in ToSet(o[r]) :
            \/ \E i \in DOMAIN attached[r] : attached[r][i].src = n
            \/ \E d \in DOMAIN table[n] : \E j \in DOMAIN table[n][d] : table[n][d][j][1] = r
      BY <2>1, <3>1, RoundFacts
    <3> QED BY <3>2, <3>3
  <2> QED BY <2>2, <2>3
<1> QED BY <1>1, SendInvariance, PTL

-----------------------------------------------------------------------------
(* The types of the variables.                                             *)

\* Lists of ways over the rings in all.
Routings(all) == Seq(all \X Nat)

\* A way is a ring and a number of hops.
LEMMA PairIn == ASSUME NEW all, NEW r, r \in all, NEW e \in Nat PROVE <<r, e>> \in all \X Nat
OBVIOUS

\* A list of ways.
LEMMA IsRoutings ==
  ASSUME NEW all, NEW l \in Nat, NEW f, DOMAIN f = 1..l, f = [j \in 1..l |-> f[j]],
         \A j \in 1..l : f[j] \in all \X Nat
  PROVE  f \in Routings(all)
<1>1. PICK T : T = all \X Nat
  OBVIOUS
<1>2. f \in [1..l -> T]
  BY <1>1
<1>3. f \in Seq(T)
  BY <1>2
<1> QED BY <1>1, <1>3 DEF Routings

\* The ways over rings of the network are pairs of a ring and a distance.
LEMMA RoutingType ==
  ASSUME NEW k, NEW o, Web(k, o), NEW R, R \subseteq DOMAIN o, NEW n, NEW d,
         NEW routing, Learnt(o, routing, n, d, R)
  PROVE  routing \in Routings(DOMAIN o)
<1>1. PICK way : /\ way \in Seq(Nat) /\ IsRouting(o, way, routing, n, d)
                 /\ ToSet(way) = Shared(o, n, d, R)
  BY DEF Learnt
<1>2. PICK l \in Nat : l = Len(way) /\ DOMAIN way = 1..l
  BY <1>1
<1>3. routing = [i \in 1..l |-> <<way[i], Distance(o[way[i]], n, d)>>]
  BY <1>1, <1>2 DEF IsRouting
<1>4. ASSUME NEW i \in 1..l
      PROVE  <<way[i], Distance(o[way[i]], n, d)>> \in (DOMAIN o) \X Nat
  <2>1. PICK r : r = way[i] /\ r \in DOMAIN o /\ n \in ToSet(o[r]) /\ d \in ToSet(o[r])
    <3>1. way[i] \in ToSet(way)
      BY <1>2 DEF ToSet
    <3> QED BY <1>1, <3>1 DEF Shared
  <2>2. PICK s : s = o[r] /\ IsCycle(k, s)
    BY <2>1 DEF Web
  <2>3. Len(s) \in Nat /\ Len(s) >= 4
    BY <2>2, CycleNodes
  <2>4. Distance(s, n, d) \in 0..(Len(s) - 1)
    BY <2>1, <2>2, DistanceFacts
  <2>5. PICK e \in Nat : e = Distance(s, n, d)
    BY <2>3, <2>4
  <2>6. <<r, e>> \in (DOMAIN o) \X Nat
    BY <2>1, PairIn
  <2> QED BY <2>1, <2>2, <2>5, <2>6
<1>5. DOMAIN routing = 1..l /\ routing = [i \in 1..l |-> routing[i]]
  BY <1>3
<1>6. \A i \in 1..l : routing[i] \in (DOMAIN o) \X Nat
  BY <1>3, <1>4
<1> QED BY <1>5, <1>6, IsRoutings

\* The finished ways are a list of ways.
LEMMA WaysType ==
  ASSUME NEW k, NEW o, Web(k, o), NEW n, NEW d, NEW l \in Nat,
         DOMAIN RingsVia(o, n, d) = 1..l,
         \A j \in 1..l : RingsVia(o, n, d)[j] \in Shared(o, n, d, DOMAIN o)
  PROVE  Ways(o, n, d) \in Routings(DOMAIN o)
<1>1. PICK via : via = RingsVia(o, n, d)
  OBVIOUS
<1>2. Ways(o, n, d) = [j \in 1..l |-> <<via[j], Distance(o[via[j]], n, d)>>]
  BY <1>1 DEF Ways
<1>3. ASSUME NEW j \in 1..l
      PROVE  <<via[j], Distance(o[via[j]], n, d)>> \in (DOMAIN o) \X Nat
  <2>1. PICK r : r = via[j] /\ r \in DOMAIN o /\ n \in ToSet(o[r]) /\ d \in ToSet(o[r])
    BY <1>1 DEF Shared
  <2>2. PICK s : s = o[r] /\ IsCycle(k, s)
    BY <2>1 DEF Web
  <2>3. Len(s) \in Nat /\ Len(s) >= 4
    BY <2>2, CycleNodes
  <2>4. Distance(s, n, d) \in 0..(Len(s) - 1)
    BY <2>1, <2>2, DistanceFacts
  <2>5. PICK e \in Nat : e = Distance(s, n, d)
    BY <2>3, <2>4
  <2>6. <<r, e>> \in (DOMAIN o) \X Nat
    BY <2>1, PairIn
  <2> QED BY <2>1, <2>2, <2>5, <2>6
<1>4. PICK f : f = Ways(o, n, d)
  OBVIOUS
<1>5. DOMAIN f = 1..l /\ f = [j \in 1..l |-> f[j]]
  BY <1>2, <1>4
<1>6. \A j \in 1..l : f[j] \in (DOMAIN o) \X Nat
  BY <1>2, <1>3, <1>4
<1>7. f \in Routings(DOMAIN o)
  BY <1>5, <1>6, IsRoutings
<1> QED BY <1>4, <1>7

\* And so are those in another order.
LEMMA WaysReordered ==
  ASSUME NEW all, NEW f, f \in Routings(all), NEW g, g \in Reorderings(f)
  PROVE  g \in Routings(all)
<1>1. PICK T : T = all \X Nat
  OBVIOUS
<1>2. f \in Seq(T)
  BY <1>1 DEF Routings
<1>3. PICK l \in Nat : DOMAIN f = 1..l /\ \A i \in 1..l : f[i] \in T
  BY <1>2
<1>4. PICK b \in Bijection(1..l, 1..l) : g = [i \in 1..l |-> f[b[i]]]
  BY <1>3 DEF Reorderings
<1>5. b \in [1..l -> 1..l]
  BY DEF Bijection, Injection
<1>6. g \in [1..l -> T]
  BY <1>3, <1>4, <1>5
<1>7. g \in Seq(T)
  BY <1>6
<1> QED BY <1>1, <1>7 DEF Routings

\* The tables, whatever the stage.
LEMMA TableTypes ==
  ASSUME NEW k, NEW o, Settled(k, o), SendAt(o), RingsBuilt, NEW n \in Node
  PROVE  /\ DOMAIN table[n] \subseteq Node
         /\ \A d \in DOMAIN table[n] : table[n][d] \in Routings(Ring)
<1>1. Web(k, o) /\ DOMAIN o = Ring
  BY DEF Settled
<1>2. ASSUME NEW R, R \subseteq DOMAIN o, TableOf(o, table[n], n, Node, R)
      PROVE  /\ DOMAIN table[n] \subseteq Node
             /\ \A d \in DOMAIN table[n] : table[n][d] \in Routings(Ring)
  <2>1. DOMAIN table[n] \subseteq Node
    BY <1>2 DEF TableOf
  <2>2. ASSUME NEW d \in DOMAIN table[n]
        PROVE  table[n][d] \in Routings(Ring)
    <3>1. PICK routing : routing = table[n][d]
      OBVIOUS
    <3>2. Learnt(o, routing, n, d, R)
      BY <1>2, <3>1 DEF TableOf
    <3>3. routing \in Routings(Ring)
      <4>1. routing \in Routings(DOMAIN o)
        BY <1>1, <1>2, <3>2, RoutingType
      <4> QED BY <1>1, <4>1
    <3> QED BY <1>1, <3>1, <3>3
  <2> QED BY <2>1, <2>2
<1>3. CASE stage \in {"inject", "move", "handle"}
  <2>1. PICK m, served : Tables(o, m, served)
    BY <1>3 DEF SendAt
  <2>2. TableOf(o, table[n], n, Node, Back(o, n, m, served))
    BY <2>1 DEF Tables
  <2>3. Back(o, n, m, served) \subseteq DOMAIN o
    BY DEF Back
  <2> QED BY <1>2, <2>2, <2>3
<1>4. CASE stage = "sort"
  BY <1>2, <1>4 DEF SendAt, Learned
<1>5. CASE stage = "ready"
  <2>1. /\ DOMAIN table[n] = Node \ {n}
        /\ \A d \in Node \ {n} :
             /\ AsWays(o, n, d, table[n][d])
             /\ \E l \in Nat :
                  /\ DOMAIN RingsVia(o, n, d) = 1..l
                  /\ \A j \in 1..l : RingsVia(o, n, d)[j] \in Shared(o, n, d, DOMAIN o)
    BY <1>5 DEF SendAt, Finished
  <2>2. ASSUME NEW d \in Node \ {n}
        PROVE  table[n][d] \in Routings(Ring)
    <3>1. PICK l \in Nat :
            /\ DOMAIN RingsVia(o, n, d) = 1..l
            /\ \A j \in 1..l : RingsVia(o, n, d)[j] \in Shared(o, n, d, DOMAIN o)
      BY <2>1
    <3>2. Ways(o, n, d) \in Routings(Ring)
      <4>1. Ways(o, n, d) \in Routings(DOMAIN o)
        BY <1>1, <3>1, WaysType
      <4> QED BY <1>1, <4>1
    <3>3. PICK routing : routing = table[n][d]
      OBVIOUS
    <3>4. routing = Ways(o, n, d) \/ routing \in Reorderings(Ways(o, n, d))
      BY <2>1, <3>3 DEF AsWays
    <3>5. routing \in Routings(Ring)
      BY <3>2, <3>4, WaysReordered
    <3> QED BY <3>3, <3>5
  <2> QED BY <2>1, <2>2
<1> QED BY <1>3, <1>4, <1>5 DEF RingsBuilt

\* The variables have their types: once the rings are there, rings, packets and
\* tables name only nodes and rings of the mesh.
THEOREM TypeCorrect == Spec => []TypeOK
<1>1. ConfInv /\ BuildInv /\ SendInv => TypeOK
  <2> SUFFICES ASSUME ConfInv, BuildInv, SendInv, RingsBuilt PROVE TypeOK
    BY DEF TypeOK
  <2>1. PICK k, o : Settled(k, o) /\ SendAt(o)
    BY DEF SendInv
  <2>2. ConfFacts(conf) /\ RingsInv /\ KnownInv /\ Built = Ring
    BY AllBuilt
  <2>3. \A r \in Ring : o[r] = NodesOf(r) /\ IsCycle(k, o[r])
    BY <2>1 DEF Settled
  <2>4. turn \in Node
    BY DEF BuildInv, RingsBuilt, Sending
  <2>5. order \in Seq(Seq(Node))
    <3>1. PICK l \in Nat : l = Len(order) /\ DOMAIN order = 1..l
      BY <2>2 DEF RingsInv
    <3>2. ASSUME NEW i \in 1..l
          PROVE  order[i] \in Seq(Node)
      <4>1. PICK r : r = i - 1 /\ r + 1 = i /\ r \in Built
        <5>1. i - 1 \in 0..(l - 1) /\ (i - 1) + 1 = i
          OBVIOUS
        <5> QED BY <3>1, <5>1 DEF Built
      <4>2. IsCycle(k, order[i])
        BY <2>2, <2>3, <4>1 DEF NodesOf
      <4>3. Node = 0..(k * k - 1)
        BY <2>1 DEF Settled
      <4> QED BY <4>2, <4>3 DEF IsCycle
    <3>3. PICK S : S = Seq(Node)
      OBVIOUS
    <3>4. order \in [1..l -> S]
      <4>1. order = [i \in 1..l |-> order[i]]
        BY <2>2, <3>1 DEF RingsInv
      <4> QED BY <3>2, <3>3, <4>1
    <3>5. order \in Seq(S)
      BY <3>4
    <3> QED BY <3>3, <3>5
  <2>6. curr_ring \in [Node -> Seq(Ring)]
    <3>1. curr_ring = [n \in Node |-> curr_ring[n]]
      BY <2>2 DEF KnownInv
    <3>2. ASSUME NEW n \in Node
          PROVE  curr_ring[n] \in Seq(Ring)
      <4>1. PICK s : s = curr_ring[n]
        OBVIOUS
      <4>2. s \in Seq(Nat) /\ ToSet(s) \subseteq Ring
        BY <2>2, <4>1 DEF KnownInv, KnownAt
      <4>3. PICK l \in Nat : l = Len(s) /\ DOMAIN s = 1..l
        BY <4>2
      <4>4. \A i \in 1..l : s[i] \in Ring
        BY <4>2, <4>3 DEF ToSet
      <4>5. s = [i \in 1..l |-> s[i]]
        BY <4>2, <4>3
      <4>6. s \in [1..l -> Ring]
        BY <4>4, <4>5
      <4>7. s \in Seq(Ring)
        BY <4>6
      <4> QED BY <4>1, <4>7
    <3> QED BY <3>1, <3>2
  <2>7. ASSUME NEW r \in Ring
        PROVE  \A i \in DOMAIN attached[r] :
                 /\ attached[r][i].node \in ToSet(NodesOf(r))
                 /\ attached[r][i].src \in ToSet(NodesOf(r))
    BY <2>1, <2>3, OnTheRing
  <2>8. \A n \in Node : DOMAIN table[n] \subseteq Node
    BY <2>1, TableTypes
  <2>9. \A n \in Node : \A d \in DOMAIN table[n] : table[n][d] \in Seq(Ring \X Nat)
    BY <2>1, TableTypes DEF Routings
  <2> QED BY <2>4, <2>5, <2>6, <2>7, <2>8, <2>9 DEF TypeOK
<1> QED BY <1>1, ConfInvariance, BuildInvariance, SendInvariance, PTL

-----------------------------------------------------------------------------
(* What the traffic patterns draw.                                         *)

\* A draw gives a value of the list.
LEMMA DrawnValue ==
  ASSUME NEW list \in Seq(Int \X Nat), list # <<>>, NEW v, v \in Values(list)
  PROVE  \E i \in DOMAIN list : v = list[i][1]
<1>1. PICK l \in Nat : l = Len(list) /\ DOMAIN list = 1..l /\ l # 0
  <2>1. Len(list) \in Nat /\ DOMAIN list = 1..Len(list) /\ Len(list) # 0
    OBVIOUS
  <2> QED BY <2>1
<1>2. ASSUME NEW pct \in Percents(list)
      PROVE  Entry(list, pct) \in 1..l
  <2>1. PICK W : W = [j \in 0..l |-> WeightUpTo(list, j)]
    OBVIOUS
  <2>2. \A j \in 0..l : W[j] \in Int /\ WeightUpTo(list, j) = W[j]
    BY <1>1, <2>1, WeightsGrow
  <2>3. pct \in Int
    BY <1>1, <2>2 DEF Percents, TotalWeight
  <2>4. PICK S : S = {i \in 1..(l - 1) : pct < WeightUpTo(list, i)}
    OBVIOUS
  <2>5. CASE S = {}
    <3>1. Entry(list, pct) = l
      BY <1>1, <2>4, <2>5 DEF Entry
    <3> QED BY <1>1, <3>1
  <2>6. CASE S # {}
    <3>1. PICK i \in S : \A j \in S : i <= j
      <4>1. S \in SUBSET Nat
        BY <2>4
      <4> QED BY <2>6, <4>1, LeastNatural
    <3>2. \A j \in 1..(i - 1) : pct >= WeightUpTo(list, j)
      <4> TAKE j \in 1..(i - 1)
      <4>1. i \in 1..(l - 1) /\ j \in 1..(l - 1) /\ ~(i <= j) /\ j \in 0..l
        BY <2>4
      <4>2. ~(pct < WeightUpTo(list, j))
        BY <2>4, <3>1, <4>1
      <4> QED BY <2>2, <2>3, <4>1, <4>2
    <3>3. PICK e : e = CHOOSE x \in 1..(Len(list) - 1) :
                         /\ pct < WeightUpTo(list, x)
                         /\ \A j \in 1..(x - 1) : pct >= WeightUpTo(list, j)
      OBVIOUS
    <3>4. e \in 1..(l - 1)
      BY <1>1, <2>4, <3>1, <3>2, <3>3
    <3>5. Entry(list, pct) = e
      BY <1>1, <2>4, <3>1, <3>3 DEF Entry
    <3> QED BY <3>4, <3>5
  <2> QED BY <2>5, <2>6
<1>3. CASE Len(list) = 1
  BY <1>1, <1>3 DEF Values
<1>4. CASE Len(list) # 1
  <2>1. PICK pct \in Percents(list) : v = list[Entry(list, pct)][1]
    BY <1>4 DEF Values
  <2> QED BY <1>1, <1>2, <2>1
<1> QED BY <1>3, <1>4

\* Every pattern sends to a node of the mesh.
LEMMA DestinationsAreNodes ==
  ASSUME ConfFacts(conf), NEW n \in Node,
         NEW d \in Destinations(conf.traffic_type, Nodes(conf), conf.hotspot, n)
  PROVE  d \in Node
<1>1. PICK nodes : nodes = Nodes(conf)
  OBVIOUS
<1>2. nodes \in Nat \ {0} /\ Node = 0..(nodes - 1)
  <2>1. LastNode \in Nat \ {0} /\ LastNode = nodes - 1
    BY <1>1, MeshFacts DEF LastNode
  <2>2. nodes \in Int
    BY <1>1 DEF Nodes, ConfFacts
  <2> QED BY <1>1, <2>1, <2>2 DEF Node
<1>3. PICK type : type = conf.traffic_type
  OBVIOUS
<1>4. type \in {"Uniform", "Transpose", "BitReverse", "Hotspot"}
  BY <1>3 DEF ConfFacts
<1>5. CASE type = "Uniform"
  <2>1. d \in UniformDestinations(nodes, n)
    BY <1>1, <1>3, <1>5 DEF Destinations
  <2> QED BY <1>2, <2>1 DEF UniformDestinations
<1>6. CASE type = "Transpose"
  <2>1. d = Transposed(nodes, n)
    BY <1>1, <1>3, <1>6 DEF Destinations
  <2>2. Halvings(nodes) % 2 = 0
    BY <1>1, <1>3, <1>6 DEF ConfFacts
  <2> QED BY <1>2, <2>1, <2>2, TransposedFacts
<1>7. CASE type = "BitReverse"
  <2>1. d = Reversed(nodes, n)
    BY <1>1, <1>3, <1>7 DEF Destinations
  <2> QED BY <1>2, <2>1, ReversedFacts
<1>8. CASE type = "Hotspot"
  <2>1. PICK list : list = conf.hotspot
    OBVIOUS
  <2>2. d \in Values(list)
    BY <1>3, <1>8, <2>1 DEF Destinations
  <2>3. list \in Seq(Int \X Nat) /\ list # <<>>
    BY <1>3, <1>8, <2>1 DEF ConfFacts
  <2>4. \A i \in DOMAIN list : list[i][1] \in 0..(nodes - 1)
    BY <1>1, <1>3, <1>8, <2>1 DEF ConfFacts, HotspotsInRange
  <2> QED BY <1>2, <2>2, <2>3, <2>4, DrawnValue
<1> QED BY <1>4, <1>5, <1>6, <1>7, <1>8

\* A packetinfo that was drawn.
DrawnFrom(n, d) ==
  /\ n \in Node /\ d \in Destinations(conf.traffic_type, Nodes(conf), conf.hotspot, n)
  /\ drawn[1] = n /\ drawn[2] = d
\* A packetinfo is drawn in the main loop, from the destinations of its node.
DrawnInv == drawn # <<>> => stage = "ready" /\ \E n, d : DrawnFrom(n, d)

\* The packetinfo at hand was drawn for one of the nodes.
LEMMA DrawnInvariance == Spec => []DrawnInv
<1>1. Init => DrawnInv
  BY DEF Init, DrawnInv
<1>2. DrawnInv /\ [Next]_vars => DrawnInv'
  <2> SUFFICES ASSUME DrawnInv, [Next]_vars PROVE DrawnInv'
    OBVIOUS
  <2>1. CASE UNCHANGED <<stage, conf, drawn>>
    BY <2>1 DEF DrawnInv, DrawnFrom, Node
  <2>2. CASE Generate
    <3>1. UNCHANGED <<stage, conf>> /\ stage = "ready"
      BY <2>2 DEF Generate
    <3>2. CASE drawn' = <<>>
      BY <3>2 DEF DrawnInv
    <3>3. CASE drawn' # <<>>
      <4>1. PICK n \in Node : Draw(n)
        BY <2>2, <3>3 DEF Generate
      <4>2. PICK d, l : /\ d \in Destinations(conf.traffic_type, Nodes(conf), conf.hotspot, n)
                        /\ drawn' = <<n, d, l>>
        BY <4>1 DEF Draw
      <4>3. DrawnFrom(n, d)'
        BY <3>1, <4>2 DEF DrawnFrom, Node
      <4> QED BY <3>1, <4>3 DEF DrawnInv
    <3> QED BY <3>2, <3>3
  <2>3. CASE stage # "ready" /\ drawn' = drawn
    BY <2>3 DEF DrawnInv
  <2> QED BY <2>1, <2>2, <2>3 DEF Next, vars, NoFile, Refuse, Configure, GenerateTopology,
             BuildRing, RingsDone, InjectControl, MoveControl, MissingRing, HandleControl,
             SortTables
<1> QED BY <1>1, <1>2, PTL DEF Spec

\* search_routing_table finds the destination of every packet: whatever the
\* pattern, the mesh and the hotspots, it is a node that the table lists, or
\* the source itself.
THEOREM DestinationInvariance == Spec => []DestinationKnown
<1>1. ConfInv /\ DrawnInv /\ TablesComplete => DestinationKnown
  <2> SUFFICES ASSUME ConfInv, DrawnInv, TablesComplete, drawn # <<>>
               PROVE  drawn[2] = drawn[1] \/ drawn[2] \in DOMAIN table[drawn[1]]
    BY DEF DestinationKnown
  <2>1. PICK n, d : DrawnFrom(n, d) /\ stage = "ready"
    BY DEF DrawnInv
  <2>2. ConfFacts(conf)
    BY <2>1, ConfKnown DEF Running
  <2>3. n \in Node /\ d \in Node
    BY <2>1, <2>2, DestinationsAreNodes DEF DrawnFrom
  <2>4. DOMAIN table[n] = Node \ {n}
    BY <2>1, <2>3 DEF TablesComplete
  <2> QED BY <2>1, <2>3, <2>4 DEF DrawnFrom
<1> QED BY <1>1, ConfInvariance, DrawnInvariance, TablesInvariance, PTL

\* Transpose and BitReverse pair the nodes of a mesh whose number of nodes is a
\* power of two the pattern takes, of whatever size.
THEOREM PartnersInvariance == Spec => []PartnersArePaired
<1>1. ConfInv /\ DrawnInv => PartnersArePaired
  <2> SUFFICES ASSUME ConfInv, DrawnInv, drawn # <<>>,
                      conf.traffic_type \in {"Transpose", "BitReverse"},
                      Nodes(conf) = Pow2[Halvings(Nodes(conf))]
               PROVE  /\ drawn[2] \in Node
                      /\ Partner(conf.traffic_type, Nodes(conf), drawn[2]) = drawn[1]
    BY DEF PartnersArePaired
  <2>1. PICK n, d : DrawnFrom(n, d) /\ stage = "ready"
    BY DEF DrawnInv
  <2>2. ConfFacts(conf)
    BY <2>1, ConfKnown DEF Running
  <2>3. n \in Node /\ d \in Node /\ drawn[1] = n /\ drawn[2] = d
    BY <2>1, <2>2, DestinationsAreNodes DEF DrawnFrom
  <2>4. PICK nodes : nodes = Nodes(conf)
    OBVIOUS
  <2>5. nodes \in Nat \ {0} /\ n \in 0..(nodes - 1)
    <3>1. LastNode \in Nat \ {0} /\ LastNode = nodes - 1
      BY <2>2, <2>4, MeshFacts DEF LastNode
    <3>2. nodes \in Int
      BY <2>2, <2>4 DEF Nodes, ConfFacts
    <3> QED BY <2>3, <2>4, <3>1, <3>2 DEF Node
  <2>6. CASE conf.traffic_type = "Transpose"
    <3>1. d = Transposed(nodes, n) /\ Halvings(nodes) % 2 = 0
      BY <2>1, <2>2, <2>4, <2>6 DEF DrawnFrom, Destinations, ConfFacts
    <3>2. Transposed(nodes, d) = n
      BY <2>4, <2>5, <3>1, TransposedFacts
    <3> QED BY <2>3, <2>4, <2>6, <3>2 DEF Partner
  <2>7. CASE conf.traffic_type = "BitReverse"
    <3>1. d = Reversed(nodes, n)
      BY <2>1, <2>4, <2>7 DEF DrawnFrom, Destinations
    <3>2. Reversed(nodes, d) = n
      BY <2>4, <2>5, <3>1, ReversedFacts
    <3> QED BY <2>3, <2>4, <2>7, <3>2 DEF Partner
  <2> QED BY <2>6, <2>7
<1> QED BY <1>1, ConfInvariance, DrawnInvariance, PTL
=============================================================================
