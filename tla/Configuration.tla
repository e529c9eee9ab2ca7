--------------------------- MODULE Configuration ---------------------------
(***************************************************************************)
(* configure(): the parameters of the configuration file, the defaults of  *)
(* those it lacks, what is derived from them, and the checks that end the  *)
(* program.                                                                *)
(***************************************************************************)
EXTENDS Traffic

CONSTANT Files   \* configuration files: records of the parameters they name

VARIABLES
  stage,   \* what the program does: "configure", "exit", or a later stage
  conf     \* GlobalParameter, once it is configured

\* The defaults of readParam; what is not read starts as zero.
Default ==
  [mesh_dim |-> 2, long |-> 5, short |-> 1, method |-> 0, packet_ratio |-> <<>>,
   ring_strategy |-> "RLrec", exb_strategy |-> "Max", traffic_type |-> "Uniform",
   hotspot |-> <<>>, sim_time |-> 10000, sim_warmup |-> 1000,
   exb_size |-> 0, enable_interrupt |-> FALSE]

\* readParam: what the file does not name takes its default.
Read(file) ==
  [p \in DOMAIN Default |-> IF p \in DOMAIN file THEN file[p] ELSE Default[p]]

\* Short packets no longer than long ones, weights that are not negative, lists
\* of weights where they are used, and no method but 0 and 1: the code takes
\* these for granted, and reads the last entry of an empty list otherwise.
ASSUME FilesAssumption ==
  \A file \in Files :
    /\ DOMAIN file \subseteq DOMAIN Default
    /\ Read(file).mesh_dim \in Int /\ Read(file).long \in Nat
    /\ Read(file).short \in 1..Read(file).long
    /\ {Read(file).packet_ratio, Read(file).hotspot} \subseteq Seq(Int \X Nat)
    /\ Read(file).traffic_type = "Hotspot" => Read(file).hotspot # <<>>
    /\ Read(file).method \in {0, 1}
    /\ Read(file).method = 1 => Read(file).packet_ratio # <<>>

\* A word that is not known leaves the first enumerator.
Known(word, words, first) == IF word \in words THEN word ELSE first
RingStrategy(word) == Known(word, {"RLrec"}, "IMR")
ExbStrategy(word) == Known(word, {"Avg"}, "Max")
TrafficType(word) == Known(word, {"Transpose", "BitReverse", "Hotspot"}, "Uniform")

\* Faulty: the mean is rounded down.
GetExbSizeFloor(short, long) ==
  LET sum[i \in Int] == IF i > long THEN 0 ELSE i + sum[i + 1]
  IN  sum[short] \div (long - short + 1)
\* get_exb_size: the mean of short..long, rounded up.
GetExbSize(short, long) ==
  LET sum[i \in Int] == IF i > long THEN 0 ELSE i + sum[i + 1]
      num == long - short + 1
  IN  (sum[short] + num - 1) \div num

ExbSizeOf(strategy, short, long) ==
  IF strategy = "Max" THEN long ELSE GetExbSize(short, long)

\* The parameters after the switch over the EXB strategy.
Settings(file) ==
  LET given == Read(file)
      exb == ExbStrategy(given.exb_strategy)
  IN  [given EXCEPT !.ring_strategy = RingStrategy(@),
                    !.exb_strategy = exb,
                    !.traffic_type = TrafficType(@),
                    !.packet_ratio = IF given.method = 1 THEN @ ELSE <<>>,
                    !.hotspot = IF TrafficType(given.traffic_type) = "Hotspot"
                                THEN @ ELSE <<>>,
                    !.exb_size = ExbSizeOf(exb, given.short, given.long),
                    !.enable_interrupt = exb = "Avg"]

Nodes(c) == c.mesh_dim * c.mesh_dim

\* Faulty: the first node behind the mesh passes the check.
HotspotsOffByOne(c) == \A i \in DOMAIN c.hotspot : c.hotspot[i][1] \in 0..Nodes(c)
\* checkRange.
HotspotsInRange(c) == \A i \in DOMAIN c.hotspot : c.hotspot[i][1] \in 0..(Nodes(c) - 1)

\* The checks of configure() and of the constructors of the patterns.
Accepted(c) ==
  /\ c.mesh_dim > 1
  /\ c.ring_strategy = "RLrec" => c.mesh_dim % 2 = 0
  /\ c.sim_time >= c.sim_warmup
  /\ c.traffic_type = "Hotspot" => HotspotsInRange(c)
  /\ c.traffic_type = "Transpose" => Halvings(Nodes(c)) % 2 = 0

NoFile ==
  /\ stage = "configure"
  /\ stage' = "exit"
  /\ UNCHANGED conf

Refuse ==
  /\ stage = "configure"
  /\ \E file \in Files : ~Accepted(Settings(file))
  /\ stage' = "exit"
  /\ UNCHANGED conf

Configure ==
  /\ stage = "configure"
  /\ \E file \in Files :
       /\ Accepted(Settings(file))
       /\ conf' = [Settings(file) EXCEPT !.sim_time = @ + Settings(file).sim_warmup]
  /\ stage' = "topology"
=============================================================================
