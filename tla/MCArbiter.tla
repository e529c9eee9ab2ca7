----------------------------- MODULE MCArbiter -----------------------------
(* Three rings meet at the node: the smallest number for which two flits of *)
(* one group can compete while a flit of another group is present.          *)
EXTENDS Arbiter
=============================================================================
