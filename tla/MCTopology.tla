----------------------------- MODULE MCTopology -----------------------------
(***************************************************************************)
(* Instances of the topology head for TLC.                                 *)
(***************************************************************************)
EXTENDS Topology

CONSTANTS o1, o2, w1, e1

=============================================================================
