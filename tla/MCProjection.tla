---------------------------- MODULE MCProjection ----------------------------
(***************************************************************************)
(* Instances of the projection of a thread's replies for TLC.              *)
(***************************************************************************)
EXTENDS Projection

CONSTANTS eng, arch

=============================================================================
