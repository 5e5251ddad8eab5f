--------------------------- MODULE MCAgentClient ---------------------------
(***************************************************************************)
(* Instances of the agent's client for TLC.                                *)
(***************************************************************************)
EXTENDS AgentClient

\* One in use, and some whose requests still unwind.
FiveWires == 1 .. 5

=============================================================================
