---------------------------- MODULE MCTurnQueue ----------------------------
(***************************************************************************)
(* Instances of the turn queue for TLC.                                    *)
(***************************************************************************)
EXTENDS TurnQueue

CONSTANTS arch, eng, eng2

RoleOf == [a \in Agents |-> IF a = arch THEN "architect" ELSE "engineer"]

ToOne(agents, n) ==
  [by |-> arch, to |-> eng, broadcast |-> FALSE, late |-> agents, upsets |-> n]
ToPool ==
  [by |-> arch, to |-> None, broadcast |-> TRUE, late |-> {}, upsets |-> 1]

\* A dialogue with both agents late, one with an upset, and a pool with one.
ToOneOrPool == {ToOne({arch, eng}, 0), ToOne({eng}, 1), ToPool}
Dialogue == {ToOne({arch, eng}, 0)}

=============================================================================
