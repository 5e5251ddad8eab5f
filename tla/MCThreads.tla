----------------------------- MODULE MCThreads -----------------------------
(***************************************************************************)
(* Instances of the thread for TLC.                                        *)
(***************************************************************************)
EXTENDS ThreadProperties

CONSTANTS arch, eng, eng2

RoleOf == [a \in Agents |-> IF a = arch THEN "architect" ELSE "engineer"]

Unicast(a, b) == [by |-> a, to |-> b, broadcast |-> FALSE]
Broadcast(a) == [by |-> a, to |-> None, broadcast |-> TRUE]
Multicast(a) == [by |-> a, to |-> None, broadcast |-> FALSE]

Stage(needs) == [kind |-> "stage", needs |-> needs, id |-> 0]
Revise(i) == [kind |-> "revise", needs |-> "either", id |-> i]
Retract(i) == [kind |-> "retract", needs |-> "either", id |-> i]
Say(converged, op, summary) == [converged |-> converged, op |-> op, summary |-> summary]

Plain == Say(FALSE, NoOp, "keep")
Confirm == Say(TRUE, NoOp, "keep")
Propose(needs) == Say(TRUE, Stage(needs), "set")

SomeReplies == {Confirm, Propose("architect"), Say(FALSE, Retract(1), "clear")}
AllOpenings == {Unicast(eng, eng2), Unicast(eng, arch)}
=============================================================================
