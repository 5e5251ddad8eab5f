--------------------------- MODULE PendingAction ---------------------------
(***************************************************************************)
(* One item of the pending-action queue: work owed to an agent, here always*)
(* a thread_message of the one thread the modules above look at, so that   *)
(* the agent alone is the natural key.                                     *)
(*                                                                         *)
(* hub/src/entities/pending-action-repository-substrate.ts writes an item  *)
(* by compare-and-swap; each definition below is the item a method writes. *)
(* A method that finds the item in a state it does not accept writes it    *)
(* back unchanged or rejects: either way the item is left as it is.        *)
(***************************************************************************)
EXTENDS Integers, Sequences

CONSTANTS
  Agents,       \* agent ids
  MaxAttempts   \* the stage of the escalation ladder that is terminal

ASSUME AttemptsAssumption == MaxAttempts \in Nat \ {0}

ItemStates == {"enqueued", "receipt_acked", "completion_acked",
               "escalated", "errored", "continuation_required"}

\* overdue: the deadline the watchdog compares with (the receipt deadline of an
\* enqueued item, the completion deadline of any other) has passed; of no account
\* once the item is closed.
Item == [to : Agents, state : ItemStates, attempts : 0 .. MaxAttempts,
         overdue : BOOLEAN]

NewItem(a) == [to |-> a, state |-> "enqueued", attempts |-> 0, overdue |-> FALSE]

\* enqueue takes an escalated item for live, findOpenByNaturalKey and abandon
\* do not.
BlocksEnqueue(i) == i.state \notin {"completion_acked", "errored"}
IsOpen(i) == i.state \notin {"completion_acked", "escalated", "errored"}

receiptAck(i) ==
  IF i.state # "enqueued" THEN i ELSE [i EXCEPT !.state = "receipt_acked", !.overdue = FALSE]

completionAck(i) == [i EXCEPT !.state = "completion_acked", !.overdue = FALSE]

\* Unconditional, whatever became of the item since the watchdog listed it.
escalate(i) == [i EXCEPT !.state = "escalated", !.overdue = FALSE]

\* All attempts from the last stage of the ladder on are alike.
incrementAttempt(i) == [i EXCEPT !.attempts = IF @ < MaxAttempts THEN @ + 1 ELSE @]

\* Only the receipt deadline moves: an item that is past its completion
\* deadline stays overdue.
rescheduleReceiptDeadline(i) ==
  [i EXCEPT !.overdue = @ /\ i.state # "enqueued"]

abandon(i) == IF IsOpen(i) THEN [i EXCEPT !.state = "errored", !.overdue = FALSE] ELSE i

saveContinuation(i) ==
  IF IsOpen(i) THEN [i EXCEPT !.state = "continuation_required"] ELSE i

\* Back to the queue with fresh deadlines; the attempts are kept.
resumeContinuation(i) ==
  IF i.state # "continuation_required" THEN i
  ELSE [i EXCEPT !.state = "enqueued", !.overdue = FALSE]

=============================================================================
