----------------------------- MODULE ThreadRow -----------------------------
(***************************************************************************)
(* One thread: the row and what the repository writes on it.               *)
(*                                                                         *)
(* hub/src/entities/thread-repository-substrate.ts updates a thread by     *)
(* compare-and-swap with a pure transform that throws when it does not     *)
(* apply; CanX is "the transform does not throw", AfterX the row it        *)
(* returns.  Two agents negotiate by turns: a reply may stage, revise or   *)
(* retract actions, and two successive replies that both say converged     *)
(* commit what is staged.  Texts, titles, intents and labels are left out. *)
(***************************************************************************)
EXTENDS PendingAction, SequencesExt

CONSTANTS
  Role,       \* the role of each agent: engineer, architect or verifier
  MaxRounds,  \* maxRounds of the thread
  Keep,       \* CLOSED_THREAD_MESSAGE_KEEP
  None        \* null

Roles == {"engineer", "architect", "verifier"}

ASSUME ThreadAssumption ==
  /\ Role \in [Agents -> Roles]
  /\ MaxRounds \in Nat \ {0, 1}
  /\ Keep \in Nat \ {0}
  /\ None \notin Agents

ThreadStatus == {"active", "converged", "round_limit", "closed",
                 "abandoned", "cascade_failed"}

\* needs is REQUIRED_CONVERGER_ROLE of the action's type.
StagedAction == [needs : {"either", "architect"},
                 status : {"staged", "revised", "retracted", "committed"},
                 by : Agents]

\* An entry of stagedActions of a reply; NoOp is a reply without one.
Op == [kind : {"none", "stage", "revise", "retract"},
       needs : {"either", "architect"}, id : Nat]
NoOp == [kind |-> "none", needs |-> "either", id |-> 0]

\* What an agent says in a reply: converged, one staged-action operation, and
\* the summary it supplies, if any: a text or the empty string.
ReplyArg == [converged : BOOLEAN, op : Op, summary : {"keep", "set", "clear"}]

Message == [by : Agents, converged : BOOLEAN]

\* messages[n] is the message of round n, so roundCount is its length.
\* updatedAt counts the writes that set it; lastMessageProjectedAt is 0 when
\* absent.
Thread == [status : ThreadStatus, currentTurn : Roles,
           currentTurnAgentId : Agents \cup {None}, broadcast : BOOLEAN,
           participants : Seq(Agents), messages : Seq(Message),
           convergenceActions : Seq(StagedAction), summary : BOOLEAN,
           lastMessageConverged : BOOLEAN, updatedAt : Nat,
           lastMessageProjectedAt : Nat, cascadePending : BOOLEAN]

CounterpartRole(role) == IF role = "engineer" THEN "architect" ELSE "engineer"

\* The recipient is pinned but does not take part until it replies.
openThread_NoSeed(a, recipient, broadcast) ==
  [status |-> "active",
   currentTurn |-> IF recipient = None THEN CounterpartRole(Role[a]) ELSE Role[recipient],
   currentTurnAgentId |-> recipient,
   broadcast |-> broadcast,
   participants |-> <<a>>,
   messages |-> <<[by |-> a, converged |-> FALSE]>>,
   convergenceActions |-> << >>,
   summary |-> FALSE,
   lastMessageConverged |-> FALSE,
   updatedAt |-> 1,
   lastMessageProjectedAt |-> 0,
   cascadePending |-> FALSE]

\* recipient is None on a broadcast or multicast thread.
openThread(a, recipient, broadcast) ==
  [status |-> "active",
   currentTurn |-> IF recipient = None THEN CounterpartRole(Role[a]) ELSE Role[recipient],
   currentTurnAgentId |-> recipient,
   broadcast |-> broadcast,
   participants |-> IF recipient = None THEN <<a>> ELSE <<a, recipient>>,
   messages |-> <<[by |-> a, converged |-> FALSE]>>,
   convergenceActions |-> << >>,
   summary |-> FALSE,
   lastMessageConverged |-> FALSE,
   updatedAt |-> 1,
   lastMessageProjectedAt |-> 0,
   cascadePending |-> FALSE]

roundCount(t) == Len(t.messages)

-----------------------------------------------------------------------------
(* Staged actions.                                                         *)

StagedAt(acts, i) == i \in DOMAIN acts /\ acts[i].status = "staged"

CanApply(acts, op) == op.kind \in {"revise", "retract"} => StagedAt(acts, op.id)

\* A revision is a new entry in the name of the one who revises.
applyStagedActionOps(acts, op, a) ==
  CASE op.kind = "none" -> acts
    [] op.kind = "stage" ->
         Append(acts, [needs |-> op.needs, status |-> "staged", by |-> a])
    [] op.kind = "revise" ->
         Append([acts EXCEPT ![op.id].status = "revised"],
                [acts[op.id] EXCEPT !.by = a])
    [] OTHER -> [acts EXCEPT ![op.id].status = "retracted"]

WithStatus(acts, status) == {i \in DOMAIN acts : acts[i].status = status}

Restatus(acts, S, status) ==
  [i \in DOMAIN acts |-> IF i \in S THEN [acts[i] EXCEPT !.status = status] ELSE acts[i]]

-----------------------------------------------------------------------------
(* A reply.                                                                *)

upsertParticipant(parts, a) == IF Contains(parts, a) THEN parts ELSE Append(parts, a)

HasTurn(t, a) ==
  /\ t.status = "active"
  /\ t.currentTurn = Role[a]
  /\ t.currentTurnAgentId \in {None, a}

\* One word is enough.
Converges_Once(t, m) == m.converged

\* Both of the last two messages say converged.  Nothing compares their authors.
Converges(t, m) == m.converged /\ t.lastMessageConverged

\* summary is "the thread has a summary that is not blank".
NextSummary(t, m) == IF m.summary = "keep" THEN t.summary ELSE m.summary = "set"

ConvergenceGate(t, a, m) ==
  /\ WithStatus(applyStagedActionOps(t.convergenceActions, m.op, a), "staged") # {}
  /\ NextSummary(t, m)

CanReply(t, a, m) ==
  /\ HasTurn(t, a)
  /\ CanApply(t.convergenceActions, m.op)
  /\ Converges(t, m) => ConvergenceGate(t, a, m)

\* The first participant in the order of joining that is not the author, if any.
Counterpart(parts, a) ==
  LET others == {i \in DOMAIN parts : parts[i] # a}
  IN IF others = {} THEN None ELSE parts[Min(others)]

AfterReply(t, a, m) ==
  LET parts == upsertParticipant(t.participants, a)
      acts == applyStagedActionOps(t.convergenceActions, m.op, a)
      next == Counterpart(parts, a)
      status == IF Converges(t, m) THEN "converged"
                ELSE IF roundCount(t) + 1 >= MaxRounds THEN "round_limit" ELSE "active"
  IN [t EXCEPT !.status = status,
               !.currentTurn = IF next = None THEN CounterpartRole(Role[a]) ELSE Role[next],
               !.currentTurnAgentId = next,
               !.broadcast = FALSE,
               !.participants = parts,
               !.messages = Append(@, [by |-> a, converged |-> m.converged]),
               !.convergenceActions =
                   IF Converges(t, m) THEN Restatus(acts, WithStatus(acts, "staged"), "committed")
                   ELSE acts,
               !.summary = NextSummary(t, m),
               !.lastMessageConverged = m.converged,
               !.updatedAt = @ + 1]

\* Every read of a closed thread drops the middle of its messages; the result is
\* the sequence of the rounds that are left.
truncateClosedThreadMessages(t) ==
  LET n == roundCount(t)
  IN IF t.status # "closed" \/ n <= 2 * Keep THEN [k \in 1 .. n |-> k]
     ELSE [k \in 1 .. 2 * Keep |-> IF k <= Keep THEN k ELSE n - 2 * Keep + k]

committed(t) == WithStatus(t.convergenceActions, "committed")

-----------------------------------------------------------------------------
(* The other writes.                                                       *)

\* Whatever the status.
closeThread(t) == [t EXCEPT !.status = "closed", !.updatedAt = @ + 1]

CanCascadeFail(t) == t.status \in {"converged", "active"}
markCascadeFailed(t) ==
  IF CanCascadeFail(t) THEN [t EXCEPT !.status = "cascade_failed", !.updatedAt = @ + 1] ELSE t

markLastMessageProjected(t, at) ==
  IF t.lastMessageProjectedAt >= at THEN t ELSE [t EXCEPT !.lastMessageProjectedAt = at]

markCascadePending(t) == [t EXCEPT !.cascadePending = TRUE]
markCascadeCompleted(t) == [t EXCEPT !.cascadePending = FALSE]

CanLeave(t, a) == t.status = "active" /\ Contains(t.participants, a)
leaveThread(t, a) ==
  LET mine == {i \in WithStatus(t.convergenceActions, "staged") : t.convergenceActions[i].by = a}
  IN [t EXCEPT !.convergenceActions = Restatus(@, mine, "retracted"),
               !.status = "abandoned",
               !.updatedAt = @ + 1]

\* Trusting the list the sweep started from.
CanReap_Stale(t, seen) == t.updatedAt >= seen

\* seen is updatedAt when the reaper found the thread idle.  A later write makes
\* it idle no longer: the transform compares with the clock of the sweep.
CanReap(t, seen) == t.status = "active" /\ t.updatedAt = seen
reapIdleThread(t) ==
  [t EXCEPT !.convergenceActions = Restatus(@, WithStatus(@, "staged"), "retracted"),
            !.status = "abandoned",
            !.updatedAt = @ + 1]

\* Any status: a thread is unpinned even when it is over.
CanUnpin(t, a) == t.currentTurnAgentId = a
unpinCurrentTurnAgent(t) == [t EXCEPT !.currentTurnAgentId = None, !.updatedAt = @ + 1]

-----------------------------------------------------------------------------
(* Authority over the staged actions.                                      *)

\* checkConvergerAuthority: an architect may converge anything.
Satisfies(role, needs) == "architect" \in needs => role = "architect"

\* The roles that have said converged, the caller's included.  A verifier's
\* message counts as an engineer's.
convergerRoles(t, a) ==
  {Role[a]} \cup {IF Role[t.messages[n].by] = "architect" THEN "architect" ELSE "engineer" :
                   n \in {k \in DOMAIN t.messages : t.messages[k].converged}}

stagedEffective(t, m) ==
  {t.convergenceActions[i].needs :
     i \in WithStatus(t.convergenceActions, "staged") \cup committed(t)}
  \cup (IF m.op.kind = "stage" THEN {m.op.needs} ELSE {})

\* The check of createThreadReply, made on the thread as it was read.
AuthorityHolds(t, a, m) ==
  m.converged /\ t.lastMessageConverged =>
    \E role \in convergerRoles(t, a) : Satisfies(role, stagedEffective(t, m))

=============================================================================
