---------------------------- MODULE ThreadProofs ----------------------------
(***************************************************************************)
(* Proofs about the thread: what convergence needs, what the cascade       *)
(* executes, and that the thread implements Negotiation, for any number of *)
(* agents, rounds, crashes, faults and interventions.                      *)
(***************************************************************************)
EXTENDS ThreadProperties, SequenceTheorems, WellFoundedInduction, TLAPS

-----------------------------------------------------------------------------
(* The inductive invariant.  It is a conjunction of what holds of the row   *)
(* and of what holds of each call.                                         *)

\* Rounds and actions are bounded, the last message is the one the flag tells
\* of, and the two who began are different.
RowFits(t) ==
  LET n == Len(t.messages)
  IN /\ n >= 1 /\ n <= MaxRounds
     /\ t.status = "active" => n < MaxRounds
     /\ Len(t.convergenceActions) < n
     /\ t.lastMessageConverged = t.messages[n].converged
     /\ Len(t.participants) >= 1
     /\ Len(t.participants) > 1 => t.participants[1] # t.participants[2]

\* Of an agent that says something twice running: it can only be one that took
\* the place of the first participant.
Replaces(t, a) ==
  a \notin {t.participants[1], t.participants[2]} /\ Role[a] = Role[t.participants[1]]

TwoRoles(t) ==
  Len(t.participants) > 1 /\ Role[t.participants[1]] # Role[t.participants[2]]

\* Whose turn it is: not of the role that spoke last.
TurnFits(t) ==
  LET last == t.messages[Len(t.messages)].by
  IN t.status = "active" =>
       /\ Len(t.participants) = 1 =>
            last = t.participants[1] /\ t.currentTurn # Role[t.participants[1]]
       /\ TwoRoles(t) => t.currentTurn # Role[last] \/ Replaces(t, last)

AgreedByTwo(t) ==
  LET n == Len(t.messages)
  IN committed(t) # {} /\ TwoRoles(t) =>
       /\ n > 1 /\ t.messages[n].converged /\ t.messages[n - 1].converged
       /\ t.messages[n].by # t.messages[n - 1].by \/ Replaces(t, t.messages[n].by)

\* Exactly the threads that converged have something committed.
EndFits(t) ==
  /\ t.status \in {"converged", "cascade_failed"} => committed(t) # {}
  /\ committed(t) # {} => t.status \in {"converged", "cascade_failed", "closed"}
  /\ t.cascadePending => t.status # "active"

RowInv(t) == RowFits(t) /\ TurnFits(t) /\ AgreedByTwo(t) /\ EndFits(t)

\* A call of the cascade executes what is committed: what is no longer to run
\* has been executed, unless an action failed.
CascadeFits(c) ==
  /\ c.run \subseteq committed(thread)
  /\ c.pc = "exec" => c.run # {}
  /\ c.pc = "final" => c.run = {}
  /\ c.pc \in {"pend", "run", "exec", "final"} =>
       /\ thread.status # "active"
       /\ ~c.failed => \A i \in committed(thread) \ c.run : spawned[i] > 0

\* A reply whose round is still the last has passed the check of authority.
CheckFits(a, c) ==
  /\ c.round <= roundCount(thread)
  /\ a \in Agents /\ c.pc = "commit" =>
       /\ c.arg.converged
       /\ thread.status = "active" /\ c.round = roundCount(thread) =>
            AuthorityHolds(thread, a, c.arg)

ThreadInv ==
  /\ TypeOK
  /\ RowInv(thread)
  /\ \A p \in Procs : CascadeFits(call[p]) /\ CheckFits(p, call[p])

-----------------------------------------------------------------------------
(* Operators.                                                              *)

\* Min is the least element of any set of numbers that is not empty.
LEMMA MinProperties ==
  ASSUME NEW S, S \subseteq Nat, S # {}
  PROVE  Min(S) \in S /\ \A y \in S : Min(S) <= y
<1> DEFINE lt == OpToRel(<, Nat)
<1>1. PICK x \in S : \A y \in S : ~ (<<y, x>> \in lt)
  BY NatLessThanWellFounded, WFMin
<1>2. \A y \in S : x <= y
  <2> SUFFICES ASSUME NEW y \in S PROVE x <= y OBVIOUS
  <2>1. ~(<<y, x>> \in {ss \in Nat \X Nat : ss[1] < ss[2]})
    BY <1>1 DEF OpToRel
  <2>2. <<y, x>> \in Nat \X Nat BY <1>1
  <2> QED BY <2>1, <2>2
<1> QED BY <1>2 DEF Min

\* The lists of staged actions, under a name the provers need not open.
ActionLists == Seq(StagedAction)

ActionStatus == {"staged", "revised", "retracted", "committed"}

\* Restatus changes the status of the chosen actions and nothing else.
LEMMA RestatusProperties ==
  ASSUME NEW acts \in ActionLists, NEW S, NEW status \in ActionStatus
  PROVE  /\ Restatus(acts, S, status) \in ActionLists
         /\ Len(Restatus(acts, S, status)) = Len(acts)
         /\ DOMAIN Restatus(acts, S, status) = DOMAIN acts
         /\ \A i \in DOMAIN acts :
              /\ Restatus(acts, S, status)[i].needs = acts[i].needs
              /\ Restatus(acts, S, status)[i].status = IF i \in S THEN status ELSE acts[i].status
<1> DEFINE new == Restatus(acts, S, status)
<1>1. /\ acts \in [1 .. Len(acts) -> StagedAction] /\ Len(acts) \in Nat
  BY LenProperties DEF ActionLists
<1>2. \A i \in DOMAIN acts : acts[i] \in StagedAction BY <1>1
<1>3. \A i \in DOMAIN acts : [acts[i] EXCEPT !.status = status] \in StagedAction
  BY <1>2 DEF StagedAction, ActionStatus
<1>4. new \in [1 .. Len(acts) -> StagedAction] BY <1>1, <1>2, <1>3 DEF Restatus
<1>5. new \in ActionLists BY <1>1, <1>4, SeqDef DEF ActionLists
<1>6. Len(new) = Len(acts) BY <1>1, <1>4, <1>5, LenProperties DEF ActionLists
<1>7. \A i \in DOMAIN acts :
        /\ new[i].needs = acts[i].needs
        /\ new[i].status = IF i \in S THEN status ELSE acts[i].status
  BY <1>2 DEF Restatus, StagedAction
<1> QED BY <1>1, <1>4, <1>5, <1>6, <1>7

\* What a reply does to the staged actions: at most one is added, none becomes
\* committed, and what is staged afterwards needs what was needed before or
\* what the reply itself stages.
LEMMA OpsProperties ==
  ASSUME NEW acts \in ActionLists, NEW op \in Op, NEW a \in Agents, CanApply(acts, op)
  PROVE  LET new == applyStagedActionOps(acts, op, a)
         IN /\ new \in ActionLists
            /\ Len(new) <= Len(acts) + 1
            /\ WithStatus(acts, "committed") = {} => WithStatus(new, "committed") = {}
            /\ \A i \in WithStatus(new, "staged") :
                 \/ \E j \in WithStatus(acts, "staged") : new[i].needs = acts[j].needs
                 \/ op.kind = "stage" /\ new[i].needs = op.needs
<1> DEFINE new == applyStagedActionOps(acts, op, a)
<1> DEFINE n == Len(acts)
<1>1. /\ acts \in [1 .. n -> StagedAction] /\ n \in Nat /\ DOMAIN acts = 1 .. n
  BY LenProperties DEF ActionLists
<1>2. CASE op.kind = "none"
  <2>1. new = acts BY <1>2 DEF applyStagedActionOps
  <2> QED BY <1>1, <2>1
<1>3. CASE op.kind = "stage"
  <2> DEFINE e == [needs |-> op.needs, status |-> "staged", by |-> a]
  <2>1. new = Append(acts, e) BY <1>3 DEF applyStagedActionOps
  <2>2. e \in StagedAction BY DEF StagedAction, Op
  <2>3. /\ new \in ActionLists /\ Len(new) = n + 1 /\ DOMAIN new = 1 .. n + 1
        /\ \A i \in 1 .. n : new[i] = acts[i]
        /\ new[n + 1] = e
    BY <1>1, <2>1, <2>2, AppendProperties, LenProperties DEF ActionLists
  <2>4. \A i \in DOMAIN new : i \in 1 .. n \/ i = n + 1 BY <1>1, <2>3
  <2>5. e.status = "staged" /\ e.needs = op.needs OBVIOUS
  <2>6. WithStatus(acts, "committed") = {} => WithStatus(new, "committed") = {}
    BY <1>1, <2>3, <2>4, <2>5 DEF WithStatus
  <2>7. \A i \in WithStatus(new, "staged") :
                 \/ \E j \in WithStatus(acts, "staged") : new[i].needs = acts[j].needs
                 \/ op.kind = "stage" /\ new[i].needs = op.needs
    BY <1>1, <1>3, <2>3, <2>4, <2>5 DEF WithStatus
  <2> QED BY <1>1, <2>3, <2>6, <2>7
<1>4. CASE op.kind = "revise"
  <2> DEFINE e == [acts[op.id] EXCEPT !.by = a]
             old == [acts EXCEPT ![op.id].status = "revised"]
  <2>1. new = Append(old, e) BY <1>4 DEF applyStagedActionOps
  <2>2. op.id \in 1 .. n /\ acts[op.id].status = "staged" /\ acts[op.id] \in StagedAction
    BY <1>1, <1>4 DEF CanApply, StagedAt
  <2>3. e \in StagedAction /\ e.status = "staged" /\ e.needs = acts[op.id].needs
    BY <2>2 DEF StagedAction
  <2>4. [acts[op.id] EXCEPT !.status = "revised"] \in StagedAction
    BY <2>2 DEF StagedAction
  <2>5. old \in [1 .. n -> StagedAction] BY <1>1, <2>4
  <2>6. old \in ActionLists /\ Len(old) = n
    BY <1>1, <2>5, SeqDef, LenProperties DEF ActionLists
  <2>7. /\ new \in ActionLists /\ Len(new) = n + 1 /\ DOMAIN new = 1 .. n + 1
        /\ \A i \in 1 .. n : new[i] = old[i]
        /\ new[n + 1] = e
    BY <1>1, <2>1, <2>3, <2>6, AppendProperties, LenProperties DEF ActionLists
  <2>8. \A i \in 1 .. n : /\ old[i].needs = acts[i].needs
                          /\ old[i].status = IF i = op.id THEN "revised" ELSE acts[i].status
    BY <1>1 DEF StagedAction
  <2>9. \A i \in DOMAIN new : i \in 1 .. n \/ i = n + 1 BY <1>1, <2>7
  <2> HIDE DEF new, old, e
  <2>10. WithStatus(acts, "committed") = {} => WithStatus(new, "committed") = {}
    BY <1>1, <2>3, <2>7, <2>8, <2>9 DEF WithStatus
  <2>11. \A i \in WithStatus(new, "staged") :
           \E j \in WithStatus(acts, "staged") : new[i].needs = acts[j].needs
    BY <1>1, <2>2, <2>3, <2>7, <2>8, <2>9 DEF WithStatus
  <2> QED BY <1>1, <2>7, <2>10, <2>11 DEF new
<1>5. CASE op.kind = "retract"
  <2>1. new = [acts EXCEPT ![op.id].status = "retracted"]
    BY <1>5 DEF applyStagedActionOps
  <2>2. op.id \in 1 .. n /\ acts[op.id] \in StagedAction
    BY <1>1, <1>5 DEF CanApply, StagedAt
  <2>3. [acts[op.id] EXCEPT !.status = "retracted"] \in StagedAction
    BY <2>2 DEF StagedAction
  <2>4. new \in [1 .. n -> StagedAction] BY <1>1, <2>1, <2>3
  <2>5. new \in ActionLists /\ Len(new) = n
    BY <1>1, <2>4, SeqDef, LenProperties DEF ActionLists
  <2>6. \A i \in 1 .. n : /\ new[i].needs = acts[i].needs
                          /\ new[i].status = IF i = op.id THEN "retracted" ELSE acts[i].status
    BY <1>1, <2>1 DEF StagedAction
  <2>7. DOMAIN new = 1 .. n BY <2>4
  <2> QED BY <1>1, <2>5, <2>6, <2>7 DEF WithStatus
<1> QED BY <1>2, <1>3, <1>4, <1>5 DEF Op

-----------------------------------------------------------------------------
(* The row.                                                                *)

\* With two who began, the turn goes to the one of them that did not speak.
LEMMA CounterpartProperties ==
  ASSUME NEW ps \in Seq(Agents), Len(ps) > 1, ps[1] # ps[2], NEW a \in Agents
  PROVE  Counterpart(ps, a) = IF a = ps[1] THEN ps[2] ELSE ps[1]
<1> DEFINE others == {i \in DOMAIN ps : ps[i] # a}
<1>1. Len(ps) \in Nat /\ DOMAIN ps = 1 .. Len(ps) BY LenProperties
<1>2. others \subseteq Nat BY <1>1
<1>3. CASE a = ps[1]
  <2>1. 2 \in others /\ 1 \notin others BY <1>1, <1>3
  <2>2. Min(others) \in others /\ \A y \in others : Min(others) <= y
    BY <1>2, <2>1, MinProperties
  <2> HIDE DEF others
  <2>3. \A y \in others : y >= 2
    <3> USE DEF others
    <3> QED BY <1>1, <2>1
  <2>4. PICK k \in Nat : k = Min(others) /\ k \in others /\ k <= 2
    BY <1>2, <2>1, <2>2
  <2>5. k = 2 BY <2>3, <2>4
  <2> QED BY <1>3, <2>1, <2>4, <2>5 DEF Counterpart, others
<1>4. CASE a # ps[1]
  <2>1. 1 \in others BY <1>1, <1>4
  <2>2. Min(others) \in others /\ \A y \in others : Min(others) <= y
    BY <1>2, <2>1, MinProperties
  <2> HIDE DEF others
  <2>3. \A y \in others : y >= 1
    <3> USE DEF others
    <3> QED BY <1>1
  <2>4. PICK k \in Nat : k = Min(others) /\ k \in others /\ k <= 1
    BY <1>2, <2>1, <2>2
  <2>5. k = 1 BY <2>3, <2>4
  <2> QED BY <1>4, <2>1, <2>4, <2>5 DEF Counterpart, others
<1> QED BY <1>3, <1>4

\* The one whose turn it is joins, so that at least two take part.
LEMMA UpsertProperties ==
  ASSUME NEW t \in Thread, RowInv(t), NEW a \in Agents, HasTurn(t, a)
  PROVE  LET ps == upsertParticipant(t.participants, a)
         IN /\ ps \in Seq(Agents) /\ Len(ps) > 1
            /\ ps[1] = t.participants[1] /\ ps[1] # ps[2]
            /\ \/ Len(t.participants) > 1 /\ ps[2] = t.participants[2]
               \/ Len(t.participants) = 1 /\ ps[2] = a /\ Role[a] # Role[ps[1]]
<1> DEFINE qs == t.participants
<1> DEFINE ps == upsertParticipant(qs, a)
<1> DEFINE n == Len(qs)
<1>1. qs \in Seq(Agents) BY DEF Thread
<1>2. /\ n \in Nat /\ n >= 1 /\ DOMAIN qs = 1 .. n
      /\ n > 1 => qs[1] # qs[2]
  BY <1>1, LenProperties DEF RowInv, RowFits
<1> HIDE DEF n
<1>3. n = 1 => Role[a] # Role[qs[1]]
  BY DEF RowInv, TurnFits, HasTurn, n
<1>4. CASE Contains(qs, a)
  <2>1. ps = qs BY <1>4 DEF upsertParticipant
  <2>2. \E i \in 1 .. n : qs[i] = a BY <1>4 DEF Contains, n
  <2>3. n # 1 BY <1>3, <2>2
  <2>4. n > 1 BY <1>2, <2>3
  <2> QED BY <1>1, <1>2, <2>1, <2>4 DEF n
<1>5. CASE ~Contains(qs, a)
  <2>1. ps = Append(qs, a) BY <1>5 DEF upsertParticipant
  <2>2. /\ ps \in Seq(Agents) /\ Len(ps) = n + 1
        /\ \A i \in 1 .. n : ps[i] = qs[i]
        /\ ps[n + 1] = a
    BY <1>1, <2>1, AppendProperties DEF n
  <2>3. Len(ps) > 1 /\ ps[1] = qs[1] BY <1>2, <2>2
  <2>4. CASE n = 1
    <3>1. ps[2] = a BY <2>2, <2>4
    <3> QED BY <1>3, <2>2, <2>3, <2>4, <3>1 DEF n
  <2>5. CASE n > 1
    <3>1. ps[2] = qs[2] BY <1>2, <2>2, <2>5
    <3> QED BY <1>2, <2>2, <2>3, <2>5, <3>1 DEF n
  <2>6. n = 1 \/ n > 1 BY <1>2
  <2> QED BY <2>4, <2>5, <2>6
<1> QED BY <1>4, <1>5

\* The lists of a thread, under names the provers need not open.
Parties == Seq(Agents)
Messages == Seq(Message)

\* The fields of a row, and the lengths of its lists.
LEMMA ThreadFields ==
  ASSUME NEW t \in Thread
  PROVE  /\ t.status \in ThreadStatus /\ t.participants \in Parties
         /\ t.messages \in Messages /\ t.convergenceActions \in ActionLists
         /\ t.summary \in BOOLEAN /\ t.lastMessageConverged \in BOOLEAN
         /\ t.updatedAt \in Nat /\ t.cascadePending \in BOOLEAN
         /\ roundCount(t) \in Nat /\ DOMAIN t.messages = 1 .. roundCount(t)
         /\ Len(t.convergenceActions) \in Nat
         /\ DOMAIN t.convergenceActions = 1 .. Len(t.convergenceActions)
BY LenProperties DEF Thread, Parties, Messages, ActionLists, roundCount

\* The rows, with the lists under their names.
LEMMA ThreadRecords ==
  Thread = [status : ThreadStatus, currentTurn : Roles,
            currentTurnAgentId : Agents \cup {None}, broadcast : BOOLEAN,
            participants : Parties, messages : Messages,
            convergenceActions : ActionLists, summary : BOOLEAN,
            lastMessageConverged : BOOLEAN, updatedAt : Nat,
            lastMessageProjectedAt : Nat, cascadePending : BOOLEAN]
BY DEF Thread, Parties, Messages, ActionLists

\* What a reply writes, field by field.
LEMMA ReplyFields ==
  ASSUME NEW t \in Thread, RowInv(t), NEW a \in Agents, NEW m \in ReplyArg, CanReply(t, a, m)
  PROVE  LET u == AfterReply(t, a, m)
             ps == upsertParticipant(t.participants, a)
             acts == applyStagedActionOps(t.convergenceActions, m.op, a)
         IN /\ u \in Thread
            /\ u.status = IF Converges(t, m) THEN "converged"
                          ELSE IF roundCount(t) + 1 >= MaxRounds THEN "round_limit" ELSE "active"
            /\ u.currentTurn = Role[u.currentTurnAgentId]
            /\ u.currentTurnAgentId = IF a = ps[1] THEN ps[2] ELSE ps[1]
            /\ u.participants = ps
            /\ u.messages = Append(t.messages, [by |-> a, converged |-> m.converged])
            /\ u.convergenceActions =
                 IF Converges(t, m) THEN Restatus(acts, WithStatus(acts, "staged"), "committed")
                 ELSE acts
            /\ u.lastMessageConverged = m.converged
            /\ u.cascadePending = t.cascadePending
<1> DEFINE u == AfterReply(t, a, m)
           ps == upsertParticipant(t.participants, a)
           acts == applyStagedActionOps(t.convergenceActions, m.op, a)
           new == IF Converges(t, m) THEN Restatus(acts, WithStatus(acts, "staged"), "committed")
                  ELSE acts
           end == IF Converges(t, m) THEN "converged"
                  ELSE IF roundCount(t) + 1 >= MaxRounds THEN "round_limit" ELSE "active"
           next == Counterpart(ps, a)
           said == Append(t.messages, [by |-> a, converged |-> m.converged])
           sum == NextSummary(t, m)
           at == t.updatedAt + 1
<1>1. HasTurn(t, a) /\ CanApply(t.convergenceActions, m.op) BY DEF CanReply
<1>2. /\ ps \in Parties /\ Len(ps) > 1 /\ ps[1] # ps[2] /\ ps[1] \in Agents /\ ps[2] \in Agents
  BY <1>1, UpsertProperties, ElementOfSeq DEF Parties
<1>3. next = (IF a = ps[1] THEN ps[2] ELSE ps[1]) /\ next \in Agents /\ next # None
  BY <1>2, CounterpartProperties, ThreadAssumption DEF Parties
<1>4. acts \in ActionLists
  BY <1>1, ThreadFields, OpsProperties DEF ReplyArg
<1>5. new \in ActionLists
  BY <1>4, RestatusProperties DEF ActionStatus
<1>6. said \in Messages
  BY ThreadFields, AppendProperties DEF Messages, Message, ReplyArg
<1>7. Role[next] \in Roles BY <1>3, ThreadAssumption
<1>8. sum \in BOOLEAN BY ThreadFields DEF NextSummary
<1>9. end \in ThreadStatus BY DEF ThreadStatus
<1>10. m.converged \in BOOLEAN BY DEF ReplyArg
<1>11. u = [t EXCEPT !.status = end, !.currentTurn = Role[next],
                    !.currentTurnAgentId = next, !.broadcast = FALSE,
                    !.participants = ps, !.messages = said, !.convergenceActions = new,
                    !.summary = sum, !.lastMessageConverged = m.converged,
                    !.updatedAt = at]
  BY <1>3 DEF AfterReply, Thread
<1>12. at \in Nat BY ThreadFields
<1> HIDE DEF u, ps, acts, new, end, next, said, sum, at
<1>13. ps \in Parties /\ next \in Agents \cup {None} /\ Role[next] \in Roles BY <1>2, <1>3, <1>7
<1>14. u \in Thread
  BY <1>5, <1>6, <1>8, <1>9, <1>10, <1>11, <1>12, <1>13, ThreadRecords
<1>15. u.status = end /\ u.currentTurn = Role[next] /\ u.currentTurnAgentId = next
  BY <1>11, ThreadRecords
<1>16. u.participants = ps /\ u.messages = said /\ u.convergenceActions = new
  BY <1>11, ThreadRecords
<1>17. u.lastMessageConverged = m.converged /\ u.cascadePending = t.cascadePending
  BY <1>11, ThreadRecords
<1> QED BY <1>3, <1>14, <1>15, <1>16, <1>17 DEF u, ps, acts, new, end, said

\* What becomes of the row t when a replies m.
ReplyEffect(t, a, m, u) ==
  /\ u \in Thread /\ RowInv(u)
  /\ t.status = "active" /\ committed(t) = {}
  /\ u.status \in {"active", "round_limit", "converged"}
  /\ u.status # "converged" => committed(u) = {}
  /\ u.status = "converged" => committed(u) # {} /\ m.converged /\ t.lastMessageConverged
  /\ committed(u) \subseteq 1 .. MaxRounds
  /\ roundCount(u) = roundCount(t) + 1
  /\ u.messages[roundCount(t) + 1] = [by |-> a, converged |-> m.converged]
  /\ \A k \in 1 .. roundCount(t) : u.messages[k] = t.messages[k]
  /\ \A i \in committed(u) : u.convergenceActions[i].needs \in stagedEffective(t, m)

\* A reply keeps the row as it must be, and what it commits was staged under
\* the check of authority of the same row.
LEMMA ReplyRow ==
  ASSUME NEW t \in Thread, RowInv(t), NEW a \in Agents, NEW m \in ReplyArg, CanReply(t, a, m)
  PROVE  ReplyEffect(t, a, m, AfterReply(t, a, m))
<1> DEFINE u == AfterReply(t, a, m)
           n == roundCount(t)
           ps == upsertParticipant(t.participants, a)
           old == t.convergenceActions
           acts == applyStagedActionOps(old, m.op, a)
           staged == WithStatus(acts, "staged")
           k == Len(old)
           l == Len(acts)
<1>1. /\ t.status = "active" /\ t.currentTurn = Role[a] /\ HasTurn(t, a)
      /\ CanApply(old, m.op) /\ (Converges(t, m) => ConvergenceGate(t, a, m))
  BY DEF CanReply, HasTurn
<1>2. committed(t) = {} BY <1>1 DEF RowInv, EndFits
<1>3. /\ n \in Nat /\ n >= 1 /\ n < MaxRounds /\ k \in Nat /\ k < n
      /\ t.lastMessageConverged = t.messages[n].converged /\ MaxRounds \in Nat
  BY <1>1, ThreadFields, ThreadAssumption DEF RowInv, RowFits, roundCount
<1>4. /\ acts \in ActionLists /\ l <= k + 1
      /\ WithStatus(acts, "committed") = {}
      /\ \A i \in staged :
           \/ \E j \in WithStatus(old, "staged") : acts[i].needs = old[j].needs
           \/ m.op.kind = "stage" /\ acts[i].needs = m.op.needs
  BY <1>1, <1>2, ThreadFields, OpsProperties DEF ReplyArg, committed
<1>5. l \in Nat /\ DOMAIN acts = 1 .. l /\ l <= n
  <2>1. l \in Nat /\ DOMAIN acts = 1 .. l BY <1>4, LenProperties DEF ActionLists
  <2> HIDE DEF l, k, n
  <2> QED BY <1>3, <1>4, <2>1
<1>6. /\ u \in Thread
      /\ u.status = IF Converges(t, m) THEN "converged"
                    ELSE IF n + 1 >= MaxRounds THEN "round_limit" ELSE "active"
      /\ u.currentTurn = Role[IF a = ps[1] THEN ps[2] ELSE ps[1]]
      /\ u.participants = ps
      /\ u.messages = Append(t.messages, [by |-> a, converged |-> m.converged])
      /\ u.convergenceActions = IF Converges(t, m) THEN Restatus(acts, staged, "committed")
                                ELSE acts
      /\ u.lastMessageConverged = m.converged
      /\ u.cascadePending = t.cascadePending
  BY ReplyFields
<1>7. /\ roundCount(u) = n + 1
      /\ u.messages[n + 1] = [by |-> a, converged |-> m.converged]
      /\ \A j \in 1 .. n : u.messages[j] = t.messages[j]
  <2>1. t.messages \in Seq(Message) /\ [by |-> a, converged |-> m.converged] \in Message
    BY ThreadFields DEF Messages, Message, ReplyArg
  <2> QED BY <1>6, <2>1, AppendProperties DEF roundCount
<1>8. /\ ps \in Seq(Agents) /\ Len(ps) > 1
      /\ ps[1] = t.participants[1] /\ ps[1] # ps[2]
      /\ \/ Len(t.participants) > 1 /\ ps[2] = t.participants[2]
         \/ Len(t.participants) = 1 /\ ps[2] = a /\ Role[a] # Role[ps[1]]
  BY <1>1, UpsertProperties
<1> DEFINE new == u.convergenceActions
<1>9. /\ new \in ActionLists /\ Len(new) = l /\ DOMAIN new = 1 .. l
      /\ \A i \in 1 .. l : new[i].needs = acts[i].needs
      /\ committed(u) = IF Converges(t, m) THEN staged ELSE {}
  <2>1. CASE Converges(t, m)
    <3>1. new = Restatus(acts, staged, "committed") BY <1>6, <2>1
    <3>2. /\ new \in ActionLists /\ Len(new) = l /\ DOMAIN new = DOMAIN acts
          /\ \A i \in DOMAIN acts :
               /\ new[i].needs = acts[i].needs
               /\ new[i].status = IF i \in staged THEN "committed" ELSE acts[i].status
      BY <1>4, <3>1, RestatusProperties DEF ActionStatus
    <3>3. committed(u) = staged BY <1>4, <3>2 DEF committed, WithStatus
    <3> QED BY <1>5, <2>1, <3>2, <3>3
  <2>2. CASE ~Converges(t, m)
    <3>1. new = acts BY <1>6, <2>2
    <3> QED BY <1>4, <1>5, <2>2, <3>1 DEF committed
  <2> QED BY <2>1, <2>2
<1>10. Converges(t, m) => staged # {} /\ m.converged /\ t.lastMessageConverged
  BY <1>1 DEF ConvergenceGate, Converges
<1>11. staged \subseteq 1 .. l BY <1>5 DEF WithStatus
<1> HIDE DEF u, n, ps, old, acts, staged, k, l, new
<1>12. RowFits(u)
  <2>1. u.status = "active" => n + 1 < MaxRounds BY <1>3, <1>6
  <2>2. Len(u.participants) >= 1 /\ (Len(u.participants) > 1 => u.participants[1] # u.participants[2])
    <3>1. u.participants = ps /\ Len(ps) > 1 /\ ps[1] # ps[2] /\ Len(ps) \in Nat
      BY <1>6, <1>8, LenProperties
    <3> QED BY <3>1
  <2>3. Len(u.messages) = n + 1 BY <1>7 DEF roundCount
  <2>4. Len(new) < n + 1
    <3>1. l < n + 1 BY <1>3, <1>5
    <3> QED BY <1>9, <3>1
  <2>5. u.lastMessageConverged = u.messages[n + 1].converged
    <3>1. u.lastMessageConverged = m.converged BY <1>6
    <3>2. u.messages[n + 1].converged = m.converged BY <1>7
    <3> QED BY <3>1, <3>2
  <2>6. n + 1 >= 1 /\ n + 1 <= MaxRounds BY <1>3
  <2> QED BY <2>1, <2>2, <2>3, <2>4, <2>5, <2>6 DEF RowFits, new
<1>13. u.participants = ps /\ Len(ps) > 1 /\ Len(u.participants) # 1
  <2>1. Len(ps) \in Nat BY <1>8, LenProperties
  <2> QED BY <1>6, <1>8, <2>1
<1>14. TwoRoles(u) => \/ Role[IF a = ps[1] THEN ps[2] ELSE ps[1]] # Role[a]
                     \/ Replaces(u, a)
  BY <1>13 DEF TwoRoles, Replaces
<1>15. TurnFits(u)
  BY <1>6, <1>7, <1>13, <1>14 DEF TurnFits, roundCount
<1>16. AgreedByTwo(u)
  <2> SUFFICES ASSUME committed(u) # {}, TwoRoles(u)
      PROVE  /\ n + 1 > 1 /\ u.messages[n + 1].converged /\ u.messages[n].converged
             /\ u.messages[n + 1].by # u.messages[n].by \/ Replaces(u, u.messages[n + 1].by)
    <3>1. Len(u.messages) = n + 1 /\ (n + 1) - 1 = n BY <1>3, <1>7 DEF roundCount
    <3> QED BY <3>1 DEF AgreedByTwo
  <2>1. m.converged /\ t.lastMessageConverged BY <1>9, <1>10
  <2>2. n \in 1 .. n /\ n + 1 > 1 BY <1>3
  <2>3. u.messages[n] = t.messages[n] BY <1>7, <2>2
  <2>4. u.messages[n + 1].by = a /\ u.messages[n + 1].converged = m.converged BY <1>7
  <2>5. CASE Len(t.participants) > 1 /\ ps[2] = t.participants[2]
    <3> DEFINE b == t.messages[n].by
    <3>1. TwoRoles(t) BY <1>8, <1>13, <2>5 DEF TwoRoles
    <3>2. t.currentTurn # Role[b] \/ Replaces(t, b)
      BY <1>1, <3>1 DEF RowInv, TurnFits, n, roundCount
    <3>3. Replaces(t, b) => Replaces(u, b) BY <1>8, <1>13, <2>5 DEF Replaces
    <3> QED BY <1>1, <1>3, <2>1, <2>2, <2>3, <2>4, <3>2, <3>3
  <2>6. CASE Len(t.participants) = 1 /\ ps[2] = a /\ Role[a] # Role[ps[1]]
    <3>1. t.messages[n].by = ps[1]
      BY <1>1, <1>8, <2>6 DEF RowInv, TurnFits, n, roundCount
    <3> QED BY <2>1, <1>3, <2>2, <2>3, <2>4, <2>6, <3>1
  <2> QED BY <1>8, <2>5, <2>6
<1>17. EndFits(u)
  BY <1>1, <1>6, <1>9, <1>10 DEF EndFits, RowInv
<1>18. committed(u) \subseteq 1 .. MaxRounds
  <2>1. 1 .. l \subseteq 1 .. MaxRounds BY <1>3, <1>5
  <2> QED BY <1>9, <1>11, <2>1
<1>19. \A i \in committed(u) : new[i].needs \in stagedEffective(t, m)
  <2> SUFFICES ASSUME NEW i \in committed(u) PROVE new[i].needs \in stagedEffective(t, m)
    OBVIOUS
  <2>1. i \in staged /\ new[i].needs = acts[i].needs BY <1>9, <1>11
  <2> QED BY <1>4, <2>1 DEF stagedEffective, old
<1> QED
  BY <1>1, <1>2, <1>6, <1>7, <1>9, <1>10, <1>12, <1>15, <1>16, <1>17, <1>18, <1>19
     DEF ReplyEffect, RowInv, u, n, new

\* The other writes: they leave the negotiation as it is, or end it.
KeepsTalk(t, u) ==
  /\ u \in Thread
  /\ u.messages = t.messages /\ u.participants = t.participants
  /\ u.currentTurn = t.currentTurn
  /\ u.lastMessageConverged = t.lastMessageConverged
  /\ Len(u.convergenceActions) = Len(t.convergenceActions)
  /\ committed(u) = committed(t)
  /\ u.status = "active" => t.status = "active" /\ u.convergenceActions = t.convergenceActions

\* A write that leaves the talk alone keeps the row as it must be.
LEMMA TalkKept ==
  ASSUME NEW t \in Thread, RowInv(t), NEW u, KeepsTalk(t, u), EndFits(u)
  PROVE  RowInv(u)
<1>1. RowFits(u) BY DEF KeepsTalk, RowInv, RowFits
<1>2. TurnFits(u) BY DEF KeepsTalk, RowInv, TurnFits, TwoRoles, Replaces
<1>3. AgreedByTwo(u) BY DEF KeepsTalk, RowInv, AgreedByTwo, TwoRoles, Replaces
<1> QED BY <1>1, <1>2, <1>3 DEF RowInv

\* The writes that set the status, the marker or the pin.
LEMMA PlainWrites ==
  ASSUME NEW t \in Thread
  PROVE  /\ KeepsTalk(t, closeThread(t)) /\ closeThread(t).status = "closed"
         /\ /\ KeepsTalk(t, markCascadeFailed(t))
            /\ \/ markCascadeFailed(t).status = t.status /\ ~CanCascadeFail(t)
               \/ markCascadeFailed(t).status = "cascade_failed" /\ CanCascadeFail(t)
            /\ markCascadeFailed(t).cascadePending = t.cascadePending
         /\ /\ KeepsTalk(t, markCascadePending(t))
            /\ markCascadePending(t).status = t.status
         /\ /\ KeepsTalk(t, markCascadeCompleted(t))
            /\ markCascadeCompleted(t).status = t.status
            /\ markCascadeCompleted(t).cascadePending = FALSE
         /\ /\ KeepsTalk(t, unpinCurrentTurnAgent(t))
            /\ unpinCurrentTurnAgent(t).status = t.status
            /\ unpinCurrentTurnAgent(t).cascadePending = t.cascadePending
<1> DEFINE at == t.updatedAt + 1
<1>1. at \in Nat BY ThreadFields
<1> HIDE DEF at
<1>2. KeepsTalk(t, closeThread(t)) /\ closeThread(t).status = "closed"
  <2> DEFINE u == [t EXCEPT !.status = "closed", !.updatedAt = at]
  <2>1. closeThread(t) = u BY DEF closeThread, Thread, at
  <2>2. u \in Thread BY <1>1, ThreadRecords DEF ThreadStatus
  <2> QED BY <2>1, <2>2, ThreadRecords DEF KeepsTalk, committed
<1>3. /\ KeepsTalk(t, markCascadeFailed(t))
      /\ \/ markCascadeFailed(t).status = t.status /\ ~CanCascadeFail(t)
         \/ markCascadeFailed(t).status = "cascade_failed" /\ CanCascadeFail(t)
      /\ markCascadeFailed(t).cascadePending = t.cascadePending
  <2> DEFINE u == [t EXCEPT !.status = "cascade_failed", !.updatedAt = at]
  <2>1. markCascadeFailed(t) = IF CanCascadeFail(t) THEN u ELSE t
    BY DEF markCascadeFailed, Thread, at
  <2>2. u \in Thread BY <1>1, ThreadRecords DEF ThreadStatus
  <2> QED BY <2>1, <2>2, ThreadRecords DEF KeepsTalk, committed
<1>4. KeepsTalk(t, markCascadePending(t)) /\ markCascadePending(t).status = t.status
  BY ThreadRecords DEF KeepsTalk, committed, markCascadePending
<1>5. /\ KeepsTalk(t, markCascadeCompleted(t)) /\ markCascadeCompleted(t).status = t.status
      /\ markCascadeCompleted(t).cascadePending = FALSE
  BY ThreadRecords DEF KeepsTalk, committed, markCascadeCompleted
<1>6. /\ KeepsTalk(t, unpinCurrentTurnAgent(t)) /\ unpinCurrentTurnAgent(t).status = t.status
      /\ unpinCurrentTurnAgent(t).cascadePending = t.cascadePending
  <2> DEFINE u == [t EXCEPT !.currentTurnAgentId = None, !.updatedAt = at]
  <2>1. unpinCurrentTurnAgent(t) = u BY DEF unpinCurrentTurnAgent, Thread, at
  <2>2. u \in Thread BY <1>1, ThreadRecords
  <2> QED BY <2>1, <2>2, ThreadRecords DEF KeepsTalk, committed
<1> QED BY <1>2, <1>3, <1>4, <1>5, <1>6

\* Leaving and reaping retract what is staged and nothing that is committed.
LEMMA AbandonWrites ==
  ASSUME NEW t \in Thread, NEW S, S \subseteq WithStatus(t.convergenceActions, "staged"),
         NEW u, u = [t EXCEPT !.convergenceActions = Restatus(@, S, "retracted"),
                              !.status = "abandoned", !.updatedAt = @ + 1]
  PROVE  KeepsTalk(t, u) /\ u.status = "abandoned" /\ u.cascadePending = t.cascadePending
<1> DEFINE acts == t.convergenceActions
           new == Restatus(acts, S, "retracted")
           at == t.updatedAt + 1
<1>1. acts \in ActionLists /\ at \in Nat BY ThreadFields
<1>2. /\ new \in ActionLists /\ Len(new) = Len(acts) /\ DOMAIN new = DOMAIN acts
      /\ \A i \in DOMAIN acts : new[i].status = IF i \in S THEN "retracted" ELSE acts[i].status
  BY <1>1, RestatusProperties DEF ActionStatus
<1>3. WithStatus(new, "committed") = WithStatus(acts, "committed")
  BY <1>2 DEF WithStatus
<1>4. u = [t EXCEPT !.convergenceActions = new, !.status = "abandoned", !.updatedAt = at]
  BY DEF Thread
<1> HIDE DEF new, at
<1>5. u \in Thread BY <1>1, <1>2, <1>4, ThreadRecords DEF ThreadStatus
<1>6. /\ u.convergenceActions = new /\ u.status = "abandoned" /\ u.messages = t.messages
      /\ u.participants = t.participants /\ u.currentTurn = t.currentTurn
      /\ u.lastMessageConverged = t.lastMessageConverged
      /\ u.cascadePending = t.cascadePending
  BY <1>4, ThreadRecords
<1> QED BY <1>2, <1>3, <1>5, <1>6 DEF KeepsTalk, committed

\* Leaving and reaping, as writes that abandon the thread.
LEMMA LeaveAndReap ==
  ASSUME NEW t \in Thread
  PROVE  /\ \A a \in Agents : /\ KeepsTalk(t, leaveThread(t, a))
                              /\ leaveThread(t, a).status = "abandoned"
                              /\ leaveThread(t, a).cascadePending = t.cascadePending
         /\ KeepsTalk(t, reapIdleThread(t)) /\ reapIdleThread(t).status = "abandoned"
         /\ reapIdleThread(t).cascadePending = t.cascadePending
<1>1. ASSUME NEW a \in Agents
      PROVE  /\ KeepsTalk(t, leaveThread(t, a)) /\ leaveThread(t, a).status = "abandoned"
             /\ leaveThread(t, a).cascadePending = t.cascadePending
  <2> DEFINE S == {i \in WithStatus(t.convergenceActions, "staged") : t.convergenceActions[i].by = a}
  <2>1. leaveThread(t, a) = [t EXCEPT !.convergenceActions = Restatus(@, S, "retracted"),
                                      !.status = "abandoned", !.updatedAt = @ + 1]
    BY DEF leaveThread
  <2>2. S \subseteq WithStatus(t.convergenceActions, "staged") OBVIOUS
  <2> QED BY <2>1, <2>2, AbandonWrites
<1>2. /\ KeepsTalk(t, reapIdleThread(t)) /\ reapIdleThread(t).status = "abandoned"
      /\ reapIdleThread(t).cascadePending = t.cascadePending
  <2> DEFINE S == WithStatus(t.convergenceActions, "staged")
  <2>1. reapIdleThread(t) = [t EXCEPT !.convergenceActions = Restatus(@, S, "retracted"),
                                      !.status = "abandoned", !.updatedAt = @ + 1]
    BY DEF reapIdleThread
  <2> QED BY <2>1, AbandonWrites
<1> QED BY <1>1, <1>2

-----------------------------------------------------------------------------
(* Every step keeps the invariant.                                         *)

\* The calls there are.
Calls == [pc : {"idle", "commit", "pend", "run", "exec", "final"},
          arg : ReplyArgs \cup {NoArg}, round : 0 .. MaxRounds,
          run : SUBSET (1 .. MaxRounds), failed : BOOLEAN]

\* No call under way is a call.
LEMMA IdleIsCall ==
  /\ Idle \in Calls
  /\ Idle.pc = "idle" /\ Idle.run = {} /\ Idle.round = 0 /\ Idle.failed = FALSE
BY ThreadAssumption DEF Idle, Calls

\* Nothing is committed beyond the last round.
LEMMA CommittedBound ==
  ASSUME NEW t \in Thread, RowInv(t)
  PROVE  committed(t) \subseteq 1 .. MaxRounds /\ roundCount(t) \in 0 .. MaxRounds
<1> DEFINE k == Len(t.convergenceActions)
           n == roundCount(t)
<1>1. committed(t) \subseteq 1 .. k BY ThreadFields DEF committed, WithStatus
<1>2. k \in Nat /\ n \in Nat /\ MaxRounds \in Nat /\ k < n /\ n <= MaxRounds
  BY ThreadFields, ThreadAssumption DEF RowInv, RowFits, roundCount
<1> HIDE DEF k, n
<1>3. 1 .. k \subseteq 1 .. MaxRounds BY <1>2
<1>4. n \in 0 .. MaxRounds BY <1>2
<1> QED BY <1>1, <1>3, <1>4 DEF n

\* A step on the row is a reply to an active thread or leaves the talk alone.
RowMoves ==
  /\ thread' \in Thread /\ RowInv(thread')
  /\ \/ KeepsTalk(thread, thread')
     \/ thread.status = "active" /\ roundCount(thread') = roundCount(thread) + 1

Grows ==
  /\ spawned' \in [1 .. MaxRounds -> Nat]
  /\ \A i \in 1 .. MaxRounds : spawned'[i] >= spawned[i]

\* The other calls still fit.
LEMMA OtherCalls ==
  ASSUME ThreadInv, RowMoves, Grows, NEW p, NEW c \in Calls, CascadeFits(c), CheckFits(p, c)
  PROVE  CascadeFits(c)' /\ CheckFits(p, c)'
<1>1. /\ thread \in Thread /\ RowInv(thread)
      /\ spawned \in [1 .. MaxRounds -> Nat]
      /\ spawned' \in [1 .. MaxRounds -> Nat]
      /\ committed(thread) \subseteq 1 .. MaxRounds
      /\ thread' \in Thread
  BY CommittedBound DEF ThreadInv, TypeOK, RowMoves, Grows
<1>2. roundCount(thread) \in Nat /\ roundCount(thread') \in Nat /\ c.round \in 0 .. MaxRounds
  BY <1>1, ThreadFields DEF Calls
<1>3. c.round <= roundCount(thread) BY DEF CheckFits
<1>4. CASE KeepsTalk(thread, thread')
  <2>1. committed(thread') = committed(thread) /\ roundCount(thread') = roundCount(thread)
    BY <1>4 DEF KeepsTalk, roundCount
  <2>2. \A i \in 1 .. MaxRounds : spawned[i] > 0 => spawned'[i] > 0
    BY <1>1 DEF Grows
  <2>3. CascadeFits(c)'
    BY <1>1, <1>4, <2>1, <2>2 DEF CascadeFits, KeepsTalk
  <2>4. ASSUME thread'.status = "active", NEW a, NEW m
        PROVE  AuthorityHolds(thread', a, m) = AuthorityHolds(thread, a, m)
    <3>1. thread'.convergenceActions = thread.convergenceActions
      BY <1>4, <2>4 DEF KeepsTalk
    <3>2. thread'.messages = thread.messages
          /\ thread'.lastMessageConverged = thread.lastMessageConverged
      BY <1>4 DEF KeepsTalk
    <3>3. convergerRoles(thread', a) = convergerRoles(thread, a)
      BY <3>2 DEF convergerRoles
    <3>4. stagedEffective(thread', m) = stagedEffective(thread, m)
      BY <2>1, <3>1 DEF stagedEffective
    <3> QED BY <3>2, <3>3, <3>4 DEF AuthorityHolds
  <2>5. thread'.status = "active" => thread.status = "active" BY <1>4 DEF KeepsTalk
  <2>6. CheckFits(p, c)'
    BY <2>1, <2>4, <2>5 DEF CheckFits
  <2> QED BY <2>3, <2>6
<1>5. CASE thread.status = "active" /\ roundCount(thread') = roundCount(thread) + 1
  <2>1. committed(thread) = {} BY <1>1, <1>5 DEF RowInv, EndFits
  <2>2. CascadeFits(c)' BY <1>5, <2>1 DEF CascadeFits
  <2>3. c.round <= roundCount(thread') /\ c.round # roundCount(thread')
    <3> DEFINE n == roundCount(thread)
               r == c.round
    <3>1. n \in Nat /\ r \in Int /\ r <= n BY <1>2, <1>3
    <3> HIDE DEF n, r
    <3>2. r <= n + 1 /\ r # n + 1 BY <3>1
    <3> QED BY <1>5, <3>2 DEF n, r
  <2>4. CheckFits(p, c)' BY <2>3, <1>5 DEF CheckFits
  <2> QED BY <2>2, <2>4
<1> QED BY <1>4, <1>5 DEF RowMoves

\* A step that changes one call.
LEMMA OneCall ==
  ASSUME ThreadInv, RowMoves, Grows, boot' \in BOOLEAN, reaper' \in Nat,
         NEW p \in Procs, NEW c \in Calls, call' = [call EXCEPT ![p] = c],
         CascadeFits(c)', CheckFits(p, c)'
  PROVE  ThreadInv'
<1>1. call \in [Procs -> Calls] BY DEF ThreadInv, TypeOK, Calls
<1>2. call' \in [Procs -> Calls] BY <1>1
<1>3. TypeOK' BY <1>2 DEF TypeOK, Calls, RowMoves, Grows
<1>4. ASSUME NEW q \in Procs PROVE CascadeFits(call[q])' /\ CheckFits(q, call[q])'
  <2>1. CASE q = p
    <3>1. call'[q] = c BY <1>1, <2>1
    <3> QED BY <2>1, <3>1 DEF CascadeFits, CheckFits
  <2>2. CASE q # p
    <3>1. PICK d \in Calls : d = call[q] BY <1>1
    <3>2. call'[q] = d BY <1>1, <2>2, <3>1
    <3>3. CascadeFits(d) /\ CheckFits(q, d) BY <3>1 DEF ThreadInv
    <3>4. CascadeFits(d)' /\ CheckFits(q, d)' BY <3>3, OtherCalls
    <3> QED BY <3>2, <3>4 DEF CascadeFits, CheckFits
  <2> QED BY <2>1, <2>2
<1> QED BY <1>3, <1>4 DEF ThreadInv, RowMoves

\* A step that changes no call.
LEMMA NoCall ==
  ASSUME ThreadInv, RowMoves, Grows, boot' \in BOOLEAN, reaper' \in Nat, call' = call
  PROVE  ThreadInv'
<1>1. call \in [Procs -> Calls] /\ Replayer \in Procs
  BY DEF ThreadInv, TypeOK, Calls, Procs
<1>2. PICK c \in Calls : c = call[Replayer] BY <1>1
<1>3. call' = [call EXCEPT ![Replayer] = c] BY <1>1, <1>2
<1>4. CascadeFits(c) /\ CheckFits(Replayer, c) BY <1>1, <1>2 DEF ThreadInv
<1>5. CascadeFits(c)' /\ CheckFits(Replayer, c)' BY <1>4, OtherCalls
<1> QED BY <1>1, <1>3, <1>5, OneCall

\* The row stays when nothing writes it.
LEMMA RowStays ==
  ASSUME ThreadInv
  PROVE  /\ thread' = thread => RowMoves
         /\ spawned' = spawned => Grows
<1>1. thread \in Thread /\ RowInv(thread) /\ spawned \in [1 .. MaxRounds -> Nat]
  BY DEF ThreadInv, TypeOK
<1>2. KeepsTalk(thread, thread) BY <1>1 DEF KeepsTalk
<1>3. thread' = thread => RowMoves BY <1>1, <1>2 DEF RowMoves
<1>4. \A i \in 1 .. MaxRounds : spawned[i] \in Nat BY <1>1
<1>5. \A i \in 1 .. MaxRounds : spawned[i] >= spawned[i] BY <1>4
<1>6. spawned' = spawned => Grows BY <1>1, <1>5 DEF Grows
<1> QED BY <1>3, <1>6

\* No call under way fits any row.
LEMMA IdleFits ==
  ASSUME ThreadInv, RowMoves, NEW p
  PROVE  CascadeFits(Idle)' /\ CheckFits(p, Idle)'
<1>1. roundCount(thread') \in Nat BY ThreadFields DEF RowMoves
<1>2. CascadeFits(Idle)' BY IdleIsCall DEF CascadeFits
<1>3. CheckFits(p, Idle)' BY <1>1, IdleIsCall DEF CheckFits
<1> QED BY <1>2, <1>3

-----------------------------------------------------------------------------
(* Each action.                                                            *)

\* The replies agents make are replies.
LEMMA ArgsAreReplies ==
  /\ ReplyArgs \cup {NoArg} \subseteq ReplyArg
  /\ NoArg.converged = FALSE
<1>1. NoOp \in Op BY DEF NoOp, Op
<1>2. NoArg \in ReplyArg /\ NoArg.converged = FALSE BY <1>1 DEF NoArg, ReplyArg
<1> QED BY <1>2, ConvergenceAssumption


\* What the invariant says of each variable, for citing.
LEMMA TypeFacts ==
  ASSUME ThreadInv
  PROVE  /\ thread \in Thread /\ RowInv(thread)
         /\ spawned \in [1 .. MaxRounds -> Nat]
         /\ call \in [Procs -> Calls]
         /\ boot \in BOOLEAN /\ reaper \in Nat
         /\ \A p \in Procs : CascadeFits(call[p]) /\ CheckFits(p, call[p])
         /\ Agents \subseteq Procs /\ Replayer \in Procs /\ Replayer \notin Agents
BY ConvergenceAssumption DEF ThreadInv, TypeOK, Calls, Procs

\* A reply is a step on the row.
LEMMA ReplyMoves ==
  ASSUME ThreadInv, NEW a \in Agents, NEW m \in ReplyArg,
         CanReply(thread, a, m), thread' = AfterReply(thread, a, m)
  PROVE  /\ RowMoves
         /\ committed(thread') \subseteq 1 .. MaxRounds
         /\ roundCount(thread') \in Nat
<1>1. PICK t \in Thread : t = thread BY TypeFacts
<1>2. RowInv(t) /\ CanReply(t, a, m) BY <1>1, TypeFacts
<1>3. PICK u : u = AfterReply(t, a, m) OBVIOUS
<1>4. ReplyEffect(t, a, m, u) BY <1>2, <1>3, ReplyRow
<1>5. /\ u \in Thread /\ RowInv(u) /\ t.status = "active"
      /\ roundCount(u) = roundCount(t) + 1 /\ committed(u) \subseteq 1 .. MaxRounds
  BY <1>4 DEF ReplyEffect
<1>6. thread' = u BY <1>1, <1>3
<1> QED BY <1>1, <1>5, <1>6, ThreadFields DEF RowMoves

\* One write of a reply that is not checked.
LEMMA ReplyKeeps ==
  ASSUME ThreadInv, NEW a \in Agents, NEW m \in ReplyArgs, Reply(a, m)
  PROVE  ThreadInv'
<1>1. m \in ReplyArg BY ArgsAreReplies
<1>2. CanReply(thread, a, m) /\ thread' = AfterReply(thread, a, m) BY DEF Reply
<1>3. RowMoves BY <1>1, <1>2, ReplyMoves
<1>4. Grows /\ boot' \in BOOLEAN /\ reaper' \in Nat /\ call' = call
  BY TypeFacts, RowStays DEF Reply
<1> QED BY <1>3, <1>4, NoCall

\* The check of authority stands as long as nobody else replies.
LEMMA BeginReplyKeeps ==
  ASSUME ThreadInv, NEW a \in Agents, NEW m \in ReplyArgs, BeginReply(a, m)
  PROVE  ThreadInv'
<1>1. PICK n \in 0 .. MaxRounds : n = roundCount(thread)
  BY TypeFacts, CommittedBound
<1> DEFINE c == [Idle EXCEPT !.pc = "commit", !.arg = m, !.round = n]
<1>2. /\ c \in Calls /\ c.pc = "commit" /\ c.arg = m /\ c.round = n
      /\ c.run = {} /\ c.failed = FALSE
  BY IdleIsCall DEF Idle, Calls
<1>3. call' = [call EXCEPT ![a] = c] BY <1>1 DEF BeginReply
<1> HIDE DEF c
<1>4. /\ RowMoves /\ Grows /\ boot' \in BOOLEAN /\ reaper' \in Nat
      /\ thread' = thread
  BY TypeFacts, RowStays DEF BeginReply
<1>5. CascadeFits(c)' BY <1>2 DEF CascadeFits
<1>6. CheckFits(a, c)'
  <2>1. n <= n BY <1>1, ThreadAssumption
  <2>2. m.converged /\ AuthorityHolds(thread, a, m) BY DEF BeginReply
  <2> QED BY <1>1, <1>2, <1>4, <2>1, <2>2 DEF CheckFits
<1>7. a \in Procs BY TypeFacts
<1> QED BY <1>2, <1>3, <1>4, <1>5, <1>6, <1>7, OneCall

\* The write of a reply that was checked.
LEMMA CommitReplyKeeps ==
  ASSUME ThreadInv, NEW a \in Agents, CommitReply(a)
  PROVE  ThreadInv'
<1>1. a \in Procs /\ call[a] \in Calls BY TypeFacts
<1>2. PICK m \in ReplyArg : m = call[a].arg BY <1>1, ArgsAreReplies DEF Calls
<1>3. CanReply(thread, a, m) /\ thread' = AfterReply(thread, a, m)
  BY <1>2 DEF CommitReply
<1>4. /\ RowMoves /\ committed(thread') \subseteq 1 .. MaxRounds
      /\ roundCount(thread') \in Nat
  BY <1>3, ReplyMoves
<1>5. Grows /\ boot' \in BOOLEAN /\ reaper' \in Nat
  BY TypeFacts, RowStays DEF CommitReply
<1>6. CASE thread'.status = "converged"
  <2>1. PICK run \in SUBSET (1 .. MaxRounds) : run = committed(thread') BY <1>4
  <2> DEFINE c == [Idle EXCEPT !.pc = "pend", !.run = run]
  <2>2. call' = [call EXCEPT ![a] = c] BY <1>2, <1>3, <1>6, <2>1 DEF CommitReply
  <2>3. /\ c \in Calls /\ c.pc = "pend" /\ c.run = run /\ c.round = 0
    BY IdleIsCall DEF Idle, Calls
  <2> HIDE DEF c
  <2>4. CascadeFits(c)' BY <1>6, <2>1, <2>3 DEF CascadeFits
  <2>5. CheckFits(a, c)' BY <1>4, <2>3 DEF CheckFits
  <2> QED BY <1>1, <1>4, <1>5, <2>2, <2>3, <2>4, <2>5, OneCall
<1>7. CASE thread'.status # "converged"
  <2>1. call' = [call EXCEPT ![a] = Idle] BY <1>2, <1>3, <1>7 DEF CommitReply
  <2> QED BY <1>1, <1>4, <1>5, <2>1, IdleFits, IdleIsCall, OneCall
<1> QED BY <1>6, <1>7

\* A call that ends without a write.
LEMMA RejectReplyKeeps ==
  ASSUME ThreadInv, NEW a \in Agents, RejectReply(a) \/ LoseEvent(a)
  PROVE  ThreadInv'
<1>1. /\ RowMoves /\ Grows /\ boot' \in BOOLEAN /\ reaper' \in Nat
      /\ call' = [call EXCEPT ![a] = Idle] /\ a \in Procs
  BY TypeFacts, RowStays DEF RejectReply, LoseEvent, Return
<1> QED BY <1>1, IdleFits, IdleIsCall, OneCall

\* A write that is not a reply, on a row that ends as it may.
LEMMA WriteMoves ==
  ASSUME ThreadInv, NEW u, thread' = u, KeepsTalk(thread, u), EndFits(u)
  PROVE  RowMoves
BY TypeFacts, TalkKept DEF RowMoves, KeepsTalk

\* The marker is set on a thread that is not active any more.
LEMMA MarkPendingKeeps ==
  ASSUME ThreadInv, NEW a \in Agents, MarkPending(a)
  PROVE  ThreadInv'
<1>1. a \in Procs BY TypeFacts
<1>2. PICK c \in Calls : c = call[a] BY <1>1, TypeFacts
<1>3. c.pc = "pend" /\ CascadeFits(c) /\ CheckFits(a, c)
  BY <1>1, <1>2, TypeFacts DEF MarkPending, At
<1>4. thread.status # "active" BY <1>3 DEF CascadeFits
<1>5. RowMoves
  <2>1. CASE thread' = markCascadePending(thread)
    <3>1. EndFits(markCascadePending(thread))
      BY <1>4, TypeFacts, PlainWrites DEF EndFits, RowInv, KeepsTalk
    <3> QED BY <2>1, <3>1, TypeFacts, PlainWrites, WriteMoves
  <2>2. CASE thread' = thread BY <2>2, RowStays
  <2> QED BY <2>1, <2>2 DEF MarkPending
<1>6. Grows /\ boot' \in BOOLEAN /\ reaper' \in Nat
  BY TypeFacts, RowStays DEF MarkPending
<1> DEFINE d == [c EXCEPT !.pc = "run"]
<1>7. /\ d \in Calls /\ d.pc = "run" /\ d.run = c.run /\ d.failed = c.failed
      /\ d.round = c.round
  BY DEF Calls
<1>8. call' = [call EXCEPT ![a] = d] BY <1>1, <1>2, TypeFacts DEF MarkPending, Goto
<1> HIDE DEF d
<1>9. CascadeFits(c)' /\ CheckFits(a, c)' BY <1>3, <1>5, <1>6, OtherCalls
<1>10. CascadeFits(d)' /\ CheckFits(a, d)'
  BY <1>3, <1>7, <1>9 DEF CascadeFits, CheckFits
<1> QED BY <1>1, <1>5, <1>6, <1>7, <1>8, <1>10, OneCall

\* An action found executed is one less to run.
LEMMA FindSpawnedKeeps ==
  ASSUME ThreadInv, NEW p \in Procs, FindSpawned(p)
  PROVE  ThreadInv'
<1>1. PICK c \in Calls : c = call[p] BY TypeFacts
<1>2. c.pc = "run" /\ c.run # {} /\ CascadeFits(c) /\ CheckFits(p, c)
  BY <1>1, TypeFacts DEF FindSpawned, At
<1>3. PICK i : i = NextAction(p) OBVIOUS
<1>4. c.run \subseteq 1 .. MaxRounds /\ 1 .. MaxRounds \subseteq Nat BY DEF Calls
<1>5. /\ RowMoves /\ Grows /\ boot' \in BOOLEAN /\ reaper' \in Nat
      /\ thread' = thread /\ spawned' = spawned
  BY TypeFacts, RowStays DEF FindSpawned
<1>6. CascadeFits(c)' /\ CheckFits(p, c)' BY <1>2, <1>5, OtherCalls
<1>7. CASE spawned[i] > 0
  <2> DEFINE d == [c EXCEPT !.run = c.run \ {i}]
  <2>1. /\ d \in Calls /\ d.pc = "run" /\ d.run = c.run \ {i} /\ d.failed = c.failed
        /\ d.round = c.round
    BY <1>2, <1>4 DEF Calls
  <2>2. call' = [call EXCEPT ![p] = d] BY <1>1, <1>3, <1>7, TypeFacts DEF FindSpawned, Calls
  <2> HIDE DEF d
  <2>3. CascadeFits(d)' /\ CheckFits(p, d)'
    BY <1>2, <1>5, <1>6, <1>7, <2>1 DEF CascadeFits, CheckFits
  <2> QED BY <1>5, <2>1, <2>2, <2>3, OneCall
<1>8. CASE ~(spawned[i] > 0)
  <2> DEFINE d == [c EXCEPT !.pc = "exec"]
  <2>1. /\ d \in Calls /\ d.pc = "exec" /\ d.run = c.run /\ d.failed = c.failed
        /\ d.round = c.round
    BY <1>2 DEF Calls
  <2>2. call' = [call EXCEPT ![p] = d] BY <1>1, <1>3, <1>8, TypeFacts DEF FindSpawned, Calls
  <2> HIDE DEF d
  <2>3. CascadeFits(d)' /\ CheckFits(p, d)'
    BY <1>2, <1>6, <2>1 DEF CascadeFits, CheckFits
  <2> QED BY <1>5, <2>1, <2>2, <2>3, OneCall
<1> QED BY <1>7, <1>8

\* The action that is executed is one of those still to run.
LEMMA NextActionIsCommitted ==
  ASSUME ThreadInv, NEW p \in Procs, At(p, "exec")
  PROVE  /\ NextAction(p) \in call[p].run
         /\ NextAction(p) \in committed(thread) /\ NextAction(p) \in 1 .. MaxRounds
<1>1. PICK c \in Calls : c = call[p] BY TypeFacts
<1>2. c.run # {} /\ c.run \subseteq committed(thread)
  BY <1>1, TypeFacts DEF At, CascadeFits
<1>3. c.run \subseteq 1 .. MaxRounds /\ 1 .. MaxRounds \subseteq Nat BY DEF Calls
<1>4. Min(c.run) \in c.run BY <1>2, <1>3, MinProperties
<1> QED BY <1>1, <1>2, <1>3, <1>4 DEF NextAction

\* An action is executed, or the cascade has failed.
LEMMA ExecuteActionKeeps ==
  ASSUME ThreadInv, NEW p \in Procs, ExecuteAction(p)
  PROVE  ThreadInv'
<1>1. PICK c \in Calls : c = call[p] BY TypeFacts
<1>2. c.pc = "exec" /\ CascadeFits(c) /\ CheckFits(p, c)
  BY <1>1, TypeFacts DEF ExecuteAction, At
<1>3. PICK i \in 1 .. MaxRounds : i = NextAction(p)
  BY NextActionIsCommitted DEF ExecuteAction
<1>4. /\ RowMoves /\ boot' \in BOOLEAN /\ reaper' \in Nat /\ thread' = thread
  BY TypeFacts, RowStays DEF ExecuteAction
<1>5. spawned \in [1 .. MaxRounds -> Nat] BY TypeFacts
<1>6. CASE /\ spawned' = [spawned EXCEPT ![i] = @ + 1]
           /\ call' = [call EXCEPT ![p].pc = "run", ![p].run = @ \ {i}]
  <2> DEFINE d == [c EXCEPT !.pc = "run", !.run = c.run \ {i}]
  <2>1. /\ d \in Calls /\ d.pc = "run" /\ d.run = c.run \ {i} /\ d.failed = c.failed
        /\ d.round = c.round
    BY DEF Calls
  <2>2. call' = [call EXCEPT ![p] = d] BY <1>1, <1>6, TypeFacts DEF Calls
  <2> HIDE DEF d
  <2>3. Grows /\ spawned'[i] > 0 BY <1>5, <1>6 DEF Grows
  <2>4. CascadeFits(c)' /\ CheckFits(p, c)' BY <1>2, <1>4, <2>3, OtherCalls
  <2>5. CascadeFits(d)' /\ CheckFits(p, d)'
    BY <1>2, <2>1, <2>3, <2>4 DEF CascadeFits, CheckFits
  <2> QED BY <1>4, <2>1, <2>2, <2>3, <2>5, OneCall
<1>7. CASE /\ spawned' = spawned
           /\ call' = [call EXCEPT ![p].pc = "run", ![p].run = @ \ {i}, ![p].failed = TRUE]
  <2> DEFINE d == [c EXCEPT !.pc = "run", !.run = c.run \ {i}, !.failed = TRUE]
  <2>1. /\ d \in Calls /\ d.pc = "run" /\ d.run = c.run \ {i} /\ d.failed = TRUE
        /\ d.round = c.round
    BY DEF Calls
  <2>2. call' = [call EXCEPT ![p] = d] BY <1>1, <1>7, TypeFacts DEF Calls
  <2> HIDE DEF d
  <2>3. Grows BY <1>7, RowStays
  <2>4. CascadeFits(c)' /\ CheckFits(p, c)' BY <1>2, <1>4, <2>3, OtherCalls
  <2>5. CascadeFits(d)' /\ CheckFits(p, d)'
    BY <1>2, <2>1, <2>4 DEF CascadeFits, CheckFits
  <2> QED BY <1>4, <2>1, <2>2, <2>3, <2>5, OneCall
<1> QED BY <1>3, <1>6, <1>7 DEF ExecuteAction

\* The cascade goes to its last write with nothing left to run.
LEMMA MarkCompletedKeeps ==
  ASSUME ThreadInv, NEW p \in Procs, MarkCompleted(p)
  PROVE  ThreadInv'
<1>1. PICK c \in Calls : c = call[p] BY TypeFacts
<1>2. c.pc = "run" /\ c.run = {} /\ CascadeFits(c) /\ CheckFits(p, c)
  BY <1>1, TypeFacts DEF MarkCompleted, At
<1>3. RowMoves
  <2>1. CASE thread' = markCascadeCompleted(thread)
    <3>1. EndFits(markCascadeCompleted(thread))
      BY TypeFacts, PlainWrites DEF EndFits, RowInv, KeepsTalk
    <3> QED BY <2>1, <3>1, TypeFacts, PlainWrites, WriteMoves
  <2>2. CASE thread' = thread BY <2>2, RowStays
  <2> QED BY <2>1, <2>2 DEF MarkCompleted
<1>4. Grows /\ boot' \in BOOLEAN /\ reaper' \in Nat
  BY TypeFacts, RowStays DEF MarkCompleted
<1>5. CASE p = Replayer
  <2>1. call' = [call EXCEPT ![p] = Idle] BY <1>5 DEF MarkCompleted, Return
  <2> QED BY <1>3, <1>4, <2>1, IdleFits, IdleIsCall, OneCall
<1>6. CASE p # Replayer
  <2> DEFINE d == [c EXCEPT !.pc = "final"]
  <2>1. /\ d \in Calls /\ d.pc = "final" /\ d.run = {} /\ d.failed = c.failed
        /\ d.round = c.round
    BY <1>2 DEF Calls
  <2>2. call' = [call EXCEPT ![p] = d] BY <1>1, <1>6, TypeFacts DEF MarkCompleted, Goto
  <2> HIDE DEF d
  <2>3. CascadeFits(c)' /\ CheckFits(p, c)' BY <1>2, <1>3, <1>4, OtherCalls
  <2>4. CascadeFits(d)' /\ CheckFits(p, d)'
    BY <1>2, <2>1, <2>3 DEF CascadeFits, CheckFits
  <2> QED BY <1>3, <1>4, <2>1, <2>2, <2>4, OneCall
<1> QED BY <1>5, <1>6

\* Closing, or failing what is not active any more, ends the row as it may.
LEMMA EndWrites ==
  ASSUME NEW t \in Thread, RowInv(t)
  PROVE  /\ EndFits(closeThread(t))
         /\ t.status # "active" => EndFits(markCascadeFailed(t))
<1>1. EndFits(closeThread(t)) BY PlainWrites DEF EndFits
<1>2. t.status # "active" => EndFits(markCascadeFailed(t))
  BY PlainWrites DEF EndFits, RowInv, KeepsTalk, CanCascadeFail
<1> QED BY <1>1, <1>2

\* The last write of the cascade.
LEMMA FinishCascadeKeeps ==
  ASSUME ThreadInv, NEW a \in Agents, FinishCascade(a)
  PROVE  ThreadInv'
<1>1. a \in Procs /\ thread.status # "active"
  BY TypeFacts DEF FinishCascade, At, CascadeFits
<1>2. RowMoves
  <2>1. CASE thread' = markCascadeFailed(thread)
    BY <1>1, <2>1, TypeFacts, PlainWrites, EndWrites, WriteMoves
  <2>2. CASE thread' = closeThread(thread)
    BY <2>2, TypeFacts, PlainWrites, EndWrites, WriteMoves
  <2>3. CASE thread' = thread BY <2>3, RowStays
  <2> QED BY <2>1, <2>2, <2>3 DEF FinishCascade
<1>3. /\ Grows /\ boot' \in BOOLEAN /\ reaper' \in Nat
      /\ call' = [call EXCEPT ![a] = Idle]
  BY TypeFacts, RowStays DEF FinishCascade, Return
<1> QED BY <1>1, <1>2, <1>3, IdleFits, IdleIsCall, OneCall

\* A replay starts on all that is committed.
LEMMA StartReplayKeeps ==
  ASSUME ThreadInv, StartReplay
  PROVE  ThreadInv'
<1>1. /\ RowMoves /\ Grows /\ boot' \in BOOLEAN /\ reaper' \in Nat
      /\ thread' = thread
  BY TypeFacts, RowStays DEF StartReplay
<1>2. CASE thread.cascadePending /\ thread.status # "cascade_failed"
  <2>1. PICK c \in Calls : c = call[Replayer] BY TypeFacts
  <2>2. PICK run \in SUBSET (1 .. MaxRounds) : run = committed(thread)
    BY TypeFacts, CommittedBound
  <2> DEFINE d == [c EXCEPT !.pc = "run", !.run = run]
  <2>3. d \in Calls /\ d.pc = "run" /\ d.run = run /\ d.round = c.round BY DEF Calls
  <2>4. call' = [call EXCEPT ![Replayer] = d]
    BY <1>2, <2>1, <2>2, TypeFacts DEF StartReplay
  <2> HIDE DEF d
  <2>5. thread.status # "active" BY <1>2, TypeFacts DEF RowInv, EndFits
  <2>6. CascadeFits(d)' BY <1>1, <2>2, <2>3, <2>5 DEF CascadeFits
  <2>7. CheckFits(Replayer, c) BY <2>1, TypeFacts
  <2>8. CheckFits(Replayer, d)' BY <1>1, <2>3, <2>7, TypeFacts DEF CheckFits
  <2> QED BY <1>1, <2>3, <2>4, <2>6, <2>8, TypeFacts, OneCall
<1>3. CASE ~(thread.cascadePending /\ thread.status # "cascade_failed")
  BY <1>1, <1>3, NoCall DEF StartReplay
<1> QED BY <1>2, <1>3

\* Writes that change the row and no call: stewards, reapers, the agent reaper.
LEMMA InterventionKeeps ==
  ASSUME ThreadInv,
         CloseThread \/ FindIdle \/ ReapThread \/ \E a \in Agents : LeaveThread(a) \/ UnpinAgent(a)
  PROVE  ThreadInv'
<1>1. /\ Grows /\ boot' \in BOOLEAN /\ call' = call
  BY TypeFacts, RowStays
     DEF CloseThread, FindIdle, ReapThread, LeaveThread, UnpinAgent
<1>2. reaper' \in Nat
  BY TypeFacts, ThreadFields DEF CloseThread, FindIdle, ReapThread, LeaveThread, UnpinAgent
<1>3. ASSUME NEW u, thread' = u, KeepsTalk(thread, u), u.status = "abandoned",
             u.cascadePending = thread.cascadePending, thread.status = "active"
      PROVE  RowMoves
  BY <1>3, TypeFacts, WriteMoves DEF KeepsTalk, EndFits, RowInv
<1>4. RowMoves
  <2>1. CASE thread' = closeThread(thread)
    BY <2>1, TypeFacts, PlainWrites, EndWrites, WriteMoves
  <2>2. CASE thread' = thread BY <2>2, RowStays
  <2>3. ASSUME NEW a \in Agents, LeaveThread(a) PROVE RowMoves
    BY <1>3, <2>3, TypeFacts, LeaveAndReap DEF LeaveThread, CanLeave
  <2>4. ASSUME NEW a \in Agents, UnpinAgent(a) PROVE RowMoves
    <3>1. EndFits(unpinCurrentTurnAgent(thread))
      BY TypeFacts, PlainWrites DEF EndFits, RowInv, KeepsTalk
    <3> QED BY <2>4, <3>1, TypeFacts, PlainWrites, WriteMoves DEF UnpinAgent
  <2>5. CASE thread' = reapIdleThread(thread) /\ thread.status = "active"
    BY <1>3, <2>5, TypeFacts, LeaveAndReap
  <2> QED BY <2>1, <2>2, <2>3, <2>4, <2>5 DEF CloseThread, FindIdle, ReapThread, CanReap
<1> QED BY <1>1, <1>2, <1>4, NoCall

\* A crash loses the calls and nothing else.
LEMMA CrashKeeps ==
  ASSUME ThreadInv, Crash
  PROVE  ThreadInv'
<1>1. RowMoves /\ Grows /\ boot' \in BOOLEAN /\ reaper' \in Nat
  BY RowStays, TypeFacts DEF Crash
<1>2. call' = [p \in Procs |-> Idle] BY DEF Crash
<1>3. call' \in [Procs -> Calls] BY <1>2, IdleIsCall
<1>4. TypeOK' BY <1>1, <1>3 DEF TypeOK, Calls, RowMoves, Grows
<1>5. ASSUME NEW p \in Procs PROVE CascadeFits(call[p])' /\ CheckFits(p, call[p])'
  <2>1. call'[p] = Idle BY <1>2
  <2>2. CascadeFits(Idle)' /\ CheckFits(p, Idle)' BY <1>1, IdleFits
  <2> QED BY <2>1, <2>2 DEF CascadeFits, CheckFits
<1> QED BY <1>1, <1>4, <1>5 DEF ThreadInv, RowMoves

\* One step per action.
LEMMA NextKeeps ==
  ASSUME ThreadInv, [Next]_vars
  PROVE  ThreadInv'
<1>1. CASE UNCHANGED vars
  BY <1>1, TypeFacts, RowStays, NoCall DEF vars
<1>2. ASSUME NEW a \in Agents, NEW m \in ReplyArgs, Reply(a, m) \/ BeginReply(a, m)
      PROVE  ThreadInv'
  BY <1>2, ReplyKeeps, BeginReplyKeeps
<1>3. ASSUME NEW p \in Procs, RunCascade(p) PROVE ThreadInv'
  BY <1>3, FindSpawnedKeeps, ExecuteActionKeeps, MarkCompletedKeeps DEF RunCascade
<1>4. ASSUME NEW a \in Agents, Proceed(a) \/ LoseEvent(a) PROVE ThreadInv'
  BY <1>3, <1>4, TypeFacts, CommitReplyKeeps, RejectReplyKeeps, MarkPendingKeeps,
     FinishCascadeKeeps DEF Proceed
<1>5. CASE Replay BY <1>3, <1>5, TypeFacts, StartReplayKeeps DEF Replay
<1>6. ASSUME NEW a \in Agents, LeaveThread(a) \/ UnpinAgent(a) PROVE ThreadInv'
  BY <1>6, InterventionKeeps
<1>7. CASE CloseThread \/ FindIdle \/ ReapThread BY <1>7, InterventionKeeps
<1>8. CASE Crash BY <1>8, CrashKeeps
<1> QED BY <1>1, <1>2, <1>4, <1>5, <1>6, <1>7, <1>8 DEF Next

\* A thread that has just been opened.
LEMMA OpenedRow ==
  ASSUME NEW a \in Agents, NEW to \in Agents \cup {None}, to # a, NEW b \in BOOLEAN
  PROVE  LET t == openThread(a, to, b)
         IN t \in Thread /\ RowInv(t) /\ t.status = "active" /\ committed(t) = {}
<1> DEFINE t == openThread(a, to, b)
           turn == IF to = None THEN CounterpartRole(Role[a]) ELSE Role[to]
           ps == IF to = None THEN <<a>> ELSE <<a, to>>
           first == [by |-> a, converged |-> FALSE]
           said == <<first>>
           acts == << >>
<1>1. turn \in Roles BY ThreadAssumption DEF CounterpartRole, Roles
<1>2. ps \in Parties /\ ps[1] = a /\ Len(ps) >= 1
      /\ (Len(ps) > 1 => ps[1] # ps[2] /\ ps[2] = to /\ to # None)
      /\ (Len(ps) = 1 => to = None)
  BY DEF Parties
<1>3. first \in Message /\ first.by = a /\ first.converged = FALSE BY DEF Message
<1>4. said \in Messages /\ Len(said) = 1 /\ said[1] = first BY <1>3 DEF Messages
<1>5. acts \in ActionLists /\ Len(acts) = 0 /\ DOMAIN acts = {}
  BY EmptySeq DEF ActionLists
<1>6. t = [status |-> "active", currentTurn |-> turn, currentTurnAgentId |-> to,
           broadcast |-> b, participants |-> ps, messages |-> said,
           convergenceActions |-> acts, summary |-> FALSE,
           lastMessageConverged |-> FALSE, updatedAt |-> 1,
           lastMessageProjectedAt |-> 0, cascadePending |-> FALSE]
  BY DEF openThread
<1> HIDE DEF t, turn, ps, first, said, acts
<1>7. t \in Thread BY <1>1, <1>2, <1>4, <1>5, <1>6, ThreadRecords DEF ThreadStatus
<1>8. /\ t.status = "active" /\ t.currentTurn = turn /\ t.participants = ps
      /\ t.messages = said /\ t.convergenceActions = acts /\ t.lastMessageConverged = FALSE
      /\ t.cascadePending = FALSE
  BY <1>6
<1>9. committed(t) = {} BY <1>5, <1>8 DEF committed, WithStatus
<1>10. RowFits(t)
  <2>1. Len(t.messages) = 1 /\ t.messages[1].converged = FALSE BY <1>3, <1>4, <1>8
  <2>2. Len(t.convergenceActions) = 0 BY <1>5, <1>8
  <2>3. /\ Len(t.participants) >= 1
        /\ Len(t.participants) > 1 => t.participants[1] # t.participants[2]
    BY <1>2, <1>8
  <2>4. MaxRounds \in Nat /\ 1 < MaxRounds BY ThreadAssumption
  <2>5. t.lastMessageConverged = FALSE BY <1>8
  <2>6. PICK n \in Nat : n = Len(t.messages) /\ n = 1 BY <2>1
  <2>7. n >= 1 /\ n < MaxRounds /\ n <= MaxRounds BY <2>4, <2>6
  <2>8. Len(t.convergenceActions) < n BY <2>2, <2>6
  <2> QED BY <2>1, <2>3, <2>5, <2>6, <2>7, <2>8 DEF RowFits
<1>11. turn = (IF to = None THEN CounterpartRole(Role[a]) ELSE Role[to]) BY DEF turn
<1>12. CounterpartRole(Role[a]) # Role[a] BY DEF CounterpartRole
<1>13. TurnFits(t)
  BY <1>2, <1>3, <1>4, <1>8, <1>11, <1>12 DEF TurnFits, TwoRoles
<1>14. AgreedByTwo(t) /\ EndFits(t) BY <1>8, <1>9 DEF AgreedByTwo, EndFits
<1> QED BY <1>7, <1>8, <1>9, <1>10, <1>13, <1>14 DEF RowInv, t

\* The invariant holds of every opening.
LEMMA InitInv ==
  ASSUME Init
  PROVE  ThreadInv /\ thread.status = "active" /\ committed(thread) = {}
<1>1. PICK o \in Openings : thread = openThread(o.by, o.to, o.broadcast) BY DEF Init
<1>2. o.by \in Agents /\ o.to \in Agents \cup {None} /\ o.broadcast \in BOOLEAN /\ o.to # o.by
  BY ConvergenceAssumption
<1>3. thread \in Thread /\ RowInv(thread) /\ thread.status = "active" /\ committed(thread) = {}
  BY <1>1, <1>2, OpenedRow
<1>4. /\ call = [p \in Procs |-> Idle] /\ spawned = [i \in 1 .. MaxRounds |-> 0]
      /\ boot = TRUE /\ reaper = 0
  BY DEF Init
<1>5. call \in [Procs -> Calls] BY <1>4, IdleIsCall
<1>6. spawned \in [1 .. MaxRounds -> Nat] BY <1>4
<1>7. TypeOK BY <1>3, <1>4, <1>5, <1>6 DEF TypeOK, Calls
<1>8. ASSUME NEW p \in Procs PROVE CascadeFits(call[p]) /\ CheckFits(p, call[p])
  <2>1. call[p] = Idle BY <1>4
  <2>2. roundCount(thread) \in Nat BY <1>3, ThreadFields
  <2> QED BY <2>1, <2>2, IdleIsCall DEF CascadeFits, CheckFits
<1> QED BY <1>3, <1>7, <1>8 DEF ThreadInv

\* The inductive invariant of the thread: rounds and actions are bounded, the
\* turn is never with the role that spoke last, what is committed was agreed by
\* two, and what the cascade no longer has to run has been executed.
THEOREM ThreadStaysSound == Spec => []ThreadInv
<1>1. Init => ThreadInv BY InitInv
<1>2. ThreadInv /\ [Next]_vars => ThreadInv' BY NextKeeps
<1> QED BY <1>1, <1>2, PTL DEF Spec

\* Only its own write takes a reply to the cascade.
LEMMA CommitOnly ==
  ASSUME ThreadInv, [Next]_vars, NEW a \in Agents, At(a, "commit"), call'[a].pc = "pend"
  PROVE  CommitReply(a)
<1>1. call \in [Procs -> Calls] /\ a \in Procs /\ call[a].pc = "commit" /\ a # Replayer
  BY TypeFacts DEF At
<1>2. call'[a] # call[a] BY <1>1
<1>3. Idle.pc # "pend" BY IdleIsCall
<1>5. ASSUME NEW p \in Procs, RunCascade(p) PROVE FALSE
  <2>1. p # a BY <1>1, <1>5 DEF RunCascade, FindSpawned, ExecuteAction, MarkCompleted, At
  <2> QED BY <1>1, <1>2, <1>5, <2>1
        DEF RunCascade, FindSpawned, ExecuteAction, MarkCompleted, Return, Goto
<1>6. ASSUME NEW b \in Agents, Proceed(b) \/ LoseEvent(b) PROVE CommitReply(a)
  <2>1. b \in Procs BY TypeFacts
  <2>2. CASE b = a
    BY <1>1, <1>3, <1>5, <1>6, <2>1, <2>2
       DEF Proceed, CommitReply, RejectReply, LoseEvent, MarkPending, FinishCascade, Return, At
  <2>3. CASE b # a
    <3>1. call'[a] = call[a]
      BY <1>1, <1>5, <1>6, <2>1, <2>3
         DEF Proceed, CommitReply, RejectReply, LoseEvent, MarkPending, FinishCascade, Return, Goto
    <3> QED BY <1>2, <3>1
  <2> QED BY <2>2, <2>3
<1>7. ASSUME NEW b \in Agents, NEW m \in ReplyArgs, Reply(b, m) \/ BeginReply(b, m) PROVE FALSE
  <2>1. b \in Procs BY TypeFacts
  <2>2. b # a \/ call' = call BY <1>1, <1>7 DEF Reply, BeginReply, At
  <2> QED BY <1>1, <1>2, <1>7, <2>1, <2>2 DEF Reply, BeginReply
<1>8. CASE Replay BY <1>1, <1>2, <1>5, <1>8, TypeFacts DEF Replay, StartReplay
<1>9. CASE Crash BY <1>1, <1>3, <1>9 DEF Crash
<1>10. CASE \/ UNCHANGED vars \/ CloseThread \/ FindIdle \/ ReapThread
            \/ \E b \in Agents : LeaveThread(b) \/ UnpinAgent(b)
  BY <1>2, <1>10 DEF vars, CloseThread, FindIdle, ReapThread, LeaveThread, UnpinAgent
<1> QED BY <1>6, <1>7, <1>8, <1>9, <1>10 DEF Next

\* Only its last write, or a crash, ends the call of a cascade.
LEMMA FinishOnly ==
  ASSUME ThreadInv, [Next]_vars, NEW a \in Agents, At(a, "final"), call'[a].pc = "idle"
  PROVE  FinishCascade(a) \/ thread' = thread
<1>1. call \in [Procs -> Calls] /\ a \in Procs /\ call[a].pc = "final" /\ a # Replayer
  BY TypeFacts DEF At
<1>2. call'[a] # call[a] BY <1>1
<1>3. ASSUME NEW p \in Procs, RunCascade(p) PROVE FALSE
  <2>1. p # a BY <1>1, <1>3 DEF RunCascade, FindSpawned, ExecuteAction, MarkCompleted, At
  <2> QED BY <1>1, <1>2, <1>3, <2>1
        DEF RunCascade, FindSpawned, ExecuteAction, MarkCompleted, Return, Goto
<1>4. ASSUME NEW b \in Agents, Proceed(b) \/ LoseEvent(b) PROVE FinishCascade(a)
  <2>1. b \in Procs BY TypeFacts
  <2>2. CASE b = a
    BY <1>1, <1>3, <1>4, <2>1, <2>2
       DEF Proceed, CommitReply, RejectReply, LoseEvent, MarkPending, At
  <2>3. CASE b # a
    <3>1. call'[a] = call[a]
      BY <1>1, <1>3, <1>4, <2>1, <2>3
         DEF Proceed, CommitReply, RejectReply, LoseEvent, MarkPending, FinishCascade, Return, Goto
    <3> QED BY <1>2, <3>1
  <2> QED BY <2>2, <2>3
<1>5. ASSUME NEW b \in Agents, NEW m \in ReplyArgs, Reply(b, m) \/ BeginReply(b, m) PROVE FALSE
  <2>1. b \in Procs BY TypeFacts
  <2>2. b # a \/ call' = call BY <1>1, <1>5 DEF Reply, BeginReply, At
  <2> QED BY <1>1, <1>2, <1>5, <2>1, <2>2 DEF Reply, BeginReply
<1>6. CASE Replay BY <1>1, <1>2, <1>3, <1>6, TypeFacts DEF Replay, StartReplay
<1>7. CASE Crash BY <1>7 DEF Crash
<1>8. CASE \/ UNCHANGED vars \/ CloseThread \/ FindIdle \/ ReapThread
           \/ \E b \in Agents : LeaveThread(b) \/ UnpinAgent(b)
  BY <1>2, <1>8 DEF vars, CloseThread, FindIdle, ReapThread, LeaveThread, UnpinAgent
<1> QED BY <1>4, <1>5, <1>6, <1>7, <1>8 DEF Next

\* How a write that is not a reply moves the phase of Negotiation.
PhaseOf(t) ==
  CASE t.status = "active" -> "open"
    [] t.status = "converged" -> "agreed"
    [] t.status = "cascade_failed" -> "failed"
    [] t.status = "closed" /\ committed(t) # {} -> "settled"
    [] OTHER -> "ended"

\* The phase, as a chain of conditions.
LEMMA PhaseIs ==
  ASSUME NEW t \in Thread
  PROVE  PhaseOf(t) = IF t.status = "active" THEN "open"
                      ELSE IF t.status = "converged" THEN "agreed"
                      ELSE IF t.status = "cascade_failed" THEN "failed"
                      ELSE IF t.status = "closed" /\ committed(t) # {} THEN "settled"
                      ELSE "ended"
BY DEF PhaseOf

PhaseMoves(t, u) ==
  \/ PhaseOf(u) = PhaseOf(t)
  \/ PhaseOf(t) = "open" /\ PhaseOf(u) = "ended"
  \/ PhaseOf(t) = "agreed" /\ PhaseOf(u) = "failed"
  \/ PhaseOf(t) \in {"agreed", "failed"} /\ PhaseOf(u) = "settled"

\* The writes that are not replies move the phase as Negotiation does.
LEMMA PhaseSteps ==
  ASSUME NEW t \in Thread, RowInv(t), NEW u \in Thread, committed(u) = committed(t),
         \/ u.status = t.status
         \/ u.status = "closed"
         \/ u.status = "abandoned" /\ t.status = "active"
         \/ u.status = "cascade_failed" /\ t.status = "converged"
  PROVE  PhaseMoves(t, u)
<1>1. /\ t.status \in {"converged", "cascade_failed"} => committed(t) # {}
      /\ committed(t) # {} => t.status \in {"converged", "cascade_failed", "closed"}
  BY DEF RowInv, EndFits
<1>2. t.status \in ThreadStatus BY ThreadFields
<1> QED BY <1>1, <1>2, PhaseIs DEF PhaseMoves, ThreadStatus

-----------------------------------------------------------------------------
(* What the runs check, for every value of the constants.                  *)

\* Neither of the two who began a thread between two roles can converge it
\* alone, whoever is reaped and whatever is retracted in between.
THEOREM NobodyConvergesAlone == Spec => []TwoAgentsConverge
<1>1. ThreadInv => TwoAgentsConverge
  BY DEF ThreadInv, RowInv, AgreedByTwo, TwoAgentsConverge, TwoRoles, Replaces
<1> QED BY <1>1, ThreadStaysSound, PTL

\* Whoever may reply has somebody to hand the turn to.
THEOREM SomebodyIsTold == Spec => []CounterpartyResolved
<1>1. ThreadInv => CounterpartyResolved
  <2> SUFFICES ASSUME ThreadInv, NEW a \in Agents, CanReply(thread, a, NoArg)
               PROVE  Counterpart(upsertParticipant(thread.participants, a), a) # None
    BY DEF CounterpartyResolved
  <2>1. PICK t \in Thread : t = thread BY TypeFacts
  <2>2. RowInv(t) /\ HasTurn(t, a) BY <2>1, TypeFacts DEF CanReply
  <2>3. PICK ps : ps = upsertParticipant(t.participants, a) OBVIOUS
  <2>4. ps \in Seq(Agents) /\ Len(ps) > 1 /\ ps[1] # ps[2]
    BY <2>2, <2>3, UpsertProperties
  <2>5. ps[1] \in Agents /\ ps[2] \in Agents BY <2>4, ElementOfSeq
  <2>6. Counterpart(ps, a) \in {ps[1], ps[2]} BY <2>4, CounterpartProperties
  <2> QED BY <2>1, <2>3, <2>5, <2>6, ThreadAssumption
<1> QED BY <1>1, ThreadStaysSound, PTL

\* A reply checked against the round it answers commits what needs an architect
\* only when an architect has said converged.
THEOREM AuthorityIsHeard == Spec => AuthorityWhenSeen
<1> DEFINE A ==
      \A a \in Agents :
        /\ At(a, "commit") /\ call'[a].pc = "pend"
        /\ call[a].round = roundCount(thread)
        /\ \E i \in committed(thread') : thread'.convergenceActions[i].needs = "architect"
        => \E n \in DOMAIN thread'.messages :
             thread'.messages[n].converged /\ Role[thread'.messages[n].by] = "architect"
<1>1. ThreadInv /\ [Next]_vars => A
  <2> SUFFICES ASSUME ThreadInv, [Next]_vars, NEW a \in Agents,
                      At(a, "commit"), call'[a].pc = "pend",
                      call[a].round = roundCount(thread),
                      NEW i \in committed(thread'),
                      thread'.convergenceActions[i].needs = "architect"
               PROVE  \E n \in DOMAIN thread'.messages :
                        thread'.messages[n].converged /\ Role[thread'.messages[n].by] = "architect"
    OBVIOUS
  <2>1. PICK c \in Calls : c = call[a] BY TypeFacts
  <2>2. CommitReply(a) BY <2>1, CommitOnly
  <2>3. PICK m \in ReplyArg : m = c.arg BY ArgsAreReplies DEF Calls
  <2>4. PICK t \in Thread : t = thread BY TypeFacts
  <2>5. PICK u : u = thread' OBVIOUS
  <2>6. CanReply(t, a, m) /\ u = AfterReply(t, a, m) /\ u.status = "converged"
    <3>1. CanReply(thread, a, m) /\ thread' = AfterReply(thread, a, m)
          /\ call' = [call EXCEPT ![a] = IF thread'.status = "converged"
                                         THEN [Idle EXCEPT !.pc = "pend", !.run = committed(thread')]
                                         ELSE Idle]
      BY <2>1, <2>2, <2>3 DEF CommitReply
    <3>2. thread'.status # "converged" => call'[a] = Idle BY <3>1, TypeFacts
    <3> QED BY <2>4, <2>5, <3>1, <3>2, IdleIsCall
  <2>7. RowInv(t) BY <2>4, TypeFacts
  <2>8. ReplyEffect(t, a, m, u) BY <2>6, <2>7, ReplyRow
  <2> DEFINE n == roundCount(t)
  <2>9. /\ m.converged /\ t.lastMessageConverged /\ t.status = "active"
        /\ "architect" \in stagedEffective(t, m)
        /\ u \in Thread /\ roundCount(u) = n + 1
        /\ u.messages[n + 1] = [by |-> a, converged |-> m.converged]
        /\ \A k \in 1 .. n : u.messages[k] = t.messages[k]
    BY <2>5, <2>6, <2>8 DEF ReplyEffect
  <2>10. AuthorityHolds(t, a, m)
    BY <2>1, <2>3, <2>4, <2>9, TypeFacts DEF CheckFits, At
  <2>11. PICK role \in convergerRoles(t, a) : role = "architect"
    BY <2>9, <2>10 DEF AuthorityHolds, Satisfies
  <2>12. n \in Nat /\ DOMAIN t.messages = 1 .. n /\ DOMAIN u.messages = 1 .. n + 1
    BY <2>9, ThreadFields
  <2>13. CASE Role[a] = "architect"
    <3>1. n + 1 \in DOMAIN u.messages /\ u.messages[n + 1].by = a /\ u.messages[n + 1].converged
      BY <2>9, <2>12
    <3> QED BY <2>5, <2>13, <3>1
  <2>14. CASE Role[a] # "architect"
    <3>1. PICK k \in 1 .. n : t.messages[k].converged /\ Role[t.messages[k].by] = "architect"
      BY <2>11, <2>12, <2>14 DEF convergerRoles
    <3>2. k \in DOMAIN u.messages BY <2>12
    <3> QED BY <2>5, <2>9, <3>1, <3>2
  <2> QED BY <2>13, <2>14
<1> HIDE DEF A
<1>2. Spec => [][A]_vars BY <1>1, ThreadStaysSound, PTL DEF Spec
<1> QED BY <1>2 DEF AuthorityWhenSeen, A

\* A cascade closes the thread only when every committed action has been
\* executed, whatever was reaped, closed or replayed in between.
THEOREM CascadeClosesWhatIsDone == Spec => ClosedByCascadeIsComplete
<1> DEFINE A ==
      \A a \in Agents :
        At(a, "final") /\ thread.status = "converged" /\ thread'.status = "closed"
          /\ call'[a].pc = "idle"
        => \A i \in committed(thread) : spawned[i] > 0
<1>1. ThreadInv /\ [Next]_vars => A
  <2> SUFFICES ASSUME ThreadInv, [Next]_vars, NEW a \in Agents, At(a, "final"),
                      thread.status = "converged", thread'.status = "closed",
                      call'[a].pc = "idle"
               PROVE  \A i \in committed(thread) : spawned[i] > 0
    OBVIOUS
  <2>1. FinishCascade(a) BY FinishOnly
  <2>2. PICK c \in Calls : c = call[a] BY TypeFacts
  <2>3. ~c.failed
    <3>1. markCascadeFailed(thread).status = "cascade_failed"
      BY TypeFacts, PlainWrites DEF CanCascadeFail
    <3> QED BY <2>1, <2>2, <3>1 DEF FinishCascade
  <2>4. CascadeFits(c) /\ c.pc = "final" BY <2>2, TypeFacts DEF At
  <2> QED BY <2>3, <2>4 DEF CascadeFits
<1> HIDE DEF A
<1>2. Spec => [][A]_vars BY <1>1, ThreadStaysSound, PTL DEF Spec
<1> QED BY <1>2 DEF ClosedByCascadeIsComplete, A

-----------------------------------------------------------------------------
(* The thread implements Negotiation.                                      *)

Carried == {i \in 1 .. MaxRounds : spawned[i] > 0}

PromiseStep == [Promise!NNext]_(Promise!nvars)

\* The phase of the refinement mapping.
LEMMA PhaseIsPhaseOf == Phase = PhaseOf(thread) /\ Phase' = PhaseOf(thread')
BY DEF Phase, PhaseOf

\* A write that is not a reply ends, fails or settles, or changes nothing.
LEMMA MovesArePromised ==
  ASSUME spawned' = spawned, committed(thread') = committed(thread),
         PhaseMoves(thread, thread')
  PROVE  PromiseStep
<1>1. Carried' = Carried BY DEF Carried
<1>2. CASE PhaseOf(thread') = PhaseOf(thread)
  BY <1>1, <1>2, PhaseIsPhaseOf DEF PromiseStep, Promise!nvars, Carried
<1>3. CASE PhaseOf(thread) = "open" /\ PhaseOf(thread') = "ended"
  <2>1. Promise!EndOpen BY <1>1, <1>3, PhaseIsPhaseOf DEF Promise!EndOpen, Carried
  <2> QED BY <2>1 DEF PromiseStep, Promise!NNext
<1>4. CASE PhaseOf(thread) = "agreed" /\ PhaseOf(thread') = "failed"
  <2>1. Promise!Fail BY <1>1, <1>4, PhaseIsPhaseOf DEF Promise!Fail, Carried
  <2> QED BY <2>1 DEF PromiseStep, Promise!NNext
<1>5. CASE PhaseOf(thread) \in {"agreed", "failed"} /\ PhaseOf(thread') = "settled"
  <2>1. Promise!Settle BY <1>1, <1>5, PhaseIsPhaseOf DEF Promise!Settle, Carried
  <2> QED BY <2>1 DEF PromiseStep, Promise!NNext
<1> QED BY <1>2, <1>3, <1>4, <1>5 DEF PhaseMoves

\* A step that writes neither row nor entity stutters.
LEMMA StillIsPromised ==
  ASSUME spawned' = spawned, thread' = thread
  PROVE  PromiseStep
BY MovesArePromised DEF PhaseMoves

\* A reply goes on, reaches the last round, or agrees on something.
LEMMA RepliesArePromised ==
  ASSUME ThreadInv, spawned' = spawned, NEW a \in Agents, NEW m \in ReplyArg,
         CanReply(thread, a, m), thread' = AfterReply(thread, a, m)
  PROVE  PromiseStep
<1>1. PICK t \in Thread : t = thread BY TypeFacts
<1>2. PICK u : u = AfterReply(t, a, m) OBVIOUS
<1>3. RowInv(t) /\ CanReply(t, a, m) /\ u = thread' BY <1>1, <1>2, TypeFacts
<1>4. ReplyEffect(t, a, m, u) BY <1>2, <1>3, ReplyRow
<1>5. /\ u \in Thread /\ t.status = "active" /\ committed(t) = {}
      /\ u.status \in {"active", "round_limit", "converged"}
      /\ u.status # "converged" => committed(u) = {}
      /\ u.status = "converged" => committed(u) # {}
      /\ committed(u) \subseteq 1 .. MaxRounds
  BY <1>4 DEF ReplyEffect
<1>6. PhaseOf(t) = "open" BY <1>5, PhaseIs
<1>7. CASE u.status = "converged"
  <2>1. PhaseOf(u) = "agreed" BY <1>5, <1>7, PhaseIs
  <2>2. Carried' = Carried BY DEF Carried
  <2>3. committed(thread') \in (SUBSET (1 .. MaxRounds)) \ {{}} BY <1>3, <1>5, <1>7
  <2>4. Promise!Agree
    BY <1>1, <1>3, <1>6, <2>1, <2>2, <2>3, PhaseIsPhaseOf DEF Promise!Agree, Carried
  <2> QED BY <2>4 DEF PromiseStep, Promise!NNext
<1>8. CASE u.status # "converged"
  <2>1. PhaseMoves(t, u) BY <1>5, <1>6, <1>8, PhaseIs DEF PhaseMoves
  <2> QED BY <1>1, <1>3, <1>5, <1>8, <2>1, MovesArePromised
<1> QED BY <1>7, <1>8

\* Executing an action carries out something that was agreed.
LEMMA ExecutionIsPromised ==
  ASSUME ThreadInv, NEW p \in Procs, ExecuteAction(p)
  PROVE  PromiseStep
<1>1. PICK i \in 1 .. MaxRounds : i = NextAction(p) /\ i \in committed(thread)
  BY NextActionIsCommitted DEF ExecuteAction
<1>2. thread' = thread BY DEF ExecuteAction
<1>3. CASE spawned' = spawned BY <1>2, <1>3, StillIsPromised
<1>4. CASE spawned' = [spawned EXCEPT ![i] = @ + 1]
  <2>1. spawned \in [1 .. MaxRounds -> Nat] BY TypeFacts
  <2>2. Carried' = Carried \cup {i} BY <1>1, <1>4, <2>1 DEF Carried
  <2>3. Phase' = Phase BY <1>2, PhaseIsPhaseOf
  <2>4. Promise!CarryOut BY <1>1, <1>2, <2>2, <2>3 DEF Promise!CarryOut, Carried
  <2> QED BY <2>4 DEF PromiseStep, Promise!NNext
<1> QED BY <1>1, <1>3, <1>4 DEF ExecuteAction

\* The writes of the cascade, of stewards and of reapers.
LEMMA WritesArePromised ==
  ASSUME ThreadInv, spawned' = spawned, NEW u, thread' = u, KeepsTalk(thread, u),
         \/ u.status = thread.status
         \/ u.status = "closed"
         \/ u.status = "abandoned" /\ thread.status = "active"
         \/ u.status = "cascade_failed" /\ thread.status = "converged"
  PROVE  PromiseStep
<1>1. u \in Thread /\ committed(u) = committed(thread) BY DEF KeepsTalk
<1>2. PhaseMoves(thread, u) BY <1>1, TypeFacts, PhaseSteps
<1> QED BY <1>1, <1>2, MovesArePromised

\* One step per action.
LEMMA NextIsPromised ==
  ASSUME ThreadInv, [Next]_vars
  PROVE  PromiseStep
<1>1. thread \in Thread /\ Agents \subseteq Procs BY TypeFacts
<1>2. CASE UNCHANGED vars BY <1>2, StillIsPromised DEF vars
<1>3. ASSUME NEW a \in Agents, NEW m \in ReplyArgs, Reply(a, m) PROVE PromiseStep
  BY <1>3, ArgsAreReplies, RepliesArePromised DEF Reply
<1>4. ASSUME NEW a \in Agents, NEW m \in ReplyArgs, BeginReply(a, m) PROVE PromiseStep
  BY <1>4, StillIsPromised DEF BeginReply
<1>5. ASSUME NEW a \in Agents, CommitReply(a) PROVE PromiseStep
  <2>1. call[a] \in Calls BY <1>1, TypeFacts
  <2>2. PICK m \in ReplyArg : m = call[a].arg BY <2>1, ArgsAreReplies DEF Calls
  <2>3. CanReply(thread, a, m) /\ thread' = AfterReply(thread, a, m) /\ spawned' = spawned
    BY <1>5, <2>2 DEF CommitReply
  <2> QED BY <2>3, RepliesArePromised
<1>6. ASSUME NEW a \in Agents, RejectReply(a) \/ LoseEvent(a) PROVE PromiseStep
  BY <1>6, StillIsPromised DEF RejectReply, LoseEvent
<1>7. ASSUME NEW a \in Agents, MarkPending(a) PROVE PromiseStep
  BY <1>1, <1>7, PlainWrites, WritesArePromised, StillIsPromised DEF MarkPending
<1>8. ASSUME NEW p \in Procs, RunCascade(p) PROVE PromiseStep
  <2>1. CASE FindSpawned(p) BY <2>1, StillIsPromised DEF FindSpawned
  <2>2. CASE ExecuteAction(p) BY <2>2, ExecutionIsPromised
  <2>3. CASE MarkCompleted(p)
    BY <1>1, <2>3, PlainWrites, WritesArePromised, StillIsPromised DEF MarkCompleted
  <2> QED BY <1>8, <2>1, <2>2, <2>3 DEF RunCascade
<1>9. ASSUME NEW a \in Agents, FinishCascade(a) PROVE PromiseStep
  <2>1. thread.status # "active"
    BY <1>1, <1>9, TypeFacts DEF FinishCascade, At, CascadeFits
  <2>2. spawned' = spawned BY <1>9 DEF FinishCascade
  <2>3. CASE thread' = markCascadeFailed(thread)
    BY <1>1, <2>1, <2>2, <2>3, PlainWrites, WritesArePromised DEF CanCascadeFail
  <2>4. CASE thread' = closeThread(thread)
    BY <1>1, <2>2, <2>4, PlainWrites, WritesArePromised
  <2>5. CASE thread' = thread BY <2>2, <2>5, StillIsPromised
  <2> QED BY <1>9, <2>3, <2>4, <2>5 DEF FinishCascade
<1>10. CASE StartReplay \/ FindIdle \/ Crash
  BY <1>10, StillIsPromised DEF StartReplay, FindIdle, Crash
<1>11. CASE CloseThread
  BY <1>1, <1>11, PlainWrites, WritesArePromised DEF CloseThread
<1>12. ASSUME NEW a \in Agents, LeaveThread(a) PROVE PromiseStep
  BY <1>1, <1>12, LeaveAndReap, WritesArePromised DEF LeaveThread, CanLeave
<1>13. ASSUME NEW a \in Agents, UnpinAgent(a) PROVE PromiseStep
  BY <1>1, <1>13, PlainWrites, WritesArePromised DEF UnpinAgent
<1>14. CASE ReapThread
  BY <1>1, <1>14, LeaveAndReap, WritesArePromised, StillIsPromised DEF ReapThread, CanReap
<1>15. CASE Replay BY <1>8, <1>10, <1>15, TypeFacts DEF Replay
<1>16. ASSUME NEW a \in Agents, Proceed(a) PROVE PromiseStep
  BY <1>1, <1>5, <1>6, <1>7, <1>8, <1>9, <1>16 DEF Proceed
<1> QED
  BY <1>2, <1>3, <1>4, <1>6, <1>10, <1>11, <1>12, <1>13, <1>14, <1>15, <1>16 DEF Next

\* The thread implements Negotiation: agreement is reached once and fixes what
\* is executed, nothing else is, and no ending is taken back.
THEOREM ThreadKeepsItsPromise == Spec => ImplementsNegotiation
<1>1. Init => Promise!NInit
  <2> SUFFICES ASSUME Init PROVE Promise!NInit OBVIOUS
  <2>1. thread \in Thread /\ thread.status = "active" /\ committed(thread) = {}
    BY InitInv, TypeFacts
  <2>2. Phase = "open" BY <2>1, PhaseIsPhaseOf, PhaseIs
  <2>3. Carried = {} BY DEF Init, Carried
  <2> QED BY <2>1, <2>2, <2>3 DEF Promise!NInit, Carried
<1>2. ThreadInv /\ [Next]_vars => [Promise!NNext]_(Promise!nvars)
  BY NextIsPromised DEF PromiseStep
<1> QED BY <1>1, <1>2, ThreadStaysSound, PTL DEF Spec, ImplementsNegotiation, Promise!NSpec

=============================================================================
