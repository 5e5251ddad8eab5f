-------------------------- MODULE TurnQueueProofs --------------------------
(***************************************************************************)
(* Proofs about the turn queue: the agent whose turn it is has an item or  *)
(* gave it up, unless the reply that gave it the turn met another; and a   *)
(* claim ends the items of the rest of the pool, unless it met the opener  *)
(* still telling them.  For any number of agents, items and replies under  *)
(* way, stewards, reapers and crashes.                                     *)
(*                                                                         *)
(* After a reply that met no other one its call is the only one.  What it  *)
(* still has to tell is on its list; the item it acknowledges at the end is*)
(* its author's, whose turn it is not.  Once the thread is claimed, all    *)
(* calls together tell participants only.                                  *)
(***************************************************************************)
EXTENDS TurnQueue, SequenceTheorems, WellFoundedInduction, TLAPS

-----------------------------------------------------------------------------
(* Types.                                                                  *)

ItemLists == Seq(Item)
ActionLists == Seq(StagedAction)
Places == {"idle", "orphans", "enqueue", "insert", "match", "ack"}
Calls == [pc : Places, opening : BOOLEAN, todo : SUBSET Agents,
          target : Agents \cup {None}, item : Nat]

TypeOK ==
  /\ thread \in Thread
  /\ items \in ItemLists
  /\ call \in [Agents -> Calls]
  /\ watch # 0 => watch \in DOMAIN items
  /\ listed \subseteq DOMAIN items

-----------------------------------------------------------------------------
(* The invariant.                                                          *)

\* If the last reply met no other one, its call is the only one under way.
OneReply == ~torn => \A a, b \in Agents : ~At(a, "idle") /\ ~At(b, "idle") => a = b

\* What a call has in hand.
CallFits(a) ==
  /\ At(a, "insert") => call[a].target \in call[a].todo
  /\ At(a, "ack") => call[a].item \in DOMAIN items /\ items[call[a].item].to = a
  /\ At(a, "orphans") => Contains(thread.participants, a)

\* The queue knows of b's turn: the item is open, or was given up.
Known(b) == \E i \in DOMAIN items : items[i].to = b /\ items[i].state # "completion_acked"

\* Somebody still has to tell b.
ToTell(b) == \E a \in Agents : call[a].pc \in {"orphans", "enqueue", "insert"} /\ b \in call[a].todo

TurnFits ==
  LET next == thread.currentTurnAgentId
  IN thread.status = "active" /\ ~torn /\ next # None =>
       /\ Known(next) \/ ToTell(next)
       /\ At(next, "idle")

\* Once the thread is claimed, only participants have open items and are told,
\* but for the items the claimer is about to end.
ClaimFits ==
  thread.status = "active" /\ ~thread.broadcast /\ ~rushed =>
    /\ \/ \E a \in Agents : At(a, "orphans")
       \/ \A i \in DOMAIN items : IsOpen(items[i]) => Contains(thread.participants, items[i].to)
    /\ \A a \in Agents : ~At(a, "idle") =>
         \A b \in call[a].todo : Contains(thread.participants, b)

QueueInv ==
  /\ TypeOK /\ OneReply
  /\ \A a \in Agents : CallFits(a)
  /\ TurnFits /\ ClaimFits

-----------------------------------------------------------------------------
(* The thread.                                                             *)

\* Min is an element of any set of numbers that is not empty.
LEMMA MinIsIn ==
  ASSUME NEW S, S \subseteq Nat, S # {}
  PROVE  Min(S) \in S
<1>1. PICK x \in S : \A y \in S : ~ (<<y, x>> \in OpToRel(<, Nat))
  BY NatLessThanWellFounded, WFMin
<1>2. \A y \in S : x <= y
  <2> SUFFICES ASSUME NEW y \in S PROVE x <= y OBVIOUS
  <2>1. ~(<<y, x>> \in {ss \in Nat \X Nat : ss[1] < ss[2]})
    BY <1>1 DEF OpToRel
  <2>2. <<y, x>> \in Nat \X Nat BY <1>1
  <2> QED BY <2>1, <2>2
<1> QED BY <1>2 DEF Min

\* The participants of a thread are the range of its list.
LEMMA Participants ==
  ASSUME NEW ps \in Seq(Agents)
  PROVE  \A b : b \in Range(ps) <=> Contains(ps, b)
  BY LenProperties DEF Range, Contains

\* Whoever replies takes part from then on, and nobody drops out.
LEMMA UpsertAdds ==
  ASSUME NEW ps \in Seq(Agents), NEW a \in Agents
  PROVE  LET qs == upsertParticipant(ps, a)
         IN qs \in Seq(Agents) /\ Contains(qs, a) /\ \A b : Contains(ps, b) => Contains(qs, b)
<1>1. CASE Contains(ps, a) BY <1>1 DEF upsertParticipant
<1>2. CASE ~Contains(ps, a)
  <2> DEFINE qs == Append(ps, a)
  <2>1. upsertParticipant(ps, a) = qs BY <1>2 DEF upsertParticipant
  <2>2. /\ qs \in Seq(Agents) /\ Len(ps) \in Nat /\ Len(qs) = Len(ps) + 1
        /\ qs[Len(ps) + 1] = a /\ \A i \in 1 .. Len(ps) : qs[i] = ps[i]
    BY AppendProperties, LenProperties
  <2> HIDE DEF qs
  <2>3. PICK n \in Nat : n = Len(ps) BY <2>2
  <2>4. n + 1 \in 1 .. Len(qs) /\ \A i \in 1 .. n : i \in 1 .. Len(qs) BY <2>2, <2>3
  <2>5. Contains(qs, a) BY <2>2, <2>3, <2>4 DEF Contains
  <2>6. \A b : Contains(ps, b) => Contains(qs, b) BY <2>2, <2>3, <2>4 DEF Contains
  <2> QED BY <2>1, <2>2, <2>5, <2>6
<1> QED BY <1>1, <1>2

\* The turn goes to a participant other than the author, or to nobody.
LEMMA CounterpartTakesPart ==
  ASSUME NEW ps \in Seq(Agents), NEW a \in Agents, Counterpart(ps, a) # None
  PROVE  LET b == Counterpart(ps, a) IN b \in Agents /\ b # a /\ Contains(ps, b)
<1> DEFINE others == {i \in DOMAIN ps : ps[i] # a}
<1>1. Len(ps) \in Nat /\ DOMAIN ps = 1 .. Len(ps) /\ \A i \in DOMAIN ps : ps[i] \in Agents
  BY LenProperties
<1>2. others # {} /\ Counterpart(ps, a) = ps[Min(others)] BY DEF Counterpart
<1>3. others \subseteq Nat BY <1>1
<1>4. Min(others) \in others BY <1>2, <1>3, MinIsIn
<1>5. PICK i \in DOMAIN ps : i = Min(others) /\ ps[i] # a BY <1>4
<1> QED BY <1>1, <1>2, <1>5 DEF Contains

\* What a reply writes of the thread, as far as the queue is concerned.
LEMMA ReplyWrites ==
  ASSUME NEW t \in Thread, NEW a \in Agents
  PROVE  LET r == AfterReply(t, a, Plain)
         IN /\ r \in Thread
            /\ r.broadcast = FALSE
            /\ r.participants = upsertParticipant(t.participants, a)
            /\ r.currentTurnAgentId = Counterpart(r.participants, a)
<1> DEFINE parts == upsertParticipant(t.participants, a)
           next == Counterpart(parts, a)
           said == Append(t.messages, [by |-> a, converged |-> FALSE])
<1>1. parts \in Seq(Agents) BY UpsertAdds DEF Thread
<1>2. next \in Agents \cup {None} BY <1>1, CounterpartTakesPart
<1>3. said \in Seq(Message) BY AppendProperties DEF Thread, Message
<1>4. CounterpartRole(Role[a]) \in Roles BY DEF CounterpartRole, Roles
<1>5. (IF next = None THEN CounterpartRole(Role[a]) ELSE Role[next]) \in Roles
  BY <1>2, <1>4, ThreadAssumption
<1>6. ~Converges(t, Plain) /\ Plain.converged = FALSE BY DEF Converges, Plain
<1>7. applyStagedActionOps(t.convergenceActions, Plain.op, a) = t.convergenceActions
  BY DEF applyStagedActionOps, Plain, NoOp
<1>8. NextSummary(t, Plain) = t.summary BY DEF NextSummary, Plain
<1> HIDE DEF parts, next, said
<1>9. PICK status \in ThreadStatus :
        AfterReply(t, a, Plain) =
          [t EXCEPT !.status = status,
                    !.currentTurn = IF next = None THEN CounterpartRole(Role[a]) ELSE Role[next],
                    !.currentTurnAgentId = next, !.broadcast = FALSE, !.participants = parts,
                    !.messages = said, !.convergenceActions = t.convergenceActions,
                    !.summary = t.summary, !.lastMessageConverged = FALSE,
                    !.updatedAt = t.updatedAt + 1]
  <2> DEFINE status == IF roundCount(t) + 1 >= MaxRounds THEN "round_limit" ELSE "active"
  <2>1. status \in ThreadStatus BY DEF ThreadStatus
  <2> QED BY <1>6, <1>7, <1>8, <2>1 DEF AfterReply, parts, next, said, Thread
<1>10. t.updatedAt + 1 \in Nat BY DEF Thread
<1> DEFINE r == AfterReply(t, a, Plain)
<1>11. r \in Thread BY <1>1, <1>2, <1>3, <1>5, <1>9, <1>10 DEF Thread
<1>12. r.broadcast = FALSE /\ r.participants = parts /\ r.currentTurnAgentId = next
  BY <1>9 DEF Thread
<1> QED BY <1>11, <1>12 DEF parts, next

\* Closing a thread changes neither its participants nor its turn.
LEMMA ClosingWrites ==
  ASSUME NEW t \in Thread, NEW r, r \in {closeThread(t), reapIdleThread(t)}
  PROVE  /\ r \in Thread /\ r.status # "active"
         /\ r.participants = t.participants
<1>1. t.updatedAt + 1 \in Nat BY DEF Thread
<1>2. closeThread(t) \in Thread /\ closeThread(t).status # "active"
      /\ closeThread(t).participants = t.participants
  BY <1>1 DEF closeThread, Thread, ThreadStatus
<1> DEFINE acts == t.convergenceActions
           new == Restatus(acts, WithStatus(acts, "staged"), "retracted")
<1>3. acts \in [1 .. Len(acts) -> StagedAction] /\ Len(acts) \in Nat BY LenProperties DEF Thread
<1>4. \A x \in StagedAction : [x EXCEPT !.status = "retracted"] \in StagedAction
  BY DEF StagedAction
<1>5. new \in [1 .. Len(acts) -> StagedAction] BY <1>3, <1>4 DEF Restatus
<1>6. new \in Seq(StagedAction) BY <1>3, <1>5, SeqDef
<1> HIDE DEF new
<1>7. reapIdleThread(t) = [t EXCEPT !.convergenceActions = new, !.status = "abandoned",
                                    !.updatedAt = t.updatedAt + 1]
  BY DEF reapIdleThread, new, Thread
<1>8. reapIdleThread(t) \in Thread /\ reapIdleThread(t).status # "active"
      /\ reapIdleThread(t).participants = t.participants
  BY <1>1, <1>6, <1>7 DEF Thread, ThreadStatus
<1> QED BY <1>2, <1>8

-----------------------------------------------------------------------------
(* The items.                                                              *)

\* Nothing is opened again or answered: the item may be given up or escalated.
Calmer(i, j) ==
  /\ j \in Item /\ j.to = i.to
  /\ IsOpen(j) => IsOpen(i)
  /\ j.state = "completion_acked" => i.state = "completion_acked"

\* Every method of the queue but completionAck.
LEMMA MethodsAreCalm ==
  ASSUME NEW i \in Item
  PROVE  /\ Calmer(i, i) /\ Calmer(i, receiptAck(i)) /\ Calmer(i, escalate(i))
         /\ Calmer(i, incrementAttempt(i)) /\ Calmer(i, rescheduleReceiptDeadline(i))
         /\ Calmer(i, abandon(i)) /\ Calmer(i, saveContinuation(i))
         /\ Calmer(i, resumeContinuation(i)) /\ Calmer(i, [i EXCEPT !.overdue = TRUE])
         /\ ~IsOpen(abandon(i))
<1>1. Calmer(i, i) BY DEF Calmer
<1>2. Calmer(i, receiptAck(i)) BY DEF Calmer, receiptAck, Item, ItemStates, IsOpen
<1>3. Calmer(i, escalate(i)) BY DEF Calmer, escalate, Item, ItemStates, IsOpen
<1>4. Calmer(i, incrementAttempt(i))
  <2>1. i.attempts \in 0 .. MaxAttempts /\ MaxAttempts \in Nat BY AttemptsAssumption DEF Item
  <2>2. (IF i.attempts < MaxAttempts THEN i.attempts + 1 ELSE i.attempts) \in 0 .. MaxAttempts
    BY <2>1
  <2> QED BY <2>2 DEF Calmer, incrementAttempt, Item, IsOpen
<1>5. Calmer(i, rescheduleReceiptDeadline(i))
  <2>1. (i.overdue /\ i.state # "enqueued") \in BOOLEAN OBVIOUS
  <2> QED BY <2>1 DEF Calmer, rescheduleReceiptDeadline, Item, IsOpen
<1>6. Calmer(i, abandon(i)) /\ ~IsOpen(abandon(i))
  BY DEF Calmer, abandon, Item, ItemStates, IsOpen
<1>7. Calmer(i, saveContinuation(i)) BY DEF Calmer, saveContinuation, Item, ItemStates, IsOpen
<1>8. Calmer(i, resumeContinuation(i)) BY DEF Calmer, resumeContinuation, Item, ItemStates, IsOpen
<1>9. Calmer(i, [i EXCEPT !.overdue = TRUE]) BY DEF Calmer, Item, IsOpen
<1> QED BY <1>1, <1>2, <1>3, <1>4, <1>5, <1>6, <1>7, <1>8, <1>9

\* Every item of a list is changed, each to an item.
LEMMA ListChanged ==
  ASSUME NEW its \in ItemLists, NEW new, new \in [DOMAIN its -> Item]
  PROVE  new \in ItemLists /\ DOMAIN new = DOMAIN its
<1>1. its \in [1 .. Len(its) -> Item] /\ Len(its) \in Nat BY LenProperties DEF ItemLists
<1>2. new \in [1 .. Len(its) -> Item] BY <1>1
<1> QED BY <1>1, <1>2, SeqDef DEF ItemLists

\* One item of a list is changed.
LEMMA ItemChanged ==
  ASSUME NEW its \in ItemLists, NEW n \in DOMAIN its, NEW j \in Item
  PROVE  LET new == [its EXCEPT ![n] = j]
         IN /\ new \in ItemLists /\ DOMAIN new = DOMAIN its
            /\ new[n] = j /\ \A i \in DOMAIN its \ {n} : new[i] = its[i]
<1>1. its \in [1 .. Len(its) -> Item] /\ Len(its) \in Nat BY LenProperties DEF ItemLists
<1>2. \A i \in DOMAIN its : its[i] \in Item BY <1>1
<1>3. [its EXCEPT ![n] = j] \in [DOMAIN its -> Item] BY <1>1, <1>2
<1> QED BY <1>1, <1>3, ListChanged

\* The items of a list are items.
LEMMA ItemsAreItems ==
  ASSUME NEW its \in ItemLists
  PROVE  \A i \in DOMAIN its : its[i] \in Item
  BY LenProperties DEF ItemLists

-----------------------------------------------------------------------------
(* Steps of two kinds: of the queue alone and of a call.                   *)

\* The queue is looked after: no reply goes on and nothing is answered.
LEMMA CalmKeeps ==
  ASSUME QueueInv, UNCHANGED <<thread, call, torn, rushed>>,
         items' \in ItemLists, DOMAIN items' = DOMAIN items,
         \A i \in DOMAIN items : Calmer(items[i], items'[i]),
         watch' # 0 => watch' \in DOMAIN items, listed' \subseteq DOMAIN items
  PROVE  QueueInv'
<1>1. TypeOK' BY DEF QueueInv, TypeOK
<1>2. OneReply' BY DEF QueueInv, OneReply, At
<1>3. \A i \in DOMAIN items :
        /\ items'[i].to = items[i].to
        /\ IsOpen(items'[i]) => IsOpen(items[i])
        /\ items'[i].state = "completion_acked" => items[i].state = "completion_acked"
  BY DEF Calmer
<1>4. ASSUME NEW a \in Agents PROVE CallFits(a)'
  BY <1>3 DEF QueueInv, CallFits, At
<1>5. TurnFits' BY <1>3 DEF QueueInv, TurnFits, Known, ToTell, At
<1>6. ClaimFits' BY <1>3 DEF QueueInv, ClaimFits, At
<1> QED BY <1>1, <1>2, <1>4, <1>5, <1>6 DEF QueueInv

Telling == {"orphans", "enqueue", "insert"}

\* A call goes on: it becomes c, having told some of those it had to tell.  The
\* items are as they were, but for those it adds, ends or acknowledges.
CallGoesOn(a, c) ==
  /\ call' = [call EXCEPT ![a] = c]
  /\ UNCHANGED <<thread, listed, watch, torn, rushed>>
  /\ items' \in ItemLists /\ DOMAIN items \subseteq DOMAIN items'
  /\ c.todo \subseteq call[a].todo
  /\ c.pc # "orphans"
  /\ c.pc = "insert" => c.target \in c.todo
  /\ c.pc = "ack" => c.item \in DOMAIN items' /\ items'[c.item].to = a
  /\ \A i \in DOMAIN items :
       /\ items'[i].to = items[i].to
       /\ IsOpen(items'[i]) => IsOpen(items[i])
       /\ items[i].to # a /\ items[i].state # "completion_acked" =>
            items'[i].state # "completion_acked"
  /\ \A i \in DOMAIN items' \ DOMAIN items : items'[i].to \in call[a].todo
  /\ At(a, "orphans") => \A i \in DOMAIN items' : IsOpen(items'[i]) => items'[i].to = a
  /\ \A b \in call[a].todo :
       call[a].pc \in Telling => (c.pc \in Telling /\ b \in c.todo) \/ Known(b)'

\* Whoever is told less is known to the queue, and only the author's own item
\* may be acknowledged.
LEMMA CallKeeps ==
  ASSUME QueueInv, NEW a \in Agents, ~At(a, "idle"), NEW c \in Calls, CallGoesOn(a, c)
  PROVE  QueueInv'
<1> USE DEF CallGoesOn
<1>1. call \in [Agents -> Calls] BY DEF QueueInv, TypeOK
<1>2. call'[a] = c /\ \A b \in Agents \ {a} : call'[b] = call[b] BY <1>1
<1>3. ~torn => \A b \in Agents \ {a} : At(b, "idle") /\ At(b, "idle")'
  BY <1>2 DEF QueueInv, OneReply, At
<1>4. TypeOK'
  <2>1. call' \in [Agents -> Calls] BY <1>1
  <2> QED BY <2>1 DEF QueueInv, TypeOK
<1>5. OneReply' BY <1>3 DEF OneReply
<1>6. ASSUME NEW b \in Agents PROVE CallFits(b)'
  <2>1. CASE b = a BY <2>1, <1>2 DEF CallFits, At
  <2>2. CASE b # a BY <2>2, <1>2 DEF QueueInv, CallFits, At
  <2> QED BY <2>1, <2>2
<1>7. TurnFits'
  <2> SUFFICES ASSUME thread.status = "active", ~torn, thread.currentTurnAgentId # None
               PROVE  LET next == thread.currentTurnAgentId
                      IN (Known(next)' \/ ToTell(next)') /\ At(next, "idle")'
    BY DEF TurnFits
  <2>1. PICK next \in Agents : next = thread.currentTurnAgentId
    BY DEF QueueInv, TypeOK, Thread
  <2>2. (Known(next) \/ ToTell(next)) /\ At(next, "idle") BY <2>1 DEF QueueInv, TurnFits
  <2>3. next # a /\ At(next, "idle")' BY <2>2, <1>3
  <2>4. CASE Known(next)
    <3>1. PICK i \in DOMAIN items : items[i].to = next /\ items[i].state # "completion_acked"
      BY <2>4 DEF Known
    <3>2. i \in DOMAIN items' /\ items'[i].to = next /\ items'[i].state # "completion_acked"
      BY <2>3, <3>1
    <3>3. Known(next)' BY <3>2 DEF Known
    <3> QED BY <2>1, <2>3, <3>3
  <2>5. CASE ToTell(next)
    <3>1. call[a].pc \in Telling /\ next \in call[a].todo BY <2>5, <1>3 DEF ToTell, At, Telling
    <3>2. (c.pc \in Telling /\ next \in c.todo) \/ Known(next)' BY <3>1
    <3>3. Known(next)' \/ ToTell(next)' BY <3>2, <1>2 DEF ToTell, Telling
    <3> QED BY <2>1, <2>3, <3>3
  <2> QED BY <2>1, <2>2, <2>3, <2>4, <2>5
<1>8. ClaimFits'
  <2> SUFFICES ASSUME thread.status = "active", ~thread.broadcast, ~rushed
               PROVE  /\ \/ \E b \in Agents : At(b, "orphans")'
                         \/ \A i \in DOMAIN items' :
                              IsOpen(items'[i]) => Contains(thread.participants, items'[i].to)
                      /\ \A b \in Agents : ~At(b, "idle")' =>
                           \A x \in call'[b].todo : Contains(thread.participants, x)
    BY DEF ClaimFits
  <2>1. \A b \in Agents : ~At(b, "idle") =>
          \A x \in call[b].todo : Contains(thread.participants, x)
    BY DEF QueueInv, ClaimFits
  <2>2. ASSUME NEW b \in Agents \ {a}, At(b, "orphans") PROVE At(b, "orphans")'
    BY <2>2, <1>2 DEF At
  <2>3. ASSUME ~\E b \in Agents \ {a} : At(b, "orphans"),
               NEW i \in DOMAIN items', IsOpen(items'[i])
        PROVE  Contains(thread.participants, items'[i].to)
    <3>1. CASE At(a, "orphans")
      BY <2>3, <3>1 DEF QueueInv, CallFits
    <3>2. CASE ~At(a, "orphans") /\ i \in DOMAIN items
      <4>1. \A b \in Agents : ~At(b, "orphans") BY <2>3, <3>2
      <4>2. Contains(thread.participants, items[i].to)
        BY <4>1, <2>3, <3>2 DEF QueueInv, ClaimFits
      <4> QED BY <4>2, <3>2
    <3>3. CASE i \notin DOMAIN items BY <3>3, <2>1, <2>3
    <3> QED BY <3>1, <3>2, <3>3
  <2>4. ASSUME NEW b \in Agents, ~At(b, "idle")'
        PROVE  \A x \in call'[b].todo : Contains(thread.participants, x)
    <3>1. CASE b = a BY <3>1, <2>1, <1>2
    <3>2. CASE b # a BY <3>2, <2>1, <2>4, <1>2 DEF At
    <3> QED BY <3>1, <3>2
  <2> QED BY <2>2, <2>3, <2>4
<1> QED BY <1>4, <1>5, <1>6, <1>7, <1>8 DEF QueueInv

-----------------------------------------------------------------------------
(* The steps of a reply.                                                   *)

\* Nothing of the queue is touched by a step of a call.
LEMMA ItemsStay ==
  ASSUME QueueInv, UNCHANGED <<thread, items, listed, watch, torn, rushed>>,
         NEW a \in Agents, ~At(a, "idle"), ~At(a, "orphans"), NEW c \in Calls,
         call' = [call EXCEPT ![a] = c],
         c.todo \subseteq call[a].todo, c.pc # "orphans",
         c.pc = "insert" => c.target \in c.todo,
         c.pc = "ack" => c.item \in DOMAIN items /\ items[c.item].to = a,
         \A b \in call[a].todo :
           call[a].pc \in Telling => (c.pc \in Telling /\ b \in c.todo) \/ Known(b)
  PROVE  QueueInv'
<1>1. items \in ItemLists BY DEF QueueInv, TypeOK
<1>2. \A b : Known(b)' <=> Known(b) BY DEF Known
<1>3. CallGoesOn(a, c) BY <1>1, <1>2 DEF CallGoesOn, At
<1> QED BY <1>3, CallKeeps

\* The turn passes to a participant the reply is about to tell.
LEMMA ReplyKeeps ==
  ASSUME QueueInv, NEW a \in Agents, Reply(a)
  PROVE  QueueInv'
<1>1. thread \in Thread /\ call \in [Agents -> Calls] BY DEF QueueInv, TypeOK
<1>2. /\ At(a, "idle") /\ torn' = ~Quiet
      /\ rushed' = IF thread.broadcast THEN ~Quiet ELSE rushed
  BY DEF Reply
<1>3. thread.status = "active" BY DEF Reply, CanReply, HasTurn
<1> DEFINE t == AfterReply(thread, a, Plain)
           parts == upsertParticipant(thread.participants, a)
           c == [Idle EXCEPT !.pc = IF t.status # "active" THEN "match"
                                    ELSE IF thread.broadcast THEN "orphans" ELSE "enqueue",
                             !.todo = IF t.status = "active" THEN Range(t.participants) \ {a}
                                      ELSE {}]
<1>4. thread' = t /\ call' = [call EXCEPT ![a] = c]
      /\ UNCHANGED <<items, listed, watch>>
  BY DEF Reply
<1>5. t \in Thread /\ t.broadcast = FALSE /\ t.participants = parts
      /\ t.currentTurnAgentId = Counterpart(parts, a)
  BY <1>1, ReplyWrites
<1>6. thread.participants \in Seq(Agents) BY <1>1 DEF Thread
<1>7. /\ parts \in Seq(Agents) /\ Contains(parts, a)
      /\ \A b : Contains(thread.participants, b) => Contains(parts, b)
  BY <1>6, UpsertAdds
<1>8. \A b : b \in Range(parts) <=> Contains(parts, b) BY <1>7, Participants
<1>9. Range(parts) \subseteq Agents
  <2>1. \A i \in DOMAIN parts : parts[i] \in Agents BY <1>7, LenProperties
  <2> QED BY <2>1 DEF Range
<1> DEFINE next == Counterpart(parts, a)
<1>10. next # None => next \in Agents /\ next # a /\ Contains(parts, next)
  BY <1>7, CounterpartTakesPart
<1> HIDE DEF t, parts, next
<1>11. /\ c.pc = IF t.status # "active" THEN "match"
                 ELSE IF thread.broadcast THEN "orphans" ELSE "enqueue"
       /\ c.todo = IF t.status = "active" THEN Range(parts) \ {a} ELSE {}
       /\ c \in Calls
  BY <1>5, <1>9 DEF Idle, Calls, Places
<1> HIDE DEF c
<1>12. call'[a] = c /\ \A b \in Agents \ {a} : call'[b] = call[b] BY <1>1, <1>4
<1>13. Quiet => \A b \in Agents \ {a} : At(b, "idle") /\ At(b, "idle")'
  BY <1>12 DEF Quiet, At
<1>14. TypeOK'
  <2>1. call' \in [Agents -> Calls] BY <1>1, <1>4, <1>11
  <2> QED BY <2>1, <1>4, <1>5 DEF QueueInv, TypeOK
<1>15. OneReply' BY <1>2, <1>13 DEF OneReply
<1>16. ASSUME NEW b \in Agents PROVE CallFits(b)'
  <2>1. CASE b = a BY <2>1, <1>4, <1>5, <1>7, <1>11, <1>12 DEF CallFits, At
  <2>2. CASE b # a BY <2>2, <1>4, <1>5, <1>7, <1>12 DEF QueueInv, CallFits, At
  <2> QED BY <2>1, <2>2
<1>17. TurnFits'
  <2>1. CASE t.status # "active" \/ next = None BY <2>1, <1>4, <1>5 DEF TurnFits, next
  <2>2. CASE t.status = "active" /\ next # None /\ Quiet
    <3>1. PICK b \in Agents : b = next BY <2>2, <1>10
    <3>2. b \in c.todo /\ c.pc \in Telling BY <2>2, <3>1, <1>8, <1>10, <1>11 DEF Telling
    <3>3. ToTell(b)' BY <3>2, <1>12 DEF ToTell, Telling
    <3>4. At(b, "idle")' BY <3>1, <2>2, <1>10, <1>13
    <3>5. b = thread'.currentTurnAgentId BY <3>1, <1>4, <1>5 DEF next
    <3> QED BY <3>3, <3>4, <3>5 DEF TurnFits
  <2>3. CASE ~Quiet BY <2>3, <1>2 DEF TurnFits
  <2> QED BY <2>1, <2>2, <2>3
<1>18. ClaimFits'
  <2> SUFFICES ASSUME t.status = "active", ~rushed'
               PROVE  /\ \/ \E b \in Agents : At(b, "orphans")'
                         \/ \A i \in DOMAIN items :
                              IsOpen(items[i]) => Contains(parts, items[i].to)
                      /\ \A b \in Agents : ~At(b, "idle")' =>
                           \A x \in call'[b].todo : Contains(parts, x)
    BY <1>4, <1>5 DEF ClaimFits
  <2>0. \A x \in call'[a].todo : Contains(parts, x) BY <1>8, <1>11, <1>12
  <2>1. CASE thread.broadcast
    <3>1. At(a, "orphans")' BY <2>1, <1>11, <1>12 DEF At
    <3>2. Quiet BY <2>1, <1>2
    <3> QED BY <3>1, <3>2, <2>0, <1>13
  <2>2. CASE ~thread.broadcast
    <3>1. /\ \/ \E b \in Agents : At(b, "orphans")
             \/ \A i \in DOMAIN items :
                  IsOpen(items[i]) => Contains(thread.participants, items[i].to)
          /\ \A b \in Agents : ~At(b, "idle") =>
               \A x \in call[b].todo : Contains(thread.participants, x)
      BY <2>2, <1>2, <1>3 DEF QueueInv, ClaimFits
    <3>2. \A b \in Agents : At(b, "orphans") => b # a /\ At(b, "orphans")'
      BY <1>2, <1>12 DEF At
    <3>3. ASSUME NEW b \in Agents, ~At(b, "idle")', b # a
          PROVE  \A x \in call'[b].todo : Contains(parts, x)
      <4>1. call'[b] = call[b] /\ ~At(b, "idle") BY <3>3, <1>12 DEF At
      <4> QED BY <4>1, <3>1, <1>7
    <3> QED BY <3>1, <3>2, <3>3, <2>0, <1>7
  <2> QED BY <2>1, <2>2
<1> QED BY <1>14, <1>15, <1>16, <1>17, <1>18 DEF QueueInv

\* The claimer ends every open item but its own.
LEMMA AbandonOrphansKeeps ==
  ASSUME QueueInv, NEW a \in Agents, AbandonOrphans(a)
  PROVE  QueueInv'
<1>1. items \in ItemLists /\ call \in [Agents -> Calls] BY DEF QueueInv, TypeOK
<1>2. \A i \in DOMAIN items : items[i] \in Item BY <1>1, ItemsAreItems
<1>3. At(a, "orphans") /\ UNCHANGED <<thread, listed, watch, torn, rushed>>
      /\ items' = [i \in DOMAIN items |->
                     IF items[i].to # a THEN abandon(items[i]) ELSE items[i]]
  BY DEF AbandonOrphans, AbandonAll
<1>4. \A i \in DOMAIN items :
        Calmer(items[i], items'[i]) /\ (items[i].to # a => ~IsOpen(items'[i]))
  BY <1>2, <1>3, MethodsAreCalm
<1>5. items' \in [DOMAIN items -> Item] BY <1>3, <1>4 DEF Calmer
<1>6. items' \in ItemLists /\ DOMAIN items' = DOMAIN items BY <1>1, <1>5, ListChanged
<1>7. PICK d \in Calls : d = call[a] BY <1>1
<1> DEFINE c == [d EXCEPT !.pc = "enqueue"]
<1>8. c \in Calls /\ c.pc = "enqueue" /\ c.todo = d.todo BY DEF Calls, Places
<1>9. call' = [call EXCEPT ![a] = c] BY <1>1, <1>7 DEF AbandonOrphans
<1> HIDE DEF c
<1>10. \A i \in DOMAIN items :
         /\ items'[i].to = items[i].to
         /\ IsOpen(items'[i]) => IsOpen(items[i]) /\ items'[i].to = a
         /\ items[i].state # "completion_acked" => items'[i].state # "completion_acked"
  BY <1>4 DEF Calmer
<1>11. CallGoesOn(a, c) BY <1>3, <1>6, <1>7, <1>8, <1>9, <1>10 DEF CallGoesOn, Telling
<1>12. ~At(a, "idle") BY <1>3 DEF At
<1> QED BY <1>8, <1>11, <1>12, CallKeeps

\* An agent with a live item is told already; the others are inserted.
LEMMA FindItemKeeps ==
  ASSUME QueueInv, NEW a \in Agents, NEW b \in Agents, FindItem(a, b)
  PROVE  QueueInv'
<1>1. call \in [Agents -> Calls] BY DEF QueueInv, TypeOK
<1>2. PICK d \in Calls : d = call[a] BY <1>1
<1>3. At(a, "enqueue") /\ b \in d.todo /\ UNCHANGED <<thread, items, listed, watch, torn, rushed>>
  BY <1>2 DEF FindItem
<1>4. CASE \E i \in DOMAIN items : items[i].to = b /\ BlocksEnqueue(items[i])
  <2> DEFINE c == [d EXCEPT !.todo = d.todo \ {b}]
  <2>1. c \in Calls /\ c.pc = d.pc /\ c.todo = d.todo \ {b} BY DEF Calls
  <2>2. call' = [call EXCEPT ![a] = c] BY <1>1, <1>2, <1>4 DEF FindItem
  <2> HIDE DEF c
  <2>3. Known(b) BY <1>4 DEF Known, BlocksEnqueue
  <2> QED BY <1>2, <1>3, <2>1, <2>2, <2>3, ItemsStay DEF At
<1>5. CASE ~\E i \in DOMAIN items : items[i].to = b /\ BlocksEnqueue(items[i])
  <2> DEFINE c == [d EXCEPT !.pc = "insert", !.target = b]
  <2>1. c \in Calls /\ c.pc = "insert" /\ c.todo = d.todo /\ c.target = b
    BY DEF Calls, Places
  <2>2. call' = [call EXCEPT ![a] = c] BY <1>1, <1>2, <1>5 DEF FindItem
  <2> HIDE DEF c
  <2> QED BY <1>2, <1>3, <2>1, <2>2, ItemsStay DEF At, Telling
<1> QED BY <1>4, <1>5

\* The item inserted is that of somebody the call had to tell.
LEMMA InsertItemKeeps ==
  ASSUME QueueInv, NEW a \in Agents, InsertItem(a)
  PROVE  QueueInv'
<1>1. items \in ItemLists /\ call \in [Agents -> Calls] BY DEF QueueInv, TypeOK
<1>2. PICK d \in Calls : d = call[a] BY <1>1
<1>3. At(a, "insert") /\ UNCHANGED <<thread, listed, watch, torn, rushed>> BY DEF InsertItem
<1>4. d.todo \subseteq Agents BY DEF Calls
<1>5. d.target \in d.todo BY <1>2, <1>3 DEF QueueInv, CallFits
<1>6. PICK b \in Agents : b = d.target BY <1>4, <1>5
<1> DEFINE c == [d EXCEPT !.pc = "enqueue", !.todo = d.todo \ {b}, !.target = None]
<1>7. c \in Calls /\ c.pc = "enqueue" /\ c.todo = d.todo \ {b} BY DEF Calls, Places
<1>8. call' = [call EXCEPT ![a] = c] BY <1>1, <1>2, <1>6 DEF InsertItem
<1> HIDE DEF c
<1>9. items' = Append(items, NewItem(b)) BY <1>2, <1>6 DEF InsertItem
<1>10. NewItem(b) \in Item /\ NewItem(b).to = b /\ NewItem(b).state = "enqueued"
  BY AttemptsAssumption DEF NewItem, Item, ItemStates
<1>11. PICK n \in Nat : n = Len(items) /\ DOMAIN items = 1 .. n
  BY <1>1, LenProperties DEF ItemLists
<1>12. /\ items' \in ItemLists /\ DOMAIN items' = 1 .. n + 1 /\ items'[n + 1] = NewItem(b)
       /\ \A i \in 1 .. n : items'[i] = items[i]
  BY <1>1, <1>9, <1>10, <1>11, AppendProperties DEF ItemLists
<1>13. DOMAIN items \subseteq DOMAIN items' /\ n + 1 \in DOMAIN items' BY <1>11, <1>12
<1>14. \A i \in DOMAIN items : items'[i] = items[i] BY <1>11, <1>12
<1>15. \A i \in DOMAIN items' \ DOMAIN items : items'[i].to = b
  <2>1. \A i \in 1 .. n + 1 : i \notin 1 .. n => i = n + 1 OBVIOUS
  <2> QED BY <2>1, <1>10, <1>11, <1>12
<1>16. Known(b)' BY <1>10, <1>12, <1>13 DEF Known
<1>17. CallGoesOn(a, c)
  BY <1>2, <1>3, <1>5, <1>6, <1>7, <1>8, <1>12, <1>13, <1>14, <1>15, <1>16
  DEF CallGoesOn, At, Telling
<1>18. ~At(a, "idle") BY <1>3 DEF At
<1> QED BY <1>7, <1>17, <1>18, CallKeeps

\* Nobody is left to tell.
LEMMA ToldAllKeeps ==
  ASSUME QueueInv, NEW a \in Agents, ToldAll(a)
  PROVE  QueueInv'
<1>1. call \in [Agents -> Calls] BY DEF QueueInv, TypeOK
<1>2. PICK d \in Calls : d = call[a] BY <1>1
<1>3. At(a, "enqueue") /\ d.todo = {} /\ UNCHANGED <<thread, items, listed, watch, torn, rushed>>
  BY <1>2 DEF ToldAll
<1> DEFINE c == IF d.opening THEN Idle ELSE [d EXCEPT !.pc = "match"]
<1>4. c \in Calls /\ c.pc \in {"idle", "match"} /\ c.todo = {} BY <1>3 DEF Calls, Places, Idle
<1>5. call' = [call EXCEPT ![a] = c] BY <1>1, <1>2 DEF ToldAll
<1> HIDE DEF c
<1> QED BY <1>2, <1>3, <1>4, <1>5, ItemsStay DEF At

\* The item to acknowledge is the author's own.
LEMMA MatchItemKeeps ==
  ASSUME QueueInv, NEW a \in Agents, MatchItem(a)
  PROVE  QueueInv'
<1>1. items \in ItemLists /\ call \in [Agents -> Calls] BY DEF QueueInv, TypeOK
<1>2. PICK d \in Calls : d = call[a] BY <1>1
<1>3. At(a, "match") /\ UNCHANGED <<thread, items, listed, watch, torn, rushed>> BY DEF MatchItem
<1>4. CASE call' = [call EXCEPT ![a] = Idle]
  <2>1. Idle \in Calls /\ Idle.pc = "idle" /\ Idle.todo = {} BY DEF Calls, Places, Idle
  <2> QED BY <1>2, <1>3, <1>4, <2>1, ItemsStay DEF At, Telling
<1>5. ASSUME NEW i \in OpenItems(a), call' = [call EXCEPT ![a].pc = "ack", ![a].item = i]
      PROVE  QueueInv'
  <2>1. i \in DOMAIN items /\ items[i].to = a BY DEF OpenItems
  <2>2. i \in Nat BY <2>1, <1>1, LenProperties DEF ItemLists
  <2> DEFINE c == [d EXCEPT !.pc = "ack", !.item = i]
  <2>3. c \in Calls /\ c.pc = "ack" /\ c.todo = d.todo /\ c.item = i BY <2>2 DEF Calls, Places
  <2>4. call' = [call EXCEPT ![a] = c] BY <1>1, <1>2, <1>5
  <2> HIDE DEF c
  <2> QED BY <1>2, <1>3, <2>1, <2>3, <2>4, ItemsStay DEF At, Telling
<1> QED BY <1>4, <1>5 DEF MatchItem

\* What is acknowledged is not the item of the agent whose turn it is.
LEMMA AckItemKeeps ==
  ASSUME QueueInv, NEW a \in Agents, AckItem(a)
  PROVE  QueueInv'
<1>1. items \in ItemLists /\ call \in [Agents -> Calls] BY DEF QueueInv, TypeOK
<1>2. At(a, "ack") /\ UNCHANGED <<thread, listed, watch, torn, rushed>>
      /\ call' = [call EXCEPT ![a] = Idle]
  BY DEF AckItem
<1>3. PICK n \in DOMAIN items : n = call[a].item /\ items[n].to = a
  BY <1>2 DEF QueueInv, CallFits
<1>4. PICK i \in Item : i = items[n] BY <1>1, ItemsAreItems
<1>5. completionAck(i) \in Item /\ completionAck(i).to = a /\ ~IsOpen(completionAck(i))
  BY <1>3, <1>4 DEF completionAck, Item, ItemStates, IsOpen
<1>6. items' = [items EXCEPT ![n] = completionAck(i)] BY <1>3, <1>4 DEF AckItem
<1>7. /\ items' \in ItemLists /\ DOMAIN items' = DOMAIN items
      /\ items'[n] = completionAck(i) /\ \A j \in DOMAIN items \ {n} : items'[j] = items[j]
  BY <1>1, <1>5, <1>6, ItemChanged
<1>8. Idle \in Calls /\ Idle.pc = "idle" /\ Idle.todo = {} BY DEF Calls, Places, Idle
<1>9. CallGoesOn(a, Idle)
  BY <1>2, <1>3, <1>5, <1>7, <1>8 DEF CallGoesOn, At, Telling
<1>10. ~At(a, "idle") BY <1>2 DEF At
<1> QED BY <1>8, <1>9, <1>10, CallKeeps

-----------------------------------------------------------------------------
(* The steps of the queue's other users.                                   *)

\* One item is looked after.
LEMMA OneItemKeeps ==
  ASSUME QueueInv, NEW n \in DOMAIN items, NEW j, Calmer(items[n], j),
         items' = [items EXCEPT ![n] = j], UNCHANGED <<thread, call, torn, rushed>>,
         watch' # 0 => watch' \in DOMAIN items, listed' \subseteq DOMAIN items
  PROVE  QueueInv'
<1>1. items \in ItemLists BY DEF QueueInv, TypeOK
<1>2. \A i \in DOMAIN items : Calmer(items[i], items[i]) BY <1>1, ItemsAreItems, MethodsAreCalm
<1>3. j \in Item BY DEF Calmer
<1>4. /\ items' \in ItemLists /\ DOMAIN items' = DOMAIN items
      /\ items'[n] = j /\ \A i \in DOMAIN items \ {n} : items'[i] = items[i]
  BY <1>1, <1>3, ItemChanged
<1>5. \A i \in DOMAIN items : Calmer(items[i], items'[i]) BY <1>2, <1>4
<1> QED BY <1>4, <1>5, CalmKeeps

\* The items of a drain are received, not answered.
LEMMA DrainKeeps ==
  ASSUME QueueInv, NEW a \in Agents, Drain(a)
  PROVE  QueueInv'
<1>1. items \in ItemLists /\ (watch # 0 => watch \in DOMAIN items) /\ listed \subseteq DOMAIN items
  BY DEF QueueInv, TypeOK
<1>2. UNCHANGED <<thread, call, listed, watch, torn, rushed>>
      /\ items' = [i \in DOMAIN items |->
                     IF items[i].to = a THEN receiptAck(items[i]) ELSE items[i]]
  BY DEF Drain
<1>3. \A i \in DOMAIN items : Calmer(items[i], items'[i])
  BY <1>1, <1>2, ItemsAreItems, MethodsAreCalm
<1>4. items' \in [DOMAIN items -> Item] BY <1>2, <1>3 DEF Calmer
<1>5. items' \in ItemLists /\ DOMAIN items' = DOMAIN items BY <1>1, <1>4, ListChanged
<1> QED BY <1>1, <1>2, <1>3, <1>5, CalmKeeps

\* The calls that look after one item: continuations, deadlines and attempts.
LEMMA LookingAfterKeeps ==
  ASSUME QueueInv,
         \/ \E a \in Agents : \E i \in 1 .. MaxItems : SaveContinuation(a, i)
         \/ \E i \in 1 .. MaxItems : ResumeContinuation(i) \/ Expire(i) \/ Attempt(i)
         \/ PruneStuckItem
  PROVE  QueueInv'
<1>1. items \in ItemLists /\ (watch # 0 => watch \in DOMAIN items) /\ listed \subseteq DOMAIN items
  BY DEF QueueInv, TypeOK
<1>2. \A i \in DOMAIN items : items[i] \in Item BY <1>1, ItemsAreItems
<1>3. ASSUME NEW a \in Agents, NEW k, SaveContinuation(a, k) PROVE QueueInv'
  <2>1. PICK n \in DOMAIN items : items' = [items EXCEPT ![n] = saveContinuation(items[n])]
    BY <1>3 DEF SaveContinuation, OpenItems
  <2>2. UNCHANGED <<thread, call, listed, watch, torn, rushed>> BY <1>3 DEF SaveContinuation
  <2>3. Calmer(items[n], saveContinuation(items[n])) BY <1>2, MethodsAreCalm
  <2>4. PICK j \in Item : j = saveContinuation(items[n]) BY <2>3 DEF Calmer
  <2> QED BY <1>1, <2>1, <2>2, <2>3, <2>4, OneItemKeeps
<1>4. ASSUME NEW k, ResumeContinuation(k) PROVE QueueInv'
  <2>1. PICK n \in DOMAIN items : items' = [items EXCEPT ![n] = resumeContinuation(items[n])]
    BY <1>4 DEF ResumeContinuation
  <2>2. UNCHANGED <<thread, call, listed, watch, torn, rushed>> BY <1>4 DEF ResumeContinuation
  <2>3. Calmer(items[n], resumeContinuation(items[n])) BY <1>2, MethodsAreCalm
  <2>4. PICK j \in Item : j = resumeContinuation(items[n]) BY <2>3 DEF Calmer
  <2> QED BY <1>1, <2>1, <2>2, <2>3, <2>4, OneItemKeeps
<1>5. ASSUME NEW k, Expire(k) PROVE QueueInv'
  <2>1. PICK n \in DOMAIN items : items' = [items EXCEPT ![n].overdue = TRUE]
    BY <1>5 DEF Expire
  <2>2. UNCHANGED <<thread, call, listed, watch, torn, rushed>> BY <1>5 DEF Expire
  <2>3. Calmer(items[n], [items[n] EXCEPT !.overdue = TRUE]) BY <1>2, MethodsAreCalm
  <2>4. PICK j \in Item : j = [items[n] EXCEPT !.overdue = TRUE] BY <2>3 DEF Calmer
  <2>5. items' = [items EXCEPT ![n] = j] BY <2>1, <2>4
  <2> QED BY <1>1, <2>2, <2>3, <2>4, <2>5, OneItemKeeps
<1>6. ASSUME NEW k, Attempt(k) PROVE QueueInv'
  <2>1. PICK n \in DOMAIN items :
          items' = [items EXCEPT ![n] = incrementAttempt(items[n])] /\ watch' = n
    BY <1>1, <1>6 DEF Attempt
  <2>2. UNCHANGED <<thread, call, torn, rushed>> /\ listed' \subseteq listed BY <1>6 DEF Attempt
  <2>3. Calmer(items[n], incrementAttempt(items[n])) BY <1>2, MethodsAreCalm
  <2>4. PICK j \in Item : j = incrementAttempt(items[n]) BY <2>3 DEF Calmer
  <2> QED BY <1>1, <2>1, <2>2, <2>3, <2>4, OneItemKeeps
<1>7. ASSUME PruneStuckItem PROVE QueueInv'
  <2>1. PICK n \in DOMAIN items : items' = [items EXCEPT ![n] = abandon(items[n])]
    BY <1>7 DEF PruneStuckItem
  <2>2. UNCHANGED <<thread, call, listed, watch, torn, rushed>> BY <1>7 DEF PruneStuckItem
  <2>3. Calmer(items[n], abandon(items[n])) BY <1>2, MethodsAreCalm
  <2>4. PICK j \in Item : j = abandon(items[n]) BY <2>3 DEF Calmer
  <2> QED BY <1>1, <2>1, <2>2, <2>3, <2>4, OneItemKeeps
<1> QED BY <1>3, <1>4, <1>5, <1>6, <1>7

\* The watchdog lists items of the queue.
LEMMA WatchdogTickKeeps ==
  ASSUME QueueInv, WatchdogTick
  PROVE  QueueInv'
<1>1. items \in ItemLists /\ \A i \in DOMAIN items : Calmer(items[i], items[i])
  BY ItemsAreItems, MethodsAreCalm DEF QueueInv, TypeOK
<1>2. UNCHANGED <<thread, items, call, watch, torn, rushed>> /\ watch = 0 BY DEF WatchdogTick
<1>3. listed' \subseteq DOMAIN items BY DEF WatchdogTick, Pages, listExpired
<1> QED BY <1>1, <1>2, <1>3, CalmKeeps

\* An item the watchdog gives up stays in the queue, whatever became of it.
LEMMA EscalateOneKeeps ==
  ASSUME QueueInv, escalateOne
  PROVE  QueueInv'
<1>1. items \in ItemLists /\ watch \in DOMAIN items /\ listed \subseteq DOMAIN items
  BY DEF QueueInv, TypeOK, escalateOne
<1>2. PICK n \in DOMAIN items : n = watch BY <1>1
<1>3. items[n] \in Item BY <1>1, ItemsAreItems
<1>4. UNCHANGED <<thread, call, listed, torn, rushed>> /\ watch' = 0 BY DEF escalateOne
<1>5. \/ items' = [items EXCEPT ![n] = escalate(items[n])]
      \/ items' = [items EXCEPT ![n] = rescheduleReceiptDeadline(items[n])]
  BY <1>2 DEF escalateOne
<1>6. CASE items' = [items EXCEPT ![n] = escalate(items[n])]
  <2>1. Calmer(items[n], escalate(items[n])) BY <1>3, MethodsAreCalm
  <2>2. PICK j \in Item : j = escalate(items[n]) BY <2>1 DEF Calmer
  <2> QED BY <1>1, <1>4, <1>6, <2>1, <2>2, OneItemKeeps
<1>7. CASE items' = [items EXCEPT ![n] = rescheduleReceiptDeadline(items[n])]
  <2>1. Calmer(items[n], rescheduleReceiptDeadline(items[n])) BY <1>3, MethodsAreCalm
  <2>2. PICK j \in Item : j = rescheduleReceiptDeadline(items[n]) BY <2>1 DEF Calmer
  <2> QED BY <1>1, <1>4, <1>7, <2>1, <2>2, OneItemKeeps
<1> QED BY <1>5, <1>6, <1>7

\* The queue is swept: some of its items are abandoned.
Swept ==
  /\ DOMAIN items' = DOMAIN items
  /\ \A i \in DOMAIN items : items'[i] \in {items[i], abandon(items[i])}
  /\ items' \in [DOMAIN items -> Item]

\* A sweep keeps the items of whom they are for, and answers none.
LEMMA SweepIsCalm ==
  ASSUME items \in ItemLists, Swept
  PROVE  items' \in ItemLists /\ \A i \in DOMAIN items : Calmer(items[i], items'[i])
<1>1. items' \in ItemLists BY ListChanged DEF Swept
<1>2. \A i \in DOMAIN items : Calmer(items[i], items'[i])
  <2> SUFFICES ASSUME NEW i \in DOMAIN items PROVE Calmer(items[i], items'[i]) OBVIOUS
  <2>1. Calmer(items[i], items[i]) /\ Calmer(items[i], abandon(items[i]))
    BY ItemsAreItems, MethodsAreCalm
  <2> QED BY <2>1 DEF Swept
<1> QED BY <1>1, <1>2

\* The reaper's second step.
LEMMA ReapItemsKeeps ==
  ASSUME QueueInv, ReapItems
  PROVE  QueueInv'
<1>1. items \in ItemLists /\ (watch # 0 => watch \in DOMAIN items) /\ listed \subseteq DOMAIN items
  BY DEF QueueInv, TypeOK
<1>2. UNCHANGED <<thread, call, listed, watch, torn, rushed>>
      /\ items' = [i \in DOMAIN items |-> abandon(items[i])]
  BY DEF ReapItems, AbandonAll
<1>3. \A i \in DOMAIN items : abandon(items[i]) \in Item
  BY <1>1, ItemsAreItems, MethodsAreCalm DEF Calmer
<1>4. Swept BY <1>2, <1>3 DEF Swept
<1>5. DOMAIN items' = DOMAIN items BY <1>4 DEF Swept
<1> QED BY <1>1, <1>2, <1>4, <1>5, SweepIsCalm, CalmKeeps

\* The thread is over: what is left is what a call has in hand.
LEMMA EndKeeps ==
  ASSUME QueueInv, thread' \in Thread, thread'.status # "active",
         thread'.participants = thread.participants,
         UNCHANGED <<call, listed, watch, torn, rushed>>, Swept
  PROVE  QueueInv'
<1>1. items \in ItemLists BY DEF QueueInv, TypeOK
<1>2. items' \in ItemLists /\ \A i \in DOMAIN items : items'[i].to = items[i].to
  BY <1>1, SweepIsCalm DEF Calmer
<1>3. DOMAIN items' = DOMAIN items BY DEF Swept
<1>4. TypeOK' BY <1>2, <1>3 DEF QueueInv, TypeOK
<1>5. OneReply' BY DEF QueueInv, OneReply, At
<1>6. ASSUME NEW a \in Agents PROVE CallFits(a)'
  BY <1>2, <1>3 DEF QueueInv, CallFits, At
<1>7. TurnFits' /\ ClaimFits' BY DEF TurnFits, ClaimFits
<1> QED BY <1>4, <1>5, <1>6, <1>7 DEF QueueInv

\* A steward closes the thread, the architects' items with it.
LEMMA ForceCloseThreadKeeps ==
  ASSUME QueueInv, ForceCloseThread
  PROVE  QueueInv'
<1>1. items \in ItemLists /\ thread \in Thread BY DEF QueueInv, TypeOK
<1>2. UNCHANGED <<call, listed, watch, torn, rushed>> /\ thread' = closeThread(thread)
      /\ items' = [i \in DOMAIN items |->
                     IF /\ Role[items[i].to] = "architect"
                        /\ Contains(thread.participants, items[i].to)
                     THEN abandon(items[i]) ELSE items[i]]
  BY DEF ForceCloseThread, AbandonAll
<1>3. \A i \in DOMAIN items : items[i] \in Item /\ abandon(items[i]) \in Item
  BY <1>1, ItemsAreItems, MethodsAreCalm DEF Calmer
<1>4. Swept BY <1>2, <1>3 DEF Swept
<1> QED BY <1>1, <1>2, <1>4, ClosingWrites, EndKeeps

\* The reaper's first step.
LEMMA ReapThreadKeeps ==
  ASSUME QueueInv, ReapThread
  PROVE  QueueInv'
<1>1. items \in ItemLists /\ thread \in Thread BY DEF QueueInv, TypeOK
<1>2. UNCHANGED <<call, items, listed, watch, torn, rushed>> /\ thread' = reapIdleThread(thread)
  BY DEF ReapThread
<1>3. items \in [DOMAIN items -> Item]
  BY <1>1, LenProperties DEF ItemLists
<1>4. Swept BY <1>2, <1>3 DEF Swept
<1> QED BY <1>1, <1>2, <1>4, ClosingWrites, EndKeeps

\* A crash forgets the calls under way.
LEMMA CrashKeeps ==
  ASSUME QueueInv, Crash
  PROVE  QueueInv'
<1>1. /\ UNCHANGED <<thread, items>> /\ watch' = 0 /\ listed' = {}
      /\ call' = [a \in Agents |-> Idle]
      /\ torn' = (torn \/ ~Quiet)
      /\ rushed' = (rushed \/ \E a \in Agents : At(a, "orphans"))
  BY DEF Crash
<1>3. \A a \in Agents : At(a, "idle")' BY <1>1 DEF At, Idle
<1>4. TypeOK'
  <2>1. Idle \in Calls BY DEF Calls, Places, Idle
  <2>2. call' \in [Agents -> Calls] BY <1>1, <2>1
  <2> QED BY <1>1, <2>2 DEF QueueInv, TypeOK
<1>5. OneReply' BY <1>3 DEF OneReply
<1>6. ASSUME NEW a \in Agents PROVE CallFits(a)' BY <1>3 DEF CallFits, At
<1>7. TurnFits'
  <2> SUFFICES ASSUME thread.status = "active", ~torn', thread.currentTurnAgentId # None
               PROVE  LET next == thread.currentTurnAgentId
                      IN Known(next)' /\ At(next, "idle")'
    BY <1>1 DEF TurnFits
  <2>1. PICK next \in Agents : next = thread.currentTurnAgentId BY DEF QueueInv, TypeOK, Thread
  <2>2. ~ToTell(next) BY <1>1 DEF ToTell, Quiet, At
  <2>3. Known(next) BY <1>1, <2>1, <2>2 DEF QueueInv, TurnFits
  <2>4. Known(next)' BY <1>1, <2>3 DEF Known
  <2> QED BY <1>1, <1>3, <2>1, <2>4
<1>8. ClaimFits'
  <2> SUFFICES ASSUME thread.status = "active", ~thread.broadcast, ~rushed'
               PROVE  \A i \in DOMAIN items :
                        IsOpen(items[i]) => Contains(thread.participants, items[i].to)
    BY <1>1, <1>3 DEF ClaimFits
  <2> QED BY <1>1 DEF QueueInv, ClaimFits
<1> QED BY <1>4, <1>5, <1>6, <1>7, <1>8 DEF QueueInv

-----------------------------------------------------------------------------
(* The theorems.                                                           *)

\* The opener has the pinned recipient or the pool to tell.
LEMMA InitInv == Init => QueueInv
<1> SUFFICES ASSUME Init PROVE QueueInv OBVIOUS
<1>1. PICK o \in Openings :
        /\ thread = openThread(o.by, o.to, o.broadcast)
        /\ call = [a \in Agents |-> IF a = o.by THEN Opening(o) ELSE Idle]
  BY DEF Init
<1>2. items = << >> /\ watch = 0 /\ listed = {} BY DEF Init
<1>3. o.by \in Agents /\ o.to \in Agents \cup {None} /\ o.broadcast \in BOOLEAN
      /\ o.to # o.by /\ (o.broadcast => o.to = None)
  BY TurnQueueAssumption
<1> DEFINE parts == IF o.to = None THEN <<o.by>> ELSE <<o.by, o.to>>
           said == <<[by |-> o.by, converged |-> FALSE]>>
           turn == IF o.to = None THEN CounterpartRole(Role[o.by]) ELSE Role[o.to]
<1>4. parts \in Seq(Agents) /\ Contains(parts, o.by) /\ (o.to # None => Contains(parts, o.to))
  BY <1>3 DEF Contains
<1>5. said \in Seq(Message) BY <1>3 DEF Message
<1>6. turn \in Roles BY <1>3, ThreadAssumption DEF CounterpartRole, Roles
<1>7. << >> \in Seq(StagedAction) /\ << >> \in ItemLists /\ DOMAIN << >> = {}
  BY DEF ItemLists
<1> HIDE DEF parts, said, turn
<1>8. thread = [status |-> "active", currentTurn |-> turn, currentTurnAgentId |-> o.to,
                broadcast |-> o.broadcast, participants |-> parts, messages |-> said,
                convergenceActions |-> << >>, summary |-> FALSE,
                lastMessageConverged |-> FALSE, updatedAt |-> 1,
                lastMessageProjectedAt |-> 0, cascadePending |-> FALSE]
  BY <1>1 DEF openThread, parts, said, turn
<1>9. thread \in Thread
  BY <1>3, <1>4, <1>5, <1>6, <1>7, <1>8 DEF Thread, ThreadStatus
<1>10. thread.currentTurnAgentId = o.to /\ thread.broadcast = o.broadcast
       /\ thread.participants = parts
  BY <1>8
<1>11. PICK todo \in SUBSET Agents :
         todo = IF o.to # None THEN {o.to} ELSE IF o.broadcast THEN Pool(o.by) ELSE {}
  BY <1>3 DEF Pool
<1>12. PICK c \in Calls : c = Opening(o) /\ c.pc = "enqueue" /\ c.todo = todo
  <2> DEFINE c == [pc |-> "enqueue", opening |-> TRUE, todo |-> todo, target |-> None, item |-> 0]
  <2>1. c = Opening(o)
    <3> DEFINE told == IF o.to # None THEN {o.to} ELSE IF o.broadcast THEN Pool(o.by) ELSE {}
    <3>1. Opening(o) = [Idle EXCEPT !.pc = "enqueue", !.opening = TRUE, !.todo = told]
      BY DEF Opening
    <3>2. told = todo BY <1>11
    <3> HIDE DEF told
    <3> QED BY <3>1, <3>2 DEF Idle
  <2>2. c \in Calls /\ c.pc = "enqueue" /\ c.todo = todo BY DEF Calls, Places
  <2> QED BY <2>1, <2>2
<1>13. Idle \in Calls /\ Idle.pc = "idle" BY DEF Calls, Places, Idle
<1>14. call \in [Agents -> Calls] /\ call[o.by] = c
       /\ \A a \in Agents \ {o.by} : call[a] = Idle
  BY <1>1, <1>3, <1>12, <1>13
<1>15. \A a \in Agents \ {o.by} : At(a, "idle") BY <1>13, <1>14 DEF At
<1>16. TypeOK BY <1>2, <1>7, <1>9, <1>14 DEF TypeOK
<1>17. OneReply BY <1>15 DEF OneReply
<1>18. ASSUME NEW a \in Agents PROVE CallFits(a)
  <2>1. CASE a = o.by BY <2>1, <1>12, <1>14 DEF CallFits, At
  <2>2. CASE a # o.by BY <2>2, <1>15 DEF CallFits, At
  <2> QED BY <2>1, <2>2
<1>19. TurnFits
  <2> SUFFICES ASSUME o.to # None PROVE ToTell(o.to) /\ At(o.to, "idle")
    BY <1>10 DEF TurnFits
  <2>1. o.to \in call[o.by].todo /\ call[o.by].pc = "enqueue" BY <1>11, <1>12, <1>14
  <2> QED BY <2>1, <1>3, <1>15 DEF ToTell
<1>20. ClaimFits
  <2>1. DOMAIN items = {} BY <1>2, <1>7
  <2>2. ~o.broadcast => \A b \in todo : o.to # None /\ b = o.to BY <1>11
  <2> QED BY <2>1, <2>2, <1>4, <1>10, <1>12, <1>14, <1>15 DEF ClaimFits
<1> QED BY <1>16, <1>17, <1>18, <1>19, <1>20 DEF QueueInv

\* A step that changes nothing.
LEMMA StutterKeeps == QueueInv /\ UNCHANGED vars => QueueInv'
<1> SUFFICES ASSUME QueueInv, UNCHANGED vars PROVE QueueInv' OBVIOUS
<1>1. items \in ItemLists /\ (watch # 0 => watch \in DOMAIN items) /\ listed \subseteq DOMAIN items
  BY DEF QueueInv, TypeOK
<1>2. \A i \in DOMAIN items : Calmer(items[i], items[i]) BY <1>1, ItemsAreItems, MethodsAreCalm
<1>3. UNCHANGED <<thread, items, call, listed, watch, torn, rushed>> BY DEF vars
<1> QED BY <1>1, <1>2, <1>3, CalmKeeps

\* Every step, also while other replies are under way.
LEMMA NextKeeps == QueueInv /\ Next => QueueInv'
<1> SUFFICES ASSUME QueueInv, Next PROVE QueueInv' OBVIOUS
<1>1. ASSUME NEW a \in Agents, Proceed(a) PROVE QueueInv'
  BY <1>1, AbandonOrphansKeeps, FindItemKeeps, InsertItemKeeps, ToldAllKeeps, MatchItemKeeps,
     AckItemKeeps
  DEF Proceed
<1>2. ASSUME NEW a \in Agents,
             Reply(a) \/ Drain(a) \/ \E i \in 1 .. MaxItems : SaveContinuation(a, i)
      PROVE  QueueInv'
  BY <1>2, ReplyKeeps, DrainKeeps, LookingAfterKeeps
<1>3. ASSUME \/ \E i \in 1 .. MaxItems : ResumeContinuation(i) \/ Expire(i) \/ Attempt(i)
             \/ WatchdogTick \/ PruneStuckItem
      PROVE  QueueInv'
  BY <1>3, LookingAfterKeeps, WatchdogTickKeeps
<1>4. ASSUME escalateOne \/ ForceCloseThread \/ ReapThread \/ ReapItems \/ Crash
      PROVE  QueueInv'
  BY <1>4, EscalateOneKeeps, ForceCloseThreadKeeps, ReapThreadKeeps, ReapItemsKeeps, CrashKeeps
<1> QED BY <1>1, <1>2, <1>3, <1>4 DEF Next

\* The turn and the queue agree at every await of every call, the watchdog's and
\* the reaper's included, up to the replies that met another one.
THEOREM QueueFollowsTurn == Spec => []QueueInv
<1>1. QueueInv /\ [Next]_vars => QueueInv' BY NextKeeps, StutterKeeps
<1> QED BY <1>1, InitInv, PTL DEF Spec

\* createThreadReply: the agent an active thread is pinned to has an item, open
\* or given up, if the last reply met no other call under way and no crash cut it
\* short.  What happened before that reply does not matter.
THEOREM WhoIsOwedIsQueued == Spec => []OwedUnlessTorn
<1>1. QueueInv => OwedUnlessTorn
  <2> SUFFICES ASSUME QueueInv, ~torn, thread.status = "active",
                      thread.currentTurnAgentId # None, Quiet
               PROVE  \E i \in DOMAIN items : /\ items[i].to = thread.currentTurnAgentId
                                              /\ items[i].state # "completion_acked"
    BY DEF OwedUnlessTorn, OwedIsQueuedOrGivenUp
  <2>1. PICK next \in Agents : next = thread.currentTurnAgentId
    BY DEF QueueInv, TypeOK, Thread
  <2>2. ~ToTell(next) BY DEF ToTell, Quiet, At
  <2>3. Known(next) BY <2>1, <2>2 DEF QueueInv, TurnFits
  <2> QED BY <2>1, <2>3 DEF Known
<1> QED BY <1>1, QueueFollowsTurn, PTL

\* The first reply to a broadcast, if the opener has told the pool before and no
\* crash comes before the claim ends the items: once no call is under way nobody
\* else of the pool has an open item, and no later reply, overlapping or not,
\* gives anybody one.
THEOREM ClaimIsFinal == Spec => []ClaimEndsTheRest
<1>1. QueueInv => ClaimEndsTheRest
  <2> SUFFICES ASSUME QueueInv, thread.status = "active", ~thread.broadcast, Quiet, ~rushed
               PROVE  \A i \in DOMAIN items :
                        IsOpen(items[i]) => Contains(thread.participants, items[i].to)
    BY DEF ClaimEndsTheRest
  <2>1. \A a \in Agents : ~At(a, "orphans") BY DEF Quiet, At
  <2> QED BY <2>1 DEF QueueInv, ClaimFits
<1> QED BY <1>1, QueueFollowsTurn, PTL

=============================================================================
