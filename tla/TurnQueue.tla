----------------------------- MODULE TurnQueue -----------------------------
(***************************************************************************)
(* How an agent learns that a thread waits for it: the pending-action items*)
(* a reply leaves for the other participants, the acknowledgement of the   *)
(* item a reply answers, the drain, the continuation sweep, the watchdog   *)
(* that escalates overdue items and the administrative calls.              *)
(*                                                                         *)
(* hub/src/policy/thread-policy.ts writes the thread first and the queue   *)
(* after it, one await at a time, so the next agent may answer before the  *)
(* call that gave it the turn has finished with the queue.                 *)
(***************************************************************************)
EXTENDS ThreadRow, FiniteSets

CONSTANTS
  Openings,      \* the ways the thread may be opened, and what may happen to it
  Page,          \* LIST_PREFETCH_CAP: how many items a scan of the queue returns
  MaxItems       \* bound on the queue items

\* late: the agents that may miss a deadline; upsets: a bound on the crashes and
\* the calls of stewards and reapers.
ASSUME TurnQueueAssumption ==
  /\ Openings \subseteq [by : Agents, to : Agents \cup {None}, broadcast : BOOLEAN,
                         late : SUBSET Agents, upsets : Nat]
  /\ \A o \in Openings : o.to # o.by /\ (o.broadcast => o.to = None)

VARIABLES
  thread,   \* the row
  items,    \* the queue, in the order of the items' ids
  call,     \* the call each agent has under way
  listed,   \* the items the watchdog's tick still has to work on
  watch,    \* the one it works on, or 0
  reaped,   \* the thread reaper has written the thread, not yet the items
  torn,     \* the last reply met another call under way or was cut short (history)
  rushed,   \* so did the reply that claimed the broadcast (history)
  late, upsets   \* what may still happen

vars == <<thread, items, call, listed, watch, reaped, torn, rushed, late, upsets>>

\* pc is the await the call is at; todo the agents still to be told, target the
\* one being told; item the one to ack.
Idle == [pc |-> "idle", opening |-> FALSE, todo |-> {},
         target |-> None, item |-> 0]

\* The members of a broadcast's pool: the role the opener addresses.
Pool(a) == {b \in Agents : Role[b] = IF Role[a] = "architect" THEN "engineer" ELSE "architect"}

\* The opener's call has just inserted the thread.
Opening(o) ==
  [Idle EXCEPT !.pc = "enqueue", !.opening = TRUE,
               !.todo = IF o.to # None THEN {o.to}
                        ELSE IF o.broadcast THEN Pool(o.by) ELSE {}]

Init ==
  /\ \E o \in Openings :
       /\ thread = openThread(o.by, o.to, o.broadcast)
       /\ call = [a \in Agents |-> IF a = o.by THEN Opening(o) ELSE Idle]
       /\ late = o.late /\ upsets = o.upsets
  /\ items = << >>
  /\ listed = {} /\ watch = 0
  /\ reaped = FALSE
  /\ torn = FALSE /\ rushed = FALSE

At(a, pc) == call[a].pc = pc
Quiet == \A a \in Agents : At(a, "idle")

Plain == [converged |-> FALSE, op |-> NoOp, summary |-> "keep"]

AbandonAll(P(_)) == [i \in DOMAIN items |-> IF P(items[i]) THEN abandon(items[i]) ELSE items[i]]

-----------------------------------------------------------------------------
(* createThreadReply: the write, then the queue.                           *)

\* What is said is left out: convergence is in Convergence.  A reply that ends
\* the thread tells nobody.
Reply(a) ==
  /\ At(a, "idle")
  /\ CanReply(thread, a, Plain)
  /\ LET t == AfterReply(thread, a, Plain)
     IN /\ thread' = t
        /\ call' = [call EXCEPT ![a] =
             [Idle EXCEPT !.pc = IF t.status # "active" THEN "match"
                                 ELSE IF thread.broadcast THEN "orphans" ELSE "enqueue",
                          !.todo = IF t.status = "active" THEN Range(t.participants) \ {a} ELSE {}]]
  /\ torn' = ~Quiet
  /\ rushed' = IF thread.broadcast THEN ~Quiet ELSE rushed
  /\ UNCHANGED <<items, listed, watch, reaped, late, upsets>>

\* Only the claimer's own view of the thread changes.
AbandonOrphans_Skip(a) ==
  /\ At(a, "orphans")
  /\ call' = [call EXCEPT ![a].pc = "enqueue"]
  /\ UNCHANGED <<thread, items, listed, watch, reaped, torn, rushed, late, upsets>>

\* The items of the pool's other members, when the reply claims a broadcast.
AbandonOrphans(a) ==
  /\ At(a, "orphans")
  /\ items' = AbandonAll(LAMBDA i : i.to # a)
  /\ call' = [call EXCEPT ![a].pc = "enqueue"]
  /\ UNCHANGED <<thread, listed, watch, reaped, torn, rushed, late, upsets>>

\* enqueue: a live item with the natural key is returned as it is; the insert
\* is another await.
FindItem(a, b) ==
  /\ At(a, "enqueue") /\ b \in call[a].todo
  /\ call' = [call EXCEPT ![a] =
                IF \E i \in DOMAIN items : items[i].to = b /\ BlocksEnqueue(items[i])
                THEN [call[a] EXCEPT !.todo = @ \ {b}]
                ELSE [call[a] EXCEPT !.pc = "insert", !.target = b]]
  /\ UNCHANGED <<thread, items, listed, watch, reaped, torn, rushed, late, upsets>>

InsertItem(a) ==
  /\ At(a, "insert") /\ Len(items) < MaxItems
  /\ items' = Append(items, NewItem(call[a].target))
  /\ call' = [call EXCEPT ![a].pc = "enqueue", ![a].todo = @ \ {call[a].target},
                          ![a].target = None]
  /\ UNCHANGED <<thread, listed, watch, reaped, torn, rushed, late, upsets>>

\* Everybody is told.  createThread has nothing to acknowledge.
ToldAll(a) ==
  /\ At(a, "enqueue") /\ call[a].todo = {}
  /\ call' = [call EXCEPT ![a] = IF call[a].opening THEN Idle ELSE [@ EXCEPT !.pc = "match"]]
  /\ UNCHANGED <<thread, items, listed, watch, reaped, torn, rushed, late, upsets>>

\* Matching the thread and not the agent.
OpenItems_Thread(a) == {i \in DOMAIN items : items[i].to \in Agents /\ IsOpen(items[i])}

OpenItems(a) == {i \in DOMAIN items : items[i].to = a /\ IsOpen(items[i])}

\* findOpenByNaturalKey: any open item of the author, none or one.
MatchItem(a) ==
  /\ At(a, "match")
  /\ \/ /\ OpenItems(a) = {}
        /\ call' = [call EXCEPT ![a] = Idle]
     \/ \E i \in OpenItems(a) : call' = [call EXCEPT ![a].pc = "ack", ![a].item = i]
  /\ UNCHANGED <<thread, items, listed, watch, reaped, torn, rushed, late, upsets>>

AckItem(a) ==
  /\ At(a, "ack")
  /\ items' = [items EXCEPT ![call[a].item] = completionAck(@)]
  /\ call' = [call EXCEPT ![a] = Idle]
  /\ UNCHANGED <<thread, listed, watch, reaped, torn, rushed, late, upsets>>

-----------------------------------------------------------------------------
(* The queue's other users.                                                *)

\* drain_pending_actions.
Drain(a) ==
  /\ \E i \in DOMAIN items : items[i].to = a /\ items[i].state = "enqueued"
  /\ items' = [i \in DOMAIN items |-> IF items[i].to = a THEN receiptAck(items[i]) ELSE items[i]]
  /\ UNCHANGED <<thread, call, listed, watch, reaped, torn, rushed, late, upsets>>

\* As often as the agent likes.
SaveContinuation(a, i) ==
  /\ i \in OpenItems(a)
  /\ items' = [items EXCEPT ![i] = saveContinuation(@)]
  /\ UNCHANGED <<thread, call, listed, watch, reaped, torn, rushed, late, upsets>>

\* runContinuationSweepTick.
ResumeContinuation(i) ==
  /\ i \in DOMAIN items /\ items[i].state = "continuation_required"
  /\ items' = [items EXCEPT ![i] = resumeContinuation(@)]
  /\ UNCHANGED <<thread, call, listed, watch, reaped, torn, rushed, late, upsets>>

\* A deadline passes.
Expire(i) ==
  /\ i \in DOMAIN items /\ IsOpen(items[i]) /\ ~items[i].overdue /\ items[i].to \in late
  /\ items' = [items EXCEPT ![i].overdue = TRUE]
  /\ UNCHANGED <<thread, call, listed, watch, reaped, torn, rushed, late, upsets>>

\* listAll: the items of every state, no more than a page of them, in no order.
Pages == {p \in SUBSET DOMAIN items :
            IF Len(items) <= Page THEN p = DOMAIN items ELSE Cardinality(p) = Page}

\* A scan that only looks for items nobody has drained.
listExpired_Enqueued(page) == {i \in page : items[i].state = "enqueued" /\ items[i].overdue}

listExpired(page) == {i \in page : IsOpen(items[i]) /\ items[i].overdue}

\* One tick at a time: it works on the items it listed, one after the other.
WatchdogTick ==
  /\ watch = 0 /\ listed = {}
  /\ \E page \in Pages : listed' = listExpired(page)
  /\ listed' # {}
  /\ UNCHANGED <<thread, items, call, watch, reaped, torn, rushed, late, upsets>>

\* The attempt counts whatever became of the item since it was listed.
Attempt(i) ==
  /\ watch = 0 /\ i \in listed
  /\ items' = [items EXCEPT ![i] = incrementAttempt(@)]
  /\ listed' = listed \ {i} /\ watch' = i
  /\ UNCHANGED <<thread, call, reaped, torn, rushed, late, upsets>>

\* The stage is that of the attempt; the item may have changed since.
escalateOne ==
  /\ watch # 0
  /\ items' = [items EXCEPT ![watch] =
                 IF items[watch].attempts >= MaxAttempts THEN escalate(@)
                 ELSE rescheduleReceiptDeadline(@)]
  /\ watch' = 0
  /\ UNCHANGED <<thread, call, listed, reaped, torn, rushed, late, upsets>>

-----------------------------------------------------------------------------
(* Stewards, reapers and crashes.                                          *)

Upset == upsets > 0 /\ upsets' = upsets - 1

\* The items of the architects among the participants only.
ForceCloseThread ==
  /\ Upset
  /\ thread' = closeThread(thread)
  /\ items' = AbandonAll(LAMBDA i : /\ Role[i.to] = "architect"
                                    /\ Contains(thread.participants, i.to))
  /\ UNCHANGED <<call, listed, watch, reaped, torn, rushed, late>>

PruneStuckItem ==
  /\ Upset
  /\ \E i \in DOMAIN items : /\ items[i].state = "receipt_acked"
                             /\ items' = [items EXCEPT ![i] = abandon(@)]
  /\ UNCHANGED <<thread, call, listed, watch, reaped, torn, rushed, late>>

\* runThreadReaperTick: the thread, then its items.
ReapThread ==
  /\ Upset
  /\ CanReap(thread, thread.updatedAt)
  /\ thread' = reapIdleThread(thread)
  /\ reaped' = TRUE
  /\ UNCHANGED <<items, call, listed, watch, torn, rushed, late>>

ReapItems ==
  /\ reaped
  /\ reaped' = FALSE
  /\ items' = AbandonAll(LAMBDA i : TRUE)
  /\ UNCHANGED <<thread, call, listed, watch, torn, rushed, late, upsets>>

Crash ==
  /\ Upset
  /\ call' = [a \in Agents |-> Idle]
  /\ listed' = {} /\ watch' = 0
  /\ reaped' = FALSE
  /\ torn' = (torn \/ ~Quiet)
  /\ rushed' = (rushed \/ \E a \in Agents : At(a, "orphans"))
  /\ UNCHANGED <<thread, items, late>>

-----------------------------------------------------------------------------
Proceed(a) ==
  \/ AbandonOrphans(a) \/ (\E b \in Agents : FindItem(a, b)) \/ InsertItem(a) \/ ToldAll(a)
  \/ MatchItem(a) \/ AckItem(a)

Next ==
  \/ \E a \in Agents : \/ Reply(a) \/ Proceed(a) \/ Drain(a)
                        \/ \E i \in 1 .. MaxItems : SaveContinuation(a, i)
  \/ \E i \in 1 .. MaxItems : ResumeContinuation(i) \/ Expire(i) \/ Attempt(i)
  \/ WatchdogTick \/ escalateOne
  \/ ForceCloseThread \/ PruneStuckItem \/ ReapThread \/ ReapItems
  \/ Crash

\* Time passes for every item, and the event loop runs calls, sweeps and the
\* watchdog on.  An item is sure to be listed only if a page holds them all.
Spec ==
  /\ Init /\ [][Next]_vars
  /\ \A a \in Agents : WF_vars(Proceed(a))
  /\ \A i \in 1 .. MaxItems : WF_vars(Expire(i)) /\ WF_vars(ResumeContinuation(i))
  /\ WF_vars(Len(items) <= Page /\ WatchdogTick)
  /\ WF_vars(\E i \in 1 .. MaxItems : Attempt(i)) /\ WF_vars(escalateOne)

-----------------------------------------------------------------------------
(* Properties.                                                             *)

\* The queue is truth (pending-action.ts): when no reply is under way, the agent
\* an active thread is pinned to has an item in the queue, or had one that the
\* watchdog or a steward gave up.
OwedIsQueuedOrGivenUp ==
  thread.status = "active" /\ thread.currentTurnAgentId # None /\ Quiet =>
    \E i \in DOMAIN items : /\ items[i].to = thread.currentTurnAgentId
                            /\ items[i].state # "completion_acked"

\* Only a reply that met another one under way, or was cut short by a crash, can
\* lose the item; whatever replies, continuations, sweeps and escalations came
\* before, the next reply that runs by itself puts it right.
OwedUnlessTorn == ~torn => OwedIsQueuedOrGivenUp

\* The first reply to a broadcast ends the items of the rest of the pool, so
\* nobody else is woken for a thread that is taken, however later replies
\* overlap; the claim itself must not meet the opener still telling the pool.
ClaimEndsTheRest ==
  thread.status = "active" /\ ~thread.broadcast /\ Quiet /\ ~rushed =>
    \A i \in DOMAIN items : IsOpen(items[i]) => Contains(thread.participants, items[i].to)

\* No item of an agent that may be late stays open for ever: it is answered,
\* given up or escalated, also across drains, sweeps and a crash of the hub,
\* unless its agent saves a continuation over and over or the queue outgrows the
\* watchdog's page.
LadderEnds ==
  \A n \in 1 .. MaxItems :
    <>[][\A a \in Agents : ~SaveContinuation(a, n)]_vars =>
      ((n \in DOMAIN items /\ IsOpen(items[n]) /\ items[n].to \in late) ~>
         ((n \in DOMAIN items /\ ~IsOpen(items[n])) \/ Len(items) > Page))

=============================================================================
