------------------------------ MODULE Topology ------------------------------
(***************************************************************************)
(* The topology head of the work graph: revisions prepared row by row and  *)
(* published by one compare-and-swap, while calls write WorkItems under    *)
(* the writer fence and the lease sweeper writes them under a read pin.    *)
(*                                                                         *)
(* Source: hub/src/entities/work-revision-storage-v4.ts,                   *)
(* workgraph-currentness-fence-v4.ts, and withAdvisoryLock of              *)
(* hub/src/storage-substrate/postgres-substrate.ts.  One logical WorkItem  *)
(* is followed; its physical rows are numbered by their revision.          *)
(***************************************************************************)
EXTENDS Integers

CONSTANTS
  Ops,          \* the operations (by operationId) that revise the graph
  Origin,       \* an operation of the past
  Writers,      \* the calls that write WorkItems under the fence
  Sweeper,      \* the lease sweeper
  None,         \* the absent value
  Edges,        \* the edges a revision may have
  MaxHead,      \* bound on the generations
  MaxNumber,    \* bound on the revisions
  MaxLosses     \* bound on the database sessions that are lost

Numbers == 1 .. MaxNumber

\* A generation: its number, the one before it, the revision of the WorkItem it
\* binds, its edges, and the operation that made it.
Generation == [gen : Numbers, prev : 0 .. MaxNumber, rev : Numbers,
               edges : SUBSET Edges, op : Ops \cup {Origin}]

ASSUME TopologyAssumption ==
  /\ None \notin Generation
  /\ Origin \notin Ops
  /\ Ops \cap Writers = {} /\ Sweeper \notin Ops \cup Writers
  /\ None \notin Ops \cup Writers \cup {Sweeper, Origin}
  /\ MaxNumber \in Nat /\ MaxHead \in 1 .. MaxNumber

Fenced == Ops \cup Writers
Procs == Fenced \cup {Sweeper}

VARIABLES
  head,      \* the generation the head names, 0 while there is none
  gens,      \* the manifest of a generation, or None
  edgeRows,  \* the edge rows of a generation
  shardRows, \* who wrote the shard rows of a generation, or None
  ops,       \* the state of an operation's row
  latest,    \* latestAllocatedRevision of the family
  rows,      \* a physical row: "absent", "legacy" or "identified"
  lock,      \* who holds the global advisory lock
  lost,      \* whose database session is gone, unnoticed yet
  call,      \* the call of each process
  losses

svars == <<gens, edgeRows, shardRows, ops, latest, rows>>
vars == <<head, svars, lock, lost, call, losses>>

\* plan is what an operation builds; todo its edges still to put; pin the head a
\* call works on; wrote what it wrote so far or, once it ended well, at all.
Idle == [pc |-> "idle", plan |-> None, todo |-> {}, pin |-> 0,
         wrote |-> "nothing", result |-> "none"]

\* The first generation binds the row that was there before.
First(o) == [gen |-> 1, prev |-> 0, rev |-> 1, edges |-> {}, op |-> o]

\* Before the first generation, or after an operation of the past published it.
Init ==
  /\ head \in {0, 1}
  /\ gens = [n \in Numbers |-> IF n <= head THEN First(Origin) ELSE None]
  /\ edgeRows = [n \in Numbers |-> {}]
  /\ shardRows = [n \in Numbers |-> IF n <= head THEN Origin ELSE None]
  /\ ops = [o \in Ops \cup {Origin} |-> IF o = Origin /\ head = 1 THEN "committed" ELSE "none"]
  /\ latest = head
  /\ rows = [n \in Numbers |-> IF n # 1 THEN "absent"
                               ELSE IF head = 1 THEN "identified" ELSE "legacy"]
  /\ lock = None
  /\ lost = {}
  /\ call = [p \in Procs |-> Idle]
  /\ losses = 0

At(p, pc) == call[p].pc = pc
Goto(p, pc) == call' = [call EXCEPT ![p].pc = pc]

-----------------------------------------------------------------------------
(* The advisory lock lives in a database session, and so do the queries of *)
(* the call that holds it.                                                 *)

Acquire(p, started) ==
  /\ lock = None
  /\ lock' = p
  /\ call' = [call EXCEPT ![p] = started]
  /\ UNCHANGED <<head, svars, lost, losses>>

\* The pool would give another session.
Query_Pool(p) == TRUE

\* A query of a call under the lock goes to the session of the lock.
Query(p) == p \notin lost

\* The end of a call, in the finally of withAdvisoryLock.
Released(p) == IF lock = p THEN None ELSE lock
Ended(c, result) ==
  IF result = "error" /\ c.plan = None THEN Idle
  ELSE [c EXCEPT !.pc = "ended", !.result = result, !.pin = 0, !.todo = {}]
End(p, result) ==
  /\ call' = [call EXCEPT ![p] = Ended(@, result)]
  /\ lock' = Released(p)
  /\ lost' = lost \ {p}

\* activateGeneration waits for the lock for a while only; so does the fence, and
\* then nothing has happened.
LockTimeout(p) ==
  /\ At(p, "prepared") /\ lock # None
  /\ call' = [call EXCEPT ![p] = Ended(@, "error")]
  /\ UNCHANGED <<head, svars, lock, lost, losses>>

LoseSession(p) ==
  /\ lock = p /\ losses < MaxLosses
  /\ losses' = losses + 1
  /\ lost' = lost \cup {p}
  /\ lock' = None
  /\ UNCHANGED <<head, svars, call>>

\* The lock is left to the next call on success only.
FailedQuery_Keep(p) ==
  /\ call[p].pc \in {"pin", "write", "check", "read", "publish", "reconcile"}
  /\ p \in lost \/ losses < MaxLosses
  /\ losses' = losses + (IF p \in lost THEN 0 ELSE 1)
  /\ call' = [call EXCEPT ![p] = Ended(@, "error")]
  /\ lost' = lost \ {p}
  /\ UNCHANGED <<head, svars, lock>>

\* A query fails, because the session is gone or for another reason, and the
\* call with it.
FailedQuery(p) ==
  /\ call[p].pc \in {"pin", "write", "check", "read", "publish", "reconcile"}
  /\ p \in lost \/ losses < MaxLosses
  /\ losses' = losses + (IF p \in lost THEN 0 ELSE 1)
  /\ End(p, "error")
  /\ UNCHANGED <<head, svars>>

-----------------------------------------------------------------------------
(* An operation: build, persistPrepared, persistProjectedWorkItems and     *)
(* activateGeneration.                                                     *)

Plan(o) == call[o].plan
Failed(o) == call' = [call EXCEPT ![o] = Ended(@, "error")]

\* buildWorkRevisionStorageV4 on the head of the moment: the legacy row for the
\* first generation, a revision of allocateNextRevision for a later one.
Build(o) ==
  /\ At(o, "idle") /\ lock = None
  /\ head < MaxHead /\ latest < MaxNumber
  /\ \E es \in SUBSET Edges :
       LET plan == IF head = 0 THEN First(o)
                   ELSE [gen |-> head + 1, prev |-> head, rev |-> latest + 1,
                         edges |-> es, op |-> o] IN
         /\ call' = [call EXCEPT ![o].pc = "edges", ![o].todo = plan.edges, ![o].plan = plan]
         /\ latest' = IF head = 0 THEN latest ELSE plan.rev
  /\ UNCHANGED <<head, gens, edgeRows, shardRows, ops, rows, lock, lost, losses>>

\* persistFamily with the first of the put edges; edge rows carry no operation.
PutEdge(o) ==
  /\ At(o, "edges")
  /\ latest' = IF latest < Plan(o).rev THEN Plan(o).rev ELSE latest
  /\ IF call[o].todo = {} THEN Goto(o, "shards") /\ UNCHANGED edgeRows
     ELSE \E e \in call[o].todo :
            /\ edgeRows' = [edgeRows EXCEPT ![Plan(o).gen] = @ \cup {e}]
            /\ call' = [call EXCEPT ![o].todo = @ \ {e}]
  /\ UNCHANGED <<head, gens, shardRows, ops, rows, lock, lost, losses>>

\* immutablePut: create, or find the same bytes.
PutShards(o) ==
  /\ At(o, "shards")
  /\ IF shardRows[Plan(o).gen] \in {None, o}
     THEN Goto(o, "manifest") /\ shardRows' = [shardRows EXCEPT ![Plan(o).gen] = o]
     ELSE Failed(o) /\ UNCHANGED shardRows
  /\ UNCHANGED <<head, gens, edgeRows, ops, latest, rows, lock, lost, losses>>

PutGeneration(o) ==
  /\ At(o, "manifest")
  /\ IF gens[Plan(o).gen] \in {None, Plan(o)}
     THEN Goto(o, "operation") /\ gens' = [gens EXCEPT ![Plan(o).gen] = Plan(o)]
     ELSE Failed(o) /\ UNCHANGED gens
  /\ UNCHANGED <<head, edgeRows, shardRows, ops, latest, rows, lock, lost, losses>>

\* The lookup is published last.
PutOperation(o) ==
  /\ At(o, "operation")
  /\ ops' = [ops EXCEPT ![o] = IF @ = "none" THEN "prepared" ELSE @]
  /\ Goto(o, "prepared")
  /\ UNCHANGED <<head, gens, edgeRows, shardRows, latest, rows, lock, lost, losses>>

\* persistProjectedWorkItems, one batch under the lock: the identity on a row
\* that has none, or the new row.
Materialize(o) ==
  /\ At(o, "prepared") /\ lock = None
  /\ rows' = [rows EXCEPT ![Plan(o).rev] = "identified"]
  /\ UNCHANGED <<head, gens, edgeRows, shardRows, ops, latest, lock, lost, call, losses>>

\* assertRevisionStorageIntegrityV4 on what readSnapshot finds.
Whole(g) ==
  /\ gens[g] # None
  /\ edgeRows[g] = gens[g].edges
  /\ shardRows[g] = gens[g].op
  /\ ops[gens[g].op] # "none"
  /\ latest >= gens[g].rev

\* Trusting the manifest.
BoundRows_Trusted(g) == TRUE

\* assertBoundPhysicalRows.
BoundRows(g) == rows[gens[g].rev] = "identified"

\* activateGeneration reads the head and validates everything again.
ReadPrepared(o) ==
  /\ At(o, "read") /\ Query(o)
  /\ LET g == Plan(o).gen IN
       IF head = g
       THEN IF gens[g] = Plan(o)
            THEN /\ call' = [call EXCEPT ![o].pc = "reconcile", ![o].pin = head]
                 /\ UNCHANGED <<lock, lost>>
            ELSE End(o, "error")
       ELSE IF Whole(g) /\ gens[g] = Plan(o) /\ BoundRows(g) /\ head = Plan(o).prev
            THEN /\ call' = [call EXCEPT ![o].pc = "publish", ![o].pin = head]
                 /\ UNCHANGED <<lock, lost>>
            ELSE End(o, "error")
  /\ UNCHANGED <<head, svars, losses>>

\* The create or the compare-and-swap of the head row.
PublishHead(o) ==
  /\ At(o, "publish") /\ Query(o)
  /\ IF head = call[o].pin
     THEN head' = Plan(o).gen /\ Goto(o, "reconcile") /\ UNCHANGED <<lock, lost>>
     ELSE End(o, "error") /\ UNCHANGED head
  /\ UNCHANGED <<svars, losses>>

\* reconcileCommittedOperation, after the head or by a later retry, which then
\* validates once more.
ReconcileCommittedOperation(o) ==
  /\ At(o, "reconcile") /\ Query(o)
  /\ ops' = [ops EXCEPT ![o] = "committed"]
  /\ LET g == Plan(o).gen IN
       End(o, IF call[o].pin = g /\ ~(Whole(g) /\ BoundRows(g)) THEN "error" ELSE "ok")
  /\ UNCHANGED <<head, gens, edgeRows, shardRows, latest, rows, losses>>

\* The operation is tried again, with what was built.
Retry(o) ==
  /\ At(o, "ended") /\ call[o].result = "error"
  /\ call' = [call EXCEPT ![o].pc = "edges", ![o].result = "none", ![o].todo = Plan(o).edges]
  /\ UNCHANGED <<head, svars, lock, lost, losses>>

-----------------------------------------------------------------------------
(* Writes of WorkItems.                                                    *)

\* assertCurrent: before the first generation every row is.
CurrentAt(n, r) == n = 0 \/ gens[n].rev = r

Ready(p) == call[p].pc \in {"idle", "ended"}

\* withWriterFence takes the lock; it and withReadPin then read the head...
Fence(w) == Ready(w) /\ Acquire(w, [Idle EXCEPT !.pc = "pin"])

TakePin(p) ==
  /\ IF p = Sweeper THEN Ready(p) ELSE At(p, "pin") /\ Query(p)
  /\ call' = [call EXCEPT ![p] = [Idle EXCEPT !.pc = "write", !.pin = head]]
  /\ UNCHANGED <<head, svars, lock, lost, losses>>

\* ...which is a compare-and-swap of a row that is current by the pin...
WriteRow(p) ==
  /\ At(p, "write") /\ Query(p)
  /\ \E r \in {n \in Numbers : rows[n] # "absent"} :
       IF CurrentAt(call[p].pin, r)
       THEN /\ call' = [call EXCEPT ![p].pc = "check",
                          ![p].wrote = IF CurrentAt(head, r) THEN "current" ELSE "stale"]
            /\ UNCHANGED <<lock, lost>>
       ELSE End(p, "error")
  /\ UNCHANGED <<head, svars, losses>>

\* Taking the work for done.
CheckHead_Skip(p) ==
  /\ At(p, "check") /\ Query(p)
  /\ End(p, "ok")
  /\ UNCHANGED <<head, svars, losses>>

\* ...and assertHeadUnchanged after it.
CheckHead(p) ==
  /\ At(p, "check") /\ Query(p)
  /\ End(p, IF head = call[p].pin THEN "ok" ELSE "error")
  /\ UNCHANGED <<head, svars, losses>>

-----------------------------------------------------------------------------
Operate(o) ==
  \/ PutEdge(o) \/ PutShards(o) \/ PutGeneration(o) \/ PutOperation(o)
  \/ At(o, "prepared") /\ Acquire(o, [call[o] EXCEPT !.pc = "read"])
  \/ ReadPrepared(o) \/ PublishHead(o) \/ ReconcileCommittedOperation(o)

Write(p) == WriteRow(p) \/ CheckHead(p)

\* The sweep and what it calls find a pin and take no lock: the writes of the
\* sweeper go to the pool.
Next ==
  \/ \E o \in Ops : Build(o) \/ Operate(o) \/ Materialize(o) \/ Retry(o)
  \/ \E w \in Writers : Fence(w) \/ TakePin(w) \/ Write(w)
  \/ TakePin(Sweeper) \/ Write(Sweeper)
  \/ \E o \in Ops : LockTimeout(o)
  \/ \E p \in Fenced : LoseSession(p)
  \/ \E p \in Procs : FailedQuery(p)

\* The event loop runs a call on to its end.
Spec ==
  /\ Init /\ [][Next]_vars
  /\ \A o \in Ops : WF_vars(Operate(o))
  /\ \A w \in Writers : WF_vars(TakePin(w) \/ Write(w))
  /\ WF_vars(Write(Sweeper))
  /\ \A p \in Procs : WF_vars(p \in lost /\ FailedQuery(p))

-----------------------------------------------------------------------------
(* Properties.                                                             *)

\* The head always names a generation whose manifest, shards, edges, operation
\* and physical row are there, the next one after the generation before it; an
\* operation is committed only when the head is or was at its generation
\* (activateGeneration; persistPrepared writes in an order that no crash and no
\* rival operation can turn into a half-written head).
HeadIsWhole ==
  /\ \A n \in 1 .. head :
       /\ gens[n] # None /\ gens[n].prev = n - 1
       /\ gens[n].edges \subseteq edgeRows[n]
       /\ shardRows[n] = gens[n].op
       /\ ops[gens[n].op] # "none"
       /\ rows[gens[n].rev] = "identified"
  /\ \A o \in Ops \cup {Origin} : ops[o] = "committed" => \E n \in 1 .. head : gens[n].op = o

\* A call under the fence never writes a row the head has left, not even when
\* the session that held the lock is lost in the middle (withWriterFence; every
\* query goes to the session of the lock).
FencedWritesAreCurrent ==
  \A w \in Writers : call[w].wrote # "stale"

\* Whoever writes a row the head has left is told: the call does not end well.
\* The sweeper can do so, because its pin is not the fence (assertHeadUnchanged).
StaleWriteIsReported ==
  \A p \in Writers \cup {Sweeper} : call[p].wrote = "stale" => call[p].result # "ok"

\* The fence comes free, whatever fails under it (the finally of
\* withAdvisoryLock).
FenceIsReleased == \A p \in Fenced : lock = p ~> lock # p

=============================================================================
