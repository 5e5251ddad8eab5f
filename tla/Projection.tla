----------------------------- MODULE Projection -----------------------------
(***************************************************************************)
(* The replies of a thread projected into the message store: by the reply  *)
(* that wrote them, as a step of its call, and by a sweeper for what a     *)
(* failure or a crash left out.                                            *)
(*                                                                         *)
(* createMessage (hub/src/entities/message-repository-substrate.ts) looks  *)
(* for a message with the same source, takes the thread's mutex, reads the *)
(* highest sequence number and inserts; each is an await.  The marker      *)
(* lastMessageProjectedAt tells the sweeper that there is nothing to do.   *)
(***************************************************************************)
EXTENDS Integers, Sequences, FiniteSetsExt

CONSTANTS
  Authors,      \* the calls that may reply at the same time
  Sweeper,      \* the message-projection sweeper
  Keep,         \* CLOSED_THREAD_MESSAGE_KEEP
  MaxRounds,    \* bound on the replies
  MaxFaults,    \* bound on the store calls that fail
  MaxCrashes    \* bound on the crashes of the hub

ASSUME ProjectionAssumption ==
  /\ Sweeper \notin Authors
  /\ Keep \in Nat \ {0}

Procs == Authors \cup {Sweeper}

VARIABLES
  rounds,     \* the number of messages of the thread
  closed,     \* the thread is closed
  updatedAt,  \* counts the writes of the thread
  saidAt,     \* updatedAt of each reply
  projectedAt,\* lastMessageProjectedAt, 0 when absent
  store,      \* the messages: source round, text, sequenceInThread
  mutex,      \* the Mutex of the thread: whether it is held, and its waiters
  call,       \* the call of each process
  faults, crashes

tvars == <<rounds, closed, updatedAt, saidAt>>
vars == <<tvars, projectedAt, store, mutex, call, faults, crashes>>

\* todo is what is still to project, [source, text], the first of them now; at
\* the updatedAt the marker is set to at the end, seq the number allocated.
Idle == [pc |-> "idle", todo |-> << >>, at |-> 0, seq |-> 0]

Free == [held |-> FALSE, waiters |-> << >>]

Init ==
  /\ rounds = 0 /\ closed = FALSE /\ updatedAt = 0 /\ saidAt = << >>
  /\ projectedAt = 0
  /\ store = {}
  /\ mutex = Free
  /\ call = [p \in Procs |-> Idle]
  /\ faults = 0 /\ crashes = 0

At(p, pc) == call[p].pc = pc
Entry(r, text) == [source |-> r, text |-> text]
Sources == {m.source : m \in store}
Fault == faults < MaxFaults /\ faults' = faults + 1

-----------------------------------------------------------------------------
(* The thread.                                                             *)

\* replyToThread, then the write-through shim of createThreadReply.
Reply(a) ==
  /\ At(a, "idle") /\ ~closed /\ rounds < MaxRounds
  /\ rounds' = rounds + 1
  /\ updatedAt' = updatedAt + 1
  /\ saidAt' = Append(saidAt, updatedAt + 1)
  /\ call' = [call EXCEPT ![a] = [Idle EXCEPT !.pc = "find", !.at = updatedAt + 1,
                                              !.todo = <<Entry(rounds + 1, rounds + 1)>>]]
  /\ UNCHANGED <<closed, projectedAt, store, mutex, faults, crashes>>

\* Any write of the thread that closes it.
CloseThread ==
  /\ rounds > 0 /\ ~closed
  /\ closed' = TRUE
  /\ updatedAt' = updatedAt + 1
  /\ UNCHANGED <<rounds, saidAt, projectedAt, store, mutex, call, faults, crashes>>

\* getThread: the middle of a closed thread's messages is gone.
Visible ==
  IF ~closed \/ rounds <= 2 * Keep THEN [k \in 1 .. rounds |-> k]
  ELSE [k \in 1 .. 2 * Keep |-> IF k <= Keep THEN k ELSE rounds - 2 * Keep + k]

-----------------------------------------------------------------------------
(* createMessage.                                                          *)

\* What has been projected is left; the next one, or the marker at the end.
Projected(c) ==
  IF Len(c.todo) > 1 THEN [c EXCEPT !.pc = "find", !.todo = Tail(@), !.seq = 0]
  ELSE [c EXCEPT !.pc = "mark", !.todo = << >>, !.seq = 0]

\* findByMigrationSourceId, outside the mutex.
FindMessage(p) ==
  /\ At(p, "find")
  /\ call' = [call EXCEPT ![p] = IF Head(@.todo).source \in Sources THEN Projected(@)
                                 ELSE [@ EXCEPT !.pc = "acquire"]]
  /\ UNCHANGED <<tvars, projectedAt, store, mutex, faults, crashes>>

\* Mutex.acquire, with a flag rather than an owner: nobody can tell whose hold
\* it is.
Acquire(p) ==
  /\ At(p, "acquire")
  /\ IF ~mutex.held
     THEN /\ mutex' = [mutex EXCEPT !.held = TRUE]
          /\ call' = [call EXCEPT ![p].pc = "allocate"]
     ELSE /\ mutex' = [mutex EXCEPT !.waiters = Append(@, p)]
          /\ call' = [call EXCEPT ![p].pc = "wait"]
  /\ UNCHANGED <<tvars, projectedAt, store, faults, crashes>>

\* Mutex.release by p, whose call goes on as c: the first waiter goes in, if any.
Release(p, c) ==
  IF mutex.waiters = << >>
  THEN /\ mutex' = [mutex EXCEPT !.held = FALSE]
       /\ call' = [call EXCEPT ![p] = c]
  ELSE /\ mutex' = [mutex EXCEPT !.waiters = Tail(@)]
       /\ call' = [call EXCEPT ![p] = c, ![Head(mutex.waiters)].pc = "allocate"]

MaxSeq == Max({m.seq : m \in store} \cup {-1})

\* The mutex guards the number only.
AllocateSequence_Release(p) ==
  /\ At(p, "allocate")
  /\ Release(p, [call[p] EXCEPT !.pc = "insert", !.seq = MaxSeq + 1])
  /\ UNCHANGED <<tvars, projectedAt, store, faults, crashes>>

AllocateSequence(p) ==
  /\ At(p, "allocate")
  /\ call' = [call EXCEPT ![p].pc = "insert", ![p].seq = MaxSeq + 1]
  /\ UNCHANGED <<tvars, projectedAt, store, mutex, faults, crashes>>

\* The list throws: the finally of this block releases nothing.
AllocateFails(p) ==
  /\ At(p, "allocate")
  /\ Fault
  /\ call' = [call EXCEPT ![p] = Idle]
  /\ UNCHANGED <<tvars, projectedAt, store, mutex, crashes>>

CreateOnly(p) ==
  /\ At(p, "insert")
  /\ store' = store \cup {[source |-> Head(call[p].todo).source, text |-> Head(call[p].todo).text,
                           seq |-> call[p].seq]}
  /\ Release(p, Projected(call[p]))
  /\ UNCHANGED <<tvars, projectedAt, faults, crashes>>

\* Carrying on after a failed insert.
CreateFails_Marks(p) ==
  /\ At(p, "insert")
  /\ Fault
  /\ Release(p, Projected(call[p]))
  /\ UNCHANGED <<tvars, projectedAt, store, crashes>>

\* The insert throws: the mutex is released, the shim or the sweep of this
\* thread is given up and the marker left alone.
CreateFails(p) ==
  /\ At(p, "insert")
  /\ Fault
  /\ Release(p, Idle)
  /\ UNCHANGED <<tvars, projectedAt, store, crashes>>

\* markLastMessageProjected only moves forward; a failure is swallowed.
MarkProjected(p) ==
  /\ At(p, "mark")
  /\ \/ /\ projectedAt' = Max({projectedAt, call[p].at})
        /\ UNCHANGED faults
     \/ Fault /\ UNCHANGED projectedAt
  /\ call' = [call EXCEPT ![p] = Idle]
  /\ UNCHANGED <<tvars, store, mutex, crashes>>

-----------------------------------------------------------------------------
(* The sweeper, and crashes.                                               *)

\* Only threads that were projected once are looked after.
Behind_Marked == projectedAt # 0 /\ projectedAt < updatedAt

Behind == projectedAt < updatedAt

\* One pass; a pass that is under way is not overtaken.  The n-th message it
\* reads is taken for the n-th reply.
SweepThread ==
  /\ At(Sweeper, "idle") /\ Behind /\ rounds > 0
  /\ call' = [call EXCEPT ![Sweeper] =
                [Idle EXCEPT !.pc = "find", !.at = updatedAt,
                             !.todo = [k \in DOMAIN Visible |-> Entry(k, Visible[k])]]]
  /\ UNCHANGED <<tvars, projectedAt, store, mutex, faults, crashes>>

Crash ==
  /\ crashes < MaxCrashes
  /\ crashes' = crashes + 1
  /\ call' = [p \in Procs |-> Idle]
  /\ mutex' = Free
  /\ UNCHANGED <<tvars, projectedAt, store, faults>>

-----------------------------------------------------------------------------
Proceed(p) ==
  FindMessage(p) \/ Acquire(p) \/ AllocateSequence(p) \/ CreateOnly(p) \/ MarkProjected(p)

Next ==
  \/ \E a \in Authors : Reply(a)
  \/ \E p \in Procs : Proceed(p) \/ AllocateFails(p) \/ CreateFails(p)
  \/ CloseThread \/ SweepThread \/ Crash

\* The event loop runs calls on and the timer of the sweeper fires.
Spec ==
  /\ Init /\ [][Next]_vars
  /\ \A p \in Procs : WF_vars(Proceed(p))
  /\ WF_vars(SweepThread)

-----------------------------------------------------------------------------
(* Properties.                                                             *)

\* No two messages of a thread have the same number, whoever projects them.
SequencesDistinct ==
  \A m, n \in store : m.seq = n.seq => m = n

\* The sweeper works on the messages a closed thread has left.
Truncated == closed /\ rounds > 2 * Keep

\* The marker is honest about the last reply: when it has passed that reply,
\* the reply's own text is in the store.  Two things it need not be honest
\* about: the replies before it (a later reply moves the marker past one whose
\* projection failed) and a closed, truncated thread (the sweeper numbers what
\* is left of it anew).
MarkerIsHonest ==
  rounds > 0 /\ projectedAt >= saidAt[rounds] =>
    Truncated \/ \E m \in store : m.source = rounds /\ m.text = rounds

\* The mutex is held by a call that is gone: nobody will release it.
Leaked == mutex.held /\ \A p \in Procs : ~(At(p, "allocate") \/ At(p, "insert"))

\* The last reply of a thread reaches the message store, by its own call or by
\* the sweeper after a failure or a crash, unless the mutex leaks first or the
\* thread is closed and truncated.
LatestLands ==
  \A r \in 1 .. MaxRounds : rounds = r ~> r \in Sources \/ rounds > r \/ Leaked \/ Truncated

=============================================================================
