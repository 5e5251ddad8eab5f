---------------------------- MODULE Convergence ----------------------------
(***************************************************************************)
(* A thread from its first reply to its end: the replies that negotiate,   *)
(* the cascade that executes what a convergence commits, the replay of a   *)
(* cascade after a restart, stewards and reapers.                          *)
(*                                                                         *)
(* A tool call is a sequence of awaits (hub/src/policy/thread-policy.ts).  *)
(* The awaits that matter here are steps: the read a reply checks, its     *)
(* write, the marker, and two for each action of the cascade; the calls of *)
(* others and the sweepers fall in between.  The message and the queue item*)
(* a reply also writes are in Projection and TurnQueue; here they can  *)
(* only fail, and the call with them.  A crash loses the calls under way.  *)
(***************************************************************************)
EXTENDS ThreadRow, FiniteSetsExt

CONSTANTS
  ReplyArgs,     \* the replies agents make
  Openings,      \* [by, to, broadcast]: the ways the thread may be opened
  MaxFaults,     \* bound on the store calls that fail
  MaxCrashes,    \* bound on the crashes of the hub
  MaxSteward,    \* bound on the calls of stewards and reapers
  Replayer       \* the cascade-replay sweeper

ASSUME ConvergenceAssumption ==
  /\ ReplyArgs \subseteq ReplyArg
  /\ Openings \subseteq [by : Agents, to : Agents \cup {None}, broadcast : BOOLEAN]
  /\ \A o \in Openings : o.to # o.by /\ (o.broadcast => o.to = None)
  /\ Replayer \notin Agents

Procs == Agents \cup {Replayer}

VARIABLES
  thread,   \* the row
  spawned,  \* how many entities the cascade created for each action
  call,     \* the tool call each agent, or the replay, has under way
  boot,     \* the start-up replay has not run yet since the hub started
  reaper,   \* updatedAt of the thread when the reaper found it idle, or 0
  faults, crashes, steward   \* how often each bounded thing has happened

counts == <<faults, crashes, steward>>
vars == <<thread, spawned, call, boot, reaper, faults, crashes, steward>>

\* pc is the await the call is at.  arg is the reply and round the round of the
\* thread as it was read before the write; run the actions still to execute,
\* failed that one of them failed.
NoArg == [converged |-> FALSE, op |-> NoOp, summary |-> "keep"]
Idle == [pc |-> "idle", arg |-> NoArg, round |-> 0, run |-> {}, failed |-> FALSE]

Init ==
  /\ \E o \in Openings : thread = openThread(o.by, o.to, o.broadcast)
  /\ call = [p \in Procs |-> Idle]
  /\ spawned = [i \in 1 .. MaxRounds |-> 0]
  /\ boot = TRUE
  /\ reaper = 0
  /\ faults = 0 /\ crashes = 0 /\ steward = 0

At(p, pc) == call[p].pc = pc
Goto(p, pc) == call' = [call EXCEPT ![p].pc = pc]
Return(p) == call' = [call EXCEPT ![p] = Idle]

Fault == faults < MaxFaults /\ faults' = faults + 1
Steward == steward < MaxSteward /\ steward' = steward + 1

-----------------------------------------------------------------------------
(* createThreadReply.                                                      *)

\* A reply that does not say converged is not checked: one write.
Reply(a, m) ==
  /\ At(a, "idle") /\ ~m.converged
  /\ CanReply(thread, a, m)
  /\ thread' = AfterReply(thread, a, m)
  /\ UNCHANGED <<spawned, call, boot, reaper, counts>>

BeginReply_Unchecked(a, m) ==
  /\ At(a, "idle") /\ m.converged
  /\ thread.status = "active"
  /\ call' = [call EXCEPT ![a] = [Idle EXCEPT !.pc = "commit", !.arg = m,
                                              !.round = roundCount(thread)]]
  /\ UNCHANGED <<thread, spawned, boot, reaper, counts>>

\* The authority check reads the thread; the write comes later and reads it
\* again.
BeginReply(a, m) ==
  /\ At(a, "idle") /\ m.converged
  /\ thread.status = "active"
  /\ AuthorityHolds(thread, a, m)
  /\ call' = [call EXCEPT ![a] = [Idle EXCEPT !.pc = "commit", !.arg = m,
                                              !.round = roundCount(thread)]]
  /\ UNCHANGED <<thread, spawned, boot, reaper, counts>>

\* replyToThread.  A convergence leaves an internal event with the actions it
\* committed, which the router hands to the cascade when the call is done.
CommitReply(a) ==
  /\ At(a, "commit")
  /\ CanReply(thread, a, call[a].arg)
  /\ LET t == AfterReply(thread, a, call[a].arg)
     IN /\ thread' = t
        /\ call' = [call EXCEPT ![a] = IF t.status = "converged"
                                       THEN [Idle EXCEPT !.pc = "pend", !.run = committed(t)]
                                       ELSE Idle]
  /\ UNCHANGED <<spawned, boot, reaper, counts>>

RejectReply(a) ==
  /\ At(a, "commit")
  /\ ~CanReply(thread, a, call[a].arg)
  /\ Return(a)
  /\ UNCHANGED <<thread, spawned, boot, reaper, counts>>

-----------------------------------------------------------------------------
(* The cascade: by the call that converged the thread, or replayed.        *)

\* Acknowledging the queue item throws: the internal event is never pushed.
LoseEvent(a) ==
  /\ At(a, "pend")
  /\ Fault
  /\ Return(a)
  /\ UNCHANGED <<thread, spawned, boot, reaper, crashes, steward>>

\* A marker that cannot be written is logged and the cascade runs all the same.
MarkPending(a) ==
  /\ At(a, "pend")
  /\ \/ thread' = markCascadePending(thread) /\ UNCHANGED faults
     \/ Fault /\ UNCHANGED thread
  /\ Goto(a, "run")
  /\ UNCHANGED <<spawned, boot, reaper, crashes, steward>>

\* Actions run in the order they were staged.
NextAction(p) == Min(call[p].run)

\* findByCascadeKey, then execute: two awaits.
FindSpawned(p) ==
  /\ At(p, "run") /\ call[p].run # {}
  /\ call' = IF spawned[NextAction(p)] > 0
             THEN [call EXCEPT ![p].run = @ \ {NextAction(p)}]
             ELSE [call EXCEPT ![p].pc = "exec"]
  /\ UNCHANGED <<thread, spawned, boot, reaper, counts>>

\* An action that throws is reported, not thrown on.
ExecuteAction_Swallow(p) ==
  /\ At(p, "exec")
  /\ \/ spawned' = [spawned EXCEPT ![NextAction(p)] = @ + 1]
     \/ UNCHANGED spawned
  /\ call' = [call EXCEPT ![p].pc = "run", ![p].run = @ \ {NextAction(p)}]
  /\ UNCHANGED <<thread, boot, reaper, counts>>

ExecuteAction(p) ==
  /\ At(p, "exec")
  /\ \/ /\ spawned' = [spawned EXCEPT ![NextAction(p)] = @ + 1]
        /\ call' = [call EXCEPT ![p].pc = "run", ![p].run = @ \ {NextAction(p)}]
     \/ /\ call' = [call EXCEPT ![p].pc = "run", ![p].run = @ \ {NextAction(p)},
                                ![p].failed = TRUE]
        /\ UNCHANGED spawned
  /\ UNCHANGED <<thread, boot, reaper, counts>>

\* The replay ends here: it never closes or fails the thread.
MarkCompleted(p) ==
  /\ At(p, "run") /\ call[p].run = {}
  /\ \/ thread' = markCascadeCompleted(thread) /\ UNCHANGED faults
     \/ Fault /\ UNCHANGED thread
  /\ IF p = Replayer THEN Return(p) ELSE Goto(p, "final")
  /\ UNCHANGED <<spawned, boot, reaper, crashes, steward>>

\* The last write of the cascade is not tried again.
FinishCascade(a) ==
  /\ At(a, "final")
  /\ \/ /\ thread' = IF call[a].failed THEN markCascadeFailed(thread) ELSE closeThread(thread)
        /\ UNCHANGED faults
     \/ Fault /\ UNCHANGED thread
  /\ Return(a)
  /\ UNCHANGED <<spawned, boot, reaper, crashes, steward>>

\* Replaying only the threads that still wait to be closed.
StartReplay_Skip ==
  /\ boot
  /\ boot' = FALSE
  /\ UNCHANGED <<thread, spawned, call, reaper, counts>>

\* listCascadePending, once after every start, while the hub already serves.
StartReplay ==
  /\ boot
  /\ boot' = FALSE
  /\ call' = IF thread.cascadePending /\ thread.status # "cascade_failed"
             THEN [call EXCEPT ![Replayer].pc = "run", ![Replayer].run = committed(thread)]
             ELSE call
  /\ UNCHANGED <<thread, spawned, reaper, counts>>

-----------------------------------------------------------------------------
(* Stewards, reapers and crashes.                                          *)

CloseThread ==
  /\ Steward
  /\ thread' = closeThread(thread)
  /\ UNCHANGED <<spawned, call, boot, reaper, faults, crashes>>

LeaveThread(a) ==
  /\ Steward
  /\ CanLeave(thread, a)
  /\ thread' = leaveThread(thread, a)
  /\ UNCHANGED <<spawned, call, boot, reaper, faults, crashes>>

\* reapIdleThreads lists the idle threads, then writes each.
FindIdle ==
  /\ Steward /\ reaper = 0 /\ thread.status = "active"
  /\ reaper' = thread.updatedAt
  /\ UNCHANGED <<thread, spawned, call, boot, faults, crashes>>

ReapThread ==
  /\ reaper # 0
  /\ reaper' = 0
  /\ thread' = IF CanReap(thread, reaper) THEN reapIdleThread(thread) ELSE thread
  /\ UNCHANGED <<spawned, call, boot, counts>>

\* The agent reaper, before it archives the agent.
UnpinAgent(a) ==
  /\ Steward
  /\ CanUnpin(thread, a)
  /\ thread' = unpinCurrentTurnAgent(thread)
  /\ UNCHANGED <<spawned, call, boot, reaper, faults, crashes>>

Crash ==
  /\ crashes < MaxCrashes
  /\ crashes' = crashes + 1
  /\ call' = [p \in Procs |-> Idle]
  /\ boot' = TRUE
  /\ reaper' = 0
  /\ UNCHANGED <<thread, spawned, faults, steward>>

-----------------------------------------------------------------------------
RunCascade(p) == FindSpawned(p) \/ ExecuteAction(p) \/ MarkCompleted(p)

\* A call that is under way goes on.
Proceed(a) ==
  CommitReply(a) \/ RejectReply(a) \/ MarkPending(a) \/ RunCascade(a) \/ FinishCascade(a)

Replay == StartReplay \/ RunCascade(Replayer)

Next ==
  \/ \E a \in Agents : \/ \E m \in ReplyArgs : Reply(a, m) \/ BeginReply(a, m)
                       \/ Proceed(a) \/ LoseEvent(a)
                       \/ LeaveThread(a) \/ UnpinAgent(a)
  \/ Replay
  \/ CloseThread \/ FindIdle \/ ReapThread
  \/ Crash

\* The event loop runs calls and the start-up replay on; replies, stewards,
\* faults and crashes may never come.
Spec ==
  /\ Init /\ [][Next]_vars
  /\ \A a \in Agents : WF_vars(Proceed(a))
  /\ WF_vars(Replay)

=============================================================================
