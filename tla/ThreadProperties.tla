-------------------------- MODULE ThreadProperties --------------------------
(***************************************************************************)
(* What must hold of a thread and of what works on it.                     *)
(***************************************************************************)
EXTENDS Convergence

\* Every row and call has the shape the code gives it.
TypeOK ==
  /\ thread \in Thread
  /\ spawned \in [1 .. MaxRounds -> Nat]
  /\ call \in [Procs -> [pc : {"idle", "commit", "pend", "run", "exec", "final"},
                        arg : ReplyArgs \cup {NoArg}, round : 0 .. MaxRounds,
                        run : SUBSET (1 .. MaxRounds), failed : BOOLEAN]]
  /\ boot \in BOOLEAN
  /\ reaper \in Nat

\* On a thread between two roles neither of the two who began it converges it
\* alone: the last two messages both say converged and are of different agents,
\* though replyToThread compares only the flags.  The exception is an agent that
\* took the place of the first one: when the agent reaper unpins the first agent
\* again, the turn is back with the agent that spoke last.
TwoAgentsConverge ==
  LET parties == thread.participants
      said == thread.messages
      n == Len(said)
  IN committed(thread) # {} /\ Len(parties) > 1 /\ Role[parties[1]] # Role[parties[2]] =>
       /\ n > 1 /\ said[n].converged /\ said[n - 1].converged
       /\ \/ said[n].by # said[n - 1].by
          \/ said[n].by \notin {parties[1], parties[2]} /\ Role[said[n].by] = Role[parties[1]]

\* An action that needs an architect is committed only if an architect has said
\* converged, as long as the reply that commits it was checked against the round
\* it answers (checked against an earlier one, the check may have been skipped).
AuthorityWhenSeen ==
  [][\A a \in Agents :
       /\ At(a, "commit") /\ call'[a].pc = "pend"
       /\ call[a].round = roundCount(thread)
       /\ \E i \in committed(thread') : thread'.convergenceActions[i].needs = "architect"
       => \E n \in DOMAIN thread'.messages :
            thread'.messages[n].converged /\ Role[thread'.messages[n].by] = "architect"]_vars

\* A reply that leaves the thread active has somebody else to notify, so the
\* error INV-TH27 of createThreadReply is never thrown, whoever was reaped.
CounterpartyResolved ==
  \A a \in Agents : CanReply(thread, a, NoArg) =>
    Counterpart(upsertParticipant(thread.participants, a), a) # None

\* A thread that its cascade closes has had every committed action executed.
ClosedByCascadeIsComplete ==
  [][\A a \in Agents :
       At(a, "final") /\ thread.status = "converged" /\ thread'.status = "closed"
         /\ call'[a].pc = "idle"
       => \A i \in committed(thread) : spawned[i] > 0]_vars

\* Convergence fixes what is executed, nothing else ever is, and no ending is
\* taken back: the thread implements Negotiation.
Phase ==
  CASE thread.status = "active" -> "open"
    [] thread.status = "converged" -> "agreed"
    [] thread.status = "cascade_failed" -> "failed"
    [] thread.status = "closed" /\ committed(thread) # {} -> "settled"
    [] OTHER -> "ended"

Promise == INSTANCE Negotiation WITH
  Terms <- 1 .. MaxRounds,
  phase <- Phase,
  agreed <- committed(thread),
  carriedOut <- {i \in 1 .. MaxRounds : spawned[i] > 0}

ImplementsNegotiation == Promise!NSpec

\* A cascade whose pending marker is set is carried to its end, by the call
\* that converged the thread or, after a crash, by the replay of the next
\* start, as long as no store call fails.
MarkedCascadeEnds ==
  thread.cascadePending ~> (~thread.cascadePending \/ faults > 0)

=============================================================================
