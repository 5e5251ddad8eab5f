----------------------------- MODULE WorkQueue -----------------------------
(***************************************************************************)
(* The work queue: the table of WorkItem rows, the verbs agents call on it *)
(* and the lease sweeper.                                                  *)
(*                                                                         *)
(* Every verb runs under the hub-wide writer fence and writes one row by   *)
(* compare-and-swap, so a verb is one step.  Any agent may call any verb   *)
(* at any time with any token ever minted: that covers late, repeated and  *)
(* zombie calls.  A call whose guard throws changes nothing and is no step.*)
(* The sweeper runs outside the fence: it reads the clock and the expired  *)
(* rows once, then acts on them one by one, each write checked against the *)
(* row as it is by then; the verbs of other actors fall in between.        *)
(***************************************************************************)
EXTENDS WorkItem

CONSTANTS
  LegacyPaused,  \* items whose row an older hub may have paused by phase
  WipCap,        \* items an agent may hold at once
  MaxTime,       \* bound on the clock
  MaxToken,      \* bound on the tokens minted, i.e. on the claims
  MaxEvidence    \* bound on the pieces of evidence on a row

ASSUME QueueAssumption ==
  /\ LegacyPaused \subseteq Items
  /\ WipCap \in Nat \ {0}

VARIABLES
  row,     \* the table: the row of each item
  now,     \* the hub's clock
  issued,  \* how many lease tokens there are: a random one is the next number
  sweep    \* the sweep under way: the time it read and the rows still due

vars == <<row, now, issued, sweep>>

Init ==
  /\ row \in [Items -> {NewRow, LegacyPausedRow}]
  /\ \A w \in Items \ LegacyPaused : row[w] = NewRow
  /\ now = 0
  /\ issued = 0
  /\ sweep = [at |-> 0, due |-> {}]

Put(w, r) == row' = [row EXCEPT ![w] = r]

-----------------------------------------------------------------------------
(* What a verb reads of other rows.                                        *)

inFlightCount(a) ==
  Cardinality({x \in Items : /\ row[x].status \in WIP_PHASES
                             /\ HoldsLease(row[x], a)
                             /\ ~isFailedGateSealed(row[x])})

\* Only started work counts: the rule the cap had before review and blocked
\* rows were counted.
underCap_Started(a) ==
  Cardinality({x \in Items : /\ row[x].status \in {"claimed", "in_progress"}
                             /\ HoldsLease(row[x], a)}) < WipCap

underCap(a) == inFlightCount(a) < WipCap

unmetDependencies(w) ==
  {c \in DependsOn[w] : classifyGateChild(row[c]) \notin {"satisfied", "dropped_abandoned"}}

\* The children that keep an item from completing.
pendingChildren(w) ==
  {c \in CompletionDependsOn[w] : classifyGateChild(row[c]) = "pending"}

parentsAwaitingCompletion(w) == {p \in Items : w \in CompletionDependsOn[p]}

\* Every item that brackets w, directly or through others: the least set that
\* holds w's parents and the parents of its members.
ancestors(w) ==
  {x \in Items \ {w} :
     \A S \in SUBSET Items :
       (/\ parentsAwaitingCompletion(w) \subseteq S
        /\ \A y \in S : parentsAwaitingCompletion(y) \subseteq S) => x \in S}

WorkedOn(x) == executorHistory(row[x]) \cup {Creator[x]}

\* Who may not attest w: those who worked on the items it gates, or on w
\* itself when it gates none.
selfAttestationExclusionFor(w) ==
  IF parentsAwaitingCompletion(w) \ {w} # {}
  THEN UNION {WorkedOn(x) : x \in parentsAwaitingCompletion(w) \ {w}}
  ELSE WorkedOn(w)

-----------------------------------------------------------------------------
(* The verbs of the agent that works the item.                             *)

Claim(w, a) ==
  /\ issued < MaxToken
  /\ underCap(a)
  /\ CanClaim(row[w], w, a, unmetDependencies(w))
  /\ \E c \in Baselines(row[w], a, now) : Put(w, AfterClaim(row[w], a, issued + 1, now, c))
  /\ issued' = issued + 1
  /\ UNCHANGED <<now, sweep>>

Start(w, a, k) ==
  /\ CanStart(row[w], a, k)
  /\ Put(w, AfterStart(row[w]))
  /\ UNCHANGED <<now, issued, sweep>>

Block(w, a, k, d) ==
  /\ CanBlock(row[w], a, k)
  /\ Put(w, AfterBlock(row[w], d))
  /\ UNCHANGED <<now, issued, sweep>>

Resume(w, a, k) ==
  /\ CanResume(row[w], a, k)
  /\ Put(w, AfterResume(row[w]))
  /\ UNCHANGED <<now, issued, sweep>>

Release(w, a, k) ==
  /\ CanRelease(row[w], a, k)
  /\ Put(w, AfterRelease(row[w]))
  /\ UNCHANGED <<now, issued, sweep>>

\* A renewal keeps the leases of the items that bracket this one alive, as far
\* as it gets: a lookup or a bump that fails is skipped, and the renewal stands.
Renew(w, a, k) ==
  /\ CanRenew(row[w], a, k, now)
  /\ \E bumped \in SUBSET {x \in ancestors(w) : CanBumpHeartbeat(row[x], now)} :
       row' = [x \in Items |-> IF x \in bumped \cup {w} THEN AfterRenew(row[x], now) ELSE row[x]]
  /\ UNCHANGED <<now, issued, sweep>>

Complete(w, a, k, S, friction) ==
  /\ CanComplete(row[w], w, a, k, S, pendingChildren(w))
  /\ Cardinality(row[w].evidence \cup S) <= MaxEvidence
  /\ Put(w, AfterComplete(row[w], w, S, friction))
  /\ UNCHANGED <<now, issued, sweep>>

-----------------------------------------------------------------------------
(* The verbs of verifiers, stewards, creators and of the hub itself.       *)

Attest(w, v, verdict) ==
  /\ CanAttest(row[w], w, v, verdict, selfAttestationExclusionFor(w))
  /\ Put(w, AfterAttest(row[w], w, v, verdict))
  /\ UNCHANGED <<now, issued, sweep>>

SystemUnblock(w, d) ==
  /\ CanSystemUnblock(row[w], d)
  /\ Put(w, AfterResume(row[w]))
  /\ UNCHANGED <<now, issued, sweep>>

Pause(w, a, op) ==
  /\ CanPause(row[w], w, a, op)
  /\ Put(w, AfterPause(row[w], a, op, now))
  /\ UNCHANGED <<now, issued, sweep>>

Unpause(w, a) ==
  /\ CanUnpause(row[w], w, a)
  /\ Put(w, AfterUnpause(row[w], now))
  /\ UNCHANGED <<now, issued, sweep>>

Reset(w, a) ==
  /\ CanReset(row[w], a)
  /\ Put(w, AfterReset(row[w]))
  /\ UNCHANGED <<now, issued, sweep>>

\* k is 0 when the caller presents no token.
Abandon(w, a, k) ==
  /\ CanAbandon(row[w], w, a, k)
  /\ Put(w, AfterAbandon(row[w]))
  /\ UNCHANGED <<now, issued, sweep>>

-----------------------------------------------------------------------------
(* The lease sweeper.                                                      *)

\* A scan of the phases that count as poison only.
listExpiredLeaseItems_Started ==
  {w \in Items : /\ row[w].status \in POISON_ELIGIBLE_PHASES
                 /\ Expired(row[w], now)
                 /\ ~isParkedFromExecution(row[w])}

listExpiredLeaseItems ==
  {w \in Items : /\ row[w].status \in LEASE_HELD_PHASES
                 /\ Expired(row[w], now)
                 /\ ~isParkedFromExecution(row[w])}

StartSweep ==
  /\ sweep.due = {}
  /\ listExpiredLeaseItems # {}
  /\ sweep' = [at |-> now, due |-> listExpiredLeaseItems]
  /\ UNCHANGED <<row, now, issued>>

\* The sweep forgets the time it read when its last row is dealt with.
SweepWithout(w) ==
  IF sweep.due = {w} THEN [at |-> 0, due |-> {}]
  ELSE [sweep EXCEPT !.due = @ \ {w}]

ExpireLease(w) ==
  /\ w \in sweep.due
  /\ CanExpire(row[w], sweep.at)
  /\ Put(w, AfterExpire(row[w], sweep.at))
  /\ sweep' = SweepWithout(w)
  /\ UNCHANGED <<now, issued>>

\* The row moved on since it was listed, or its write failed: no change.
SkipLease(w) ==
  /\ w \in sweep.due
  /\ sweep' = SweepWithout(w)
  /\ UNCHANGED <<row, now, issued>>

\* A hub crash loses the sweep under way and nothing else.
HubRestart ==
  /\ sweep.due # {}
  /\ sweep' = [at |-> 0, due |-> {}]
  /\ UNCHANGED <<row, now, issued>>

Tick ==
  /\ now < MaxTime
  /\ now' = now + 1
  /\ UNCHANGED <<row, issued, sweep>>

-----------------------------------------------------------------------------
Supplies(a) == {{}} \cup {{[by |-> a, at |-> x]} : x \in 0 .. now}

HolderVerb(w, a, k) ==
  \/ Start(w, a, k)
  \/ \E d \in Decisions : Block(w, a, k, d)
  \/ Resume(w, a, k)
  \/ Release(w, a, k)
  \/ Renew(w, a, k)
  \/ \E S \in Supplies(a), friction \in BOOLEAN : Complete(w, a, k, S, friction)

ManagementVerb(w, a) ==
  \/ \E op \in PauseOps : Pause(w, a, op)
  \/ Unpause(w, a)
  \/ Reset(w, a)
  \/ \E k \in 0 .. issued : Abandon(w, a, k)
  \/ \E verdict \in {"pass", "fail"} : Attest(w, a, verdict)

Sweeper ==
  \/ StartSweep
  \/ \E w \in Items : ExpireLease(w) \/ SkipLease(w)
  \/ HubRestart

Next ==
  \/ \E w \in Items, a \in Agents :
       \/ Claim(w, a)
       \/ \E k \in 1 .. issued : HolderVerb(w, a, k)
       \/ ManagementVerb(w, a)
  \/ \E w \in Items, d \in Decisions : SystemUnblock(w, d)
  \/ Sweeper
  \/ Tick

Spec == Init /\ [][Next]_vars

=============================================================================
