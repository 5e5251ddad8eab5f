------------------------------ MODULE WorkItem ------------------------------
(***************************************************************************)
(* One row of the WorkItem queue: the shape of the row, the predicates the *)
(* repository evaluates on it and the row each verb writes back.           *)
(*                                                                         *)
(* hub/src/entities/work-item-repository-substrate.ts writes a row by      *)
(* compare-and-swap: a pure transform from the current row to the next     *)
(* one, guarded by throws.  Here each verb is a pair, CanVerb (no guard    *)
(* throws) and AfterVerb (the row returned); WorkQueue puts them on the    *)
(* table.  The verbs that read other rows take what they read as a         *)
(* parameter.                                                              *)
(***************************************************************************)
EXTENDS Integers, Sequences, FiniteSets

CONSTANTS
  Items,              \* work item ids
  Agents,             \* agent ids
  Stewards,           \* agents whose role is architect or director
  Verifiers,          \* agents whose role is verifier
  Creator,            \* createdBy.agentId of each item
  Eligible,           \* agents whose role is in the item's roleEligibility
  Gated,              \* items with a verifier-attestation requirement
  Demand,             \* what the item demands of its executor, see below
  DependsOn,          \* items that must be done before the item is claimed
  CompletionDependsOn,\* items that must be done before the item completes
  Decisions,          \* decision ids a blocked item can wait for
  PauseOps,           \* operationIds of pause requests
  Ttl,                \* leaseTtlMsFor: the lease window
  PoisonCap,          \* lapses inside the window that abandon a row
  None                \* null

\* Of an item's executor requirements one stands for all, the strictest:
\*   fresh    evidence produced under a lease of its submitter;
\*   any      evidence of any age: the requirement was authored with
\*            allowPreClaim, or there is none and the floor asks for a note;
\*   review   as fresh, and an item without evidence waits in review;
\*   nothing  a verifier-attestation requirement is the only one there is.
Demands == {"fresh", "any", "review", "nothing"}

ASSUME SetsAssumption ==
  /\ Stewards \subseteq Agents
  /\ Verifiers \subseteq Agents
  /\ Gated \subseteq Items
  /\ Demand \in [Items -> Demands]
  /\ \A w \in Items : Demand[w] = "nothing" => w \in Gated
  /\ Creator \in [Items -> Agents]
  /\ Eligible \in [Items -> SUBSET Agents]
  /\ DependsOn \in [Items -> SUBSET Items]
  /\ CompletionDependsOn \in [Items -> SUBSET Items]

ASSUME NumbersAssumption ==
  /\ Ttl \in Nat \ {0}
  /\ PoisonCap \in Nat \ {0}

-----------------------------------------------------------------------------
(* The shape of a row.                                                     *)

Phases == {"ready", "claimed", "in_progress", "blocked", "review",
           "done", "abandoned", "failed_sealed", "paused"}

LEASE_HELD_PHASES == {"claimed", "in_progress", "blocked", "review"}
WIP_PHASES == LEASE_HELD_PHASES

\* Whatever carries a lease can be released: a done row does.
RELEASABLE_PHASES_Leased == LEASE_HELD_PHASES \cup {"done"}

RELEASABLE_PHASES      == {"claimed", "in_progress", "blocked"}
POISON_ELIGIBLE_PHASES == {"claimed", "in_progress"}
COMPLETABLE_PHASES     == {"in_progress", "review"}
Terminal               == {"done", "abandoned", "failed_sealed"}

\* heartbeatAt is left out: it is always expiresAt minus the lease window.
Lease == [holder : Agents, token : Nat, claimedAt : Nat, expiresAt : Nat]

ASSUME NoneAssumption ==
  /\ None \notin Agents
  /\ None \notin Decisions
  /\ None \notin PauseOps
  /\ None \notin Lease

\* An entry of recallHistory: a pause, or the record expireLease keeps of the
\* lease it destroys.  holder and claimedAt are before.lease, null for a row
\* paused from ready; a lapse is written by the sweeper, which is no agent.
Recall == [kind : {"pause", "lapse"}, op : PauseOps \cup {None},
           by : Agents \cup {None}, at : Nat,
           holder : Agents \cup {None}, claimedAt : Nat]

\* One piece of evidence bound to the item's executor requirement, or a note
\* where there is none.  by is the
\* agent that submitted it (kept for the properties), at is its producedAt.
Evidence == [by : Agents, at : Nat]

Attestation == [verdict : {"none", "pass", "fail"}, by : Agents \cup {None}]

\* joined carries executorHistory: the agents a with joined[a] # Never.  The
\* time is that of the agent's first claim, kept for the properties only.
Never == -1

Row == [status      : Phases,
        suspended   : BOOLEAN,
        lease       : Lease \cup {None},
        blockedOn   : Decisions \cup {None},
        recall      : Seq(Recall),
        lapses      : Nat,
        joined      : [Agents -> Nat \cup {Never}],
        evidence    : SUBSET Evidence,
        attestation : Attestation]

\* The row createWorkItem inserts, and a row an older hub paused, when a pause
\* still overwrote the phase and dropped the lease.
NewRow ==
  [status      |-> "ready",
   suspended   |-> FALSE,
   lease       |-> None,
   blockedOn   |-> None,
   recall      |-> << >>,
   lapses      |-> 0,
   joined      |-> [a \in Agents |-> Never],
   evidence    |-> {},
   attestation |-> [verdict |-> "none", by |-> None]]

LegacyPausedRow == [NewRow EXCEPT !.status = "paused"]

-----------------------------------------------------------------------------
(* Predicates on a row.                                                    *)

isParkedFromExecution(r) == r.suspended \/ r.status = "paused"

\* The narrower predicate the disposal matrix uses.
isActivelyWithdrawn(r) == r.suspended

\* The seal is written in the same step as the active FAIL verdict.
isFailedGateSealed(r) == r.attestation.verdict = "fail"

executorHistory(r) == {a \in Agents : r.joined[a] # Never}

LastRecall(r) == r.recall[Len(r.recall)]

lastSuspenderAgentId(r) == IF r.recall = << >> THEN None ELSE LastRecall(r).by

HoldsLease(r, a) == r.lease # None /\ r.lease.holder = a

HoldsToken(r, a, k) == HoldsLease(r, a) /\ r.lease.token = k

\* A guard that takes any live token for the holder's, and one that leaves the
\* suspension to the phase checks of the verbs.
assertLease_AnyCaller(r, a, k) ==
  /\ ~isFailedGateSealed(r)
  /\ ~isParkedFromExecution(r)
  /\ r.lease # None

assertLease_Parked(r, a, k) ==
  /\ ~isFailedGateSealed(r)
  /\ HoldsToken(r, a, k)

\* The seam every holder verb but abandon passes through.
assertLease(r, a, k) ==
  /\ ~isFailedGateSealed(r)
  /\ ~isParkedFromExecution(r)
  /\ HoldsToken(r, a, k)

Expired(r, t) == r.lease # None /\ r.lease.expiresAt < t

\* What a child of a dependency edge does to the gate on that edge.
classifyGateChild(r) ==
  CASE r.status = "done"      -> "satisfied"
    [] r.status = "abandoned" -> "dropped_abandoned"
    [] OTHER                  -> "pending"

\* claimedAt of the leases agent a is known to have lost on this row.
PriorClaims(r, a) == {r.recall[i].claimedAt : i \in {j \in DOMAIN r.recall : r.recall[j].holder = a}}

\* A baseline taken over from whoever held the row first.
Baselines_AnyHolder(r, a, t) ==
  LET lost == {r.recall[i].claimedAt : i \in {j \in DOMAIN r.recall : r.recall[j].holder # None}}
  IN  IF lost # {} THEN {c \in lost : \A d \in lost : c <= d} ELSE {t}

\* The claimedAt a new lease of agent a starts from: the earliest lease of its
\* own on record if it returns to the row, the present otherwise.
Baselines(r, a, t) ==
  IF a \in executorHistory(r) /\ PriorClaims(r, a) # {}
  THEN {c \in PriorClaims(r, a) : \A d \in PriorClaims(r, a) : c <= d}
  ELSE {t}

recentLeaseExpiryCount(r, t) ==
  Cardinality({i \in DOMAIN r.recall :
                 /\ r.recall[i].kind = "lapse"
                 /\ r.recall[i].at >= t - PoisonCap * Ttl})

\* The freshness test that lets any agent's earlier lease vouch for evidence.
Fresh_AnyHolder(r, w, e) ==
  \/ Demand[w] = "any"
  \/ e \in r.evidence
  \/ e.at >= r.lease.claimedAt
  \/ \E i \in DOMAIN r.recall : r.recall[i].holder # None /\ e.at >= r.recall[i].claimedAt

\* The requirement's author may have waived freshness; evidence already bound
\* to the row is not judged again.
Fresh(r, w, e) ==
  \/ Demand[w] = "any"
  \/ e \in r.evidence
  \/ e.at >= r.lease.claimedAt
  \/ \E c \in PriorClaims(r, r.lease.holder) : e.at >= c

\* What the merged evidence is worth: the phase it earns, or a refusal.  The
\* kind of a piece, its reference and its author are inputs here: only calls
\* that pass those tests are made.
evaluateEvidence(r, w, S) ==
  LET merged == r.evidence \cup S
  IN  IF Demand[w] = "nothing" \/ \E e \in merged : Fresh(r, w, e) THEN "done"
      ELSE IF Demand[w] = "review" /\ merged = {} THEN "review"
      ELSE "refused"

\* evaluateCompletionGate
attestationReqsSatisfied(r, w) == w \in Gated => r.attestation.verdict = "pass"

releaseHold(r, phase) == [r EXCEPT !.status = phase, !.lease = None]

-----------------------------------------------------------------------------
(* The verbs: the guard, then the row written back.  t is the time the      *)
(* verb reads from the hub's clock, k a lease token.                        *)

CanClaim(r, w, a, unmet) ==
  /\ ~isFailedGateSealed(r)
  /\ r.status = "ready"
  /\ ~isParkedFromExecution(r)
  /\ a \in Eligible[w]
  /\ unmet = {}

\* k stands for a randomUUID, taken never to repeat.
AfterClaim(r, a, k, t, c) ==
  [r EXCEPT !.status = "claimed",
            !.lease  = [holder |-> a, token |-> k, claimedAt |-> c, expiresAt |-> t + Ttl],
            !.joined[a] = IF @ = Never THEN t ELSE @]

CanStart(r, a, k) == assertLease(r, a, k) /\ r.status = "claimed"
AfterStart(r) == [r EXCEPT !.status = "in_progress"]

CanBlock(r, a, k) == assertLease(r, a, k) /\ r.status = "in_progress"
AfterBlock(r, d) == [r EXCEPT !.status = "blocked", !.blockedOn = d]

CanResume(r, a, k) == assertLease(r, a, k) /\ r.status = "blocked"
AfterResume(r) == [r EXCEPT !.status = "in_progress", !.blockedOn = None]

\* The hub's own resume, when the decision the row waits for is answered.
CanSystemUnblock(r, d) ==
  /\ ~isFailedGateSealed(r)
  /\ r.status = "blocked"
  /\ r.blockedOn = d

CanRelease(r, a, k) == assertLease(r, a, k) /\ r.status \in RELEASABLE_PHASES
AfterRelease(r) == [releaseHold(r, "ready") EXCEPT !.blockedOn = None]

CanRenew(r, a, k, t) ==
  /\ assertLease(r, a, k)
  /\ r.status \in LEASE_HELD_PHASES
  /\ ~Expired(r, t)
AfterRenew(r, t) == [r EXCEPT !.lease.expiresAt = t + Ttl]

\* The guard of tryBumpAncestorHeartbeat without its already-expired test.
CanBumpHeartbeat_Any(r, t) == r.lease # None

\* tryBumpAncestorHeartbeat: whatever the phase, but never an expired lease.
CanBumpHeartbeat(r, t) == r.lease # None /\ ~Expired(r, t)

CanComplete(r, w, a, k, S, pending) ==
  /\ assertLease(r, a, k)
  /\ r.status \in COMPLETABLE_PHASES
  /\ pending = {}
  /\ evaluateEvidence(r, w, S) # "refused"

\* A completion that trusts the executor's evidence alone.
AfterComplete_Ungated(r, w, S, friction) ==
  [r EXCEPT !.evidence = @ \cup S,
            !.status   = IF ~friction THEN @ ELSE evaluateEvidence(r, w, S)]

\* Without a friction reflection the evidence is stored and the phase stays.
\* A completed row keeps its lease; what its evidence or its gate still lacks
\* is waited for in review.
AfterComplete(r, w, S, friction) ==
  [r EXCEPT !.evidence = @ \cup S,
            !.status   = IF ~friction THEN @
                         ELSE IF /\ evaluateEvidence(r, w, S) = "done"
                                 /\ attestationReqsSatisfied(r, w) THEN "done"
                         ELSE "review"]

CanAttest(r, w, v, verdict, excluded) ==
  /\ w \in Gated
  /\ ~isFailedGateSealed(r)
  /\ v \in Verifiers \ excluded
  /\ verdict = "fail" => r.status = "review"

\* The tail of a PASS advances a leaf whose evidence is in; an item that
\* brackets others closes only through completeWork.
AfterAttest(r, w, v, verdict) ==
  LET attested == [r EXCEPT !.attestation = [verdict |-> verdict, by |-> v]]
  IN  IF verdict = "fail"
      THEN [releaseHold(attested, "failed_sealed") EXCEPT !.blockedOn = None]
      ELSE IF /\ r.status = "review"
              /\ evaluateEvidence(r, w, {}) = "done"
              /\ CompletionDependsOn[w] = {}
           THEN [attested EXCEPT !.status = "done"]
           ELSE attested

-----------------------------------------------------------------------------
(* The management verbs, which act on a row whoever holds it.               *)

\* A retried pause whose operationId is already recorded on the row is answered
\* from the record and writes nothing.
PauseReplayed(r, op) == \E i \in DOMAIN r.recall : r.recall[i].op = op

PauseAuthority(r, w, a) == a \in Stewards \/ (r.status = "ready" /\ a = Creator[w])

\* The rows pauseWork names corrupt and refuses.
CorruptForPause(r) ==
  \/ r.status = "ready" /\ r.lease # None
  \/ r.status # "ready" /\ r.lease = None
  \/ r.status = "blocked" /\ r.blockedOn = None

\* pauseWork without the lookup of the operationId.
CanPause_NoReplayCheck(r, w, a, op) ==
  /\ ~isFailedGateSealed(r)
  /\ r.status \in {"ready", "claimed", "in_progress", "blocked"}
  /\ ~isParkedFromExecution(r)
  /\ ~CorruptForPause(r)
  /\ PauseAuthority(r, w, a)

CanPause(r, w, a, op) ==
  /\ ~PauseReplayed(r, op)
  /\ ~isFailedGateSealed(r)
  /\ r.status \in {"ready", "claimed", "in_progress", "blocked"}
  /\ ~isParkedFromExecution(r)
  /\ ~CorruptForPause(r)
  /\ PauseAuthority(r, w, a)

\* The phase and the lease stay; the blocker is dropped.  The notices a pause
\* owes (pendingRecallIntents) are a function of the entry it appends.
AfterPause(r, a, op, t) ==
  [r EXCEPT !.suspended = TRUE,
            !.blockedOn = None,
            !.recall    = Append(@, [kind |-> "pause", op |-> op, by |-> a, at |-> t,
                                     holder    |-> IF r.lease = None THEN None ELSE r.lease.holder,
                                     claimedAt |-> IF r.lease = None THEN 0 ELSE r.lease.claimedAt])]

\* The recall entry carries the authority frozen by the pause; a row without
\* one cannot be unpaused.
CanUnpause(r, w, a) ==
  /\ ~isFailedGateSealed(r)
  /\ isParkedFromExecution(r)
  /\ r.recall # << >>
  /\ a \in Stewards \/ (a = Creator[w] /\ LastRecall(r).by = a)

\* An unpause that hands back the lease as it was when the row was paused.
AfterUnpause_StaleWindow(r, t) == [r EXCEPT !.suspended = FALSE]

AfterUnpause(r, t) ==
  [r EXCEPT !.suspended = FALSE,
            !.lease = IF @ # None /\ r.status \in LEASE_HELD_PHASES
                      THEN [@ EXCEPT !.expiresAt = t + Ttl] ELSE @]

CanReset(r, a) ==
  /\ ~isFailedGateSealed(r)
  /\ isParkedFromExecution(r)
  /\ a \in Stewards

\* A reset that revokes the lease and leaves the phase.
AfterReset_PhaseKept(r) ==
  [r EXCEPT !.lease = None, !.evidence = {},
            !.attestation = [verdict |-> "none", by |-> None]]

AfterReset(r) ==
  [releaseHold(r, "ready") EXCEPT !.evidence = {},
                                  !.attestation = [verdict |-> "none", by |-> None]]

\* evaluateSuspendedDisposalAuthority: who may end a withdrawn row.
suspendedDisposalAllowed(r, w, a, k) ==
  \/ a \in Stewards
  \/ a = Creator[w] /\ r.status = "ready" /\ r.lease = None
  \/ HoldsToken(r, a, k) /\ lastSuspenderAgentId(r) = a

\* abandonWork without the disposal matrix: suspension stops no abandon.
CanAbandon_NoMatrix(r, w, a, k) ==
  /\ ~isFailedGateSealed(r)
  /\ \/ HoldsToken(r, a, k) /\ r.status \in RELEASABLE_PHASES
     \/ a = Creator[w] /\ r.status \in RELEASABLE_PHASES \cup {"ready"}
     \/ a \in Stewards /\ isActivelyWithdrawn(r)

CanAbandon(r, w, a, k) ==
  /\ ~isFailedGateSealed(r)
  /\ isActivelyWithdrawn(r) => suspendedDisposalAllowed(r, w, a, k)
  /\ \/ HoldsToken(r, a, k) /\ r.status \in RELEASABLE_PHASES
     \/ a = Creator[w] /\ r.status \in RELEASABLE_PHASES \cup {"ready"}
     \/ a \in Stewards /\ isActivelyWithdrawn(r)

AfterAbandon(r) ==
  [releaseHold(r, "abandoned") EXCEPT !.suspended = FALSE, !.blockedOn = None]

-----------------------------------------------------------------------------
(* The lease sweeper's write, at the time t its sweep started.              *)

\* expireLease without its second look at the suspension.
CanExpire_Parked(r, t) ==
  /\ r.status \in LEASE_HELD_PHASES
  /\ Expired(r, t)

\* expireLease acting on the list it was given, without reading the lease again.
CanExpire_AsListed(r, t) ==
  /\ ~isParkedFromExecution(r)
  /\ r.status \in LEASE_HELD_PHASES

CanExpire(r, t) ==
  /\ ~isParkedFromExecution(r)
  /\ r.status \in LEASE_HELD_PHASES
  /\ Expired(r, t)

poisonEligible(r) == r.status \in POISON_ELIGIBLE_PHASES

\* The lapse being processed is not in the record yet, hence the + 1.
poisoned(r, t) == poisonEligible(r) /\ recentLeaseExpiryCount(r, t) + 1 >= PoisonCap

\* A lapse of parked work pays back one that counted.
AfterExpire_Refund(r, t) ==
  [releaseHold(r, IF poisoned(r, t) THEN "abandoned" ELSE "ready") EXCEPT
     !.blockedOn = None,
     !.lapses    = IF poisonEligible(r) THEN @ + 1 ELSE @ - 1,
     !.recall    = Append(@, [kind |-> "lapse", op |-> None, by |-> None, at |-> t,
                              holder |-> r.lease.holder, claimedAt |-> r.lease.claimedAt])]

AfterExpire(r, t) ==
  [releaseHold(r, IF poisoned(r, t) THEN "abandoned" ELSE "ready") EXCEPT
     !.blockedOn = None,
     !.lapses    = IF poisonEligible(r) THEN @ + 1 ELSE @,
     !.recall    = Append(@, [kind |-> "lapse", op |-> None, by |-> None, at |-> t,
                              holder |-> r.lease.holder, claimedAt |-> r.lease.claimedAt])]

=============================================================================
