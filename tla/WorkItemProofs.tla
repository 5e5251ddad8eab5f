--------------------------- MODULE WorkItemProofs ---------------------------
(***************************************************************************)
(* What the verbs do to a single row: each write yields a row again, and   *)
(* one whose lease matches its phase.                                      *)
(***************************************************************************)
EXTENDS WorkItem, SequenceTheorems, TLAPS

\* The shape every row keeps: a lease exactly in the phases that carry one.
LeaseFits(r) == (r.lease # None) <=> (r.status \in LEASE_HELD_PHASES \cup {"done"})

-----------------------------------------------------------------------------
(* Every write yields a row.                                               *)

\* A claim writes a row, for any baseline that is a time.
LEMMA ClaimRow ==
  ASSUME NEW r \in Row, NEW a \in Agents, NEW k \in Nat, NEW t \in Nat, NEW c \in Nat
  PROVE  AfterClaim(r, a, k, t, c) \in Row
<1> DEFINE l == [holder |-> a, token |-> k, claimedAt |-> c, expiresAt |-> t + Ttl]
           j == [r.joined EXCEPT ![a] = IF @ = Never THEN t ELSE @]
<1>1. l \in Lease
  BY NumbersAssumption DEF Lease
<1>2. j \in [Agents -> Nat \cup {Never}]
  BY DEF Row
<1>3. AfterClaim(r, a, k, t, c) = [r EXCEPT !.status = "claimed", !.lease = l, !.joined = j]
  BY DEF AfterClaim, Row
<1> HIDE DEF l, j
<1>4. QED
  BY <1>1, <1>2, <1>3 DEF Row, Phases

\* Starting, blocking and resuming write a row.
LEMMA WorkRow ==
  ASSUME NEW r \in Row, NEW d \in Decisions
  PROVE  /\ AfterStart(r) \in Row
         /\ AfterBlock(r, d) \in Row
         /\ AfterResume(r) \in Row
  BY DEF AfterStart, AfterBlock, AfterResume, Row, Phases

\* Releasing, resetting and abandoning write a row.
LEMMA ReleaseRow ==
  ASSUME NEW r \in Row
  PROVE  /\ AfterRelease(r) \in Row
         /\ AfterReset(r) \in Row
         /\ AfterAbandon(r) \in Row
  BY DEF AfterRelease, AfterReset, AfterAbandon, releaseHold, Row, Phases, Attestation

\* A renewal and a heartbeat write a row where there is a lease to extend.
LEMMA RenewRow ==
  ASSUME NEW r \in Row, NEW t \in Nat, r.lease # None
  PROVE  AfterRenew(r, t) \in Row
<1> DEFINE l == [r.lease EXCEPT !.expiresAt = t + Ttl]
<1>1. r.lease \in Lease
  BY DEF Row
<1>2. l \in Lease
  BY <1>1, NumbersAssumption DEF Lease
<1>3. AfterRenew(r, t) = [r EXCEPT !.lease = l]
  BY DEF AfterRenew, Row
<1> HIDE DEF l
<1>4. QED
  BY <1>2, <1>3 DEF Row

\* A completion writes a row, with or without the reflection.
LEMMA CompleteRow ==
  ASSUME NEW r \in Row, NEW w, NEW S \in SUBSET Evidence, NEW friction \in BOOLEAN
  PROVE  AfterComplete(r, w, S, friction) \in Row
  BY DEF AfterComplete, Row, Phases

\* A verdict writes a row, whichever it is.
LEMMA AttestRow ==
  ASSUME NEW r \in Row, NEW w, NEW v \in Agents, NEW verdict \in {"pass", "fail"}
  PROVE  AfterAttest(r, w, v, verdict) \in Row
  BY DEF AfterAttest, releaseHold, Row, Phases, Attestation

\* A pause writes a row: the entry it appends is one of the record.
LEMMA PauseRow ==
  ASSUME NEW r \in Row, NEW a \in Agents, NEW op \in PauseOps, NEW t \in Nat
  PROVE  AfterPause(r, a, op, t) \in Row
<1> DEFINE e == [kind |-> "pause", op |-> op, by |-> a, at |-> t,
                 holder    |-> IF r.lease = None THEN None ELSE r.lease.holder,
                 claimedAt |-> IF r.lease = None THEN 0 ELSE r.lease.claimedAt]
<1>1. r.lease # None => r.lease.holder \in Agents /\ r.lease.claimedAt \in Nat
  BY DEF Row, Lease
<1>2. e \in Recall
  BY <1>1 DEF Recall
<1>3. AfterPause(r, a, op, t)
        = [r EXCEPT !.suspended = TRUE, !.blockedOn = None, !.recall = Append(r.recall, e)]
  BY DEF AfterPause, Row
<1> HIDE DEF e
<1>4. Append(r.recall, e) \in Seq(Recall)
  BY <1>2, AppendProperties DEF Row
<1>5. QED
  BY <1>3, <1>4 DEF Row

\* An unpause writes a row: the window is refilled where there is a lease.
LEMMA UnpauseRow ==
  ASSUME NEW r \in Row, NEW t \in Nat
  PROVE  AfterUnpause(r, t) \in Row
<1> DEFINE held == r.lease # None /\ r.status \in LEASE_HELD_PHASES
           l == IF held THEN [r.lease EXCEPT !.expiresAt = t + Ttl] ELSE r.lease
<1>1. r.lease # None => r.lease \in Lease
  BY DEF Row
<1>2. l \in Lease \cup {None}
  <2>1. CASE held
    BY <2>1, <1>1, NumbersAssumption DEF Lease
  <2>2. CASE ~held
    BY <2>2 DEF Row
  <2>3. QED
    BY <2>1, <2>2
<1>3. AfterUnpause(r, t) = [r EXCEPT !.suspended = FALSE, !.lease = l]
  BY DEF AfterUnpause, Row
<1> HIDE DEF l
<1>4. QED
  BY <1>2, <1>3 DEF Row

\* The sweeper's write is a row: the lease it destroys goes to the record.
LEMMA ExpireRow ==
  ASSUME NEW r \in Row, NEW t \in Nat, r.lease # None
  PROVE  AfterExpire(r, t) \in Row
<1> DEFINE e == [kind |-> "lapse", op |-> None, by |-> None, at |-> t,
                 holder |-> r.lease.holder, claimedAt |-> r.lease.claimedAt]
           p == IF poisoned(r, t) THEN "abandoned" ELSE "ready"
           n == IF poisonEligible(r) THEN r.lapses + 1 ELSE r.lapses
<1>1. r.lease.holder \in Agents /\ r.lease.claimedAt \in Nat
  BY DEF Row, Lease
<1>2. e \in Recall
  BY <1>1 DEF Recall
<1>3. AfterExpire(r, t)
        = [r EXCEPT !.status = p, !.lease = None, !.blockedOn = None,
                    !.lapses = n, !.recall = Append(r.recall, e)]
  BY DEF AfterExpire, releaseHold, Row
<1>4. p \in Phases /\ n \in Nat
  BY DEF Row, Phases
<1> HIDE DEF e, p, n
<1>5. Append(r.recall, e) \in Seq(Recall)
  BY <1>2, AppendProperties DEF Row
<1>6. QED
  BY <1>3, <1>4, <1>5 DEF Row

-----------------------------------------------------------------------------
(* Every write keeps the lease and the phase in step.                      *)

\* A claim puts a lease on a row in a phase that carries one.
LEMMA ClaimFits ==
  ASSUME NEW r \in Row, NEW a \in Agents, NEW k \in Nat, NEW t \in Nat, NEW c \in Nat
  PROVE  LeaseFits(AfterClaim(r, a, k, t, c))
<1> DEFINE l == [holder |-> a, token |-> k, claimedAt |-> c, expiresAt |-> t + Ttl]
<1>1. l # None
  BY NumbersAssumption, NoneAssumption DEF Lease
<1>2. /\ AfterClaim(r, a, k, t, c).lease = l
      /\ AfterClaim(r, a, k, t, c).status = "claimed"
  BY DEF AfterClaim, Row
<1> HIDE DEF l
<1>3. QED
  BY <1>1, <1>2 DEF LeaseFits, LEASE_HELD_PHASES

\* The verbs a holder works with move between phases that carry a lease.
LEMMA WorkFits ==
  ASSUME NEW r \in Row, LeaseFits(r), NEW d
  PROVE  /\ r.status = "claimed" => LeaseFits(AfterStart(r))
         /\ r.status = "in_progress" => LeaseFits(AfterBlock(r, d))
         /\ r.status = "blocked" => LeaseFits(AfterResume(r))
  BY DEF LeaseFits, AfterStart, AfterBlock, AfterResume, LEASE_HELD_PHASES, Row

\* A verb that lets go of the lease leaves a phase without one.
LEMMA ReleaseFits ==
  ASSUME NEW r \in Row, NEW t
  PROVE  /\ LeaseFits(AfterRelease(r))
         /\ LeaseFits(AfterReset(r))
         /\ LeaseFits(AfterAbandon(r))
         /\ LeaseFits(AfterExpire(r, t))
  BY DEF LeaseFits, AfterRelease, AfterReset, AfterAbandon, AfterExpire, releaseHold,
         LEASE_HELD_PHASES, Row

\* Extending a lease neither makes nor ends one.
LEMMA RenewFits ==
  ASSUME NEW r \in Row, LeaseFits(r), NEW t \in Nat, r.lease # None
  PROVE  LeaseFits(AfterRenew(r, t))
<1>1. [r.lease EXCEPT !.expiresAt = t + Ttl] # None
  BY NumbersAssumption, NoneAssumption DEF Lease, Row
<1>2. /\ AfterRenew(r, t).lease = [r.lease EXCEPT !.expiresAt = t + Ttl]
      /\ AfterRenew(r, t).status = r.status
  BY DEF AfterRenew, Row
<1>3. QED
  BY <1>1, <1>2 DEF LeaseFits

\* Completing ends in a phase that carries a lease, and keeps it.
LEMMA CompleteFits ==
  ASSUME NEW r \in Row, LeaseFits(r), NEW w, NEW S, NEW friction \in BOOLEAN,
         r.status \in COMPLETABLE_PHASES
  PROVE  LeaseFits(AfterComplete(r, w, S, friction))
  BY DEF LeaseFits, AfterComplete, COMPLETABLE_PHASES, LEASE_HELD_PHASES, Row

\* A PASS keeps the lease of the row it closes, a FAIL takes it.
LEMMA AttestFits ==
  ASSUME NEW r \in Row, LeaseFits(r), NEW w, NEW v, NEW verdict
  PROVE  LeaseFits(AfterAttest(r, w, v, verdict))
  BY DEF LeaseFits, AfterAttest, releaseHold, LEASE_HELD_PHASES, Row

\* Pausing and unpausing leave the phase alone, and whether there is a lease.
LEMMA SuspendFits ==
  ASSUME NEW r \in Row, LeaseFits(r), NEW a, NEW op, NEW t \in Nat
  PROVE  LeaseFits(AfterPause(r, a, op, t)) /\ LeaseFits(AfterUnpause(r, t))
<1>1. LeaseFits(AfterPause(r, a, op, t))
  BY DEF LeaseFits, AfterPause, Row
<1>2. r.lease # None => [r.lease EXCEPT !.expiresAt = t + Ttl] # None
  BY NumbersAssumption, NoneAssumption DEF Lease, Row
<1>3. /\ AfterUnpause(r, t).lease = IF r.lease # None /\ r.status \in LEASE_HELD_PHASES
                                    THEN [r.lease EXCEPT !.expiresAt = t + Ttl] ELSE r.lease
      /\ AfterUnpause(r, t).status = r.status
  BY DEF AfterUnpause, Row
<1>4. QED
  BY <1>1, <1>2, <1>3 DEF LeaseFits

-----------------------------------------------------------------------------
(* All that can happen to row r of item w in one step: it becomes s.       *)

ClaimStep(w, r, s) ==
  \E a \in Agents, k \in Nat, t \in Nat : \E c \in Baselines(r, a, t) :
    CanClaim(r, w, a, {}) /\ s = AfterClaim(r, a, k, t, c)

WorkStep(r, s) ==
  \/ \E a \in Agents, k \in Nat : CanStart(r, a, k) /\ s = AfterStart(r)
  \/ \E a \in Agents, k \in Nat, d \in Decisions : CanBlock(r, a, k) /\ s = AfterBlock(r, d)
  \/ \E a \in Agents, k \in Nat : CanResume(r, a, k) /\ s = AfterResume(r)
  \/ \E d \in Decisions : CanSystemUnblock(r, d) /\ s = AfterResume(r)

ReleaseStep(r, s) == \E a \in Agents, k \in Nat : CanRelease(r, a, k) /\ s = AfterRelease(r)

\* A renewal of the row itself passes the guard of the heartbeat.
RenewStep(r, s) == \E t \in Nat : CanBumpHeartbeat(r, t) /\ s = AfterRenew(r, t)

CompleteStep(w, r, s) ==
  \E a \in Agents, k \in Nat, S \in SUBSET Evidence, friction \in BOOLEAN :
    /\ CanComplete(r, w, a, k, S, {}) /\ \A e \in S : e.by = a
    /\ s = AfterComplete(r, w, S, friction)

AttestStep(w, r, s) ==
  \E v \in Agents, verdict \in {"pass", "fail"} :
    CanAttest(r, w, v, verdict, {}) /\ s = AfterAttest(r, w, v, verdict)

PauseStep(w, r, s) ==
  \E a \in Agents, op \in PauseOps, t \in Nat : CanPause(r, w, a, op) /\ s = AfterPause(r, a, op, t)

UnpauseStep(w, r, s) ==
  \E a \in Agents, t \in Nat : CanUnpause(r, w, a) /\ s = AfterUnpause(r, t)

ResetStep(r, s) == \E a \in Agents : CanReset(r, a) /\ s = AfterReset(r)

AbandonStep(w, r, s) == \E a \in Agents, k \in Nat : CanAbandon(r, w, a, k) /\ s = AfterAbandon(r)

ExpireStep(r, s) == \E t \in Nat : CanExpire(r, t) /\ s = AfterExpire(r, t)

\* A verb that mints no token.
VerbStep(w, r, s) ==
  \/ WorkStep(r, s)        \/ ReleaseStep(r, s)    \/ RenewStep(r, s)
  \/ CompleteStep(w, r, s) \/ AttestStep(w, r, s)  \/ PauseStep(w, r, s)
  \/ UnpauseStep(w, r, s)  \/ ResetStep(r, s)      \/ AbandonStep(w, r, s)

OtherStep(w, r, s) == VerbStep(w, r, s) \/ ExpireStep(r, s) \/ s = r

RowStep(w, r, s) == ClaimStep(w, r, s) \/ OtherStep(w, r, s)

\* A baseline is a time: the present, or the claimedAt of a lease on record.
LEMMA BaselineIsTime ==
  ASSUME NEW r \in Row, NEW a \in Agents, NEW t \in Nat
  PROVE  Baselines(r, a, t) \subseteq Nat
<1>1. r.recall \in Seq(Recall)
  BY DEF Row
<1>2. \A i \in DOMAIN r.recall : r.recall[i] \in Recall
  BY <1>1, ElementOfSeq
<1>3. QED
  BY <1>2 DEF Baselines, PriorClaims, Recall

\* Whatever happens to a row, it stays a row.
LEMMA StepKeepsRow ==
  ASSUME NEW w, NEW r \in Row, NEW s, RowStep(w, r, s)
  PROVE  s \in Row
<1>1. CASE ClaimStep(w, r, s)
  BY <1>1, BaselineIsTime, ClaimRow DEF ClaimStep
<1>2. CASE WorkStep(r, s)
  <2>1. \A d \in Decisions : AfterBlock(r, d) \in Row
    BY WorkRow
  <2>2. AfterStart(r) \in Row /\ AfterResume(r) \in Row
    BY DEF AfterStart, AfterResume, Row, Phases
  <2>3. QED
    BY <1>2, <2>1, <2>2 DEF WorkStep
<1>3. CASE RenewStep(r, s)
  BY <1>3, RenewRow DEF RenewStep, CanBumpHeartbeat
<1>4. CASE CompleteStep(w, r, s)
  BY <1>4, CompleteRow DEF CompleteStep
<1>5. CASE AttestStep(w, r, s)
  BY <1>5, AttestRow DEF AttestStep
<1>6. CASE PauseStep(w, r, s) \/ UnpauseStep(w, r, s)
  BY <1>6, PauseRow, UnpauseRow DEF PauseStep, UnpauseStep
<1>7. CASE ReleaseStep(r, s) \/ ResetStep(r, s) \/ AbandonStep(w, r, s)
  BY <1>7, ReleaseRow DEF ReleaseStep, ResetStep, AbandonStep
<1>8. CASE ExpireStep(r, s)
  BY <1>8, ExpireRow DEF ExpireStep, CanExpire, Expired
<1>9. QED
  BY <1>1, <1>2, <1>3, <1>4, <1>5, <1>6, <1>7, <1>8 DEF RowStep, OtherStep, VerbStep

\* Whatever happens to a row, its lease keeps fitting its phase.
LEMMA StepKeepsFit ==
  ASSUME NEW w, NEW r \in Row, LeaseFits(r), NEW s, RowStep(w, r, s)
  PROVE  LeaseFits(s)
<1>1. CASE ClaimStep(w, r, s)
  BY <1>1, BaselineIsTime, ClaimFits DEF ClaimStep
<1>2. CASE WorkStep(r, s)
  BY <1>2, WorkFits DEF WorkStep, CanStart, CanBlock, CanResume, CanSystemUnblock
<1>3. CASE RenewStep(r, s)
  BY <1>3, RenewFits DEF RenewStep, CanBumpHeartbeat
<1>4. CASE CompleteStep(w, r, s)
  BY <1>4, CompleteFits DEF CompleteStep, CanComplete
<1>5. CASE AttestStep(w, r, s)
  BY <1>5, AttestFits DEF AttestStep
<1>6. CASE PauseStep(w, r, s) \/ UnpauseStep(w, r, s)
  BY <1>6, SuspendFits DEF PauseStep, UnpauseStep
<1>7. CASE ReleaseStep(r, s) \/ ResetStep(r, s) \/ AbandonStep(w, r, s) \/ ExpireStep(r, s)
  BY <1>7, ReleaseFits DEF ReleaseStep, ResetStep, AbandonStep, ExpireStep
<1>8. QED
  BY <1>1, <1>2, <1>3, <1>4, <1>5, <1>6, <1>7 DEF RowStep, OtherStep, VerbStep

-----------------------------------------------------------------------------
(* Suspension.                                                             *)

\* A suspended row is in a phase a pause accepts and waits for no decision, and
\* its last record is the pause that suspended it, made by a steward or, while
\* nobody holds the row, by its creator.
SuspensionFits(w, r) == r.suspended =>
  /\ r.status \in {"ready", "claimed", "in_progress", "blocked"}
  /\ r.blockedOn = None
  /\ r.recall # << >>
  /\ LastRecall(r).kind = "pause"
  /\ \/ LastRecall(r).by \in Stewards
     \/ LastRecall(r).by = Creator[w] /\ r.status = "ready" /\ r.lease = None

\* What an entry appended to the record looks like from its end.
LEMMA LastOfAppend ==
  ASSUME NEW q \in Seq(Recall), NEW e \in Recall
  PROVE  /\ Append(q, e) # << >>
         /\ Append(q, e)[Len(Append(q, e))] = e
         /\ Len(Append(q, e)) = Len(q) + 1
         /\ \A i \in DOMAIN q : i \in DOMAIN Append(q, e) /\ Append(q, e)[i] = q[i]
         /\ DOMAIN Append(q, e) = DOMAIN q \cup {Len(q) + 1}
  BY AppendProperties

\* What a pause does to the fields suspension is judged by.
LEMMA PauseRecorded ==
  ASSUME NEW r \in Row, NEW a \in Agents, NEW op \in PauseOps, NEW t \in Nat
  PROVE  LET s == AfterPause(r, a, op, t)
         IN  /\ s.status = r.status /\ s.lease = r.lease /\ s.blockedOn = None
             /\ s.recall = Append(r.recall, LastRecall(s))
             /\ s.recall # << >>
             /\ LastRecall(s) \in Recall
             /\ LastRecall(s).kind = "pause" /\ LastRecall(s).by = a /\ LastRecall(s).op = op
<1> DEFINE e == [kind |-> "pause", op |-> op, by |-> a, at |-> t,
                 holder    |-> IF r.lease = None THEN None ELSE r.lease.holder,
                 claimedAt |-> IF r.lease = None THEN 0 ELSE r.lease.claimedAt]
           s == AfterPause(r, a, op, t)
<1>1. r.lease # None => r.lease.holder \in Agents /\ r.lease.claimedAt \in Nat
  BY DEF Row, Lease
<1>2. e \in Recall /\ e.kind = "pause" /\ e.by = a /\ e.op = op
  BY <1>1 DEF Recall
<1>3. /\ s.status = r.status /\ s.lease = r.lease /\ s.blockedOn = None
      /\ s.recall = Append(r.recall, e)
  BY DEF AfterPause, Row
<1> HIDE DEF e, s
<1>4. s.recall # << >> /\ LastRecall(s) = e
  BY <1>2, <1>3, LastOfAppend DEF LastRecall, Row
<1>5. QED
  BY <1>2, <1>3, <1>4 DEF s

\* Nobody works on a suspended row, and no decision unblocks it: the guard of
\* systemUnblock does not look at the suspension, but the blocker is gone.
LEMMA WithdrawnIsNotWorked ==
  ASSUME NEW w, NEW r, SuspensionFits(w, r), r.suspended, NEW s
  PROVE  /\ ~ClaimStep(w, r, s) /\ ~WorkStep(r, s) /\ ~ReleaseStep(r, s)
         /\ ~CompleteStep(w, r, s) /\ ~PauseStep(w, r, s) /\ ~ExpireStep(r, s)
  BY NoneAssumption
  DEF SuspensionFits, ClaimStep, CanClaim, WorkStep, CanStart, CanBlock, CanResume,
      CanSystemUnblock, ReleaseStep, CanRelease, CompleteStep, CanComplete, PauseStep, CanPause,
      ExpireStep, CanExpire, assertLease, isParkedFromExecution

\* Whatever happens to a suspended row, its record keeps naming its suspender.
LEMMA StepKeepsSuspension ==
  ASSUME NEW w, NEW r \in Row, SuspensionFits(w, r), NEW s, RowStep(w, r, s)
  PROVE  SuspensionFits(w, s)
<1>1. CASE PauseStep(w, r, s)
  <2>1. PICK a \in Agents, op \in PauseOps, t \in Nat :
           CanPause(r, w, a, op) /\ s = AfterPause(r, a, op, t)
    BY <1>1 DEF PauseStep
  <2>2. r.status \in {"ready", "claimed", "in_progress", "blocked"}
    BY <2>1 DEF CanPause
  <2>3. a \in Stewards \/ (a = Creator[w] /\ r.status = "ready" /\ r.lease = None)
    BY <2>1 DEF CanPause, PauseAuthority, CorruptForPause
  <2>4. QED
    BY <2>1, <2>2, <2>3, PauseRecorded DEF SuspensionFits
<1>2. CASE \/ ClaimStep(w, r, s) \/ ReleaseStep(r, s) \/ CompleteStep(w, r, s)
           \/ UnpauseStep(w, r, s) \/ AbandonStep(w, r, s) \/ ExpireStep(r, s)
  <2>1. s.suspended = FALSE
    BY <1>2 DEF ClaimStep, CanClaim, AfterClaim, ReleaseStep, CanRelease, AfterRelease,
                CompleteStep, CanComplete, AfterComplete, UnpauseStep, AfterUnpause,
                AbandonStep, AfterAbandon, ExpireStep, CanExpire, AfterExpire,
                releaseHold, assertLease, isParkedFromExecution, Row
  <2>2. QED
    BY <2>1 DEF SuspensionFits
<1>3. CASE WorkStep(r, s)
  <2>1. s.suspended = r.suspended
    BY <1>3 DEF WorkStep, AfterStart, AfterBlock, AfterResume, Row
  <2>2. QED
    BY <1>3, <2>1, WithdrawnIsNotWorked DEF SuspensionFits
<1>4. CASE RenewStep(r, s)
  <2>1. /\ s.suspended = r.suspended /\ s.recall = r.recall /\ s.status = r.status
        /\ s.blockedOn = r.blockedOn /\ r.lease # None
    BY <1>4 DEF RenewStep, AfterRenew, CanBumpHeartbeat, Row
  <2>2. QED
    BY <2>1 DEF SuspensionFits, LastRecall
<1>5. CASE AttestStep(w, r, s)
  <2>1. \/ r.status = "review"
        \/ /\ s.suspended = r.suspended /\ s.recall = r.recall
           /\ s.status = r.status /\ s.lease = r.lease /\ s.blockedOn = r.blockedOn
    BY <1>5 DEF AttestStep, CanAttest, AfterAttest, Row
  <2>2. s.suspended = r.suspended
    BY <1>5 DEF AttestStep, CanAttest, AfterAttest, releaseHold, Row
  <2>3. QED
    BY <2>1, <2>2 DEF SuspensionFits, LastRecall
<1>6. CASE ResetStep(r, s)
  <2>1. /\ s.suspended = r.suspended /\ s.recall = r.recall
        /\ s.status = "ready" /\ s.lease = None /\ s.blockedOn = r.blockedOn
    BY <1>6 DEF ResetStep, AfterReset, releaseHold, Row
  <2>2. QED
    BY <2>1 DEF SuspensionFits, LastRecall
<1>7. QED
  BY <1>1, <1>2, <1>3, <1>4, <1>5, <1>6 DEF RowStep, OtherStep, VerbStep

-----------------------------------------------------------------------------
(* Closed rows and tokens.                                                 *)

\* What a step may do to a closed row that is not suspended: extend the lease
\* it still carries, or put another PASS on it.
LEMMA StepKeepsClosed ==
  ASSUME NEW w, NEW r \in Row, SuspensionFits(w, r), NEW s, RowStep(w, r, s),
         r.status \in Terminal
  PROVE  /\ s.status = r.status
         /\ s.evidence = r.evidence
         /\ r.lease # None => s.lease # None /\ s.lease.token = r.lease.token
<1> USE DEF Terminal
<1>1. ~r.suspended
  BY DEF SuspensionFits
<1>2. /\ ~ClaimStep(w, r, s) /\ ~WorkStep(r, s) /\ ~ReleaseStep(r, s) /\ ~CompleteStep(w, r, s)
      /\ ~PauseStep(w, r, s) /\ ~ExpireStep(r, s) /\ ~AbandonStep(w, r, s)
      /\ ~UnpauseStep(w, r, s) /\ ~ResetStep(r, s)
  BY <1>1 DEF ClaimStep, CanClaim, WorkStep, CanStart, CanBlock, CanResume, CanSystemUnblock,
              ReleaseStep, CanRelease, RELEASABLE_PHASES, CompleteStep, CanComplete,
              COMPLETABLE_PHASES, PauseStep, CanPause, ExpireStep, CanExpire, LEASE_HELD_PHASES,
              AbandonStep, CanAbandon, isActivelyWithdrawn, UnpauseStep, CanUnpause,
              ResetStep, CanReset, isParkedFromExecution
<1>3. CASE RenewStep(r, s)
  <2>1. PICK t \in Nat : r.lease # None /\ s = AfterRenew(r, t)
    BY <1>3 DEF RenewStep, CanBumpHeartbeat
  <2>2. s.lease = [r.lease EXCEPT !.expiresAt = t + Ttl]
    BY <2>1 DEF AfterRenew, Row
  <2>3. s.status = r.status /\ s.evidence = r.evidence
    BY <2>1 DEF AfterRenew, Row
  <2>4. r.lease \in Lease
    BY <2>1 DEF Row
  <2>5. s.lease \in Lease /\ s.lease.token = r.lease.token
    BY <2>2, <2>4, NumbersAssumption DEF Lease
  <2>6. QED
    BY <2>3, <2>5, NoneAssumption
<1>4. CASE AttestStep(w, r, s)
  <2>1. s.status = r.status /\ s.evidence = r.evidence /\ s.lease = r.lease
    BY <1>4 DEF AttestStep, CanAttest, AfterAttest, Row
  <2>2. QED
    BY <2>1
<1>5. QED
  BY <1>2, <1>3, <1>4 DEF RowStep, OtherStep, VerbStep

\* No step but a claim puts a new token on a row, or changes who holds it and since
\* when.
LEMMA StepKeepsToken ==
  ASSUME NEW w, NEW r \in Row, NEW s, OtherStep(w, r, s), s.lease # None
  PROVE  /\ r.lease # None /\ s.lease.token = r.lease.token
         /\ s.lease.holder = r.lease.holder /\ s.lease.claimedAt = r.lease.claimedAt
<1>1. CASE \/ ReleaseStep(r, s) \/ ResetStep(r, s) \/ AbandonStep(w, r, s) \/ ExpireStep(r, s)
  <2>1. s.lease = None
    BY <1>1 DEF ReleaseStep, AfterRelease, ResetStep, AfterReset, AbandonStep, AfterAbandon,
                ExpireStep, AfterExpire, releaseHold, Row
  <2>2. QED
    BY <2>1
<1>2. CASE WorkStep(r, s) \/ CompleteStep(w, r, s) \/ PauseStep(w, r, s)
  <2>1. s.lease = r.lease
    BY <1>2 DEF WorkStep, AfterStart, AfterBlock, AfterResume, CompleteStep, AfterComplete,
                PauseStep, AfterPause, Row
  <2>2. QED
    BY <2>1
<1>3. CASE AttestStep(w, r, s)
  <2>1. s.lease = r.lease \/ s.lease = None
    BY <1>3 DEF AttestStep, AfterAttest, releaseHold, Row
  <2>2. QED
    BY <2>1
<1>4. CASE RenewStep(r, s) \/ UnpauseStep(w, r, s)
  <2>1. \/ s.lease = r.lease
        \/ r.lease # None /\ \E t \in Nat : s.lease = [r.lease EXCEPT !.expiresAt = t + Ttl]
    BY <1>4 DEF RenewStep, AfterRenew, CanBumpHeartbeat, UnpauseStep, AfterUnpause, Row
  <2>2. r.lease # None => r.lease \in Lease
    BY DEF Row
  <2>3. QED
    BY <2>1, <2>2 DEF Lease
<1>5. QED
  BY <1>1, <1>2, <1>3, <1>4 DEF OtherStep, VerbStep

-----------------------------------------------------------------------------
(* The record, and what stays as it was.                                   *)

\* A verb leaves the record alone or adds a pause to it.
LEMMA VerbsRecordPauses ==
  ASSUME NEW w, NEW r \in Row, NEW s, ClaimStep(w, r, s) \/ VerbStep(w, r, s)
  PROVE  \/ s.recall = r.recall
         \/ /\ s.recall = Append(r.recall, LastRecall(s))
            /\ LastRecall(s) \in Recall
            /\ LastRecall(s).kind = "pause"
            /\ ~PauseReplayed(r, LastRecall(s).op)
<1>1. CASE PauseStep(w, r, s)
  BY <1>1, PauseRecorded DEF PauseStep, CanPause
<1>2. CASE ClaimStep(w, r, s) \/ WorkStep(r, s) \/ ReleaseStep(r, s) \/ RenewStep(r, s)
  BY <1>2 DEF ClaimStep, AfterClaim, WorkStep, AfterStart, AfterBlock, AfterResume,
              ReleaseStep, AfterRelease, RenewStep, AfterRenew, releaseHold, Row
<1>3. CASE CompleteStep(w, r, s) \/ AttestStep(w, r, s)
  BY <1>3 DEF CompleteStep, AfterComplete, AttestStep, AfterAttest, releaseHold, Row
<1>4. CASE UnpauseStep(w, r, s) \/ ResetStep(r, s) \/ AbandonStep(w, r, s)
  BY <1>4 DEF UnpauseStep, AfterUnpause, ResetStep, AfterReset, AbandonStep, AfterAbandon,
              releaseHold, Row
<1>5. QED
  BY <1>1, <1>2, <1>3, <1>4 DEF VerbStep

\* The sweeper records a lapse, under no operation.
LEMMA LapseRecorded ==
  ASSUME NEW w, NEW r \in Row, NEW s, ExpireStep(r, s)
  PROVE  \E e \in Recall : e.op = None /\ s.recall = Append(r.recall, e)
<1>1. PICK t \in Nat : CanExpire(r, t) /\ s = AfterExpire(r, t)
  BY DEF ExpireStep
<1> DEFINE e == [kind |-> "lapse", op |-> None, by |-> None, at |-> t,
                 holder |-> r.lease.holder, claimedAt |-> r.lease.claimedAt]
<1>2. r.lease \in Lease
  BY <1>1 DEF CanExpire, Expired, Row
<1>3. e \in Recall /\ e.op = None
  BY <1>2 DEF Recall, Lease
<1>4. s.recall = Append(r.recall, e)
  BY <1>1 DEF AfterExpire, releaseHold, Row
<1>5. QED
  BY <1>3, <1>4

\* A pause is recorded once per operation.
RecordFits(r) ==
  \A i, j \in DOMAIN r.recall :
    r.recall[i].op # None /\ r.recall[i].op = r.recall[j].op => i = j

\* Whatever happens to a row, no operation is recorded on it twice.
LEMMA StepKeepsRecord ==
  ASSUME NEW w, NEW r \in Row, RecordFits(r), NEW s, RowStep(w, r, s)
  PROVE  RecordFits(s)
<1>1. \/ s.recall = r.recall
      \/ \E e \in Recall : /\ s.recall = Append(r.recall, e)
                           /\ e.op = None \/ ~PauseReplayed(r, e.op)
  BY VerbsRecordPauses, LapseRecorded DEF RowStep, OtherStep
<1>2. ASSUME NEW e \in Recall, s.recall = Append(r.recall, e),
             e.op = None \/ ~PauseReplayed(r, e.op)
      PROVE  RecordFits(s)
  <2> SUFFICES ASSUME NEW i \in DOMAIN s.recall, NEW j \in DOMAIN s.recall,
                      s.recall[i].op # None, s.recall[i].op = s.recall[j].op
               PROVE  i = j
    BY DEF RecordFits
  <2> DEFINE n == Len(r.recall) + 1
  <2>1. /\ DOMAIN s.recall = DOMAIN r.recall \cup {n}
        /\ s.recall[n] = e
        /\ \A l \in DOMAIN r.recall : s.recall[l] = r.recall[l]
    BY <1>2, LastOfAppend DEF Row
  <2> HIDE DEF n
  <2>2. CASE i = n /\ j \in DOMAIN r.recall
    BY <1>2, <2>1, <2>2 DEF PauseReplayed
  <2>3. CASE j = n /\ i \in DOMAIN r.recall
    BY <1>2, <2>1, <2>3 DEF PauseReplayed
  <2>4. CASE i \in DOMAIN r.recall /\ j \in DOMAIN r.recall
    BY <2>1, <2>4 DEF RecordFits
  <2>5. QED
    BY <2>1, <2>2, <2>3, <2>4
<1>3. QED
  BY <1>1, <1>2 DEF RecordFits

\* Only a claim makes an item worked on that was not.
LEMMA StepKeepsUnworked ==
  ASSUME NEW w, NEW r \in Row, NEW s, OtherStep(w, r, s),
         s.status \in LEASE_HELD_PHASES \cup {"done"}
  PROVE  r.status \in LEASE_HELD_PHASES \cup {"done"}
<1> USE DEF LEASE_HELD_PHASES
<1>1. CASE WorkStep(r, s) \/ ExpireStep(r, s)
  BY <1>1 DEF WorkStep, CanStart, CanBlock, CanResume, CanSystemUnblock, ExpireStep, CanExpire
<1>2. CASE ReleaseStep(r, s) \/ ResetStep(r, s) \/ AbandonStep(w, r, s)
  BY <1>2 DEF ReleaseStep, AfterRelease, ResetStep, AfterReset, AbandonStep, AfterAbandon,
              releaseHold, Row
<1>3. CASE RenewStep(r, s) \/ PauseStep(w, r, s) \/ UnpauseStep(w, r, s)
  BY <1>3 DEF RenewStep, AfterRenew, PauseStep, AfterPause, UnpauseStep, AfterUnpause, Row
<1>4. CASE CompleteStep(w, r, s)
  BY <1>4 DEF CompleteStep, CanComplete, COMPLETABLE_PHASES
<1>5. CASE AttestStep(w, r, s)
  BY <1>5 DEF AttestStep, CanAttest, AfterAttest, releaseHold, Row
<1>6. QED
  BY <1>1, <1>2, <1>3, <1>4, <1>5 DEF OtherStep, VerbStep

\* What may become of a suspended row.
LEMMA StepKeepsWithdrawn ==
  ASSUME NEW w, NEW r \in Row, SuspensionFits(w, r), NEW s, RowStep(w, r, s), r.suspended
  PROVE  \/ /\ s.status = r.status
            /\ s.evidence = r.evidence
            /\ r.lease = None => s.lease = None
            /\ r.lease # None => s.lease # None /\ s.lease.token = r.lease.token
         \/ s.suspended /\ s.status = "ready" /\ s.lease = None /\ s.evidence = {}
         \/ ~s.suspended /\ s.status = "abandoned"
<1>1. CASE RenewStep(r, s) \/ UnpauseStep(w, r, s)
  <2>1. /\ s.status = r.status /\ s.evidence = r.evidence
        /\ \/ s.lease = r.lease
           \/ r.lease # None /\ \E t \in Nat : s.lease = [r.lease EXCEPT !.expiresAt = t + Ttl]
    BY <1>1 DEF RenewStep, AfterRenew, CanBumpHeartbeat, UnpauseStep, AfterUnpause, Row
  <2>2. r.lease # None => r.lease \in Lease
    BY DEF Row
  <2>3. \A t \in Nat : r.lease # None =>
          /\ [r.lease EXCEPT !.expiresAt = t + Ttl] \in Lease
          /\ [r.lease EXCEPT !.expiresAt = t + Ttl].token = r.lease.token
    BY <2>2, NumbersAssumption DEF Lease
  <2>4. QED
    BY <2>1, <2>3, NoneAssumption
<1>2. CASE AttestStep(w, r, s)
  <2>1. s.status = r.status /\ s.evidence = r.evidence /\ s.lease = r.lease
    BY <1>2 DEF AttestStep, CanAttest, AfterAttest, SuspensionFits, Row
  <2>2. QED
    BY <2>1
<1>3. CASE ResetStep(r, s)
  BY <1>3 DEF ResetStep, AfterReset, releaseHold, Row
<1>4. CASE AbandonStep(w, r, s)
  BY <1>4 DEF AbandonStep, AfterAbandon, releaseHold, Row
<1>5. QED
  BY <1>1, <1>2, <1>3, <1>4, WithdrawnIsNotWorked DEF RowStep, OtherStep, VerbStep

-----------------------------------------------------------------------------
(* Seals, and what a row must show to be done.                             *)

\* A row with an active FAIL keeps it: every verb that could replace or clear a
\* verdict refuses a sealed row.
LEMMA StepKeepsSeal ==
  ASSUME NEW w, NEW r \in Row, NEW s, RowStep(w, r, s), isFailedGateSealed(r)
  PROVE  isFailedGateSealed(s)
<1> USE DEF isFailedGateSealed
<1>1. ~AttestStep(w, r, s) /\ ~ResetStep(r, s)
  BY DEF AttestStep, CanAttest, ResetStep, CanReset
<1>2. CASE ClaimStep(w, r, s) \/ WorkStep(r, s) \/ ReleaseStep(r, s) \/ RenewStep(r, s)
  BY <1>2 DEF ClaimStep, AfterClaim, WorkStep, AfterStart, AfterBlock, AfterResume,
              ReleaseStep, AfterRelease, RenewStep, AfterRenew, releaseHold, Row
<1>3. CASE CompleteStep(w, r, s) \/ PauseStep(w, r, s) \/ UnpauseStep(w, r, s)
  BY <1>3 DEF CompleteStep, AfterComplete, PauseStep, AfterPause, UnpauseStep, AfterUnpause, Row
<1>4. CASE AbandonStep(w, r, s) \/ ExpireStep(r, s)
  BY <1>4 DEF AbandonStep, AfterAbandon, ExpireStep, AfterExpire, releaseHold, Row
<1>5. QED
  BY <1>1, <1>2, <1>3, <1>4 DEF RowStep, OtherStep, VerbStep

\* Evidence worth closing a row for is there, unless none was asked.
LEMMA DoneHasEvidence ==
  ASSUME NEW r, NEW w, NEW S, evaluateEvidence(r, w, S) = "done", Demand[w] # "nothing"
  PROVE  r.evidence \cup S # {}
  BY DEF evaluateEvidence

\* Apart from its completion, only the verdict on a row that brackets nothing
\* makes a row done.
LEMMA OnlyLeavesCloseByVerdict ==
  ASSUME NEW w, NEW r \in Row, NEW s, s.status = "done", r.status # "done",
         \/ ClaimStep(w, r, s) \/ WorkStep(r, s)      \/ ReleaseStep(r, s) \/ RenewStep(r, s)
         \/ AttestStep(w, r, s) \/ PauseStep(w, r, s) \/ UnpauseStep(w, r, s)
         \/ ResetStep(r, s) \/ AbandonStep(w, r, s)   \/ ExpireStep(r, s)  \/ s = r
  PROVE  /\ CompletionDependsOn[w] = {}
         /\ Demand[w] # "nothing" => s.evidence # {}
         /\ attestationReqsSatisfied(s, w)
<1>1. CASE AttestStep(w, r, s)
  <2>1. PICK v \in Agents, verdict \in {"pass", "fail"} : s = AfterAttest(r, w, v, verdict)
    BY <1>1 DEF AttestStep
  <2>2. verdict = "pass" /\ evaluateEvidence(r, w, {}) = "done" /\ CompletionDependsOn[w] = {}
    BY <2>1 DEF AfterAttest, releaseHold, Row
  <2>3. s.evidence = r.evidence /\ s.attestation.verdict = "pass"
    BY <2>1, <2>2 DEF AfterAttest, Row
  <2>4. QED
    BY <2>2, <2>3, DoneHasEvidence DEF attestationReqsSatisfied
<1>2. ~ClaimStep(w, r, s) /\ ~WorkStep(r, s) /\ ~ReleaseStep(r, s) /\ ~RenewStep(r, s)
  BY DEF ClaimStep, AfterClaim, WorkStep, AfterStart, AfterBlock, AfterResume,
         ReleaseStep, AfterRelease, RenewStep, AfterRenew, releaseHold, Row
<1>3. ~PauseStep(w, r, s) /\ ~UnpauseStep(w, r, s) /\ ~ResetStep(r, s)
  BY DEF PauseStep, AfterPause, UnpauseStep, AfterUnpause, ResetStep, AfterReset,
         releaseHold, Row
<1>4. ~AbandonStep(w, r, s) /\ ~ExpireStep(r, s)
  BY DEF AbandonStep, AfterAbandon, ExpireStep, AfterExpire, releaseHold, Row
<1>5. QED
  BY <1>1, <1>2, <1>3, <1>4

\* A row its completion closes has the evidence asked of it and its pass.
LEMMA CompletionIsEarned ==
  ASSUME NEW w, NEW r \in Row, NEW s, CompleteStep(w, r, s), s.status = "done", r.status # "done"
  PROVE  (Demand[w] # "nothing" => s.evidence # {}) /\ attestationReqsSatisfied(s, w)
<1>1. PICK a \in Agents, k \in Nat, S \in SUBSET Evidence, friction \in BOOLEAN :
         CanComplete(r, w, a, k, S, {}) /\ s = AfterComplete(r, w, S, friction)
  BY DEF CompleteStep
<1>2. s.evidence = r.evidence \cup S /\ s.attestation = r.attestation
  BY <1>1 DEF AfterComplete, Row
<1>3. evaluateEvidence(r, w, S) = "done" /\ attestationReqsSatisfied(r, w)
  BY <1>1 DEF AfterComplete, Row
<1>4. QED
  BY <1>2, <1>3, DoneHasEvidence DEF attestationReqsSatisfied

\* A closed row keeps its pass.
LEMMA StepKeepsPass ==
  ASSUME NEW w, NEW r \in Row, SuspensionFits(w, r), NEW s, RowStep(w, r, s),
         r.status = "done", attestationReqsSatisfied(r, w)
  PROVE  attestationReqsSatisfied(s, w)
<1>1. ~r.suspended
  BY DEF SuspensionFits
<1>2. /\ ~ClaimStep(w, r, s) /\ ~WorkStep(r, s) /\ ~ReleaseStep(r, s) /\ ~CompleteStep(w, r, s)
      /\ ~PauseStep(w, r, s) /\ ~ExpireStep(r, s) /\ ~AbandonStep(w, r, s)
      /\ ~UnpauseStep(w, r, s) /\ ~ResetStep(r, s)
  BY <1>1 DEF ClaimStep, CanClaim, WorkStep, CanStart, CanBlock, CanResume, CanSystemUnblock,
              ReleaseStep, CanRelease, RELEASABLE_PHASES, CompleteStep, CanComplete,
              COMPLETABLE_PHASES, PauseStep, CanPause, ExpireStep, CanExpire, LEASE_HELD_PHASES,
              AbandonStep, CanAbandon, isActivelyWithdrawn, UnpauseStep, CanUnpause,
              ResetStep, CanReset, isParkedFromExecution
<1>3. CASE RenewStep(r, s)
  BY <1>3 DEF RenewStep, AfterRenew, attestationReqsSatisfied, Row
<1>4. CASE AttestStep(w, r, s)
  BY <1>4 DEF AttestStep, CanAttest, AfterAttest, attestationReqsSatisfied, Row
<1>5. QED
  BY <1>2, <1>3, <1>4 DEF RowStep, OtherStep, VerbStep

-----------------------------------------------------------------------------
(* Baselines and evidence.                                                 *)

\* Agent a held the row since c, and had claimed it for the first time by then.
HeldSince(r, a, c) == a \in executorHistory(r) /\ c >= r.joined[a]

\* BaselineIsOwn, of one row.
BaselineFits(r) ==
  /\ r.lease # None => HeldSince(r, r.lease.holder, r.lease.claimedAt)
  /\ \A i \in DOMAIN r.recall :
       r.recall[i].holder # None => HeldSince(r, r.recall[i].holder, r.recall[i].claimedAt)

\* EvidenceIsEarned, of one row.
Earned(r, e) == HeldSince(r, e.by, e.at)
EvidenceFits(w, r) ==
  Demand[w] \in {"fresh", "review"} /\ r.evidence # {} => \E e \in r.evidence : Earned(r, e)

\* Only a claim writes executorHistory.
LEMMA StepKeepsJoined ==
  ASSUME NEW w, NEW r \in Row, NEW s, OtherStep(w, r, s)
  PROVE  s.joined = r.joined
<1>1. CASE WorkStep(r, s) \/ ReleaseStep(r, s) \/ RenewStep(r, s)
  BY <1>1 DEF WorkStep, AfterStart, AfterBlock, AfterResume, ReleaseStep, AfterRelease,
              RenewStep, AfterRenew, releaseHold, Row
<1>2. CASE CompleteStep(w, r, s) \/ AttestStep(w, r, s)
  BY <1>2 DEF CompleteStep, AfterComplete, AttestStep, AfterAttest, releaseHold, Row
<1>3. CASE PauseStep(w, r, s) \/ UnpauseStep(w, r, s) \/ ResetStep(r, s)
  BY <1>3 DEF PauseStep, AfterPause, UnpauseStep, AfterUnpause, ResetStep, AfterReset,
              releaseHold, Row
<1>4. CASE AbandonStep(w, r, s) \/ ExpireStep(r, s)
  BY <1>4 DEF AbandonStep, AfterAbandon, ExpireStep, AfterExpire, releaseHold, Row
<1>5. QED
  BY <1>1, <1>2, <1>3, <1>4 DEF OtherStep, VerbStep

\* The record of s is that of r and one entry more, about the lease r had.
RecordsLease(r, s, e) ==
  /\ s.recall = Append(r.recall, e)
  /\ e.holder # None => /\ r.lease # None
                        /\ e.holder = r.lease.holder
                        /\ e.claimedAt = r.lease.claimedAt

\* An entry a step adds to the record speaks of the lease the row had.
LEMMA StepRecordsLease ==
  ASSUME NEW w, NEW r \in Row, NEW s, OtherStep(w, r, s)
  PROVE  s.recall = r.recall \/ \E e \in Recall : RecordsLease(r, s, e)
<1>1. r.lease # None => r.lease.holder \in Agents /\ r.lease.claimedAt \in Nat
  BY DEF Row, Lease
<1>2. CASE PauseStep(w, r, s)
  <2>1. PICK a \in Agents, op \in PauseOps, t \in Nat : s = AfterPause(r, a, op, t)
    BY <1>2 DEF PauseStep
  <2> DEFINE e == [kind |-> "pause", op |-> op, by |-> a, at |-> t,
                   holder    |-> IF r.lease = None THEN None ELSE r.lease.holder,
                   claimedAt |-> IF r.lease = None THEN 0 ELSE r.lease.claimedAt]
  <2>2. e \in Recall
    BY <1>1 DEF Recall
  <2>3. s.recall = Append(r.recall, e)
    BY <2>1 DEF AfterPause, Row
  <2>4. QED
    BY <2>2, <2>3 DEF RecordsLease
<1>3. CASE ExpireStep(r, s)
  <2>1. PICK t \in Nat : CanExpire(r, t) /\ s = AfterExpire(r, t)
    BY <1>3 DEF ExpireStep
  <2> DEFINE e == [kind |-> "lapse", op |-> None, by |-> None, at |-> t,
                   holder |-> r.lease.holder, claimedAt |-> r.lease.claimedAt]
  <2>2. e \in Recall /\ r.lease # None
    BY <1>1, <2>1 DEF Recall, CanExpire, Expired
  <2>3. s.recall = Append(r.recall, e)
    BY <2>1 DEF AfterExpire, releaseHold, Row
  <2>4. QED
    BY <2>2, <2>3 DEF RecordsLease
<1>4. CASE WorkStep(r, s) \/ ReleaseStep(r, s) \/ RenewStep(r, s)
  BY <1>4 DEF WorkStep, AfterStart, AfterBlock, AfterResume, ReleaseStep, AfterRelease,
              RenewStep, AfterRenew, releaseHold, Row
<1>5. CASE CompleteStep(w, r, s) \/ AttestStep(w, r, s)
  BY <1>5 DEF CompleteStep, AfterComplete, AttestStep, AfterAttest, releaseHold, Row
<1>6. CASE UnpauseStep(w, r, s) \/ ResetStep(r, s) \/ AbandonStep(w, r, s)
  BY <1>6 DEF UnpauseStep, AfterUnpause, ResetStep, AfterReset, AbandonStep, AfterAbandon,
              releaseHold, Row
<1>7. QED
  BY <1>2, <1>3, <1>4, <1>5, <1>6 DEF OtherStep, VerbStep

\* No step but a claim can touch a baseline, except by putting it on record.
LEMMA StepKeepsBaseline ==
  ASSUME NEW w, NEW r \in Row, BaselineFits(r), NEW s, OtherStep(w, r, s)
  PROVE  BaselineFits(s)
<1>1. s.joined = r.joined
  BY StepKeepsJoined
<1>2. \A a, c : HeldSince(s, a, c) <=> HeldSince(r, a, c)
  BY <1>1 DEF HeldSince, executorHistory
<1>3. s.lease # None => HeldSince(s, s.lease.holder, s.lease.claimedAt)
  BY <1>2, StepKeepsToken DEF BaselineFits
<1>4. CASE s.recall = r.recall
  BY <1>2, <1>3, <1>4 DEF BaselineFits
<1>5. ASSUME NEW e \in Recall, RecordsLease(r, s, e)
      PROVE  BaselineFits(s)
  <2> DEFINE n == Len(r.recall) + 1
  <2>1. /\ DOMAIN s.recall = DOMAIN r.recall \cup {n}
        /\ s.recall[n] = e
        /\ \A l \in DOMAIN r.recall : s.recall[l] = r.recall[l]
    BY <1>5, LastOfAppend DEF Row, RecordsLease
  <2>2. \A i \in DOMAIN s.recall :
          s.recall[i].holder # None => HeldSince(s, s.recall[i].holder, s.recall[i].claimedAt)
    BY <1>2, <1>5, <2>1 DEF BaselineFits, RecordsLease
  <2>3. QED
    BY <1>3, <2>2 DEF BaselineFits
<1>6. QED
  BY <1>4, <1>5, StepRecordsLease

\* A claim starts from a baseline of the claimer's own, as long as nobody is
\* recorded to have joined in the future.
LEMMA ClaimKeepsBaseline ==
  ASSUME NEW r \in Row, BaselineFits(r), NEW a \in Agents, NEW k \in Nat, NEW t \in Nat,
         NEW c \in Baselines(r, a, t), \A b \in Agents : r.joined[b] <= t
  PROVE  LET s == AfterClaim(r, a, k, t, c)
         IN  /\ BaselineFits(s)
             /\ \A b \in Agents : s.joined[b] <= t
             /\ \A b, d : HeldSince(r, b, d) => HeldSince(s, b, d)
<1> DEFINE s == AfterClaim(r, a, k, t, c)
<1>1. /\ s.joined = [r.joined EXCEPT ![a] = IF @ = Never THEN t ELSE @]
      /\ s.lease = [holder |-> a, token |-> k, claimedAt |-> c, expiresAt |-> t + Ttl]
      /\ s.recall = r.recall
  BY DEF AfterClaim, Row
<1>2. r.joined \in [Agents -> Nat \cup {Never}]
  BY DEF Row
<1>3. /\ \A b \in Agents : s.joined[b] = IF b = a /\ r.joined[b] = Never THEN t ELSE r.joined[b]
      /\ s.joined[a] # Never
  BY <1>1, <1>2 DEF Never
<1>4. s.lease.holder = a /\ s.lease.claimedAt = c
  BY <1>1
<1> HIDE DEF s
<1>5. \A b, d : HeldSince(r, b, d) => HeldSince(s, b, d)
  BY <1>3 DEF HeldSince, executorHistory
<1>6. c >= s.joined[a]
  <2>1. CASE c = t
    BY <1>2, <1>3, <2>1
  <2>2. CASE a \in executorHistory(r) /\ c \in PriorClaims(r, a)
    <3>1. PICK i \in DOMAIN r.recall : r.recall[i].holder = a /\ c = r.recall[i].claimedAt
      BY <2>2 DEF PriorClaims
    <3>2. HeldSince(r, a, c)
      BY <3>1, NoneAssumption DEF BaselineFits
    <3>3. QED
      BY <1>3, <3>2 DEF HeldSince, executorHistory
  <2>3. QED
    BY <2>1, <2>2 DEF Baselines
<1>7. HeldSince(s, a, c)
  BY <1>3, <1>6 DEF HeldSince, executorHistory
<1>8. \A b \in Agents : s.joined[b] <= t
  BY <1>2, <1>3
<1>9. BaselineFits(s)
  BY <1>1, <1>4, <1>5, <1>7 DEF BaselineFits
<1>10. QED
  BY <1>5, <1>8, <1>9 DEF s

\* A step that adds evidence adds a piece the holder has earned, or comes on top
\* of one.
LEMMA StepKeepsEvidence ==
  ASSUME NEW w, NEW r \in Row, BaselineFits(r), EvidenceFits(w, r), NEW s, OtherStep(w, r, s)
  PROVE  EvidenceFits(w, s)
<1>1. s.joined = r.joined
  BY StepKeepsJoined
<1>2. \A a, c : HeldSince(s, a, c) <=> HeldSince(r, a, c)
  BY <1>1 DEF HeldSince, executorHistory
<1>3. CASE CompleteStep(w, r, s)
  <2>1. PICK a \in Agents, k \in Nat, S \in SUBSET Evidence, friction \in BOOLEAN :
           /\ CanComplete(r, w, a, k, S, {}) /\ \A e \in S : e.by = a
           /\ s = AfterComplete(r, w, S, friction)
    BY <1>3 DEF CompleteStep
  <2>2. s.evidence = r.evidence \cup S
    BY <2>1 DEF AfterComplete, Row
  <2>3. r.lease # None /\ r.lease.holder = a
    BY <2>1 DEF CanComplete, assertLease, HoldsToken, HoldsLease
  <2>4. CASE s.evidence = {} \/ Demand[w] \notin {"fresh", "review"}
    BY <2>4 DEF EvidenceFits
  <2>5. CASE r.evidence # {}
    BY <1>2, <2>2, <2>5 DEF EvidenceFits, Earned
  <2>6. CASE r.evidence = {} /\ s.evidence # {} /\ Demand[w] \in {"fresh", "review"}
    <3>0. PICK e \in r.evidence \cup S : Fresh(r, w, e)
      BY <2>1, <2>2, <2>6 DEF CanComplete, evaluateEvidence
    <3>1. e \in S /\ e.by = a /\ e.at \in Nat
      BY <2>1, <2>6, <3>0 DEF Evidence
    <3>2. r.joined[a] \in Nat \cup {Never}
      BY DEF Row
    <3>3. PICK c \in Nat : HeldSince(r, a, c) /\ e.at >= c
      <4>1. CASE e.at >= r.lease.claimedAt
        BY <2>3, <4>1 DEF BaselineFits, Row, Lease
      <4>2. CASE \E c \in PriorClaims(r, r.lease.holder) : e.at >= c
        <5>1. PICK i \in DOMAIN r.recall :
                 r.recall[i].holder = a /\ e.at >= r.recall[i].claimedAt
          BY <2>3, <4>2 DEF PriorClaims
        <5>2. r.recall[i] \in Recall
          BY ElementOfSeq DEF Row
        <5>3. QED
          BY <5>1, <5>2, NoneAssumption DEF BaselineFits, Recall
      <4>3. QED
        BY <2>6, <3>0, <4>1, <4>2 DEF Fresh
    <3>4. HeldSince(r, a, e.at)
      BY <3>1, <3>2, <3>3 DEF HeldSince, Never
    <3>5. QED
      BY <1>2, <2>2, <3>1, <3>4 DEF EvidenceFits, Earned
  <2>7. QED
    BY <2>4, <2>5, <2>6
<1>4. CASE s.evidence = r.evidence
  BY <1>2, <1>4 DEF EvidenceFits, Earned
<1>5. CASE ResetStep(r, s)
  BY <1>5 DEF ResetStep, AfterReset, releaseHold, EvidenceFits, Row
<1>6. CASE WorkStep(r, s) \/ ReleaseStep(r, s) \/ RenewStep(r, s) \/ AttestStep(w, r, s)
  <2>1. s.evidence = r.evidence
    BY <1>6 DEF WorkStep, AfterStart, AfterBlock, AfterResume, ReleaseStep, AfterRelease,
                RenewStep, AfterRenew, AttestStep, AfterAttest, releaseHold, Row
  <2>2. QED
    BY <1>4, <2>1
<1>7. CASE PauseStep(w, r, s) \/ UnpauseStep(w, r, s) \/ AbandonStep(w, r, s) \/ ExpireStep(r, s)
  <2>1. s.evidence = r.evidence
    BY <1>7 DEF PauseStep, AfterPause, UnpauseStep, AfterUnpause, AbandonStep, AfterAbandon,
                ExpireStep, AfterExpire, releaseHold, Row
  <2>2. QED
    BY <1>4, <2>1
<1>8. QED
  BY <1>3, <1>4, <1>5, <1>6, <1>7 DEF OtherStep, VerbStep

=============================================================================
