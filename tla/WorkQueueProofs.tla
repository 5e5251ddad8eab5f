-------------------------- MODULE WorkQueueProofs --------------------------
(***************************************************************************)
(* Theorems about the work queue, for any items, agents, edges, gates and  *)
(* bounds.  The proofs go verb by verb: WorkItemProofs says what a verb    *)
(* writes, the theorems here that no interleaving of verbs, sweeps and     *)
(* restarts breaks the table.                                              *)
(***************************************************************************)
EXTENDS WorkQueueProperties, WorkItemProofs, FiniteSetTheorems

\* What an agent submits is evidence of its own.
LEMMA SuppliesAreEvidence ==
  ASSUME now \in Nat, NEW a \in Agents, NEW S \in Supplies(a)
  PROVE  S \in SUBSET Evidence /\ \A e \in S : e.by = a
  BY DEF Supplies, Evidence

\* Writing one row changes that row only.
LEMMA PutChanges ==
  ASSUME row \in [Items -> Row], NEW w \in Items, NEW r, Put(w, r), NEW x \in Items
  PROVE  row'[x] = IF x = w THEN r ELSE row[x]
  BY DEF Put

\* What a verb that is no claim does to row x, with what it reads of the clock
\* and of the other rows.
QueueVerb(x) ==
  \/ WorkStep(row[x], row'[x])
  \/ ReleaseStep(row[x], row'[x])
  \/ CanBumpHeartbeat(row[x], now) /\ row'[x] = AfterRenew(row[x], now)
  \/ CompleteStep(x, row[x], row'[x]) /\ pendingChildren(x) = {}
  \/ AttestStep(x, row[x], row'[x])
  \/ PauseStep(x, row[x], row'[x])
  \/ \E a \in Agents : CanUnpause(row[x], x, a) /\ row'[x] = AfterUnpause(row[x], now)
  \/ ResetStep(row[x], row'[x])
  \/ AbandonStep(x, row[x], row'[x])

\* A step that is neither a claim nor a lapse does one of the verbs to every
\* row it changes.  This is where the verbs of many callers and the heartbeats
\* that reach other rows are brought down to one row.
LEMMA QueueStepIsQueueVerb ==
  ASSUME TypeOK, [Next]_vars, NEW x \in Items, row'[x] # row[x],
         ~(\E w \in Items, a \in Agents : Claim(w, a)), ~(\E w \in Items : ExpireLease(w))
  PROVE  QueueVerb(x)
<1> USE DEF TypeOK
<1>1. ASSUME NEW w \in Items, NEW a \in Agents, NEW k \in Nat, HolderVerb(w, a, k)
      PROVE  QueueVerb(x)
  <2>1. CASE Start(w, a, k)
    BY <2>1, PutChanges DEF Start, QueueVerb, WorkStep
  <2>2. CASE \E d \in Decisions : Block(w, a, k, d)
    BY <2>2, PutChanges DEF Block, QueueVerb, WorkStep
  <2>3. CASE Resume(w, a, k)
    BY <2>3, PutChanges DEF Resume, QueueVerb, WorkStep
  <2>4. CASE Release(w, a, k)
    BY <2>4, PutChanges DEF Release, QueueVerb, ReleaseStep
  <2>5. CASE Renew(w, a, k)
    BY <2>5 DEF Renew, QueueVerb, CanRenew, CanBumpHeartbeat,
                assertLease, HoldsToken, HoldsLease
  <2>6. CASE \E S \in Supplies(a), friction \in BOOLEAN : Complete(w, a, k, S, friction)
    BY <2>6, PutChanges, SuppliesAreEvidence DEF Complete, CanComplete, QueueVerb, CompleteStep
  <2>7. QED
    BY <1>1, <2>1, <2>2, <2>3, <2>4, <2>5, <2>6 DEF HolderVerb
<1>2. ASSUME NEW w \in Items, NEW a \in Agents, ManagementVerb(w, a)
      PROVE  QueueVerb(x)
  <2>1. CASE \E op \in PauseOps : Pause(w, a, op)
    BY <2>1, PutChanges DEF Pause, QueueVerb, PauseStep
  <2>2. CASE Unpause(w, a)
    BY <2>2, PutChanges DEF Unpause, QueueVerb
  <2>3. CASE Reset(w, a)
    BY <2>3, PutChanges DEF Reset, QueueVerb, ResetStep
  <2>4. CASE \E k \in 0 .. issued : Abandon(w, a, k)
    BY <2>4, PutChanges DEF Abandon, QueueVerb, AbandonStep
  <2>5. CASE \E verdict \in {"pass", "fail"} : Attest(w, a, verdict)
    BY <2>5, PutChanges DEF Attest, CanAttest, QueueVerb, AttestStep
  <2>6. QED
    BY <1>2, <2>1, <2>2, <2>3, <2>4, <2>5 DEF ManagementVerb
<1>3. ASSUME NEW w \in Items, NEW d \in Decisions, SystemUnblock(w, d)
      PROVE  QueueVerb(x)
  BY <1>3, PutChanges DEF SystemUnblock, QueueVerb, WorkStep
<1>4. ~(StartSweep \/ (\E w \in Items : SkipLease(w)) \/ HubRestart \/ Tick \/ UNCHANGED vars)
  BY DEF StartSweep, SkipLease, HubRestart, Tick, vars
<1>5. QED
  BY <1>1, <1>2, <1>3, <1>4 DEF Next, Sweeper

\* Such a step is a verb of the row, at some time.
LEMMA QueueStepIsVerbStep ==
  ASSUME TypeOK, [Next]_vars, NEW x \in Items, row'[x] # row[x],
         ~(\E w \in Items, a \in Agents : Claim(w, a)), ~(\E w \in Items : ExpireLease(w))
  PROVE  VerbStep(x, row[x], row'[x])
<1>1. QueueVerb(x) /\ now \in Nat
  BY QueueStepIsQueueVerb DEF TypeOK
<1>2. QED
  BY <1>1 DEF QueueVerb, VerbStep, RenewStep, UnpauseStep

\* A step that is no claim does one of a row's other steps to every row.
LEMMA QueueStepIsOtherStep ==
  ASSUME TypeOK, [Next]_vars, ~(\E w \in Items, a \in Agents : Claim(w, a)), NEW x \in Items
  PROVE  OtherStep(x, row[x], row'[x])
<1>1. ASSUME NEW w \in Items, ExpireLease(w)
      PROVE  OtherStep(x, row[x], row'[x])
  BY <1>1, PutChanges DEF TypeOK, ExpireLease, OtherStep, ExpireStep
<1>2. row'[x] # row[x] /\ ~(\E w \in Items : ExpireLease(w)) => VerbStep(x, row[x], row'[x])
  BY QueueStepIsVerbStep
<1>3. QED
  BY <1>1, <1>2 DEF OtherStep

\* A claim writes its row, with the fresh token and the present time, and
\* leaves the others alone.
LEMMA QueueClaimWrites ==
  ASSUME TypeOK, NEW w \in Items, NEW a \in Agents, Claim(w, a)
  PROVE  /\ \E c \in Baselines(row[w], a, now) :
              row'[w] = AfterClaim(row[w], a, issued + 1, now, c)
         /\ \A x \in Items \ {w} : row'[x] = row[x]
<1>1. PICK c \in Baselines(row[w], a, now) : Put(w, AfterClaim(row[w], a, issued + 1, now, c))
  BY DEF Claim
<1>2. QED
  BY <1>1, PutChanges DEF TypeOK

\* A claim is a claim of its row.
LEMMA QueueClaimIsClaimStep ==
  ASSUME TypeOK, NEW w \in Items, NEW a \in Agents, Claim(w, a)
  PROVE  /\ ClaimStep(w, row[w], row'[w])
         /\ \A x \in Items \ {w} : row'[x] = row[x]
<1>1. CanClaim(row[w], w, a, {})
  BY DEF Claim, CanClaim
<1>2. issued + 1 \in Nat /\ now \in Nat
  BY DEF TypeOK
<1>3. QED
  BY <1>1, <1>2, QueueClaimWrites DEF ClaimStep

\* What a step of the queue does to a row: a claim, a lapse, one of the other
\* verbs or nothing.
LEMMA QueueStepIsCase ==
  ASSUME TypeOK, [Next]_vars, NEW x \in Items
  PROVE  \/ ClaimStep(x, row[x], row'[x])
         \/ ExpireStep(row[x], row'[x])
         \/ QueueVerb(x)
         \/ row'[x] = row[x]
<1>1. ASSUME NEW w \in Items, ExpireLease(w)
      PROVE  ExpireStep(row[x], row'[x]) \/ row'[x] = row[x]
  BY <1>1, PutChanges DEF TypeOK, ExpireLease, ExpireStep
<1>2. ASSUME NEW w \in Items, NEW a \in Agents, Claim(w, a)
      PROVE  ClaimStep(x, row[x], row'[x]) \/ row'[x] = row[x]
  BY <1>2, QueueClaimIsClaimStep
<1>3. QED
  BY <1>1, <1>2, QueueStepIsQueueVerb

\* A step of the queue does one of a row's own steps to every row.
LEMMA QueueStepIsRowStep ==
  ASSUME TypeOK, [Next]_vars, NEW x \in Items
  PROVE  RowStep(x, row[x], row'[x])
  BY QueueStepIsOtherStep, QueueClaimIsClaimStep DEF RowStep, OtherStep

-----------------------------------------------------------------------------
(* The table.                                                              *)

\* The verbs that mint no token write the table and nothing else.
LEMMA VerbsTouchRowsOnly ==
  /\ \A w \in Items, a \in Agents, k \in 1 .. issued :
       HolderVerb(w, a, k) => UNCHANGED <<now, issued, sweep>>
  /\ \A w \in Items, a \in Agents : ManagementVerb(w, a) => UNCHANGED <<now, issued, sweep>>
  /\ \A w \in Items, d \in Decisions : SystemUnblock(w, d) => UNCHANGED <<now, issued, sweep>>
  BY DEF HolderVerb, Start, Block, Resume, Release, Renew, Complete, ManagementVerb,
         Pause, Unpause, Reset, Abandon, Attest, SystemUnblock

\* The sweep reads the clock and lists items of the table.
LEMMA SweepType ==
  ASSUME TypeOK, [Next]_vars
  PROVE  now' \in Nat /\ issued' \in Nat /\ sweep' \in [at : Nat, due : SUBSET Items]
<1> USE DEF TypeOK
<1>1. CASE Tick \/ UNCHANGED vars
  BY <1>1 DEF Tick, vars
<1>2. CASE StartSweep
  BY <1>2 DEF StartSweep, listExpiredLeaseItems
<1>3. ASSUME NEW w \in Items, ExpireLease(w) \/ SkipLease(w)
      PROVE  now' \in Nat /\ issued' \in Nat /\ sweep' \in [at : Nat, due : SUBSET Items]
  BY <1>3 DEF ExpireLease, SkipLease, SweepWithout
<1>4. CASE HubRestart
  BY <1>4 DEF HubRestart
<1>5. ASSUME NEW w \in Items, NEW a \in Agents, Claim(w, a)
      PROVE  now' \in Nat /\ issued' \in Nat /\ sweep' \in [at : Nat, due : SUBSET Items]
  BY <1>5 DEF Claim
<1>6. QED
  BY <1>1, <1>2, <1>3, <1>4, <1>5, VerbsTouchRowsOnly DEF Next, Sweeper

\* The table stays a table: no step adds, drops or mangles a row.
LEMMA TableType ==
  ASSUME TypeOK, [Next]_vars
  PROVE  row' \in [Items -> Row]
<1>1. \A x \in Items : row'[x] \in Row
  BY QueueStepIsRowStep, StepKeepsRow DEF TypeOK
<1>2. row' = [x \in Items |-> row'[x]]
  <2> USE DEF TypeOK
  <2>1. ASSUME NEW w \in Items, NEW r, Put(w, r)
        PROVE  row' = [x \in Items |-> row'[x]]
    BY <2>1 DEF Put
  <2>2. ASSUME NEW w \in Items, NEW a \in Agents, NEW k, HolderVerb(w, a, k)
        PROVE  row' = [x \in Items |-> row'[x]]
    <3>1. CASE Renew(w, a, k)
      BY <3>1 DEF Renew
    <3>2. CASE ~Renew(w, a, k)
      BY <2>1, <2>2, <3>2 DEF HolderVerb, Start, Block, Resume, Release, Complete
    <3>3. QED
      BY <3>1, <3>2
  <2>3. ASSUME NEW w \in Items, NEW a \in Agents, Claim(w, a) \/ ManagementVerb(w, a)
        PROVE  row' = [x \in Items |-> row'[x]]
    BY <2>1, <2>3 DEF Claim, ManagementVerb, Pause, Unpause, Reset, Abandon, Attest
  <2>4. ASSUME NEW w \in Items, \/ ExpireLease(w)
                                \/ \E d \in Decisions : SystemUnblock(w, d)
        PROVE  row' = [x \in Items |-> row'[x]]
    BY <2>1, <2>4 DEF ExpireLease, SystemUnblock
  <2>5. CASE UNCHANGED row
    BY <2>5
  <2>6. QED
    BY <2>2, <2>3, <2>4, <2>5
    DEF Next, Sweeper, StartSweep, SkipLease, HubRestart, Tick, vars
<1>3. QED
  BY <1>1, <1>2

\* Init sets up a table of rows, none of which is in anybody's hands.
LEMMA InitTable ==
  ASSUME Init
  PROVE  TypeOK /\ LeaseMatchesPhase
<1>1. NewRow \in Row /\ LegacyPausedRow \in Row
  <2>1. << >> \in Seq(Recall)
    BY EmptySeq
  <2>2. [a \in Agents |-> Never] \in [Agents -> Nat \cup {Never}]
    OBVIOUS
  <2>3. NewRow \in Row
    BY <2>1, <2>2 DEF NewRow, Row, Phases, Attestation
  <2>4. QED
    BY <2>3 DEF LegacyPausedRow, Row, Phases
<1>2. LeaseFits(NewRow) /\ LeaseFits(LegacyPausedRow)
  BY DEF LeaseFits, NewRow, LegacyPausedRow, LEASE_HELD_PHASES
<1>3. QED
  BY <1>1, <1>2 DEF Init, TypeOK, LeaseMatchesPhase, LeaseFits

\* Every state of the queue is a table of rows: whatever is claimed, lapsed,
\* paused, judged and swept in whatever order, no row loses its shape.
THEOREM TypeCorrect == Spec => []TypeOK
<1>1. Init => TypeOK
  BY InitTable
<1>2. TypeOK /\ [Next]_vars => TypeOK'
  BY SweepType, TableType DEF TypeOK
<1>3. QED
  BY <1>1, <1>2, PTL DEF Spec

\* A row carries a lease exactly in the phases that need one.
THEOREM LeaseFollowsPhase == Spec => []LeaseMatchesPhase
<1>1. Init => LeaseMatchesPhase
  BY InitTable
<1>2. TypeOK /\ LeaseMatchesPhase /\ [Next]_vars => LeaseMatchesPhase'
  <2> SUFFICES ASSUME TypeOK, LeaseMatchesPhase, [Next]_vars, NEW x \in Items
               PROVE  LeaseFits(row'[x])
    BY DEF LeaseMatchesPhase, LeaseFits
  <2>1. LeaseFits(row[x]) /\ row[x] \in Row
    BY DEF LeaseMatchesPhase, LeaseFits, TypeOK
  <2>2. QED
    BY <2>1, QueueStepIsRowStep, StepKeepsFit
<1>3. QED
  BY <1>1, <1>2, TypeCorrect, PTL DEF Spec

-----------------------------------------------------------------------------
(* Suspension.                                                             *)

\* SuspensionOnRecord does not say in which phases a row can be suspended; the
\* steps that close rows need it.
SuspensionInv == \A w \in Items : SuspensionFits(w, row[w])

\* The suspender stays on record, and a suspended row stays open.
LEMMA SuspensionInvariant == Spec => []SuspensionInv
<1>1. Init => SuspensionInv
  BY DEF Init, SuspensionInv, SuspensionFits, NewRow, LegacyPausedRow
<1>2. TypeOK /\ SuspensionInv /\ [Next]_vars => SuspensionInv'
  <2> SUFFICES ASSUME TypeOK, SuspensionInv, [Next]_vars, NEW x \in Items
               PROVE  SuspensionFits(x, row'[x])
    BY DEF SuspensionInv
  <2>1. SuspensionFits(x, row[x]) /\ row[x] \in Row
    BY DEF SuspensionInv, TypeOK
  <2>2. QED
    BY <2>1, QueueStepIsRowStep, StepKeepsSuspension
<1>3. QED
  BY <1>1, <1>2, TypeCorrect, PTL DEF Spec

\* The last record of a suspended row is the pause that suspended it, by one
\* entitled to it: what unpause and the disposal matrix read is always there.
THEOREM SuspenderIsOnRecord == Spec => []SuspensionOnRecord
<1>1. SuspensionInv => SuspensionOnRecord
  BY DEF SuspensionInv, SuspensionFits, SuspensionOnRecord
<1>2. QED
  BY <1>1, SuspensionInvariant, PTL

\* No sequence of calls lets an agent end a held row a steward suspended.
THEOREM StewardsOutrankHolders == Spec => []WithdrawalOutranksHolder
<1>1. SuspensionInv => WithdrawalOutranksHolder
  <2> SUFFICES ASSUME NEW w \in Items, NEW a \in Agents \ Stewards, NEW k \in 0 .. issued,
                      SuspensionFits(w, row[w]), row[w].suspended, row[w].lease # None,
                      CanAbandon(row[w], w, a, k)
               PROVE  FALSE
    BY DEF SuspensionInv, WithdrawalOutranksHolder
  <2>1. LastRecall(row[w]).by \in Stewards /\ row[w].recall # << >>
    BY DEF SuspensionFits
  <2>2. suspendedDisposalAllowed(row[w], w, a, k)
    BY DEF CanAbandon, isActivelyWithdrawn
  <2>3. QED
    BY <2>1, <2>2 DEF suspendedDisposalAllowed, lastSuspenderAgentId
<1>2. QED
  BY <1>1, SuspensionInvariant, PTL

-----------------------------------------------------------------------------
(* Closed rows and tokens.                                                 *)

\* A closed row never reopens, changes hands or gains evidence.
THEOREM ClosedStaysClosed == Spec => ClosedIsFinal
<1> DEFINE Final == \A w \in Items : row[w].status \in Terminal =>
                      /\ row'[w].status = row[w].status
                      /\ row'[w].evidence = row[w].evidence
                      /\ row[w].lease # None => SameToken(w)
<1>1. TypeOK /\ SuspensionInv /\ [Next]_vars => Final
  <2> SUFFICES ASSUME TypeOK, SuspensionInv, [Next]_vars, NEW x \in Items,
                      row[x].status \in Terminal
               PROVE  /\ row'[x].status = row[x].status
                      /\ row'[x].evidence = row[x].evidence
                      /\ row[x].lease # None => SameToken(x)
    OBVIOUS
  <2>1. SuspensionFits(x, row[x]) /\ row[x] \in Row
    BY DEF SuspensionInv, TypeOK
  <2>2. QED
    BY <2>1, QueueStepIsRowStep, StepKeepsClosed DEF SameToken
<1> HIDE DEF Final
<1>2. TypeOK /\ SuspensionInv /\ [Next]_vars => [Final]_vars
  BY <1>1
<1>3. Spec => [][Final]_vars
  BY <1>2, TypeCorrect, SuspensionInvariant, PTL DEF Spec
<1>4. QED
  BY <1>3 DEF Final, ClosedIsFinal

-----------------------------------------------------------------------------
(* Gates, the record and withdrawal.                                       *)

GateClosed(c) == row[c].status \in {"done", "abandoned"}

\* A closed row stays closed, so a gate that was met stays met.
LEMMA GatesStayMet ==
  ASSUME TypeOK, SuspensionInv, [Next]_vars, NEW c \in Items, GateClosed(c)
  PROVE  GateClosed(c)'
<1>1. row[c].status \in Terminal
  BY DEF GateClosed, Terminal
<1>2. row'[c].status = row[c].status
  BY <1>1, QueueStepIsRowStep, StepKeepsClosed DEF SuspensionInv, TypeOK
<1>3. QED
  BY <1>2 DEF GateClosed

\* Nobody is ever at work on an item, or has finished it, whose dependencies
\* are not closed, however long ago its claim looked at them.
THEOREM DependenciesRemainMet == Spec => []DependenciesStayMet
<1>1. Init => DependenciesStayMet
  BY DEF Init, DependenciesStayMet, NewRow, LegacyPausedRow, LEASE_HELD_PHASES
<1>2. TypeOK /\ SuspensionInv /\ DependenciesStayMet /\ [Next]_vars => DependenciesStayMet'
  <2> SUFFICES ASSUME TypeOK, SuspensionInv, DependenciesStayMet, [Next]_vars, NEW x \in Items,
                      row'[x].status \in LEASE_HELD_PHASES \cup {"done"}, NEW c \in DependsOn[x]
               PROVE  GateClosed(c)'
    BY DEF DependenciesStayMet, GateClosed
  <2>1. c \in Items
    BY SetsAssumption
  <2>2. CASE row[x].status \in LEASE_HELD_PHASES \cup {"done"}
    BY <2>1, <2>2, GatesStayMet DEF DependenciesStayMet, GateClosed
  <2>3. CASE row[x].status \notin LEASE_HELD_PHASES \cup {"done"}
    <3>1. PICK w \in Items, a \in Agents : Claim(w, a)
      BY <2>3, QueueStepIsOtherStep, StepKeepsUnworked DEF TypeOK
    <3>2. w = x
      BY <2>3, <3>1, PutChanges DEF Claim, TypeOK
    <3>3. unmetDependencies(x) = {}
      BY <3>1, <3>2 DEF Claim, CanClaim
    <3>4. GateClosed(c)
      BY <3>3 DEF unmetDependencies, classifyGateChild, GateClosed
    <3>5. QED
      BY <2>1, <3>4, GatesStayMet
  <2>4. QED
    BY <2>2, <2>3
<1>3. QED
  BY <1>1, <1>2, TypeCorrect, SuspensionInvariant, PTL DEF Spec

\* A row is done only with the evidence asked of it, its verifier's pass where it has a
\* gate, and everything it brackets closed, whatever happens to the rows it
\* brackets after the gate was looked at.
THEOREM DoneStaysGated == Spec => []DoneIsGated
<1>1. Init => DoneIsGated
  BY DEF Init, DoneIsGated, NewRow, LegacyPausedRow
<1>2. TypeOK /\ SuspensionInv /\ DoneIsGated /\ [Next]_vars => DoneIsGated'
  <2> SUFFICES ASSUME TypeOK, SuspensionInv, DoneIsGated, [Next]_vars, NEW x \in Items,
                      row'[x].status = "done"
               PROVE  /\ Demand[x] # "nothing" => row'[x].evidence # {}
                      /\ attestationReqsSatisfied(row'[x], x)
                      /\ \A c \in CompletionDependsOn[x] : GateClosed(c)'
    BY DEF DoneIsGated, GateClosed, attestationReqsSatisfied
  <2>1. /\ SuspensionFits(x, row[x])
        /\ row[x] \in Row
        /\ RowStep(x, row[x], row'[x])
        /\ CompletionDependsOn[x] \subseteq Items
    BY QueueStepIsRowStep, SetsAssumption DEF SuspensionInv, TypeOK
  <2>2. CASE row[x].status = "done"
    <3>1. /\ Demand[x] # "nothing" => row[x].evidence # {}
          /\ attestationReqsSatisfied(row[x], x)
          /\ \A c \in CompletionDependsOn[x] : GateClosed(c)
      BY <2>2 DEF DoneIsGated, GateClosed
    <3>2. row'[x].evidence = row[x].evidence
      BY <2>1, <2>2, StepKeepsClosed DEF Terminal
    <3>3. attestationReqsSatisfied(row'[x], x)
      BY <2>1, <2>2, <3>1, StepKeepsPass
    <3>4. QED
      BY <2>1, <3>1, <3>2, <3>3, GatesStayMet
  <2>3. CASE row[x].status # "done"
    <3>1. CASE CompleteStep(x, row[x], row'[x]) /\ pendingChildren(x) = {}
      <4>1. \A c \in CompletionDependsOn[x] : GateClosed(c)
        BY <3>1 DEF pendingChildren, classifyGateChild, GateClosed
      <4>2. QED
        BY <2>1, <2>3, <3>1, <4>1, CompletionIsEarned, GatesStayMet
    <3>2. CASE ~(CompleteStep(x, row[x], row'[x]) /\ pendingChildren(x) = {})
      <4>1. CASE ClaimStep(x, row[x], row'[x]) \/ ExpireStep(row[x], row'[x]) \/ row'[x] = row[x]
        BY <2>1, <2>3, <4>1, OnlyLeavesCloseByVerdict
      <4>2. CASE QueueVerb(x)
        <5>1. now \in Nat
          BY DEF TypeOK
        <5>2. QED
          BY <2>1, <2>3, <3>2, <4>2, <5>1, OnlyLeavesCloseByVerdict
          DEF QueueVerb, RenewStep, UnpauseStep
      <4>3. QED
        BY <4>1, <4>2, QueueStepIsCase
    <3>3. QED
      BY <3>1, <3>2
  <2>4. QED
    BY <2>2, <2>3
<1>3. QED
  BY <1>1, <1>2, TypeCorrect, SuspensionInvariant, PTL DEF Spec

\* A pause takes effect once, however often its request is delivered.
THEOREM PausesTakeEffectOnce == Spec => []PauseTakesEffectOnce
<1>1. Init => PauseTakesEffectOnce
  BY DEF Init, PauseTakesEffectOnce, NewRow, LegacyPausedRow
<1>2. TypeOK /\ PauseTakesEffectOnce /\ [Next]_vars => PauseTakesEffectOnce'
  <2> SUFFICES ASSUME TypeOK, PauseTakesEffectOnce, [Next]_vars, NEW x \in Items
               PROVE  RecordFits(row'[x])
    BY DEF PauseTakesEffectOnce, RecordFits
  <2>1. RecordFits(row[x]) /\ row[x] \in Row
    BY DEF PauseTakesEffectOnce, RecordFits, TypeOK
  <2>2. QED
    BY <2>1, QueueStepIsRowStep, StepKeepsRecord
<1>3. QED
  BY <1>1, <1>2, TypeCorrect, PTL DEF Spec

\* A suspended row is left as it is, reset or abandoned.
THEOREM WithdrawnRowsStayPut == Spec => WithdrawnStaysPut
<1> DEFINE Put0 == \A w \in Items : row[w].suspended =>
       \/ /\ row'[w].status = row[w].status
          /\ row'[w].evidence = row[w].evidence
          /\ row[w].lease = None => row'[w].lease = None
          /\ row[w].lease # None => SameToken(w)
       \/ row'[w].suspended /\ row'[w].status = "ready" /\ row'[w].lease = None /\ row'[w].evidence = {}
       \/ ~row'[w].suspended /\ row'[w].status = "abandoned"
<1>1. TypeOK /\ SuspensionInv /\ [Next]_vars => Put0
  BY QueueStepIsRowStep, StepKeepsWithdrawn DEF SuspensionInv, TypeOK, SameToken
<1> HIDE DEF Put0
<1>2. TypeOK /\ SuspensionInv /\ [Next]_vars => [Put0]_vars
  BY <1>1
<1>3. Spec => [][Put0]_vars
  BY <1>2, TypeCorrect, SuspensionInvariant, PTL DEF Spec
<1>4. QED
  BY <1>3 DEF Put0, WithdrawnStaysPut

-----------------------------------------------------------------------------
(* The sweeper.                                                            *)

\* The time a sweep read is never ahead of the clock.
SweepReadsPast == sweep.at <= now

\* The clock runs on while a sweep works with the time it read.
LEMMA SweepInvariant == Spec => []SweepReadsPast
<1>1. Init => SweepReadsPast
  BY DEF Init, SweepReadsPast
<1>2. TypeOK /\ SweepReadsPast /\ [Next]_vars => SweepReadsPast'
  <2> SUFFICES ASSUME TypeOK, SweepReadsPast, [Next]_vars
               PROVE  SweepReadsPast'
    OBVIOUS
  <2> USE DEF TypeOK, SweepReadsPast
  <2>1. CASE Tick \/ UNCHANGED vars
    BY <2>1 DEF Tick, vars
  <2>2. CASE StartSweep \/ HubRestart
    BY <2>2 DEF StartSweep, HubRestart
  <2>3. ASSUME NEW w \in Items, ExpireLease(w) \/ SkipLease(w)
        PROVE  SweepReadsPast'
    BY <2>3 DEF ExpireLease, SkipLease, SweepWithout
  <2>4. ASSUME NEW w \in Items, NEW a \in Agents, Claim(w, a)
        PROVE  SweepReadsPast'
    BY <2>4 DEF Claim
  <2>5. QED
    BY <2>1, <2>2, <2>3, <2>4, VerbsTouchRowsOnly DEF Next, Sweeper
<1>3. QED
  BY <1>1, <1>2, TypeCorrect, PTL DEF Spec

\* The sweeper takes only leases that have lapsed by now, from rows that are not
\* suspended by now, however old its list and its clock are.
THEOREM SweeperReapsOnlyLapsed == Spec => ReapsOnlyLapsed
<1> DEFINE Reaps == \A w \in Items : Lapse(w) => Expired(row[w], now) /\ ~isParkedFromExecution(row[w])
<1>1. TypeOK /\ SweepReadsPast /\ [Next]_vars => Reaps
  <2> SUFFICES ASSUME TypeOK, SweepReadsPast, [Next]_vars, NEW x \in Items, Lapse(x)
               PROVE  Expired(row[x], now) /\ ~isParkedFromExecution(row[x])
    OBVIOUS
  <2>1. \E w \in Items : ExpireLease(w)
    <3>1. row[x] \in Row /\ row'[x].recall # row[x].recall
      BY DEF Lapse, TypeOK, Row
    <3>2. LastRecall(row'[x]).kind # "pause"
      BY DEF Lapse
    <3>3. ~ClaimStep(x, row[x], row'[x]) /\ ~VerbStep(x, row[x], row'[x])
      BY <3>1, <3>2, VerbsRecordPauses
    <3>4. ~(\E w \in Items, a \in Agents : Claim(w, a))
      BY <3>1, <3>3, QueueClaimIsClaimStep
    <3>5. QED
      BY <3>1, <3>3, <3>4, QueueStepIsVerbStep
  <2>2. PICK w \in Items : ExpireLease(w)
    BY <2>1
  <2>3. w = x
    BY <2>2, PutChanges DEF ExpireLease, Lapse, TypeOK, Row
  <2>4. row[x].lease # None => row[x].lease.expiresAt \in Nat
    BY DEF TypeOK, Row, Lease
  <2>5. QED
    BY <2>2, <2>3, <2>4 DEF ExpireLease, CanExpire, Expired, SweepReadsPast, TypeOK
<1> HIDE DEF Reaps
<1>2. TypeOK /\ SweepReadsPast /\ [Next]_vars => [Reaps]_vars
  BY <1>1
<1>3. Spec => [][Reaps]_vars
  BY <1>2, TypeCorrect, SweepInvariant, PTL DEF Spec
<1>4. QED
  BY <1>3 DEF Reaps, ReapsOnlyLapsed

-----------------------------------------------------------------------------
(* The lease window.                                                       *)

\* The ways a step can leave row x with a lease: the one it had, or one that
\* runs a full window from now because the row was claimed from ready, its lease
\* had not lapsed, or the row was parked.
WindowStep(x) ==
  \/ row'[x].lease = row[x].lease /\ (row[x].suspended => row'[x].suspended)
  \/ row'[x].lease.expiresAt = now + Ttl /\ row[x].status = "ready"
  \/ /\ row'[x].lease.expiresAt = now + Ttl
     /\ CanBumpHeartbeat(row[x], now)
     /\ row'[x].suspended = row[x].suspended
  \/ /\ row'[x].lease.expiresAt = now + Ttl
     /\ isParkedFromExecution(row[x])
     /\ row[x].lease # None /\ row[x].status \in LEASE_HELD_PHASES
  \/ /\ row'[x].lease = row[x].lease
     /\ row[x].lease = None \/ row[x].status \notin LEASE_HELD_PHASES

\* There is no other way to come by a lease or by more time.
LEMMA LeaseWindows ==
  ASSUME TypeOK, [Next]_vars, NEW x \in Items, row'[x].lease # None
  PROVE  WindowStep(x)
<1> USE DEF WindowStep
<1>1. row[x] \in Row /\ (row[x].lease # None => row[x].lease \in Lease) /\ now \in Nat
  BY DEF TypeOK, Row
<1>2. ASSUME NEW w \in Items, NEW a \in Agents, Claim(w, a)
      PROVE  WindowStep(x)
  <2>1. CASE x = w
    <3>1. PICK c \in Baselines(row[x], a, now) : row'[x] = AfterClaim(row[x], a, issued + 1, now, c)
      BY <1>2, <2>1, QueueClaimWrites
    <3>2. row'[x].lease.expiresAt = now + Ttl
      BY <1>1, <3>1 DEF AfterClaim, Row
    <3>3. row[x].status = "ready"
      BY <1>2, <2>1 DEF Claim, CanClaim
    <3>4. QED
      BY <3>2, <3>3
  <2>2. CASE x # w
    BY <1>2, <2>2, QueueClaimWrites
  <2>3. QED
    BY <2>1, <2>2
<1>3. ASSUME NEW w \in Items, ExpireLease(w)
      PROVE  WindowStep(x)
  <2>1. row'[x] = row[x] \/ row'[x] = AfterExpire(row[x], sweep.at)
    BY <1>3, PutChanges DEF ExpireLease, TypeOK
  <2>2. AfterExpire(row[x], sweep.at).lease = None
    BY <1>1 DEF AfterExpire, releaseHold, Row
  <2>3. QED
    BY <2>1, <2>2
<1>4. CASE QueueVerb(x)
  <2>1. CASE WorkStep(row[x], row'[x]) \/ PauseStep(x, row[x], row'[x])
    <3>1. row'[x].lease = row[x].lease /\ (row[x].suspended => row'[x].suspended)
      BY <1>1, <2>1 DEF WorkStep, AfterStart, AfterBlock, AfterResume, PauseStep, AfterPause, Row
    <3>2. QED
      BY <3>1
  <2>2. CASE CompleteStep(x, row[x], row'[x]) \/ AttestStep(x, row[x], row'[x])
    <3>1. row'[x].lease = row[x].lease /\ (row[x].suspended => row'[x].suspended)
      BY <1>1, <2>2 DEF CompleteStep, AfterComplete, AttestStep, AfterAttest, releaseHold, Row
    <3>2. QED
      BY <3>1
  <2>3. CASE CanBumpHeartbeat(row[x], now) /\ row'[x] = AfterRenew(row[x], now)
    <3>1. /\ row'[x].lease = [row[x].lease EXCEPT !.expiresAt = now + Ttl]
          /\ row'[x].suspended = row[x].suspended
      BY <1>1, <2>3 DEF AfterRenew, Row
    <3>2. row'[x].lease.expiresAt = now + Ttl
      BY <1>1, <2>3, <3>1 DEF CanBumpHeartbeat, Lease
    <3>3. QED
      BY <2>3, <3>1, <3>2
  <2>4. ASSUME NEW a \in Agents, CanUnpause(row[x], x, a), row'[x] = AfterUnpause(row[x], now)
        PROVE  WindowStep(x)
    <3>1. row'[x].lease = IF row[x].lease # None /\ row[x].status \in LEASE_HELD_PHASES
                          THEN [row[x].lease EXCEPT !.expiresAt = now + Ttl] ELSE row[x].lease
      BY <1>1, <2>4 DEF AfterUnpause, Row
    <3>2. row[x].lease # None => [row[x].lease EXCEPT !.expiresAt = now + Ttl].expiresAt = now + Ttl
      BY <1>1 DEF Lease
    <3>3. isParkedFromExecution(row[x])
      BY <2>4 DEF CanUnpause
    <3>4. QED
      BY <3>1, <3>2, <3>3
  <2>5. CASE ReleaseStep(row[x], row'[x]) \/ ResetStep(row[x], row'[x])
              \/ AbandonStep(x, row[x], row'[x])
    <3>1. row'[x].lease = None
      BY <1>1, <2>5 DEF ReleaseStep, AfterRelease, ResetStep, AfterReset, AbandonStep,
                        AfterAbandon, releaseHold, Row
    <3>2. QED
      BY <3>1
  <2>6. QED
    BY <1>4, <2>1, <2>2, <2>3, <2>4, <2>5 DEF QueueVerb
<1>5. CASE row'[x] = row[x]
  BY <1>5
<1>6. QED
  BY <1>2, <1>3, <1>4, <1>5, QueueStepIsQueueVerb

\* A lease given out, or given back by an unpause, runs for a full window.
THEOREM LeasesRunFullWindow == Spec => FullWindow
<1> DEFINE Full == \A w \in Items :
       row'[w].lease # None /\ (row[w].lease = None \/ (row[w].suspended /\ ~row'[w].suspended))
         => row'[w].lease.expiresAt >= now + Ttl
<1>1. TypeOK /\ SuspensionInv /\ LeaseMatchesPhase /\ [Next]_vars => Full
  <2> SUFFICES ASSUME TypeOK, SuspensionInv, LeaseMatchesPhase, [Next]_vars, NEW x \in Items,
                      row'[x].lease # None,
                      row[x].lease = None \/ (row[x].suspended /\ ~row'[x].suspended)
               PROVE  row'[x].lease.expiresAt >= now + Ttl
    OBVIOUS
  <2>1. row[x].suspended /\ row[x].lease # None => row[x].status \in LEASE_HELD_PHASES
    BY DEF SuspensionInv, SuspensionFits, LeaseMatchesPhase, LEASE_HELD_PHASES
  <2>2. row'[x].lease.expiresAt = now + Ttl
    BY <2>1, LeaseWindows DEF WindowStep, CanBumpHeartbeat
  <2>3. now + Ttl \in Nat
    BY NumbersAssumption DEF TypeOK
  <2>4. QED
    BY <2>2, <2>3
<1> HIDE DEF Full
<1>2. TypeOK /\ SuspensionInv /\ LeaseMatchesPhase /\ [Next]_vars => [Full]_vars
  BY <1>1
<1>3. Spec => [][Full]_vars
  BY <1>2, TypeCorrect, SuspensionInvariant, LeaseFollowsPhase, PTL DEF Spec
<1>4. QED
  BY <1>3 DEF Full, FullWindow

\* A lapsed lease of a row that is not suspended is never extended.
THEOREM LapsedLeasesStayLapsed == Spec => LapsedStaysLapsed
<1> DEFINE Stays == \A w \in Items :
       Expired(row[w], now) /\ ~row[w].suspended /\ SameToken(w)
         => row'[w].lease.expiresAt = row[w].lease.expiresAt
<1>1. TypeOK /\ LeaseMatchesPhase /\ [Next]_vars => Stays
  <2> SUFFICES ASSUME TypeOK, LeaseMatchesPhase, [Next]_vars, NEW x \in Items,
                      Expired(row[x], now), ~row[x].suspended, SameToken(x)
               PROVE  row'[x].lease.expiresAt = row[x].lease.expiresAt
    OBVIOUS
  <2>1. row[x].lease # None /\ row'[x].lease # None
    BY DEF SameToken
  <2>2. row[x].status \in LEASE_HELD_PHASES \cup {"done"}
    BY <2>1 DEF LeaseMatchesPhase
  <2>3. ~isParkedFromExecution(row[x]) /\ row[x].status # "ready"
    BY <2>2 DEF isParkedFromExecution, LEASE_HELD_PHASES
  <2>4. QED
    BY <2>1, <2>3, LeaseWindows DEF WindowStep, CanBumpHeartbeat
<1> HIDE DEF Stays
<1>2. TypeOK /\ LeaseMatchesPhase /\ [Next]_vars => [Stays]_vars
  BY <1>1
<1>3. Spec => [][Stays]_vars
  BY <1>2, TypeCorrect, LeaseFollowsPhase, PTL DEF Spec
<1>4. QED
  BY <1>3 DEF Stays, LapsedStaysLapsed

-----------------------------------------------------------------------------
(* Baselines and evidence.                                                 *)

\* BaselineIsOwn and EvidenceIsEarned, and what a claim needs to keep them: it
\* dates a first claim with the clock, which no earlier claim is ahead of.
BaselineInv ==
  \A w \in Items :
    /\ BaselineFits(row[w])
    /\ EvidenceFits(w, row[w])
    /\ \A a \in Agents : row[w].joined[a] <= now

\* The clock never runs back, and a claim takes no time.
LEMMA ClockRuns ==
  ASSUME TypeOK, [Next]_vars
  PROVE  now' \in Nat /\ now' >= now /\ ((\E w \in Items, a \in Agents : Claim(w, a)) => now' = now)
<1> USE DEF TypeOK
<1>1. CASE \E w \in Items, a \in Agents : Claim(w, a)
  BY <1>1 DEF Claim
<1>2. CASE Sweeper \/ Tick \/ UNCHANGED vars
  BY <1>2, <1>1 DEF Sweeper, StartSweep, ExpireLease, SkipLease, HubRestart, Tick, vars
<1>3. QED
  BY <1>1, <1>2, VerbsTouchRowsOnly DEF Next

\* Baselines stay the holder's own and evidence stays earned.
LEMMA BaselineInvariant == Spec => []BaselineInv
<1>1. Init => BaselineInv
  <2> SUFFICES ASSUME Init, NEW w \in Items
               PROVE  /\ BaselineFits(row[w])
                      /\ EvidenceFits(w, row[w])
                      /\ \A a \in Agents : row[w].joined[a] <= now
    BY DEF BaselineInv
  <2>1. /\ row[w].lease = None /\ row[w].recall = << >> /\ row[w].evidence = {}
        /\ row[w].joined = [a \in Agents |-> Never] /\ now = 0
    BY DEF Init, NewRow, LegacyPausedRow
  <2>2. QED
    BY <2>1 DEF BaselineFits, EvidenceFits, Never
<1>2. TypeOK /\ BaselineInv /\ [Next]_vars => BaselineInv'
  <2> SUFFICES ASSUME TypeOK, BaselineInv, [Next]_vars, NEW x \in Items
               PROVE  /\ BaselineFits(row'[x])
                      /\ EvidenceFits(x, row'[x])
                      /\ \A a \in Agents : row'[x].joined[a] <= now'
    BY DEF BaselineInv
  <2>1. /\ BaselineFits(row[x]) /\ EvidenceFits(x, row[x])
        /\ \A a \in Agents : row[x].joined[a] <= now
        /\ row[x] \in Row
        /\ now \in Nat /\ now' \in Nat /\ now' >= now
    BY ClockRuns DEF BaselineInv, TypeOK
  <2>2. \A a \in Agents : row[x].joined[a] \in Nat \cup {Never}
    BY <2>1 DEF Row
  <2>3. CASE OtherStep(x, row[x], row'[x])
    <3>1. BaselineFits(row'[x]) /\ EvidenceFits(x, row'[x]) /\ row'[x].joined = row[x].joined
      BY <2>1, <2>3, StepKeepsBaseline, StepKeepsEvidence, StepKeepsJoined
    <3>2. QED
      BY <2>1, <2>2, <3>1 DEF Never
  <2>4. ASSUME NEW a \in Agents, Claim(x, a)
        PROVE  /\ BaselineFits(row'[x])
               /\ EvidenceFits(x, row'[x])
               /\ \A b \in Agents : row'[x].joined[b] <= now'
    <3>1. PICK c \in Baselines(row[x], a, now) : row'[x] = AfterClaim(row[x], a, issued + 1, now, c)
      BY <2>4, QueueClaimWrites
    <3>2. issued + 1 \in Nat /\ now' = now
      BY <2>4, ClockRuns DEF TypeOK
    <3>3. /\ BaselineFits(row'[x])
          /\ \A b \in Agents : row'[x].joined[b] <= now
          /\ \A b, d : HeldSince(row[x], b, d) => HeldSince(row'[x], b, d)
      BY <2>1, <3>1, <3>2, ClaimKeepsBaseline
    <3>4. row'[x].evidence = row[x].evidence
      BY <2>1, <3>1 DEF AfterClaim, Row
    <3>5. EvidenceFits(x, row'[x])
      BY <2>1, <3>3, <3>4 DEF EvidenceFits, Earned
    <3>6. QED
      BY <3>2, <3>3, <3>5
  <2>5. QED
    BY <2>3, <2>4, QueueStepIsOtherStep, QueueClaimWrites DEF OtherStep
<1>3. QED
  BY <1>1, <1>2, TypeCorrect, PTL DEF Spec

\* The freshness baseline of a lease, current or on record, is its holder's own.
THEOREM BaselinesAreOwn == Spec => []BaselineIsOwn
<1>1. BaselineInv => BaselineIsOwn
  BY DEF BaselineInv, BaselineFits, HeldSince, BaselineIsOwn
<1>2. QED
  BY <1>1, BaselineInvariant, PTL

\* Evidence on a row is never all recycled: some piece was produced after its
\* submitter first claimed the row.
THEOREM EvidenceStaysEarned == Spec => []EvidenceIsEarned
<1>1. BaselineInv => EvidenceIsEarned
  BY DEF BaselineInv, EvidenceFits, Earned, HeldSince, EvidenceIsEarned
<1>2. QED
  BY <1>1, BaselineInvariant, PTL

-----------------------------------------------------------------------------
(* The cap on work in progress.                                            *)

InFlight(a) == {x \in Items : /\ row[x].status \in WIP_PHASES
                              /\ HoldsLease(row[x], a)
                              /\ ~isFailedGateSealed(row[x])}

\* The count means something only while the set it counts is finite, which the
\* queue has to preserve too: nothing bounds the number of items.
CapInv == \A a \in Agents : IsFiniteSet(InFlight(a)) /\ Cardinality(InFlight(a)) <= WipCap

\* A step that is no claim adds nothing to anybody's work in progress.
LEMMA OthersKeepInFlight ==
  ASSUME TypeOK, SuspensionInv, [Next]_vars, ~(\E w \in Items, b \in Agents : Claim(w, b)),
         NEW a \in Agents
  PROVE  InFlight(a)' \subseteq InFlight(a)
<1> SUFFICES ASSUME NEW x \in Items, row'[x].status \in WIP_PHASES, HoldsLease(row'[x], a),
                    ~isFailedGateSealed(row'[x])
             PROVE  x \in InFlight(a)
  BY DEF InFlight, HoldsLease, isFailedGateSealed
<1>1. OtherStep(x, row[x], row'[x]) /\ row[x] \in Row /\ SuspensionFits(x, row[x])
  BY QueueStepIsOtherStep DEF TypeOK, SuspensionInv
<1>2. HoldsLease(row[x], a)
  BY <1>1, StepKeepsToken DEF HoldsLease
<1>3. row[x].status \in WIP_PHASES
  <2>1. row[x].status \in LEASE_HELD_PHASES \cup {"done"}
    BY <1>1, StepKeepsUnworked DEF WIP_PHASES
  <2>2. row[x].status # "done"
    BY <1>1, StepKeepsClosed DEF Terminal, RowStep, WIP_PHASES, LEASE_HELD_PHASES
  <2>3. QED
    BY <2>1, <2>2 DEF WIP_PHASES
<1>4. ~isFailedGateSealed(row[x])
  BY <1>1, StepKeepsSeal DEF RowStep
<1>5. QED
  BY <1>2, <1>3, <1>4 DEF InFlight

\* A claim adds its row to its caller's work in progress and to nobody else's.
LEMMA ClaimAddsOne ==
  ASSUME TypeOK, NEW w \in Items, NEW b \in Agents, Claim(w, b), NEW a \in Agents
  PROVE  InFlight(a)' \subseteq IF a = b THEN InFlight(a) \cup {w} ELSE InFlight(a)
<1> SUFFICES ASSUME NEW x \in Items, row'[x].status \in WIP_PHASES, HoldsLease(row'[x], a),
                    ~isFailedGateSealed(row'[x])
             PROVE  x \in IF a = b THEN InFlight(a) \cup {w} ELSE InFlight(a)
  BY DEF InFlight, HoldsLease, isFailedGateSealed
<1>1. CASE x # w
  <2>1. row'[x] = row[x]
    BY <1>1, QueueClaimWrites
  <2>2. QED
    BY <2>1 DEF InFlight
<1>2. CASE x = w
  <2>1. PICK c \in Baselines(row[w], b, now) : row'[w] = AfterClaim(row[w], b, issued + 1, now, c)
    BY QueueClaimWrites
  <2>2. row'[w].lease.holder = b
    BY <2>1 DEF AfterClaim, TypeOK, Row
  <2>3. QED
    BY <1>2, <2>2 DEF HoldsLease
<1>3. QED
  BY <1>1, <1>2

\* No agent ever holds more work than the cap, whatever it blocks, suspends,
\* sends to review and claims again.
THEOREM WipCapIsKept == Spec => []WipCapHolds
<1>1. Init => CapInv
  <2> SUFFICES ASSUME Init, NEW a \in Agents
               PROVE  IsFiniteSet(InFlight(a)) /\ Cardinality(InFlight(a)) <= WipCap
    BY DEF CapInv
  <2>1. InFlight(a) = {}
    BY DEF Init, InFlight, NewRow, LegacyPausedRow, HoldsLease
  <2>2. QED
    BY <2>1, FS_EmptySet, QueueAssumption
<1>2. TypeOK /\ SuspensionInv /\ CapInv /\ [Next]_vars => CapInv'
  <2> SUFFICES ASSUME TypeOK, SuspensionInv, CapInv, [Next]_vars, NEW a \in Agents
               PROVE  IsFiniteSet(InFlight(a)') /\ Cardinality(InFlight(a)') <= WipCap
    BY DEF CapInv
  <2> DEFINE old == InFlight(a)
             new == InFlight(a)'
  <2>1. IsFiniteSet(old) /\ Cardinality(old) \in Nat /\ Cardinality(old) <= WipCap
    BY FS_CardinalityType DEF CapInv
  <2> HIDE DEF old, new
  <2>2. ASSUME new \subseteq old
        PROVE  IsFiniteSet(new) /\ Cardinality(new) <= WipCap
    BY <2>1, <2>2, FS_Subset, FS_CardinalityType, QueueAssumption
  <2>3. ASSUME NEW w \in Items, new \subseteq old \cup {w}, Cardinality(old) < WipCap
        PROVE  IsFiniteSet(new) /\ Cardinality(new) <= WipCap
    <3>1. /\ IsFiniteSet(old \cup {w})
          /\ Cardinality(old \cup {w}) = IF w \in old THEN Cardinality(old) ELSE Cardinality(old) + 1
      BY <2>1, FS_AddElement
    <3>2. IsFiniteSet(old \cup {w}) /\ Cardinality(old \cup {w}) <= WipCap
      BY <2>1, <2>3, <3>1, QueueAssumption
    <3>3. QED
      BY <2>3, <3>2, FS_Subset, FS_CardinalityType, QueueAssumption
  <2>4. ASSUME NEW w \in Items, NEW b \in Agents, Claim(w, b)
        PROVE  IsFiniteSet(new) /\ Cardinality(new) <= WipCap
    <3>1. a = b => Cardinality(old) < WipCap
      BY <2>4 DEF Claim, underCap, inFlightCount, InFlight, old
    <3>2. new \subseteq IF a = b THEN old \cup {w} ELSE old
      BY <2>4, ClaimAddsOne DEF old, new
    <3>3. QED
      BY <2>2, <2>3, <3>1, <3>2
  <2>5. QED
    BY <2>2, <2>4, OthersKeepInFlight DEF old, new
<1>3. CapInv => WipCapHolds
  BY DEF CapInv, InFlight, WipCapHolds, inFlightCount
<1>4. QED
  BY <1>1, <1>2, <1>3, TypeCorrect, SuspensionInvariant, PTL DEF Spec

-----------------------------------------------------------------------------
(* The queue implements Custody: every step of any actor is a step of      *)
(* custody of one item, or changes nothing a user of custody can see.      *)

\* What custody shows of a row.
Held(r) == IF r.lease = None \/ r.status \in Terminal THEN None
           ELSE [agent |-> r.lease.holder, token |-> r.lease.token]

Outcome(r) == IF r.status = "done" THEN "delivered"
              ELSE IF r.status \in Terminal THEN "dropped" ELSE "open"

SameView(r, s) == Held(s) = Held(r) /\ s.evidence = r.evidence /\ Outcome(s) = Outcome(r)

Contributes(w, r, s) ==
  /\ Held(r) # None
  /\ r.evidence \subseteq s.evidence
  /\ \A e \in s.evidence \ r.evidence : e.by = Held(r).agent
  /\ \/ Outcome(s) = Outcome(r) /\ Held(s) = Held(r)
     \/ /\ s.evidence # {} \/ Demand[w] = "nothing"
        /\ Outcome(s) = "delivered" /\ Held(s) = None

Yields(r, s) == Held(s) = None /\ s.evidence \in {r.evidence, {}} /\ Outcome(s) = Outcome(r)

Drops(r, s) == Outcome(s) = "dropped" /\ Held(s) = None /\ s.evidence = r.evidence

-----------------------------------------------------------------------------
(* One row.                                                                *)

\* A row that is open and carries a lease is in somebody's custody.
LEMMA LeaseIsCustody ==
  ASSUME NEW r \in Row, r.lease # None, r.status \notin Terminal
  PROVE  Held(r) # None /\ Held(r).agent = r.lease.holder /\ Held(r).token = r.lease.token
<1>1. r.lease.holder \in Agents /\ r.lease.token \in Nat
  BY DEF Row, Lease
<1>2. QED
  BY <1>1, CustodianAssumption DEF Held

\* A lease that is only extended shows nothing.
LEMMA ExtendingShowsNothing ==
  ASSUME NEW w, NEW r \in Row, NEW s, RenewStep(r, s) \/ UnpauseStep(w, r, s)
  PROVE  SameView(r, s)
<1>1. /\ s.status = r.status /\ s.evidence = r.evidence
      /\ \/ s.lease = r.lease
         \/ r.lease # None /\ \E t \in Nat : s.lease = [r.lease EXCEPT !.expiresAt = t + Ttl]
  BY DEF RenewStep, AfterRenew, CanBumpHeartbeat, UnpauseStep, AfterUnpause, Row
<1>2. r.lease # None => r.lease \in Lease
  BY DEF Row
<1>3. \A t \in Nat : r.lease # None =>
        /\ [r.lease EXCEPT !.expiresAt = t + Ttl] \in Lease
        /\ [r.lease EXCEPT !.expiresAt = t + Ttl].token = r.lease.token
        /\ [r.lease EXCEPT !.expiresAt = t + Ttl].holder = r.lease.holder
  BY <1>2, NumbersAssumption DEF Lease
<1>4. CASE s.lease = r.lease
  BY <1>1, <1>4 DEF SameView, Held, Outcome
<1>5. CASE r.lease # None /\ \E t \in Nat : s.lease = [r.lease EXCEPT !.expiresAt = t + Ttl]
  <2>1. s.lease # None /\ s.lease.token = r.lease.token /\ s.lease.holder = r.lease.holder
    BY <1>3, <1>5, NoneAssumption
  <2>2. QED
    BY <1>1, <1>5, <2>1 DEF SameView, Held, Outcome
<1>6. QED
  BY <1>1, <1>4, <1>5

\* Completing contributes, and delivers only on a record that is not empty where
\* one is asked for.
LEMMA CompletingContributes ==
  ASSUME NEW w, NEW r \in Row, NEW s, CompleteStep(w, r, s)
  PROVE  Outcome(r) = "open" /\ Contributes(w, r, s)
<1>1. PICK a \in Agents, k \in Nat, S \in SUBSET Evidence, friction \in BOOLEAN :
         /\ CanComplete(r, w, a, k, S, {}) /\ \A e \in S : e.by = a
         /\ s = AfterComplete(r, w, S, friction)
  BY DEF CompleteStep
<1>2. /\ r.status \in {"in_progress", "review"} /\ r.lease # None /\ r.lease.holder = a
  BY <1>1 DEF CanComplete, COMPLETABLE_PHASES, assertLease, HoldsToken, HoldsLease
<1>3. /\ s.evidence = r.evidence \cup S /\ s.lease = r.lease
      /\ s.status \in {r.status, "done", "review"}
      /\ s.status = "done" => r.status = "done" \/ evaluateEvidence(r, w, S) = "done"
  BY <1>1 DEF AfterComplete, Row
<1>4. Held(r) # None /\ Held(r).agent = a
  BY <1>2, LeaseIsCustody DEF Terminal
<1>5. s.status = "done" => Held(s) = None /\ Outcome(s) = "delivered"
  BY DEF Held, Outcome, Terminal
<1>6. s.status = "done" => s.evidence # {} \/ Demand[w] = "nothing"
  BY <1>2, <1>3, DoneHasEvidence
<1>7. s.status # "done" => Held(s) = Held(r) /\ Outcome(s) = Outcome(r)
  BY <1>2, <1>3 DEF Held, Outcome, Terminal
<1>8. Outcome(r) = "open"
  BY <1>2 DEF Outcome, Terminal
<1>9. QED
  BY <1>1, <1>2, <1>3, <1>4, <1>5, <1>6, <1>7, <1>8 DEF Contributes

\* A verdict delivers or drops a row in review, or shows nothing.
LEMMA AttestingDecides ==
  ASSUME NEW w, NEW r \in Row, LeaseFits(r), NEW s, AttestStep(w, r, s)
  PROVE  \/ SameView(r, s)
         \/ Outcome(r) = "open" /\ (Contributes(w, r, s) \/ Drops(r, s))
<1>1. PICK v \in Agents, verdict \in {"pass", "fail"} :
         CanAttest(r, w, v, verdict, {}) /\ s = AfterAttest(r, w, v, verdict)
  BY DEF AttestStep
<1>2. s.evidence = r.evidence
  BY <1>1 DEF AfterAttest, releaseHold, Row
<1>3. CASE verdict = "fail"
  <2>1. s.status = "failed_sealed" /\ r.status = "review"
    BY <1>1, <1>3 DEF CanAttest, AfterAttest, releaseHold, Row
  <2>2. QED
    BY <1>2, <2>1 DEF Drops, Held, Outcome, Terminal
<1>4. CASE verdict # "fail" /\ r.status = "review" /\ s.status = "done"
  <2>1. evaluateEvidence(r, w, {}) = "done"
    BY <1>1, <1>4 DEF AfterAttest, Row
  <2>2. r.evidence # {} \/ Demand[w] = "nothing"
    BY <2>1, DoneHasEvidence
  <2>3. Held(r) # None
    BY <1>4, LeaseIsCustody DEF LeaseFits, LEASE_HELD_PHASES, Terminal
  <2>4. QED
    BY <1>2, <1>4, <2>2, <2>3 DEF Contributes, Held, Outcome, Terminal
<1>5. CASE verdict # "fail" /\ ~(r.status = "review" /\ s.status = "done")
  <2>1. s.status = r.status /\ s.lease = r.lease
    BY <1>1, <1>5 DEF AfterAttest, Row
  <2>2. QED
    BY <1>2, <2>1 DEF SameView, Held, Outcome
<1>6. QED
  BY <1>3, <1>4, <1>5

\* What custody shows of the steps of a row that mint no token.
LEMMA RowStepIsCustodyStep ==
  ASSUME NEW w, NEW r \in Row, LeaseFits(r), SuspensionFits(w, r), NEW s, OtherStep(w, r, s)
  PROVE  \/ SameView(r, s)
         \/ Outcome(r) = "open" /\ (Contributes(w, r, s) \/ Yields(r, s) \/ Drops(r, s))
<1> USE DEF Terminal
<1>1. CASE WorkStep(r, s)
  <2>1. /\ s.lease = r.lease /\ s.evidence = r.evidence
        /\ s.status \notin Terminal /\ r.status \notin Terminal
    BY <1>1 DEF WorkStep, CanStart, AfterStart, CanBlock, AfterBlock, CanResume, AfterResume,
                CanSystemUnblock, Row
  <2>2. QED
    BY <2>1 DEF SameView, Held, Outcome
<1>2. CASE PauseStep(w, r, s)
  <2>1. s.lease = r.lease /\ s.evidence = r.evidence /\ s.status = r.status
    BY <1>2 DEF PauseStep, AfterPause, Row
  <2>2. QED
    BY <2>1 DEF SameView, Held, Outcome
<1>3. CASE ReleaseStep(r, s)
  <2>1. /\ s.lease = None /\ s.evidence = r.evidence /\ s.status = "ready"
        /\ r.status \notin Terminal
    BY <1>3 DEF ReleaseStep, CanRelease, RELEASABLE_PHASES, AfterRelease, releaseHold, Row
  <2>2. QED
    BY <2>1 DEF Yields, Held, Outcome
<1>4. CASE ResetStep(r, s)
  <2>1. s.lease = None /\ s.evidence = {} /\ s.status = "ready"
    BY <1>4 DEF ResetStep, AfterReset, releaseHold, Row
  <2>2. r.status \notin Terminal
    BY <1>4 DEF ResetStep, CanReset, isParkedFromExecution, SuspensionFits
  <2>3. QED
    BY <2>1, <2>2 DEF Yields, Held, Outcome
<1>5. CASE AbandonStep(w, r, s)
  <2>1. s.evidence = r.evidence /\ s.status = "abandoned"
    BY <1>5 DEF AbandonStep, AfterAbandon, releaseHold, Row
  <2>2. r.status \notin Terminal
    BY <1>5 DEF AbandonStep, CanAbandon, isActivelyWithdrawn, RELEASABLE_PHASES, SuspensionFits
  <2>3. QED
    BY <2>1, <2>2 DEF Drops, Held, Outcome
<1>6. CASE ExpireStep(r, s)
  <2>1. /\ s.lease = None /\ s.evidence = r.evidence /\ s.status \in {"ready", "abandoned"}
        /\ r.status \notin Terminal
    BY <1>6 DEF ExpireStep, CanExpire, LEASE_HELD_PHASES, AfterExpire, releaseHold, Row
  <2>2. QED
    BY <2>1 DEF Yields, Drops, Held, Outcome
<1>7. CASE s = r
  BY <1>7 DEF SameView
<1>8. QED
  BY <1>1, <1>2, <1>3, <1>4, <1>5, <1>6, <1>7, ExtendingShowsNothing, CompletingContributes,
     AttestingDecides DEF OtherStep, VerbStep

-----------------------------------------------------------------------------
(* The table.                                                              *)

\* A step that is no claim shows on one row at most: only a renewal writes
\* several, and that shows on none.
LEMMA OneRowShows ==
  ASSUME TypeOK, [Next]_vars, ~(\E w \in Items, a \in Agents : Claim(w, a))
  PROVE  \/ \A x \in Items : SameView(row[x], row'[x])
         \/ \E w \in Items : \A x \in Items \ {w} : SameView(row[x], row'[x])
<1> USE DEF TypeOK
<1>1. ASSUME NEW w \in Items, NEW r, Put(w, r)
      PROVE  \A x \in Items \ {w} : SameView(row[x], row'[x])
  BY <1>1, PutChanges DEF SameView
<1>2. ASSUME NEW w \in Items, NEW a \in Agents, NEW k \in Nat, Renew(w, a, k)
      PROVE  \A x \in Items : SameView(row[x], row'[x])
  <2>1. \A x \in Items : row'[x] # row[x] => RenewStep(row[x], row'[x])
    BY <1>2 DEF Renew, RenewStep, CanRenew, CanBumpHeartbeat, assertLease, HoldsToken, HoldsLease
  <2>2. QED
    BY <2>1, ExtendingShowsNothing DEF SameView
<1>3. CASE \E w \in Items, a \in Agents, k \in 1 .. issued : Renew(w, a, k)
  BY <1>2, <1>3
<1>4. CASE \E w \in Items, a \in Agents, k \in 1 .. issued : HolderVerb(w, a, k) /\ ~Renew(w, a, k)
  BY <1>1, <1>4 DEF HolderVerb, Start, Block, Resume, Release, Complete
<1>5. CASE \E w \in Items, a \in Agents : ManagementVerb(w, a)
  BY <1>1, <1>5 DEF ManagementVerb, Pause, Unpause, Reset, Abandon, Attest
<1>6. CASE \E w \in Items : ExpireLease(w) \/ \E d \in Decisions : SystemUnblock(w, d)
  BY <1>1, <1>6 DEF ExpireLease, SystemUnblock
<1>7. CASE UNCHANGED row
  BY <1>7 DEF SameView
<1>8. QED
  BY <1>3, <1>4, <1>5, <1>6, <1>7
  DEF Next, Sweeper, StartSweep, SkipLease, HubRestart, Tick, vars

\* What custody sees of the table is what it sees of the rows.
LEMMA ViewOfTable ==
  /\ \A w \in Items : CustodianOf(w) = Held(row[w]) /\ OutcomeOf(w) = Outcome(row[w])
  /\ \A w \in Items : CustodianOf(w)' = Held(row'[w]) /\ OutcomeOf(w)' = Outcome(row'[w])
  BY DEF CustodianOf, OutcomeOf, Held, Outcome

\* A claim takes custody of an item nobody has, under a fresh token.
LEMMA ClaimTakesCustody ==
  ASSUME TypeOK, LeaseMatchesPhase, NEW w \in Items, NEW a \in Agents, Claim(w, a)
  PROVE  Promise!Take(w, a)
<1>1. PICK c \in Baselines(row[w], a, now) : Put(w, AfterClaim(row[w], a, issued + 1, now, c))
  BY DEF Claim
<1>2. /\ row'[w] = AfterClaim(row[w], a, issued + 1, now, c)
      /\ \A x \in Items \ {w} : row'[x] = row[x]
  BY <1>1, PutChanges DEF TypeOK
<1> DEFINE l == [holder |-> a, token |-> issued + 1, claimedAt |-> c, expiresAt |-> now + Ttl]
<1>3. row[w] \in Row /\ c \in Nat /\ issued \in Nat /\ now \in Nat
  BY BaselineIsTime DEF TypeOK
<1>4. row'[w].lease = l /\ row'[w].status = "claimed" /\ row'[w].evidence = row[w].evidence
  BY <1>2, <1>3 DEF AfterClaim, Row
<1>5. l \in Lease /\ l.holder = a /\ l.token = issued + 1
  BY <1>3, NumbersAssumption DEF Lease
<1> HIDE DEF l
<1>6. row[w].status = "ready" /\ row[w].lease = None
  BY DEF Claim, CanClaim, LeaseMatchesPhase, LEASE_HELD_PHASES
<1>7. CustodianOf(w)' = [agent |-> a, token |-> issued + 1] /\ CustodianOf(w) = None
  BY <1>4, <1>5, <1>6, NoneAssumption DEF CustodianOf, Terminal
<1>8. OutcomeOf(w) = "open" /\ OutcomeOf(w)' = "open"
  BY <1>4, <1>6 DEF OutcomeOf, Terminal
<1>9. \A x \in Items \ {w} : CustodianOf(x)' = CustodianOf(x) /\ OutcomeOf(x)' = OutcomeOf(x)
                             /\ row'[x].evidence = row[x].evidence
  BY <1>2 DEF CustodianOf, OutcomeOf
<1>10. issued' = issued + 1
  BY DEF Claim
<1>11. [x \in Items |-> CustodianOf(x)']
         = [[x \in Items |-> CustodianOf(x)] EXCEPT ![w] = [agent |-> a, token |-> issued + 1]]
  BY <1>7, <1>9
<1>12. /\ [x \in Items |-> row'[x].evidence] = [x \in Items |-> row[x].evidence]
       /\ [x \in Items |-> OutcomeOf(x)'] = [x \in Items |-> OutcomeOf(x)]
  BY <1>4, <1>8, <1>9
<1>13. QED
  BY <1>7, <1>8, <1>10, <1>11, <1>12 DEF Promise!Take, Promise!Open

\* A step that shows on one row is a step of that row's custody.
LEMMA OtherStepIsCustodyStep ==
  ASSUME TypeOK, TypeOK', UNCHANGED issued, NEW w \in Items,
         \A x \in Items \ {w} : SameView(row[x], row'[x]),
         Outcome(row[w]) = "open",
         Contributes(w, row[w], row'[w]) \/ Yields(row[w], row'[w]) \/ Drops(row[w], row'[w])
  PROVE  Promise!Contribute(w) \/ Promise!Yield(w) \/ Promise!Drop(w)
<1> DEFINE cust == [x \in Items |-> CustodianOf(x)]
           rec  == [x \in Items |-> row[x].evidence]
           out  == [x \in Items |-> OutcomeOf(x)]
           cust1 == [x \in Items |-> CustodianOf(x)']
           rec1  == [x \in Items |-> row'[x].evidence]
           out1  == [x \in Items |-> OutcomeOf(x)']
<1>1. \A x \in Items \ {w} : /\ CustodianOf(x)' = CustodianOf(x)
                             /\ OutcomeOf(x)' = OutcomeOf(x)
                             /\ row'[x].evidence = row[x].evidence
  BY ViewOfTable DEF SameView
<1>2. /\ CustodianOf(w) = Held(row[w]) /\ CustodianOf(w)' = Held(row'[w])
      /\ OutcomeOf(w) = Outcome(row[w]) /\ OutcomeOf(w)' = Outcome(row'[w])
  BY ViewOfTable
<1>3. out[w] = "open"
  BY <1>2
<1>4. rec1 \in [Items -> SUBSET Evidence]
  BY DEF TypeOK, Row
<1>5. CASE Contributes(w, row[w], row'[w])
  <2>1. /\ cust[w] # None
        /\ rec[w] \subseteq rec1[w]
        /\ \A x \in Items \ {w} : rec1[x] = rec[x]
        /\ \A e \in rec1[w] \ rec[w] : e.by = cust[w].agent
    BY <1>1, <1>2, <1>5 DEF Contributes
  <2>2. \/ out1 = out /\ cust1 = cust
        \/ /\ rec1[w] # {} \/ Demand[w] = "nothing"
           /\ out1 = [out EXCEPT ![w] = "delivered"]
           /\ cust1 = [cust EXCEPT ![w] = None]
    BY <1>1, <1>2, <1>5 DEF Contributes
  <2>3. QED
    BY <1>3, <1>4, <2>1, <2>2 DEF Promise!Contribute, Promise!Open
<1>6. CASE Yields(row[w], row'[w])
  <2>1. /\ cust1 = [cust EXCEPT ![w] = None]
        /\ rec1 \in {rec, [rec EXCEPT ![w] = {}]}
        /\ out1 = out
    BY <1>1, <1>2, <1>6 DEF Yields
  <2>2. QED
    BY <1>3, <2>1 DEF Promise!Yield, Promise!Open
<1>7. CASE Drops(row[w], row'[w])
  <2>1. /\ cust1 = [cust EXCEPT ![w] = None]
        /\ rec1 = rec
        /\ out1 = [out EXCEPT ![w] = "dropped"]
    BY <1>1, <1>2, <1>7 DEF Drops
  <2>2. QED
    BY <1>3, <2>1 DEF Promise!Drop, Promise!Open
<1>8. QED
  BY <1>5, <1>6, <1>7

\* Every step of the queue is a step of custody or stutters there.
LEMMA QueueStepIsCustodyStep ==
  ASSUME TypeOK, TypeOK', LeaseMatchesPhase, SuspensionInv, [Next]_vars
  PROVE  [Promise!Next]_(Promise!vars)
<1>1. CASE \E w \in Items, a \in Agents : Claim(w, a)
  BY <1>1, ClaimTakesCustody DEF Promise!Next
<1>2. CASE ~(\E w \in Items, a \in Agents : Claim(w, a))
  <2>1. issued' = issued
    BY <1>2, VerbsTouchRowsOnly
    DEF Next, Sweeper, StartSweep, ExpireLease, SkipLease, HubRestart, Tick, vars
  <2>2. \A x \in Items :
          \/ SameView(row[x], row'[x])
          \/ /\ Outcome(row[x]) = "open"
             /\ \/ Contributes(x, row[x], row'[x])
                \/ Yields(row[x], row'[x])
                \/ Drops(row[x], row'[x])
    BY <1>2, QueueStepIsOtherStep, RowStepIsCustodyStep
    DEF TypeOK, LeaseMatchesPhase, LeaseFits, SuspensionInv
  <2>3. CASE \A x \in Items : SameView(row[x], row'[x])
    <3>1. \A x \in Items : /\ CustodianOf(x)' = CustodianOf(x)
                           /\ OutcomeOf(x)' = OutcomeOf(x)
                           /\ row'[x].evidence = row[x].evidence
      BY <2>3, ViewOfTable DEF SameView
    <3>2. QED
      BY <2>1, <3>1 DEF Promise!vars
  <2>4. ASSUME NEW w \in Items, \A x \in Items \ {w} : SameView(row[x], row'[x]),
               ~SameView(row[w], row'[w])
        PROVE  Promise!Next
    BY <2>1, <2>2, <2>4, OtherStepIsCustodyStep DEF Promise!Next
  <2>5. QED
    BY <1>2, <2>3, <2>4, OneRowShows
<1>3. QED
  BY <1>1, <1>2

\* Whatever agents, sweeps and restarts do, the queue keeps exclusive, fenced
\* custody: no two holders, no token twice, nobody but the holder adds to the
\* record, nothing is delivered on an empty one, and closed items stay closed.
THEOREM QueueKeepsCustody == Spec => ImplementsCustody
<1>1. Init => Promise!Init
  BY DEF Init, Promise!Init, CustodianOf, OutcomeOf, NewRow, LegacyPausedRow, Terminal
<1>2. TypeOK /\ TypeOK' /\ LeaseMatchesPhase /\ SuspensionInv /\ [Next]_vars
        => [Promise!Next]_(Promise!vars)
  BY QueueStepIsCustodyStep
<1>3. QED
  BY <1>1, <1>2, TypeCorrect, LeaseFollowsPhase, SuspensionInvariant, PTL
  DEF Spec, ImplementsCustody, Promise!Spec

=============================================================================
