------------------------ MODULE WorkQueueProperties ------------------------
(***************************************************************************)
(* What must hold of the work queue.                                       *)
(***************************************************************************)
EXTENDS WorkQueue

\* Types of the state; the bounds on the counters belong to the model, not here.
TypeOK ==
  /\ row \in [Items -> Row]
  /\ now \in Nat
  /\ issued \in Nat
  /\ sweep \in [at : Nat, due : SUBSET Items]

-----------------------------------------------------------------------------
(* State properties.                                                       *)

\* A row carries a lease exactly while an agent holds it, and keeps the last
\* one once it is done.  Three verbs name a row outside this shape corrupt
\* and every holder verb reads the lease without looking at the phase; each
\* of sixteen actions, from suspension to the seal, has to preserve it.
LeaseMatchesPhase ==
  \A w \in Items : (row[w].lease # None) <=> (row[w].status \in LEASE_HELD_PHASES \cup {"done"})

\* An agent never holds more rows than the cap, whatever sequence of blocking,
\* pausing, unpausing, reviewing and re-claiming it goes through.
WipCapHolds == \A a \in Agents : inFlightCount(a) <= WipCap

\* The last record of a suspended row is the pause that suspended it, made by
\* somebody entitled to it.  Unpause and the disposal matrix read the suspender
\* from there, as there is no field for it: a record appended while the row is
\* suspended would hand its fate to the wrong agent.
SuspensionOnRecord ==
  \A w \in Items : row[w].suspended =>
    /\ row[w].recall # << >>
    /\ LastRecall(row[w]).kind = "pause"
    /\ \/ LastRecall(row[w]).by \in Stewards
       \/ LastRecall(row[w]).by = Creator[w] /\ row[w].status = "ready" /\ row[w].lease = None

\* Once a steward suspends a held row, no agent but a steward can end the row:
\* the matrix's exception for a holder that suspended itself opens no way
\* round a steward's withdrawal.
WithdrawalOutranksHolder ==
  \A w \in Items, a \in Agents \ Stewards, k \in 0 .. issued :
    row[w].suspended /\ row[w].lease # None => ~CanAbandon(row[w], w, a, k)

\* The freshness baseline of a lease is never older than the first claim its
\* holder made on the row, and neither is that of any lease on record: a new
\* holder never inherits a predecessor's.
BaselineIsOwn ==
  \A w \in Items :
    /\ row[w].lease # None =>
         /\ row[w].lease.holder \in executorHistory(row[w])
         /\ row[w].lease.claimedAt >= row[w].joined[row[w].lease.holder]
    /\ \A i \in DOMAIN row[w].recall : row[w].recall[i].holder # None =>
         /\ row[w].recall[i].holder \in executorHistory(row[w])
         /\ row[w].recall[i].claimedAt >= row[w].joined[row[w].recall[i].holder]

\* The evidence of a row, through requeues, returns and resets, is never made
\* up of recycled pieces alone: one was produced after its submitter first
\* claimed the row.  A requirement authored with allowPreClaim asks for no such
\* thing, and neither does an item without a requirement.
EvidenceIsEarned ==
  \A w \in Items : Demand[w] \in {"fresh", "review"} /\ row[w].evidence # {} =>
    \E e \in row[w].evidence : e.by \in executorHistory(row[w]) /\ e.at >= row[w].joined[e.by]

\* A done row has evidence unless none was asked of it, has passed its verifier
\* if it has a gate, and everything it brackets is closed and not failed: also
\* the row that waited in review for its evidence, its verdict, or both.
DoneIsGated ==
  \A w \in Items : row[w].status = "done" =>
    /\ Demand[w] # "nothing" => row[w].evidence # {}
    /\ attestationReqsSatisfied(row[w], w)
    /\ \A c \in CompletionDependsOn[w] : row[c].status \in {"done", "abandoned"}

\* A row somebody has ever been let work on has its dependencies closed and
\* not failed, however long ago they were checked.
DependenciesStayMet ==
  \A w \in Items : row[w].status \in LEASE_HELD_PHASES \cup {"done"} =>
    \A c \in DependsOn[w] : row[c].status \in {"done", "abandoned"}

\* A pause request takes effect at most once, however often it is delivered and
\* whatever happened to the row since.
PauseTakesEffectOnce ==
  \A w \in Items : \A i, j \in DOMAIN row[w].recall :
    row[w].recall[i].op # None /\ row[w].recall[i].op = row[w].recall[j].op => i = j

\* pauseWork: a blocked row without a blocker is a corrupt row.
BlockedNamesItsBlocker ==
  \A w \in Items : row[w].status = "blocked" => row[w].blockedOn # None

-----------------------------------------------------------------------------
(* Action properties.                                                      *)

SameToken(w) == row'[w].lease # None /\ row[w].lease # None /\ row'[w].lease.token = row[w].lease.token

\* A closed row never reopens, changes hands or gains evidence, whatever late
\* call arrives; a done row still carries a lease and a token that matches.
ClosedIsFinal ==
  [][\A w \in Items : row[w].status \in Terminal =>
       /\ row'[w].status = row[w].status
       /\ row'[w].evidence = row[w].evidence
       /\ row[w].lease # None => SameToken(w)]_vars

\* A lease given out or given back runs for a full window from now, though its
\* freshness baseline may lie in the past.
FullWindow ==
  [][\A w \in Items :
       row'[w].lease # None /\ (row[w].lease = None \/ (row[w].suspended /\ ~row'[w].suspended))
         => row'[w].lease.expiresAt >= now + Ttl]_vars

\* A lapsed lease of a row that is not suspended is never extended: neither by
\* its holder nor by the activity of the items it brackets.
LapsedStaysLapsed ==
  [][\A w \in Items :
       Expired(row[w], now) /\ ~row[w].suspended /\ SameToken(w)
         => row'[w].lease.expiresAt = row[w].lease.expiresAt]_vars

\* While a row is suspended it is either left as it is or reset to an unclaimed
\* row without evidence; it leaves suspension as it was or abandoned.
WithdrawnStaysPut ==
  [][\A w \in Items : row[w].suspended =>
       \/ /\ row'[w].status = row[w].status
          /\ row'[w].evidence = row[w].evidence
          /\ row[w].lease = None => row'[w].lease = None
          /\ row[w].lease # None => SameToken(w)
       \/ row'[w].suspended /\ row'[w].status = "ready" /\ row'[w].lease = None /\ row'[w].evidence = {}
       \/ ~row'[w].suspended /\ row'[w].status = "abandoned"]_vars

Lapse(w) == Len(row'[w].recall) > Len(row[w].recall) /\ LastRecall(row'[w]).kind = "lapse"

\* The sweeper takes a lease only while it has lapsed and its row is not
\* suspended, whatever was done to the row since it was listed.
ReapsOnlyLapsed ==
  [][\A w \in Items : Lapse(w) => Expired(row[w], now) /\ ~isParkedFromExecution(row[w])]_vars

\* The poison cap's rule: only claim-and-crash lapses count towards it, so a
\* row is abandoned by the sweeper only after that many of those.
PoisonCountsCrashes ==
  [][\A w \in Items : Lapse(w) /\ row'[w].status = "abandoned" => row'[w].lapses >= PoisonCap]_vars

-----------------------------------------------------------------------------
(* The promise the queue keeps, and progress.                              *)

CustodianOf(w) ==
  IF row[w].lease = None \/ row[w].status \in Terminal THEN None
  ELSE [agent |-> row[w].lease.holder, token |-> row[w].lease.token]

OutcomeOf(w) ==
  IF row[w].status = "done" THEN "delivered"
  ELSE IF row[w].status \in Terminal THEN "dropped" ELSE "open"

Promise == INSTANCE Custody WITH
  Unasked   <- {w \in Items : Demand[w] = "nothing"},
  custodian <- [w \in Items |-> CustodianOf(w)],
  record    <- [w \in Items |-> row[w].evidence],
  outcome   <- [w \in Items |-> OutcomeOf(w)],
  minted    <- issued

ASSUME CustodianAssumption == None \notin [agent : Agents, token : Nat]

\* The queue implements exclusive, fenced custody of its items.
ImplementsCustody == Promise!Spec

\* The sweep timer fires for ever, a sweep under way gets through its list, and
\* an IO error on a row does not last for ever; nothing is assumed of agents.
SweepFairness ==
  /\ WF_vars(StartSweep)
  /\ WF_vars(\E w \in Items : ExpireLease(w) \/ SkipLease(w))
  /\ \A w \in Items : SF_vars(ExpireLease(w))

FairSpec == Spec /\ SweepFairness

Lapsed(w) == /\ row[w].status \in LEASE_HELD_PHASES
             /\ Expired(row[w], now)
             /\ ~isParkedFromExecution(row[w])

\* A lease its holder let lapse does not keep the row for ever, though sweeps
\* fail, the hub restarts and the row changes between the list and the write.
LapsedIsReaped == \A w \in Items : Lapsed(w) ~> ~Lapsed(w)

=============================================================================
