------------------------------ MODULE Custody ------------------------------
(***************************************************************************)
(* What the work queue promises its agents, without leases, phases, clocks *)
(* or suspension: an item that is open is in the custody of at most one    *)
(* agent at a time; custody is never handed over, it ends and a new one    *)
(* begins; each custody bears a token that was never used before; only the *)
(* custodian adds to the record of the work; an item is delivered on a     *)
(* record that is not empty unless no record was asked for; an item that   *)
(* is closed stays closed.                                                 *)
(***************************************************************************)
EXTENDS Integers

CONSTANTS
  Items, Agents, None, Evidence,
  Unasked      \* the items delivered without a record

VARIABLES
  custodian,   \* who has the item: [agent, token] or None
  record,      \* the evidence the item's delivery will be judged on
  outcome,     \* "open", "delivered" or "dropped"
  minted       \* tokens are 1 .. minted

vars == <<custodian, record, outcome, minted>>

Init ==
  /\ custodian = [w \in Items |-> None]
  /\ record = [w \in Items |-> {}]
  /\ outcome = [w \in Items |-> "open"]
  /\ minted = 0

Open(w) == outcome[w] = "open"

Take(w, a) ==
  /\ Open(w)
  /\ custodian[w] = None
  /\ custodian' = [custodian EXCEPT ![w] = [agent |-> a, token |-> minted + 1]]
  /\ minted' = minted + 1
  /\ UNCHANGED <<record, outcome>>

\* The custodian hands in evidence, and may deliver with it.
Contribute(w) ==
  /\ Open(w)
  /\ custodian[w] # None
  /\ record' \in [Items -> SUBSET Evidence]
  /\ \A x \in Items \ {w} : record'[x] = record[x]
  /\ record[w] \subseteq record'[w]
  /\ \A e \in record'[w] \ record[w] : e.by = custodian[w].agent
  /\ \/ UNCHANGED <<outcome, custodian>>
     \/ /\ record'[w] # {} \/ w \in Unasked
        /\ outcome' = [outcome EXCEPT ![w] = "delivered"]
        /\ custodian' = [custodian EXCEPT ![w] = None]
  /\ UNCHANGED minted

\* Custody ends; the record survives, or is wiped by the management.
Yield(w) ==
  /\ Open(w)
  /\ custodian' = [custodian EXCEPT ![w] = None]
  /\ record' \in {record, [record EXCEPT ![w] = {}]}
  /\ UNCHANGED <<outcome, minted>>

Drop(w) ==
  /\ Open(w)
  /\ outcome' = [outcome EXCEPT ![w] = "dropped"]
  /\ custodian' = [custodian EXCEPT ![w] = None]
  /\ UNCHANGED <<record, minted>>

Next == \E w \in Items :
          \/ \E a \in Agents : Take(w, a)
          \/ Contribute(w)
          \/ Yield(w)
          \/ Drop(w)

Spec == Init /\ [][Next]_vars

=============================================================================
