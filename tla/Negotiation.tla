---------------------------- MODULE Negotiation ----------------------------
(***************************************************************************)
(* What a thread promises: it is open until the parties agree or it ends   *)
(* without agreement; what they agreed on is fixed at that moment; only    *)
(* what was agreed is carried out; an agreement is settled or has failed,  *)
(* and neither is ever taken back.                                         *)
(***************************************************************************)
EXTENDS Naturals

CONSTANT Terms   \* what can be agreed on

VARIABLES phase, agreed, carriedOut

nvars == <<phase, agreed, carriedOut>>

NInit ==
  /\ phase = "open"
  /\ agreed = {}
  /\ carriedOut = {}

Agree ==
  /\ phase = "open"
  /\ phase' = "agreed"
  /\ agreed' \in (SUBSET Terms) \ {{}}
  /\ UNCHANGED carriedOut

EndOpen ==
  /\ phase = "open"
  /\ phase' = "ended"
  /\ UNCHANGED <<agreed, carriedOut>>

CarryOut ==
  /\ \E i \in agreed : carriedOut' = carriedOut \cup {i}
  /\ UNCHANGED <<phase, agreed>>

Settle ==
  /\ phase \in {"agreed", "failed"}
  /\ phase' = "settled"
  /\ UNCHANGED <<agreed, carriedOut>>

Fail ==
  /\ phase = "agreed"
  /\ phase' = "failed"
  /\ UNCHANGED <<agreed, carriedOut>>

NNext == Agree \/ EndOpen \/ CarryOut \/ Settle \/ Fail

NSpec == NInit /\ [][NNext]_nvars

=============================================================================
