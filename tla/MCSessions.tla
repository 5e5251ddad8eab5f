----------------------------- MODULE MCSessions -----------------------------
(***************************************************************************)
(* Instances of the agent's sessions for TLC.                              *)
(***************************************************************************)
EXTENDS Sessions

CONSTANTS s1, s2

Someone(role, host) == [role |-> role, host |-> host]

\* The second session is from the same place as the first, from another host,
\* has a token of another role, or hides its host.
TwoCallers ==
  {[s \in Sessions |-> IF s = s1 THEN Someone("engineer", "here") ELSE second] :
     second \in {Someone("engineer", "here"), Someone("engineer", "there"),
                 Someone("architect", "here"), Someone("engineer", None)}}
TwoRoles == {"engineer", "architect"}
TwoHosts == {"here", "there"}

=============================================================================
