------------------------------ MODULE Sessions ------------------------------
(***************************************************************************)
(* One agent and the sessions that speak for it: who may register, which   *)
(* session is current, how a newer one displaces it, and what the hub keeps*)
(* of each in memory and in the store.                                     *)
(*                                                                         *)
(* hub/src/entities/agent-repository-substrate.ts writes the agent row by  *)
(* compare-and-swap, so a read and the write that succeeds on it are one   *)
(* step here; a write that loses its compare-and-swap changes nothing.  The*)
(* pointer rows that index the sessions, the map in memory and the         *)
(* transports (hub/src/hub-networking.ts) are written after it, an await   *)
(* at a time, and calls of other sessions fall in between.                 *)
(***************************************************************************)
EXTENDS Integers, Sequences, SequencesExt, FiniteSets

CONSTANTS
  Sessions,      \* MCP session ids; each is used once
  Roles,         \* roles of tokens
  Hosts,         \* hostnames
  Populations,   \* who may be behind the sessions, each with a role and a host or None
  Cap,           \* length of registeredSessions
  MaxClaims,     \* bound on the epochs
  MaxUpsets,     \* bound on the crashes and the pointer-row writes that fail
  None           \* null

ASSUME SessionsAssumption ==
  /\ None \notin Sessions
  /\ Cap \in Nat \ {0}
  /\ None \notin Roles
  /\ Populations \subseteq [Sessions -> [role : Roles, host : Hosts \cup {None}]]

VARIABLES
  who,      \* who is behind each session; it never changes
  row,      \* the Agent row
  pointer,  \* the sessions with an AgentSessionBinding row
  bound,    \* sessionToEngineerId: the sessions the hub resolves from memory
  open,     \* the sessions with a transport
  fresh,    \* session ids not used yet
  call,     \* the call each session has under way
  closing,  \* how far the clean-up of each session is
  raced,    \* calls that write the row have overlapped since the start (history)
  ousted,   \* the sessions displaced since the start before that (history)
  faults, crashes

vars == <<who, row, pointer, bound, open, fresh, call, closing, raced,
          ousted, faults, crashes>>

\* role is None until the agent is first seen; host is the one last recorded.
NoAgent == [role |-> None, host |-> None, current |-> None, epoch |-> 0,
            registered |-> << >>, online |-> FALSE, archived |-> FALSE]

\* add and del are the pointer rows still to write, displaced the session the
\* claim took over from; locked that assertIdentity holds the advisory lock.
Idle == [pc |-> "idle", add |-> {}, del |-> {}, displaced |-> None, locked |-> FALSE]

Init ==
  /\ who \in Populations
  /\ row = NoAgent
  /\ pointer = {} /\ bound = {} /\ open = {}
  /\ fresh = Sessions
  /\ call = [s \in Sessions |-> Idle]
  /\ closing = [s \in Sessions |-> "no"]
  /\ raced = FALSE
  /\ ousted = {}
  /\ faults = 0 /\ crashes = 0

At(s, pc) == call[s].pc = pc

\* Another call, or the clean-up of this session, is under way.
Busy(s) == \/ \E t \in Sessions \ {s} : ~At(t, "idle")
           \/ closing[s] # "no"

-----------------------------------------------------------------------------
(* Pointer rows and the list they index.                                   *)

\* A list never has a session twice: it loses one place.
Others(list, s) ==
  IF Contains(list, s) THEN RemoveAt(list, CHOOSE i \in DOMAIN list : list[i] = s) ELSE list

\* Newest last, the oldest falls out.
appendRegisteredSession(list, s) ==
  LET next == Append(Others(list, s), s)
  IN IF Len(next) > Cap THEN Tail(next) ELSE next

reconcileSessionBindings(before, after) ==
  [add |-> ToSet(after) \ ToSet(before), del |-> ToSet(before) \ ToSet(after)]

-----------------------------------------------------------------------------
(* Handshake.                                                              *)

\* POST /mcp initialize.
Initialize(s) ==
  /\ s \in fresh
  /\ fresh' = fresh \ {s}
  /\ open' = open \cup {s}
  /\ UNCHANGED <<who, row, pointer, bound, call, closing, raced, ousted, faults, crashes>>

\* Whoever knows the name is the agent.
SameIdentity_Name(s) == s \in Sessions

\* The role of the token must be the one the row was created with.  The hosts
\* are compared only if the registration and the record both have one.
SameIdentity(s) ==
  /\ row.role \in {None, who[s].role}
  /\ None \in {row.host, who[s].host} \/ row.host = who[s].host

\* assertIdentity of register_role: under the advisory lock of the name, until
\* the session is bound. It claims nothing and clears a tombstone; its metadata
\* replaces the recorded one, so a registration without a host clears the host.
RegisterRole(s) ==
  /\ s \in open /\ At(s, "idle")
  /\ \A t \in Sessions : ~call[t].locked
  /\ SameIdentity(s)
  /\ LET list == appendRegisteredSession(row.registered, s)
         rows == reconcileSessionBindings(row.registered, list)
     IN /\ row' = [row EXCEPT !.role = IF @ = None THEN who[s].role ELSE @,
                              !.host = who[s].host,
                              !.registered = list, !.archived = FALSE]
        /\ call' = [call EXCEPT ![s] = [Idle EXCEPT !.pc = "mirror", !.add = rows.add,
                                                    !.del = rows.del, !.locked = TRUE]]
  /\ raced' = (raced \/ Busy(s))
  /\ UNCHANGED <<who, pointer, bound, open, fresh, closing, ousted, faults, crashes>>

-----------------------------------------------------------------------------
(* Claiming: claim_session, the first tool call, or the event stream.      *)

\* getAgentForSession: the map, or else the pointer row of an agent that is not archived.
Resolves(s) == s \in bound \/ (s \in pointer /\ row.role # None /\ ~row.archived)

\* claim_session and the call that auto-claims: resolve, then claimSession.
BeginClaim(s) ==
  /\ s \in open /\ At(s, "idle")
  /\ Resolves(s) /\ row.epoch < MaxClaims
  /\ bound' = bound \cup {s}
  /\ call' = [call EXCEPT ![s].pc = "claim"]
  /\ raced' = (raced \/ Busy(s))
  /\ UNCHANGED <<who, row, pointer, open, fresh, closing, ousted, faults, crashes>>

\* The circuit breaker trips on an agent that is online, or both attempts lose
\* their compare-and-swap.
RefuseClaim(s) ==
  /\ At(s, "claim")
  /\ call' = [call EXCEPT ![s] = Idle]
  /\ UNCHANGED <<who, row, pointer, bound, open, fresh, closing, raced, ousted, faults, crashes>>

\* The session that was current loses its registration with its rank.
ClaimSession(s) ==
  /\ At(s, "claim")
  /\ LET displaced == IF row.current = s THEN None ELSE row.current
         list == appendRegisteredSession(Others(row.registered, displaced), s)
         rows == reconcileSessionBindings(row.registered, list)
     IN /\ row' = [row EXCEPT !.current = s, !.epoch = @ + 1, !.registered = list,
                              !.online = TRUE]
        /\ call' = [call EXCEPT ![s].pc = "mirror", ![s].add = rows.add, ![s].del = rows.del,
                                ![s].displaced = displaced]
        /\ ousted' = IF raced THEN {} ELSE (ousted \cup ({displaced} \ {None})) \ {s}
  /\ UNCHANGED <<who, pointer, bound, open, fresh, closing, raced, faults, crashes>>

\* One pointer row after the other; a write that fails is logged.
WriteBinding(s, t) ==
  /\ At(s, "mirror") /\ t \in call[s].add
  /\ \/ pointer' = pointer \cup {t} /\ UNCHANGED faults
     \/ faults + crashes < MaxUpsets /\ faults' = faults + 1 /\ UNCHANGED pointer
  /\ call' = [call EXCEPT ![s].add = @ \ {t}]
  /\ UNCHANGED <<who, row, bound, open, fresh, closing, raced, ousted, crashes>>

DeleteBinding(s, t) ==
  /\ At(s, "mirror") /\ call[s].add = {} /\ t \in call[s].del
  /\ \/ pointer' = pointer \ {t} /\ UNCHANGED faults
     \/ faults + crashes < MaxUpsets /\ faults' = faults + 1 /\ UNCHANGED pointer
  /\ call' = [call EXCEPT ![s].del = @ \ {t}]
  /\ UNCHANGED <<who, row, bound, open, fresh, closing, raced, ousted, crashes>>

Mirrored(s) == At(s, "mirror") /\ call[s].add = {} /\ call[s].del = {}

\* The map: this session is bound and the displaced one forgotten.
Bind(s) ==
  /\ Mirrored(s)
  /\ bound' = (bound \cup {s}) \ {call[s].displaced}
  /\ call' = [call EXCEPT ![s] = IF @.displaced = None THEN Idle ELSE [@ EXCEPT !.pc = "evict"]]
  /\ UNCHANGED <<who, row, pointer, open, fresh, closing, raced, ousted, faults, crashes>>

\* The claim returns and the displaced session is left to time out.
Evict_Leave(s) ==
  /\ At(s, "evict")
  /\ call' = [call EXCEPT ![s] = Idle]
  /\ UNCHANGED <<who, row, pointer, bound, open, fresh, closing, raced, ousted, faults, crashes>>

\* cleanupSession(displaced): the adapter is told, then loses its transport.
\* A clean-up that is already under way does the same.
Evict(s) ==
  /\ At(s, "evict")
  /\ open' = open \ {call[s].displaced}
  /\ bound' = bound \ {call[s].displaced}
  /\ call' = [call EXCEPT ![s] = Idle]
  /\ UNCHANGED <<who, row, pointer, fresh, closing, raced, ousted, faults, crashes>>

-----------------------------------------------------------------------------
(* Clean-up of a session whose transport closed or whose time ran out.     *)

Unpublish(s) ==
  /\ s \in open /\ closing[s] = "no"
  /\ open' = open \ {s}
  /\ closing' = [closing EXCEPT ![s] = "offline"]
  /\ raced' = (raced \/ ~At(s, "idle"))
  /\ UNCHANGED <<who, row, pointer, bound, fresh, call, ousted, faults, crashes>>

\* markAgentOffline takes the session out of the map first.
ForgetBinding(s) ==
  /\ closing[s] = "offline"
  /\ closing' = [closing EXCEPT ![s] = IF s \in bound THEN "write" ELSE "no"]
  /\ bound' = bound \ {s}
  /\ UNCHANGED <<who, row, pointer, open, fresh, call, raced, ousted, faults, crashes>>

\* The agent goes offline only with its current session, and a write that is
\* lost is not tried again; forgetSession ends the clean-up.
MarkAgentOffline(s) ==
  /\ closing[s] = "write"
  /\ closing' = [closing EXCEPT ![s] = "no"]
  /\ row' \in {row, IF row.current = s THEN [row EXCEPT !.online = FALSE] ELSE row}
  /\ bound' = bound \ {s}
  /\ UNCHANGED <<who, pointer, open, fresh, call, raced, ousted, faults, crashes>>

-----------------------------------------------------------------------------
(* Other writers of the row.                                               *)

\* touchAgent: the heartbeat of a tool call finds the agent in the map when the
\* call comes; its write comes later and may find the session cleaned up.
TouchAgent(s) ==
  /\ row.current = s /\ ~row.online
  /\ row' = [row EXCEPT !.online = TRUE]
  /\ UNCHANGED <<who, pointer, bound, open, fresh, call, closing, raced, ousted, faults, crashes>>

\* runAgentReaperTick archives, without looking again, an agent it listed as
\* offline before; an agent is offline when it is created.
ArchiveAgent ==
  /\ row.role # None /\ ~row.archived
  /\ row' = [row EXCEPT !.archived = TRUE]
  /\ UNCHANGED <<who, pointer, bound, open, fresh, call, closing, raced, ousted, faults, crashes>>

\* A restart keeps the rows and nothing else.
Crash ==
  /\ faults + crashes < MaxUpsets
  /\ crashes' = crashes + 1
  /\ bound' = {} /\ open' = {}
  /\ call' = [s \in Sessions |-> Idle]
  /\ closing' = [s \in Sessions |-> "no"]
  /\ raced' = FALSE /\ ousted' = {}
  /\ UNCHANGED <<who, row, pointer, fresh, faults>>

-----------------------------------------------------------------------------
\* A call that is under way goes on.
Proceed(s) ==
  \/ RefuseClaim(s) \/ ClaimSession(s)
  \/ \E t \in Sessions : WriteBinding(s, t) \/ DeleteBinding(s, t)
  \/ Bind(s) \/ Evict(s)

CleanUp(s) == ForgetBinding(s) \/ MarkAgentOffline(s)

Next ==
  \/ \E s \in Sessions : \/ Initialize(s) \/ RegisterRole(s) \/ BeginClaim(s) \/ TouchAgent(s)
                         \/ Proceed(s) \/ Unpublish(s) \/ CleanUp(s)
  \/ ArchiveAgent \/ Crash

\* The event loop runs calls and clean-ups on.
Spec ==
  /\ Init /\ [][Next]_vars
  /\ \A s \in Sessions : WF_vars(Proceed(s)) /\ WF_vars(CleanUp(s))

-----------------------------------------------------------------------------
(* Properties.                                                             *)

Quiet == \A s \in Sessions : At(s, "idle") /\ closing[s] = "no"

\* No session used so far hides its host.
HostsKnown == \A s \in Sessions \ fresh : who[s].host # None

\* A session the hub resolves to the agent, or that is current, comes with the
\* role the agent was created with, across restarts, rehydration from pointer
\* rows and every interleaving of handshakes; as long as nobody registers
\* without a host, it comes from the host on record too.
ResolvesOnlyOwner ==
  \A s \in Sessions :
    s \in bound \cup pointer \/ row.current = s \/ ~At(s, "idle") =>
      /\ who[s].role = row.role
      /\ HostsKnown => who[s].host = row.host

\* A displaced session cannot speak for the agent again: it is neither in the
\* map nor connected, so no late call of it can claim the agent back.
DisplacedStaysOut ==
  Quiet /\ ~raced => ousted \cap (bound \cup open) = {}

\* Every displacement ends with the transport of the old session closed.
DisplacementEnds ==
  \A d \in Sessions : (\E s \in Sessions : call[s].displaced = d) ~> d \notin open

=============================================================================
