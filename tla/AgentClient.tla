---------------------------- MODULE AgentClient ----------------------------
(***************************************************************************)
(* One agent's connection to the hub, seen from the agent:                 *)
(* packages/network-adapter/src/wire/mcp-transport.ts keeps a wire open and*)
(* reopens it when it dies; kernel/mcp-agent-client.ts keeps a session on  *)
(* top of it, numbering the wires it has used, and cycles the wire when the*)
(* hub no longer knows the session; the host that owns the client starts,  *)
(* restarts or stops it.                                                   *)
(*                                                                         *)
(* Everything runs in one event loop, so a step goes from one await to the *)
(* next.  The wire layer tells the session layer by a synchronous callback,*)
(* hence in the same step.  An await is a coroutine's place: loop is       *)
(* reconnectWire, boot is start, cycle is reconnectSession, halt is stop,  *)
(* and runs are the executeSynchronizingPhase of each generation.          *)
(***************************************************************************)
EXTENDS Integers, FiniteSets, FiniteSetsExt

CONSTANTS
  Wires,      \* names for SDK clients; a name is used again once its wire is gone
  MaxFaults,  \* bound on outages, lost wires, failed requests and displacements
  MaxStarts,  \* bound: no start from this generation on
  None        \* null

ASSUME ClientAssumption ==
  /\ Wires \subseteq Nat
  /\ None \notin Wires
  /\ MaxFaults \in Nat /\ MaxStarts \in Nat \ {0}

VARIABLES
  \* McpTransport
  wire,      \* _wireState
  client,    \* the SDK client requests are sent on
  open,      \* the wires created and not closed from this side
  closed,    \* close() was called
  timer,     \* a retry of reconnectWire is scheduled
  loop,
  \* McpAgentClient
  state,     \* _state
  gen,       \* _wireGeneration
  live,      \* wireGenerationLive
  stopped,
  runs,      \* the synchronizing phases under way, by generation
  boot, cycle, halt,
  halted,    \* the code onFatalHalt was last called with
  \* the host and the hub
  restarts,  \* the host starts an unconnected client when it is idle, and never
             \* stops it; other hosts start it once and stop it
  up, alive, \* the hub is reachable; the wires whose session it still has
  bound,     \* the wires whose session registered the agent
  faults

transport == <<wire, client, open, closed, timer>>
session == <<state, gen, live, stopped, runs, halted>>
hub == <<up, alive, bound, faults>>
vars == <<transport, loop, session, boot, cycle, halt, restarts, hub>>

\* Where a coroutine is, and the wire it waits for.
Idle == [at |-> "idle", on |-> None]
Waits(pc) == [at |-> pc, on |-> None]
NoRun == [at |-> "none", on |-> None, boot |-> FALSE]

\* A start, a stop and every reopened wire take a number; the latter two need a
\* fault each, or are one.
Gens == 0 .. MaxStarts + MaxFaults + 1

Init ==
  /\ wire = "disconnected" /\ client = None /\ open = {}
  /\ closed = FALSE /\ timer = FALSE
  /\ loop = Idle /\ boot = Idle /\ cycle = Idle /\ halt = Idle
  /\ state = "disconnected" /\ gen = 0 /\ live = FALSE /\ stopped = FALSE
  /\ runs = [g \in Gens |-> NoRun]
  /\ halted = None
  /\ restarts \in BOOLEAN
  /\ up \in BOOLEAN /\ alive = {} /\ bound = {} /\ faults = 0

TypeOK ==
  LET Place(pcs) == [at : pcs, on : Wires \cup {None}]
  IN /\ wire \in {"disconnected", "connecting", "connected"}
     /\ client \in Wires \cup {None} /\ open \subseteq Wires
     /\ {closed, timer, live, stopped, restarts, up} \subseteq BOOLEAN
     /\ loop \in Place({"idle", "teardown", "create", "bail"})
     /\ boot \in Place({"idle", "create"})
     /\ cycle \in Place({"idle", "teardown", "create", "failed"})
     /\ halt \in Place({"idle", "teardown"})
     /\ state \in {"disconnected", "connecting", "synchronizing", "streaming", "reconnecting"}
     /\ halted \in {None, "rejected", "session_displaced"}
     /\ gen \in Gens
     /\ runs \in [Gens -> [at : {"none", "plain", "enriched", "drain"},
                           on : Wires \cup {None}, boot : BOOLEAN]]
     /\ alive \subseteq Wires /\ bound \subseteq alive
     /\ faults \in 0 .. MaxFaults

-----------------------------------------------------------------------------
(* Wires.                                                                  *)

\* The names nothing refers to; the next SDK client gets one of them.
FreeNames ==
  Wires \ (open \cup {client, loop.on, boot.on, cycle.on} \cup {runs[g].on : g \in Gens})

NewWire == Min(FreeNames)

\* createWire up to its await: the new client is the current one at once.  A
\* bound: none is made while every name is in use.
createWire(w) == FreeNames # {} /\ client' = w /\ open' = open \cup {w}

\* createWire after its await.  Closing a client fails the opening of its wire.
Opened(w) == up /\ w \in open /\ alive' = alive \cup {w} /\ UNCHANGED <<up, bound, faults>>
Unopened(w) == (~up \/ w \notin open) /\ open' = open \ {w} /\ UNCHANGED hub

\* teardownWire up to its await, which lasts a second.
teardownWire == client' = None /\ open' = open \ {client}

\* close up to its await: first the state, then the client, so that the SDK's
\* onclose finds the wire disconnected and leaves it at that.
close ==
  /\ closed' = TRUE /\ timer' = FALSE /\ wire' = "disconnected"
  /\ teardownWire

-----------------------------------------------------------------------------
(* Generations and the synchronizing phase.                                *)

isCurrentWireGeneration_AnyNumber(g) == ~stopped /\ live

isCurrentWireGeneration(g) == ~stopped /\ live /\ g = gen

\* A request of a run goes out on the client of the moment.
Sends(pc, w, b) == [at |-> pc, on |-> w, boot |-> b]

\* activateWireGeneration, then runSynchronizingPhase up to its first await, on
\* wire w; a stopped client activates and synchronizes nothing.
ActivateAndSync(w, b) ==
  /\ gen' = gen + 1 /\ live' = TRUE
  /\ IF stopped
     THEN UNCHANGED <<state, runs>>
     ELSE /\ state' = "synchronizing"
          /\ runs' = [runs EXCEPT ![gen + 1] = Sends("plain", w, b)]
  /\ UNCHANGED <<stopped, halted>>

\* completeSyncInternal
completeSync(g) ==
  state' = IF isCurrentWireGeneration(g) /\ state = "synchronizing" THEN "streaming" ELSE state

End(g) == runs' = [runs EXCEPT ![g] = NoRun]
Goto(g, pc) == runs' = [runs EXCEPT ![g] = Sends(pc, client, runs[g].boot)]

\* The catch of executeSynchronizingPhase for the current generation: a first
\* boot gives up, a reconnect streams all the same.
SyncFails(g) ==
  IF runs[g].boot THEN state' = "disconnected" ELSE completeSync(g)

\* The run of an obsolete generation ends without effect.
Inert(g) == ~isCurrentWireGeneration(g) /\ End(g) /\ UNCHANGED state

Answers(g) == up /\ runs[g].on \in open \cap alive

\* The hub answers the request of a run.  Registration takes effect at the hub
\* whatever has become of the generation meanwhile.
SyncAnswered(g) ==
  /\ Answers(g)
  /\ \/ runs[g].at = "plain" /\ isCurrentWireGeneration(g) /\ Goto(g, "enriched") /\ UNCHANGED state
     \/ runs[g].at = "enriched" /\ isCurrentWireGeneration(g) /\ Goto(g, "drain") /\ UNCHANGED state
     \/ runs[g].at \in {"plain", "enriched"} /\ Inert(g)
     \/ runs[g].at = "drain" /\ End(g) /\ completeSync(g)
  /\ bound' = IF runs[g].at = "enriched" THEN bound \cup {runs[g].on} ELSE bound
  /\ UNCHANGED <<gen, live, stopped, halted, transport, loop, boot, cycle, halt,
                 restarts, up, alive, faults>>

\* A request of a run fails: its wire is gone, or for once.  Only the plain
\* registration ends the run; performHandshake and performStateSync go on.
SyncRequestFails(g) ==
  /\ \/ ~Answers(g) /\ UNCHANGED faults
     \/ Answers(g) /\ faults < MaxFaults /\ faults' = faults + 1
  /\ \/ runs[g].at = "plain" /\ isCurrentWireGeneration(g) /\ End(g) /\ SyncFails(g)
     \/ runs[g].at = "enriched" /\ isCurrentWireGeneration(g) /\ Goto(g, "drain") /\ UNCHANGED state
     \/ runs[g].at \in {"plain", "enriched"} /\ Inert(g)
     \/ runs[g].at = "drain" /\ End(g) /\ completeSync(g)
  /\ UNCHANGED <<gen, live, stopped, halted, transport, loop, boot, cycle, halt,
                 restarts, up, alive, bound>>

\* The hub rejects the registration for good (role mismatch, thrashing): the
\* host is told to halt and the run ends as if its first request had failed.
Rejected(g) ==
  /\ Answers(g) /\ runs[g].at = "enriched" /\ isCurrentWireGeneration(g)
  /\ faults < MaxFaults /\ faults' = faults + 1
  /\ halted' = "rejected"
  /\ End(g) /\ SyncFails(g)
  /\ UNCHANGED <<gen, live, stopped, transport, loop, boot, cycle, halt,
                 restarts, up, alive, bound>>

\* onHandshakeComplete, with which some hosts claim the session, throws after the
\* registration took effect.
HookFails(g) ==
  /\ ~restarts
  /\ Answers(g) /\ runs[g].at = "enriched" /\ isCurrentWireGeneration(g)
  /\ faults < MaxFaults /\ faults' = faults + 1
  /\ bound' = bound \cup {runs[g].on}
  /\ End(g) /\ SyncFails(g)
  /\ UNCHANGED <<gen, live, stopped, halted, transport, loop, boot, cycle, halt,
                 restarts, up, alive>>

-----------------------------------------------------------------------------
(* reconnectWire                                                           *)

\* reconnectWire up to the await of teardownWire.  The session layer hears
\* "reconnecting" unless it was stopped.
reconnectWire ==
  /\ loop.at = "idle" /\ ~closed
  /\ wire' = "connecting" /\ teardownWire
  /\ loop' = Waits("teardown")
  /\ IF stopped THEN UNCHANGED <<live, state>>
     ELSE live' = FALSE /\ state' = "reconnecting"
  /\ UNCHANGED <<closed, gen, stopped, runs, halted, boot, cycle, halt, restarts, hub>>

\* onclose, onerror, a failed heartbeat or a silent stream tell of a dead wire.
WireDies ==
  /\ wire = "connected"
  /\ \E w \in open : w \notin alive
  /\ reconnectWire
  /\ UNCHANGED timer

RetryTimer == timer /\ timer' = FALSE /\ reconnectWire

LoopCreates ==
  /\ loop.at = "teardown"
  /\ createWire(NewWire)
  /\ loop' = [at |-> "create", on |-> NewWire]
  /\ UNCHANGED <<wire, closed, timer, session, boot, cycle, halt, restarts, hub>>

\* The new wire is up, unless close() was called meanwhile.
LoopOpens ==
  /\ loop.at = "create" /\ Opened(loop.on)
  /\ \/ /\ closed
        /\ teardownWire
        /\ loop' = Waits("bail")
        /\ UNCHANGED <<wire, session>>
     \/ /\ ~closed
        /\ wire' = "connected"
        /\ loop' = Idle
        /\ IF stopped THEN UNCHANGED session ELSE ActivateAndSync(client, FALSE)
        /\ UNCHANGED <<client, open>>
  /\ UNCHANGED <<closed, timer, boot, cycle, halt, restarts>>

LoopBails ==
  /\ loop.at = "bail"
  /\ loop' = Idle /\ wire' = "disconnected"
  /\ UNCHANGED <<client, open, closed, timer, session, boot, cycle, halt, restarts, hub>>

LoopFails_NoTimer ==
  /\ loop.at = "create" /\ Unopened(loop.on)
  /\ loop' = Idle /\ wire' = "disconnected"
  /\ UNCHANGED <<timer, client, closed, session, boot, cycle, halt, restarts>>

\* scheduleReconnectTimer
LoopFails ==
  /\ loop.at = "create" /\ Unopened(loop.on)
  /\ loop' = Idle /\ wire' = "disconnected"
  /\ timer' = ~closed
  /\ UNCHANGED <<client, closed, session, boot, cycle, halt, restarts>>

-----------------------------------------------------------------------------
(* start                                                                   *)

Ignored_Never == FALSE

\* connect does nothing unless the wire is disconnected.
Ignored == wire # "disconnected"

\* connect up to its await, for the coroutine that then waits for wire w.
connect(w) == closed' = FALSE /\ wire' = "connecting" /\ createWire(w) /\ UNCHANGED timer

\* The host starts the client.
Start ==
  /\ (restarts /\ gen < MaxStarts) \/ (gen = 0 /\ ~stopped)
  /\ state = "disconnected"
  /\ stopped' = FALSE
  /\ \/ /\ Ignored
        /\ gen' = gen + 1 /\ live' = TRUE /\ state' = "synchronizing"
        /\ runs' = [runs EXCEPT ![gen + 1] = Sends("plain", client, TRUE)]
        /\ UNCHANGED <<transport, boot>>
     \/ /\ ~Ignored
        /\ connect(NewWire)
        /\ state' = "connecting"
        /\ boot' = [at |-> "create", on |-> NewWire]
        /\ UNCHANGED <<gen, live, runs>>
  /\ UNCHANGED <<loop, cycle, halt, halted, restarts, hub>>

BootOpens ==
  /\ boot.at = "create" /\ Opened(boot.on)
  /\ wire' = "connected" /\ boot' = Idle
  /\ ActivateAndSync(client, TRUE)
  /\ UNCHANGED <<client, open, closed, timer, loop, cycle, halt, restarts>>

BootFails ==
  /\ boot.at = "create" /\ Unopened(boot.on)
  /\ wire' = "disconnected" /\ state' = "disconnected" /\ boot' = Idle
  /\ UNCHANGED <<client, closed, timer, loop, gen, live, stopped, runs, halted,
                 cycle, halt, restarts>>

-----------------------------------------------------------------------------
(* reconnectSession                                                        *)

\* The request of a call comes back with session_invalid.
CycleBegins ==
  /\ state \in {"streaming", "synchronizing"}
  /\ wire = "connected" /\ client # None
  /\ up /\ client \notin alive
  /\ live' = FALSE /\ state' = "reconnecting"
  /\ close
  /\ cycle' = Waits("teardown")
  /\ UNCHANGED <<loop, gen, stopped, runs, halted, boot, halt, restarts, hub>>

\* The wire was closed a second ago and nothing has opened it since.
CycleReopens ==
  /\ cycle.at = "teardown" /\ ~Ignored
  /\ connect(NewWire)
  /\ cycle' = [at |-> "create", on |-> NewWire]
  /\ UNCHANGED <<session, loop, boot, halt, restarts, hub>>

CycleOpens ==
  /\ cycle.at = "create" /\ Opened(cycle.on)
  /\ wire' = "connected" /\ cycle' = Idle
  /\ ActivateAndSync(client, FALSE)
  /\ UNCHANGED <<client, open, closed, timer, loop, boot, halt, restarts>>

\* connect throws, and so does the call: nothing is left that would try again.
CycleFails ==
  /\ cycle.at = "create" /\ Unopened(cycle.on)
  /\ wire' = "disconnected" /\ cycle' = Waits("failed")
  /\ UNCHANGED <<client, closed, timer, loop, session, boot, halt, restarts>>

-----------------------------------------------------------------------------
(* stop                                                                    *)

\* stop up to its await.
stop ==
  /\ stopped' = TRUE /\ live' = FALSE /\ gen' = gen + 1
  /\ close
  /\ halt' = Waits("teardown")
  /\ UNCHANGED <<loop, state, runs, boot, cycle, restarts>>

Stop == ~restarts /\ ~stopped /\ gen > 0 /\ stop /\ UNCHANGED <<halted, hub>>

\* The hub gave the agent to a newer session and closes this one after saying so.
Displaced ==
  /\ ~stopped /\ client \in open \cap bound
  /\ faults < MaxFaults /\ faults' = faults + 1
  /\ halted' = "session_displaced"
  /\ stop
  /\ alive' = alive \ {client} /\ bound' = bound \ {client}
  /\ UNCHANGED up

StopEnds ==
  /\ halt.at = "teardown"
  /\ halt' = Idle /\ state' = "disconnected"
  /\ UNCHANGED <<transport, loop, gen, live, stopped, runs, halted, boot, cycle, restarts, hub>>

-----------------------------------------------------------------------------
(* The hub.                                                                *)

Client == <<transport, loop, session, boot, cycle, halt, restarts>>

HubDown ==
  /\ up /\ faults < MaxFaults
  /\ up' = FALSE /\ alive' = {} /\ bound' = {} /\ faults' = faults + 1
  /\ UNCHANGED Client

HubUp == ~up /\ up' = TRUE /\ UNCHANGED <<Client, alive, bound, faults>>

\* A stream breaks, or the hub prunes the session.
LoseWire(w) ==
  /\ w \in alive /\ faults < MaxFaults
  /\ alive' = alive \ {w} /\ bound' = bound \ {w} /\ faults' = faults + 1
  /\ UNCHANGED <<Client, up>>

-----------------------------------------------------------------------------
Reconnect == LoopCreates \/ LoopOpens \/ LoopBails \/ LoopFails
Boot == BootOpens \/ BootFails
Cycle == CycleReopens \/ CycleOpens \/ CycleFails
Sync(g) == SyncAnswered(g) \/ SyncRequestFails(g)

Next ==
  \/ WireDies \/ RetryTimer \/ Reconnect
  \/ Start \/ Boot
  \/ CycleBegins \/ Cycle
  \/ Stop \/ Displaced \/ StopEnds
  \/ \E g \in Gens : Sync(g) \/ Rejected(g) \/ HookFails(g)
  \/ HubDown \/ HubUp \/ \E w \in Wires : LoseWire(w)

Spec == Init /\ [][Next]_vars

\* Awaits return, timers fire, the heartbeat finds a dead wire, and the hub
\* comes back; nothing makes a host start or stop a client, or an agent call.
FairSpec ==
  /\ Spec
  /\ WF_vars(WireDies) /\ WF_vars(RetryTimer) /\ WF_vars(Reconnect)
  /\ WF_vars(Boot) /\ WF_vars(Cycle) /\ WF_vars(StopEnds) /\ WF_vars(HubUp)
  /\ \A g \in Gens : WF_vars(Sync(g))

-----------------------------------------------------------------------------
(* Properties.                                                             *)

\* A session that takes calls has its wire, through reconnects, cycles, restarts
\* and late coroutines: it is connected, not closed, and no cycle is about to
\* replace it.  And no wire is left behind: whatever is open is the one requests
\* are sent on, and a cycle that reopens the wire finds it closed.
SessionHasOneWire ==
  /\ open \subseteq {client}
  /\ cycle.at = "teardown" => ~Ignored
  /\ state \in {"streaming", "synchronizing"} /\ ~stopped =>
       /\ wire = "connected" /\ client \in open /\ ~closed
       /\ cycle.at \in {"idle", "failed"}

\* The client becomes ready only by a run whose last request went out on the
\* wire it is ready on; the late end of an older generation makes it nothing.
ReadyOnItsOwnWire ==
  [][state' = "streaming" /\ state # "streaming"
       => \E g \in Gens : /\ runs[g].at # "none" /\ runs'[g].at = "none"
                          /\ runs[g].on = client]_vars

Connected == state = "streaming" /\ wire = "connected" /\ client \in open \cap alive

\* Once the faults are over the client is connected for good, unless it was
\* stopped, its first boot failed, or a cycle found the hub away: then nothing
\* tries again, see CycleFails.
Reconnects ==
  <>[](Connected \/ state = "disconnected" \/ (cycle.at = "failed" /\ state = "reconnecting"))

\* A client that was displaced by a newer session of its agent does not come
\* back and take the agent from it.
DisplacedNeverReturns ==
  [][halted = "session_displaced" => ~(state # "streaming" /\ state' = "streaming")]_vars

=============================================================================
