-------------------------- MODULE AgentClientProofs --------------------------
(***************************************************************************)
(* Proofs about the agent's client: it has one wire at most, and becomes   *)
(* ready on the wire it has, for any number of wires, faults and starts.   *)
(*                                                                         *)
(* No lock keeps reconnectWire, start and reconnectSession apart: which of *)
(* them may be at work is a matter of the wire's state, the session's      *)
(* state and the timer, and the invariant says how these go together.  A   *)
(* stopped client of a host that never starts it again is freer: its       *)
(* coroutines may still reopen the wire.                                   *)
(***************************************************************************)
EXTENDS AgentClient, NaturalsInduction, WellFoundedInduction, TLAPS

-----------------------------------------------------------------------------
(* Types.                                                                  *)

MaybeWire == Wires \cup {None}
Place(pcs) == [at : pcs, on : MaybeWire]
Runs == [at : {"none", "plain", "enriched", "drain"}, on : MaybeWire, boot : BOOLEAN]

TransportTypeOK ==
  /\ wire \in {"disconnected", "connecting", "connected"}
  /\ client \in MaybeWire /\ open \subseteq Wires
  /\ closed \in BOOLEAN /\ timer \in BOOLEAN
  /\ loop \in Place({"idle", "teardown", "create", "bail"})

SessionTypeOK ==
  /\ boot \in Place({"idle", "create"})
  /\ cycle \in Place({"idle", "teardown", "create", "failed"})
  /\ halt \in Place({"idle", "teardown"})
  /\ state \in {"disconnected", "connecting", "synchronizing", "streaming", "reconnecting"}
  /\ gen \in Nat /\ live \in BOOLEAN /\ stopped \in BOOLEAN /\ restarts \in BOOLEAN
  /\ runs \in [Gens -> Runs]

HubTypeOK == up \in BOOLEAN /\ alive \subseteq Wires /\ bound \subseteq alive

Types == TransportTypeOK /\ SessionTypeOK /\ HubTypeOK

-----------------------------------------------------------------------------
(* The wire.                                                               *)

\* The client still serves its session, or may be started again.
InService == ~stopped \/ restarts

NothingAtWork == loop.at = "idle" /\ boot.at = "idle" /\ cycle.at = "idle" /\ ~timer

OneAtWork ==
  /\ loop.at # "idle" => boot.at = "idle" /\ cycle.at = "idle" /\ ~timer
  /\ boot.at # "idle" => loop.at = "idle" /\ cycle.at = "idle" /\ ~timer
  /\ cycle.at # "idle" => loop.at = "idle" /\ boot.at = "idle" /\ ~timer

WireFits ==
  /\ open \subseteq {client}
  /\ wire = "connected" => NothingAtWork /\ ~closed /\ client \in open
  /\ wire = "connecting" => ~closed /\ ~timer
  /\ wire = "disconnected" => open = {} \/ loop.at = "create"

\* What a coroutine that waits has left of the wire.
LoopFits ==
  loop.at # "idle" =>
    /\ loop.at \in {"teardown", "bail"} => open = {}
    /\ loop.at = "create" => open \subseteq {loop.on}
    /\ InService => ~stopped /\ wire = "connecting" /\ ~(loop.on \in alive)

BootFits ==
  boot.at # "idle" =>
    /\ ~stopped /\ wire = "connecting" /\ state = "connecting"
    /\ open = {boot.on} /\ boot.on \notin alive
    /\ restarts \/ gen = 0

CycleFits ==
  cycle.at # "idle" =>
    /\ cycle.at = "teardown" => wire = "disconnected" /\ open = {}
    /\ cycle.at = "create" =>
         open \subseteq {cycle.on} /\ (cycle.on \in open => wire = "connecting")
    /\ cycle.at = "failed" => wire = "disconnected" /\ open = {}
    /\ InService => ~stopped /\ ~(cycle.at = "create" /\ cycle.on \in alive)

-----------------------------------------------------------------------------
(* The session.                                                            *)

\* The wire follows the session of a client in service.
SessionFits ==
  /\ ~stopped => (live <=> wire = "connected")
  /\ InService => alive \subseteq open
  /\ InService /\ state = "disconnected" => NothingAtWork /\ wire # "connecting"
  /\ ~stopped /\ state \in {"streaming", "synchronizing"} => wire = "connected"
  /\ stopped /\ restarts => wire = "disconnected" /\ NothingAtWork /\ ~live
  /\ halt.at # "idle" => stopped /\ (restarts => state # "disconnected")

\* The run of the current generation is on the wire of the client, no other is.
RunsFit ==
  \A g \in Gens : runs[g].at # "none" =>
    /\ runs[g].on # None
    /\ isCurrentWireGeneration(g) => state = "synchronizing" /\ runs[g].on = client
    /\ ~stopped /\ ~isCurrentWireGeneration(g) => runs[g].on # client

\* A host that starts its client whenever it is disconnected: a first boot that
\* may still fail is not registered.
BoundFits ==
  restarts /\ ~stopped =>
    /\ client \in bound => state # "disconnected"
    /\ \A g \in Gens :
         isCurrentWireGeneration(g) /\ runs[g].at \in {"plain", "enriched"} /\ runs[g].boot
           => client \notin bound

ClientInv ==
  /\ Types
  /\ OneAtWork /\ WireFits /\ LoopFits /\ BootFits /\ CycleFits
  /\ SessionFits /\ RunsFit /\ BoundFits

-----------------------------------------------------------------------------
(* Names.                                                                  *)

\* Min is the least element of any set of numbers that is not empty.
LEMMA MinProperties ==
  ASSUME NEW S, S \subseteq Nat, S # {}
  PROVE  Min(S) \in S
<1>1. PICK x \in S : \A y \in S : ~ (<<y, x>> \in OpToRel(<, Nat))
  BY NatLessThanWellFounded, WFMin
<1>2. \A y \in S : x <= y
  <2> SUFFICES ASSUME NEW y \in S PROVE x <= y OBVIOUS
  <2>1. ~(<<y, x>> \in {ss \in Nat \X Nat : ss[1] < ss[2]})
    BY <1>1 DEF OpToRel
  <2>2. <<y, x>> \in Nat \X Nat BY <1>1
  <2> QED BY <2>1, <2>2
<1> QED BY <1>2 DEF Min

\* A new wire is one that nothing refers to.
LEMMA NewWireIsNew ==
  ASSUME FreeNames # {}
  PROVE  /\ NewWire \in Wires /\ NewWire # None /\ NewWire \notin open
         /\ \A g \in Gens : runs[g].on # NewWire
<1>1. FreeNames \subseteq Nat BY ClientAssumption DEF FreeNames
<1>2. NewWire \in FreeNames BY <1>1, MinProperties DEF NewWire
<1> QED BY <1>2, ClientAssumption DEF FreeNames

-----------------------------------------------------------------------------
(* Runs.                                                                   *)

\* A run that is put in place of another leaves the runs well typed.
LEMMA RunsTyped ==
  ASSUME runs \in [Gens -> Runs], NEW g, NEW r \in Runs
  PROVE  [runs EXCEPT ![g] = r] \in [Gens -> Runs]
  OBVIOUS

\* A run that goes on or ends is a run.
LEMMA RunsReplaced ==
  ASSUME TransportTypeOK, SessionTypeOK, NEW g \in Gens
  PROVE  /\ NoRun \in Runs
         /\ \A pc \in {"plain", "enriched", "drain"} : Sends(pc, client, runs[g].boot) \in Runs
<1>1. runs[g].boot \in BOOLEAN BY DEF SessionTypeOK, Runs
<1> QED BY <1>1 DEF TransportTypeOK, NoRun, Runs, Sends, MaybeWire

\* A new generation starts one run, on wire w; if that is the client's, it is the
\* only one.
LEMMA ActivationKeeps ==
  ASSUME SessionTypeOK, RunsFit, NEW w \in Wires, NEW b \in BOOLEAN, ActivateAndSync(w, b),
         ~stopped => ~live, client' = client, client = w
  PROVE  /\ gen' \in Nat /\ live' /\ live' \in BOOLEAN
         /\ state' \in {"disconnected", "connecting", "synchronizing", "streaming",
                        "reconnecting"}
         /\ runs' \in [Gens -> Runs]
         /\ RunsFit'
<1>1. Sends("plain", w, b) \in Runs /\ Sends("plain", w, b).on = w /\ w # None
  BY ClientAssumption DEF Sends, Runs, MaybeWire
<1>2. runs' \in [Gens -> Runs] BY <1>1, RunsTyped DEF ActivateAndSync, SessionTypeOK
<1>3. \A g \in Gens : isCurrentWireGeneration(g)' <=> ~stopped /\ g = gen + 1
  BY DEF ActivateAndSync, isCurrentWireGeneration
<1>4. RunsFit'
  <2>1. CASE stopped BY <2>1, <1>3 DEF ActivateAndSync, RunsFit
  <2>2. CASE ~stopped
    <3> SUFFICES ASSUME NEW g \in Gens, runs'[g].at # "none"
                 PROVE  /\ runs'[g].on # None
                        /\ isCurrentWireGeneration(g)' => state' = "synchronizing" /\ runs'[g].on = w
                        /\ ~isCurrentWireGeneration(g)' => runs'[g].on # w
      BY <2>2 DEF RunsFit, ActivateAndSync
    <3>1. CASE g = gen + 1
      BY <1>1, <1>3, <2>2, <3>1 DEF ActivateAndSync, SessionTypeOK
    <3>2. CASE g # gen + 1
      <4>1. runs'[g] = runs[g] BY <2>2, <3>2 DEF ActivateAndSync, SessionTypeOK
      <4>2. ~isCurrentWireGeneration(g) BY <2>2 DEF isCurrentWireGeneration
      <4> QED BY <1>3, <2>2, <3>2, <4>1, <4>2 DEF RunsFit
    <3> QED BY <3>1, <3>2
  <2> QED BY <2>1, <2>2
<1> QED BY <1>2, <1>4 DEF ActivateAndSync, SessionTypeOK

-----------------------------------------------------------------------------
(* Every step keeps the invariant.                                         *)

\* A wire that is lost had nothing at work: its loop may begin.
LEMMA WireDiesKeeps ==
  ASSUME ClientInv, WireDies
  PROVE  ClientInv'
<1>1. Types'
  BY ClientAssumption
  DEF ClientInv, Types, TransportTypeOK, SessionTypeOK, HubTypeOK, Place, MaybeWire, WireFits,
      NothingAtWork, OneAtWork, WireDies, reconnectWire, teardownWire, Waits, session, hub,
      Runs
<1>2. OneAtWork'
  BY DEF ClientInv, OneAtWork, WireFits, NothingAtWork, WireDies, reconnectWire
<1>3. WireFits'
  BY DEF ClientInv, WireFits, NothingAtWork, WireDies, reconnectWire, teardownWire
<1>4. LoopFits'
  BY DEF ClientInv, MaybeWire, LoopFits, InService, WireFits, SessionFits, WireDies,
         reconnectWire, teardownWire, hub
<1>5. BootFits'
  BY DEF ClientInv, BootFits, WireDies, reconnectWire, session
<1>6. CycleFits'
  BY DEF ClientInv, CycleFits, InService, WireDies, reconnectWire
<1>7. SessionFits'
  BY DEF ClientInv, SessionFits, InService, WireFits, WireDies, reconnectWire, hub
<1>8. RunsFit'
  BY DEF ClientInv, RunsFit, isCurrentWireGeneration, WireDies, reconnectWire, teardownWire
<1>9. BoundFits'
  BY DEF BoundFits, isCurrentWireGeneration, WireDies, reconnectWire
<1> QED BY <1>1, <1>2, <1>3, <1>4, <1>5, <1>6, <1>7, <1>8, <1>9 DEF ClientInv

\* The timer is not set while anything is at work.
LEMMA RetryTimerKeeps ==
  ASSUME ClientInv, RetryTimer
  PROVE  ClientInv'
<1>1. Types'
  BY ClientAssumption
  DEF ClientInv, Types, TransportTypeOK, SessionTypeOK, HubTypeOK, Place, MaybeWire, WireFits,
      NothingAtWork, OneAtWork, RetryTimer, reconnectWire, teardownWire, Waits, session, hub,
      Runs
<1>2. OneAtWork'
  BY DEF ClientInv, OneAtWork, RetryTimer, reconnectWire, session
<1>3. WireFits'
  BY DEF ClientInv, WireFits, RetryTimer, reconnectWire, teardownWire
<1>4. LoopFits'
  BY DEF ClientInv, Types, TransportTypeOK, SessionTypeOK, HubTypeOK, Place, MaybeWire,
         LoopFits, InService, WireFits, NothingAtWork, OneAtWork, SessionFits, RetryTimer,
         reconnectWire, teardownWire, Waits, session, hub
<1>5. BootFits'
  BY DEF ClientInv, BootFits, OneAtWork, RetryTimer, reconnectWire
<1>6. CycleFits'
  BY DEF ClientInv, CycleFits, OneAtWork, RetryTimer, reconnectWire
<1>7. SessionFits'
  BY DEF ClientInv, Types, TransportTypeOK, SessionFits, NothingAtWork, InService, WireFits,
         RetryTimer, reconnectWire, teardownWire, hub
<1>8. RunsFit'
  BY DEF ClientInv, RunsFit, isCurrentWireGeneration, RetryTimer, reconnectWire, teardownWire
<1>9. BoundFits'
  BY DEF BoundFits, isCurrentWireGeneration, RetryTimer, reconnectWire
<1> QED BY <1>1, <1>2, <1>3, <1>4, <1>5, <1>6, <1>7, <1>8, <1>9 DEF ClientInv

\* The loop finds the old wire closed; the one it makes is the only one.
LEMMA LoopCreatesKeeps ==
  ASSUME ClientInv, LoopCreates
  PROVE  ClientInv'
<1>1. Types'
  BY NewWireIsNew
  DEF ClientInv, Types, TransportTypeOK, SessionTypeOK, HubTypeOK, Place, MaybeWire, WireFits,
      NothingAtWork, OneAtWork, LoopFits, InService, SessionFits, LoopCreates, createWire,
      session, hub, Runs
<1>2. OneAtWork'
  BY DEF ClientInv, OneAtWork, LoopCreates
<1>3. WireFits'
  BY DEF ClientInv, MaybeWire, WireFits, LoopFits, LoopCreates, createWire
<1>4. LoopFits'
  BY DEF ClientInv, MaybeWire, LoopFits, InService, SessionFits, LoopCreates, createWire,
         session, hub
<1>5. BootFits'
  BY DEF ClientInv, BootFits, OneAtWork, LoopCreates
<1>6. CycleFits'
  BY DEF ClientInv, CycleFits, OneAtWork, LoopCreates
<1>7. SessionFits'
  BY DEF ClientInv, SessionFits, NothingAtWork, InService, LoopCreates, createWire, session, hub
<1>8. RunsFit'
  BY NewWireIsNew
  DEF ClientInv, MaybeWire, RunsFit, isCurrentWireGeneration, LoopFits, InService, SessionFits,
      LoopCreates, createWire, session
<1>9. BoundFits'
  BY DEF ClientInv, MaybeWire, BoundFits, isCurrentWireGeneration, LoopFits, InService,
         SessionFits, LoopCreates, session
<1> QED BY <1>1, <1>2, <1>3, <1>4, <1>5, <1>6, <1>7, <1>8, <1>9 DEF ClientInv

\* The loop's wire goes to the session, or is closed if close() was called.
LEMMA LoopOpensKeeps ==
  ASSUME ClientInv, LoopOpens
  PROVE  ClientInv'
<1>1. Types'
  <2>1. TransportTypeOK' /\ HubTypeOK'
    <3>1. loop' \in Place({"idle", "teardown", "create", "bail"})
      <4>1. loop' = Waits("bail") \/ loop' = Idle BY DEF LoopOpens
      <4> QED BY <4>1 DEF Place, MaybeWire, Waits, Idle
    <3>2. client' \in MaybeWire /\ open' \subseteq Wires
      BY DEF ClientInv, Types, TransportTypeOK, MaybeWire, LoopOpens, teardownWire
    <3> QED
      BY <3>1, <3>2 DEF ClientInv, Types, TransportTypeOK, HubTypeOK, LoopOpens, Opened
  <2>2. SessionTypeOK'
    <3>1. CASE UNCHANGED session
      BY <3>1 DEF ClientInv, Types, SessionTypeOK, LoopOpens, session
    <3>2. CASE ~closed /\ ~stopped /\ ActivateAndSync(client, FALSE) /\ UNCHANGED client
      <4>1. client \in Wires /\ ~live
        BY <3>2 DEF ClientInv, Types, TransportTypeOK, WireFits, NothingAtWork, SessionFits,
           LoopOpens, Opened
      <4> QED
        BY <3>2, <4>1, ActivationKeeps
        DEF ClientInv, Types, SessionTypeOK, LoopOpens, ActivateAndSync
    <3> QED BY <3>1, <3>2 DEF LoopOpens
  <2> QED BY <2>1, <2>2 DEF Types
<1>2. OneAtWork'
  BY DEF ClientInv, OneAtWork, LoopOpens
<1>3. WireFits'
  BY DEF ClientInv, WireFits, NothingAtWork, OneAtWork, LoopOpens, Opened, teardownWire, Idle,
         ActivateAndSync, Sends
<1>4. LoopFits'
  BY DEF ClientInv, LoopFits, InService, WireFits, LoopOpens, teardownWire, Idle,
         ActivateAndSync, Sends, session
<1>5. BootFits'
  BY DEF ClientInv, BootFits, OneAtWork, LoopOpens
<1>6. CycleFits'
  BY DEF ClientInv, CycleFits, OneAtWork, LoopOpens
<1>7. SessionFits'
  BY DEF ClientInv, MaybeWire, SessionFits, InService, WireFits, LoopFits, LoopOpens, Opened,
         ActivateAndSync, Sends, session
<1>8. RunsFit'
  <2>1. ~stopped => ~live
    BY DEF ClientInv, WireFits, NothingAtWork, SessionFits, LoopOpens
  <2>2. CASE UNCHANGED session /\ UNCHANGED client
    BY <2>2 DEF ClientInv, RunsFit, isCurrentWireGeneration, session
  <2>3. CASE UNCHANGED session /\ client' = None
    BY <2>1, <2>3 DEF ClientInv, RunsFit, isCurrentWireGeneration, session
  <2>4. CASE ActivateAndSync(client, FALSE) /\ UNCHANGED client
    <3>1. client \in Wires
      BY <2>4 DEF ClientInv, Types, TransportTypeOK, WireFits, LoopOpens, Opened
    <3> QED BY <2>1, <2>4, <3>1, ActivationKeeps DEF ClientInv, Types
  <2> QED BY <2>2, <2>3, <2>4 DEF LoopOpens, teardownWire
<1>9. BoundFits'
  BY DEF ClientInv, Types, SessionTypeOK, MaybeWire, BoundFits, isCurrentWireGeneration,
         WireFits, LoopFits, InService, LoopOpens, ActivateAndSync, Sends
<1> QED BY <1>1, <1>2, <1>3, <1>4, <1>5, <1>6, <1>7, <1>8, <1>9 DEF ClientInv

\* A loop that bails out leaves no wire.
LEMMA LoopBailsKeeps ==
  ASSUME ClientInv, LoopBails
  PROVE  ClientInv'
<1>1. Types'
  BY DEF ClientInv, Types, TransportTypeOK, SessionTypeOK, HubTypeOK, Place, MaybeWire,
         LoopBails, Idle, session, hub
<1>2. OneAtWork'
  BY DEF ClientInv, OneAtWork, LoopBails
<1>3. WireFits'
  BY DEF ClientInv, MaybeWire, WireFits, LoopFits, LoopBails
<1>4. LoopFits'
  BY DEF LoopFits, LoopBails, Idle
<1>5. BootFits'
  BY DEF ClientInv, BootFits, OneAtWork, LoopBails
<1>6. CycleFits'
  BY DEF ClientInv, CycleFits, OneAtWork, LoopBails
<1>7. SessionFits'
  BY DEF ClientInv, SessionFits, NothingAtWork, InService, WireFits, LoopBails, session, hub
<1>8. RunsFit'
  BY DEF ClientInv, RunsFit, isCurrentWireGeneration, LoopBails, session
<1>9. BoundFits'
  BY DEF ClientInv, BoundFits, isCurrentWireGeneration, LoopBails, session, hub
<1> QED BY <1>1, <1>2, <1>3, <1>4, <1>5, <1>6, <1>7, <1>8, <1>9 DEF ClientInv

\* A loop that fails leaves no wire, and the timer unless the client was closed.
LEMMA LoopFailsKeeps ==
  ASSUME ClientInv, LoopFails
  PROVE  ClientInv'
<1>1. Types'
  BY DEF ClientInv, Types, TransportTypeOK, SessionTypeOK, HubTypeOK, Place, MaybeWire,
         WireFits, NothingAtWork, OneAtWork, LoopFits, InService, SessionFits, LoopFails,
         Unopened, Idle, session, hub, Runs
<1>2. OneAtWork'
  BY DEF ClientInv, OneAtWork, LoopFails, Idle, hub
<1>3. WireFits'
  BY DEF ClientInv, MaybeWire, WireFits, LoopFits, LoopFails, Unopened
<1>4. LoopFits'
  BY DEF LoopFits, LoopFails, Idle
<1>5. BootFits'
  BY DEF ClientInv, BootFits, OneAtWork, LoopFails
<1>6. CycleFits'
  BY DEF ClientInv, CycleFits, OneAtWork, LoopFails
<1>7. SessionFits'
  BY DEF ClientInv, MaybeWire, SessionFits, InService, LoopFits, LoopFails, Unopened, session,
         hub
<1>8. RunsFit'
  BY DEF ClientInv, RunsFit, isCurrentWireGeneration, LoopFails, session, hub
<1>9. BoundFits'
  BY DEF ClientInv, BoundFits, isCurrentWireGeneration, LoopFails, Unopened, session, hub
<1> QED BY <1>1, <1>2, <1>3, <1>4, <1>5, <1>6, <1>7, <1>8, <1>9 DEF ClientInv

\* A disconnected client has nothing at work, so a start is alone.
LEMMA StartKeeps ==
  ASSUME ClientInv, Start
  PROVE  ClientInv'
<1>1. Types'
  <2>1. CASE Ignored
    <3>1. Sends("plain", client, TRUE) \in Runs
      BY DEF ClientInv, Types, TransportTypeOK, Sends, Runs
    <3>2. runs' \in [Gens -> Runs]
      BY <2>1, <3>1, RunsTyped DEF ClientInv, Types, SessionTypeOK, Start
    <3>3. TransportTypeOK' /\ HubTypeOK'
      BY <2>1 DEF ClientInv, Types, TransportTypeOK, HubTypeOK, Start, transport, hub
    <3>4. SessionTypeOK'
      <4>4. gen' = gen + 1 BY <2>1 DEF Start
      <4>1. gen' \in Nat BY <4>4 DEF ClientInv, Types, SessionTypeOK
      <4>2. live' \in BOOLEAN /\ stopped' \in BOOLEAN BY <2>1 DEF Start, Ignored
      <4>3. state' = "synchronizing" /\ UNCHANGED <<boot, cycle, halt, restarts>>
        BY <2>1 DEF Start, Ignored
      <4> QED BY <3>2, <4>1, <4>2, <4>3 DEF ClientInv, Types, SessionTypeOK
    <3> QED BY <3>3, <3>4 DEF Types
  <2>2. CASE ~Ignored
    <3>1. NewWire \in Wires
      BY <2>2, NewWireIsNew DEF Start, connect, createWire
    <3>2. TransportTypeOK' /\ HubTypeOK'
      BY <2>2, <3>1 DEF ClientInv, Types, TransportTypeOK, HubTypeOK, MaybeWire, Start, connect,
         createWire, hub
    <3>3. SessionTypeOK'
      <4>4. boot' = [at |-> "create", on |-> NewWire] BY <2>2 DEF Start
      <4>1. boot' \in Place({"idle", "create"}) BY <3>1, <4>4 DEF Place, MaybeWire
      <4>2. state' = "connecting" /\ ~stopped'
            /\ UNCHANGED <<gen, live, runs, cycle, halt, restarts>>
        BY <2>2 DEF Start
      <4>3. stopped' \in BOOLEAN BY DEF Start
      <4> QED BY <4>1, <4>2, <4>3 DEF ClientInv, Types, SessionTypeOK
    <3> QED BY <3>2, <3>3 DEF Types
  <2> QED BY <2>1, <2>2
<1>2. OneAtWork'
  BY DEF ClientInv, MaybeWire, OneAtWork, NothingAtWork, SessionFits, InService, Start,
         connect, Sends
<1>3. WireFits'
  <2>1. InService /\ state = "disconnected"
    BY DEF InService, Start
  <2>2. NothingAtWork /\ wire # "connecting"
    BY <2>1 DEF ClientInv, SessionFits
  <2>3. CASE Ignored /\ UNCHANGED <<transport, boot>>
    BY <2>2, <2>3 DEF ClientInv, WireFits, NothingAtWork, Start, transport
  <2>4. CASE ~Ignored /\ connect(NewWire)
    BY <2>2, <2>4 DEF ClientInv, WireFits, NothingAtWork, Ignored, connect, createWire
  <2> QED BY <2>3, <2>4 DEF Start
<1>4. LoopFits'
  BY DEF ClientInv, LoopFits, InService, Start, Ignored, createWire, Sends, transport, hub
<1>5. BootFits'
  <2>1. InService /\ state = "disconnected"
    BY DEF InService, Start
  <2>2. NothingAtWork /\ wire # "connecting"
    BY <2>1 DEF ClientInv, SessionFits
  <2>3. CASE Ignored /\ UNCHANGED <<transport, boot>>
    BY <2>2, <2>3 DEF BootFits, NothingAtWork
  <2>4. CASE ~Ignored /\ connect(NewWire)
    <3>1. open = {} /\ alive = {}
      BY <2>1, <2>2, <2>4
      DEF ClientInv, Types, TransportTypeOK, WireFits, NothingAtWork, SessionFits, Ignored
    <3>2. ~stopped' /\ wire' = "connecting" /\ state' = "connecting"
      BY <2>4 DEF Start, connect
    <3>4. boot' = [at |-> "create", on |-> NewWire] /\ open' = open \cup {NewWire}
      BY <2>4 DEF Start, connect, createWire
    <3>5. open' = {boot'.on} BY <3>1, <3>4
    <3>3. alive' = {} /\ (restarts' \/ gen' = 0)
      BY <2>4, <3>1 DEF Start, hub
    <3> QED BY <3>2, <3>3, <3>5 DEF BootFits
  <2> QED BY <2>3, <2>4 DEF Start
<1>6. CycleFits'
  BY DEF ClientInv, MaybeWire, CycleFits, InService, NothingAtWork, SessionFits, Start
<1>7. SessionFits'
  BY DEF ClientInv, Types, TransportTypeOK, SessionFits, InService, Start, Ignored, connect,
         createWire, Sends, transport, hub
<1>8. RunsFit'
  BY ClientAssumption, NewWireIsNew
  DEF ClientInv, Types, TransportTypeOK, SessionTypeOK, RunsFit, isCurrentWireGeneration,
      WireFits, SessionFits, InService, Start, Ignored, connect, createWire, Sends, transport
<1>9. BoundFits'
  BY DEF ClientInv, MaybeWire, BoundFits, isCurrentWireGeneration, SessionFits, Start, Ignored,
         Sends, transport, hub
<1> QED BY <1>1, <1>2, <1>3, <1>4, <1>5, <1>6, <1>7, <1>8, <1>9 DEF ClientInv

\* The first wire of a start becomes the session's.
LEMMA BootOpensKeeps ==
  ASSUME ClientInv, BootOpens
  PROVE  ClientInv'
<1>1. Types'
  <2>1. TransportTypeOK' /\ HubTypeOK'
    BY DEF ClientInv, Types, TransportTypeOK, HubTypeOK, BootOpens, Opened
  <2>2. client \in Wires /\ client = boot.on /\ (~stopped => ~live)
    BY ClientAssumption
    DEF ClientInv, Types, TransportTypeOK, OneAtWork, WireFits, NothingAtWork, BootFits,
       SessionFits, BootOpens, Opened
  <2>3. ActivateAndSync(client, TRUE) /\ UNCHANGED client
    BY <2>2 DEF BootOpens
  <2>4. /\ gen' \in Nat /\ live' \in BOOLEAN /\ runs' \in [Gens -> Runs]
        /\ state' \in {"disconnected", "connecting", "synchronizing", "streaming",
                       "reconnecting"}
    BY <2>2, <2>3, ActivationKeeps DEF ClientInv, Types
  <2>5. SessionTypeOK'
    BY <2>4, ClientAssumption
    DEF ClientInv, Types, SessionTypeOK, Place, MaybeWire, Idle, BootOpens,
       ActivateAndSync
  <2> QED BY <2>1, <2>5 DEF Types
<1>2. OneAtWork'
  BY DEF ClientInv, OneAtWork, BootOpens, Sends
<1>3. WireFits'
  BY DEF ClientInv, MaybeWire, WireFits, NothingAtWork, OneAtWork, BootFits, BootOpens, Idle
<1>4. LoopFits'
  BY DEF ClientInv, LoopFits, OneAtWork, BootOpens
<1>5. BootFits'
  BY DEF BootFits, BootOpens, Idle, Sends
<1>6. CycleFits'
  BY DEF ClientInv, CycleFits, OneAtWork, BootOpens
<1>7. SessionFits'
  BY DEF ClientInv, SessionFits, NothingAtWork, InService, BootOpens, Opened, ActivateAndSync,
         Sends
<1>8. RunsFit'
  <2>1. client \in Wires /\ client = boot.on /\ (~stopped => ~live)
    BY ClientAssumption
    DEF ClientInv, Types, TransportTypeOK, OneAtWork, WireFits, NothingAtWork, BootFits,
       SessionFits, BootOpens, Opened
  <2>2. ActivateAndSync(client, TRUE) /\ UNCHANGED client
    BY <2>1 DEF BootOpens
  <2> QED BY <2>1, <2>2, ActivationKeeps DEF ClientInv, Types
<1>9. BoundFits'
  BY DEF ClientInv, Types, TransportTypeOK, SessionTypeOK, HubTypeOK, Place, MaybeWire,
         BoundFits, isCurrentWireGeneration, WireFits, NothingAtWork, OneAtWork, BootFits,
         BootOpens, Opened, Idle, ActivateAndSync, Sends
<1> QED BY <1>1, <1>2, <1>3, <1>4, <1>5, <1>6, <1>7, <1>8, <1>9 DEF ClientInv

\* A start that fails leaves a disconnected client and no wire.
LEMMA BootFailsKeeps ==
  ASSUME ClientInv, BootFails
  PROVE  ClientInv'
<1>1. Types'
  BY DEF ClientInv, Types, TransportTypeOK, SessionTypeOK, HubTypeOK, Place, MaybeWire,
         WireFits, NothingAtWork, OneAtWork, BootFails, Unopened, Idle, hub, Runs
<1>2. OneAtWork'
  BY DEF ClientInv, OneAtWork, BootFails
<1>3. WireFits'
  BY DEF ClientInv, MaybeWire, WireFits, BootFits, BootFails, Unopened
<1>4. LoopFits'
  BY DEF ClientInv, LoopFits, OneAtWork, BootFails
<1>5. BootFits'
  BY DEF BootFits, BootFails, Idle
<1>6. CycleFits'
  BY DEF ClientInv, CycleFits, OneAtWork, BootFails
<1>7. SessionFits'
  BY DEF ClientInv, MaybeWire, SessionFits, NothingAtWork, InService, OneAtWork, BootFits,
         BootFails, Unopened, Idle, hub
<1>8. RunsFit'
  BY DEF ClientInv, MaybeWire, RunsFit, isCurrentWireGeneration, BootFits, BootFails
<1>9. BoundFits'
  BY DEF ClientInv, Types, TransportTypeOK, SessionTypeOK, HubTypeOK, Place, MaybeWire,
         BoundFits, isCurrentWireGeneration, WireFits, NothingAtWork, OneAtWork, BootFits,
         BootFails, Unopened, Idle, hub
<1> QED BY <1>1, <1>2, <1>3, <1>4, <1>5, <1>6, <1>7, <1>8, <1>9 DEF ClientInv

\* A cycle begins on a connected wire, at which nobody else is.
LEMMA CycleBeginsKeeps ==
  ASSUME ClientInv, CycleBegins
  PROVE  ClientInv'
<1>1. Types'
  BY ClientAssumption
  DEF ClientInv, Types, TransportTypeOK, SessionTypeOK, HubTypeOK, Place, MaybeWire,
      CycleBegins, close, teardownWire, Waits, hub
<1>2. OneAtWork'
  BY DEF ClientInv, OneAtWork, WireFits, NothingAtWork, CycleBegins, close
<1>3. WireFits'
  BY DEF ClientInv, WireFits, CycleBegins, close, teardownWire
<1>4. LoopFits'
  BY DEF ClientInv, LoopFits, InService, CycleBegins, close, teardownWire
<1>5. BootFits'
  BY DEF ClientInv, BootFits, CycleBegins
<1>6. CycleFits'
  BY DEF ClientInv, MaybeWire, CycleFits, InService, WireFits, SessionFits, CycleBegins, close,
         teardownWire, hub
<1>7. SessionFits'
  BY DEF ClientInv, SessionFits, InService, CycleBegins, close, teardownWire, hub
<1>8. RunsFit'
  BY DEF ClientInv, RunsFit, isCurrentWireGeneration, CycleBegins, close, teardownWire
<1>9. BoundFits'
  BY DEF BoundFits, isCurrentWireGeneration, CycleBegins
<1> QED BY <1>1, <1>2, <1>3, <1>4, <1>5, <1>6, <1>7, <1>8, <1>9 DEF ClientInv

\* A cycle reopens what it closed.
LEMMA CycleReopensKeeps ==
  ASSUME ClientInv, CycleReopens
  PROVE  ClientInv'
<1>1. Types'
  BY ClientAssumption, NewWireIsNew
  DEF ClientInv, Types, TransportTypeOK, SessionTypeOK, HubTypeOK, Place, MaybeWire, WireFits,
      NothingAtWork, OneAtWork, CycleReopens, Ignored, connect, createWire, session, hub, Runs
<1>2. OneAtWork'
  BY DEF ClientInv, OneAtWork, CycleReopens, connect
<1>3. WireFits'
  BY DEF ClientInv, WireFits, OneAtWork, CycleReopens, Ignored, connect, createWire
<1>4. LoopFits'
  BY DEF ClientInv, LoopFits, OneAtWork, CycleReopens
<1>5. BootFits'
  BY DEF ClientInv, BootFits, CycleReopens, Ignored
<1>6. CycleFits'
  BY DEF ClientInv, MaybeWire, CycleFits, InService, SessionFits, CycleReopens, connect,
         createWire, session, hub
<1>7. SessionFits'
  BY DEF ClientInv, SessionFits, NothingAtWork, InService, CycleReopens, Ignored, connect,
         createWire, session, hub
<1>8. RunsFit'
  BY NewWireIsNew
  DEF ClientInv, MaybeWire, RunsFit, isCurrentWireGeneration, SessionFits, CycleReopens,
      Ignored, connect, createWire, session
<1>9. BoundFits'
  BY DEF ClientInv, MaybeWire, BoundFits, isCurrentWireGeneration, NothingAtWork, InService,
         SessionFits, CycleReopens, Ignored, session
<1> QED BY <1>1, <1>2, <1>3, <1>4, <1>5, <1>6, <1>7, <1>8, <1>9 DEF ClientInv

\* The cycle's wire becomes the session's under a new generation.
LEMMA CycleOpensKeeps ==
  ASSUME ClientInv, CycleOpens
  PROVE  ClientInv'
<1>1. Types'
  <2>1. TransportTypeOK' /\ HubTypeOK'
    BY DEF ClientInv, Types, TransportTypeOK, HubTypeOK, CycleOpens, Opened
  <2>2. client \in Wires /\ client = cycle.on /\ (~stopped => ~live)
    BY ClientAssumption
    DEF ClientInv, Types, TransportTypeOK, OneAtWork, WireFits, NothingAtWork, CycleFits,
       SessionFits, CycleOpens, Opened
  <2>3. ActivateAndSync(client, FALSE) /\ UNCHANGED client
    BY <2>2 DEF CycleOpens
  <2>4. /\ gen' \in Nat /\ live' \in BOOLEAN /\ runs' \in [Gens -> Runs]
        /\ state' \in {"disconnected", "connecting", "synchronizing", "streaming",
                       "reconnecting"}
    BY <2>2, <2>3, ActivationKeeps DEF ClientInv, Types
  <2>5. SessionTypeOK'
    BY <2>4, ClientAssumption
    DEF ClientInv, Types, SessionTypeOK, Place, MaybeWire, Idle, CycleOpens,
       ActivateAndSync
  <2> QED BY <2>1, <2>5 DEF Types
<1>2. OneAtWork'
  BY DEF ClientInv, OneAtWork, CycleOpens, Sends
<1>3. WireFits'
  BY DEF ClientInv, MaybeWire, WireFits, NothingAtWork, OneAtWork, CycleFits, CycleOpens,
         Opened, Idle
<1>4. LoopFits'
  BY DEF ClientInv, LoopFits, OneAtWork, CycleOpens
<1>5. BootFits'
  BY DEF ClientInv, BootFits, OneAtWork, CycleOpens
<1>6. CycleFits'
  BY DEF CycleFits, CycleOpens, Idle
<1>7. SessionFits'
  BY DEF ClientInv, SessionFits, NothingAtWork, InService, CycleOpens, Opened, ActivateAndSync,
         Sends
<1>8. RunsFit'
  <2>1. client \in Wires /\ client = cycle.on /\ (~stopped => ~live)
    BY ClientAssumption
    DEF ClientInv, Types, TransportTypeOK, OneAtWork, WireFits, NothingAtWork, CycleFits,
       SessionFits, CycleOpens, Opened
  <2>2. ActivateAndSync(client, FALSE) /\ UNCHANGED client
    BY <2>1 DEF CycleOpens
  <2> QED BY <2>1, <2>2, ActivationKeeps DEF ClientInv, Types
<1>9. BoundFits'
  BY DEF ClientInv, Types, SessionTypeOK, MaybeWire, BoundFits, isCurrentWireGeneration,
         CycleOpens, ActivateAndSync, Sends
<1> QED BY <1>1, <1>2, <1>3, <1>4, <1>5, <1>6, <1>7, <1>8, <1>9 DEF ClientInv

\* A cycle that fails leaves neither a wire nor a timer.
LEMMA CycleFailsKeeps ==
  ASSUME ClientInv, CycleFails
  PROVE  ClientInv'
<1>1. Types'
  BY DEF ClientInv, Types, TransportTypeOK, SessionTypeOK, HubTypeOK, Place, MaybeWire,
         WireFits, NothingAtWork, OneAtWork, CycleFits, InService, SessionFits, CycleFails,
         Unopened, Waits, session, hub, Runs
<1>2. OneAtWork'
  BY DEF ClientInv, OneAtWork, CycleFails, hub
<1>3. WireFits'
  BY DEF ClientInv, MaybeWire, WireFits, CycleFits, CycleFails, Unopened
<1>4. LoopFits'
  BY DEF ClientInv, LoopFits, OneAtWork, CycleFails
<1>5. BootFits'
  BY DEF ClientInv, BootFits, OneAtWork, CycleFails
<1>6. CycleFits'
  BY DEF ClientInv, CycleFits, InService, CycleFails, Unopened, Waits, session
<1>7. SessionFits'
  BY DEF ClientInv, MaybeWire, SessionFits, NothingAtWork, InService, WireFits, CycleFits,
         CycleFails, Unopened, session, hub
<1>8. RunsFit'
  BY DEF ClientInv, RunsFit, isCurrentWireGeneration, CycleFails, session, hub
<1>9. BoundFits'
  BY DEF ClientInv, BoundFits, isCurrentWireGeneration, CycleFails, Unopened, session, hub
<1> QED BY <1>1, <1>2, <1>3, <1>4, <1>5, <1>6, <1>7, <1>8, <1>9 DEF ClientInv

\* A stop ends the current generation before it waits.
LEMMA StopKeeps ==
  ASSUME ClientInv, Stop
  PROVE  ClientInv'
<1>1. Types'
  <2>1. TransportTypeOK'
    BY DEF ClientInv, Types, TransportTypeOK, MaybeWire, Stop, stop, close, teardownWire
  <2>2. SessionTypeOK'
    <3>1. halt' \in Place({"idle", "teardown"}) BY DEF Place, MaybeWire, Stop, stop, Waits
    <3>2. gen' \in Nat BY DEF ClientInv, Types, SessionTypeOK, Stop, stop
    <3>3. live' \in BOOLEAN /\ stopped' \in BOOLEAN BY DEF Stop, stop
    <3> QED
      BY <3>1, <3>2, <3>3 DEF ClientInv, Types, SessionTypeOK, Stop, stop
  <2>3. HubTypeOK'
    BY DEF ClientInv, Types, HubTypeOK, Stop, hub
  <2> QED BY <2>1, <2>2, <2>3 DEF Types
<1>2. OneAtWork'
  BY DEF ClientInv, OneAtWork, Stop, stop, close
<1>3. WireFits'
  BY DEF ClientInv, WireFits, Stop, stop, close, teardownWire
<1>4. LoopFits'
  BY DEF ClientInv, LoopFits, InService, Stop, stop, close, teardownWire
<1>5. BootFits'
  BY DEF ClientInv, BootFits, Stop, stop
<1>6. CycleFits'
  BY DEF ClientInv, CycleFits, InService, WireFits, Stop, stop, close, teardownWire
<1>7. SessionFits'
  BY DEF SessionFits, InService, Stop, stop
<1>8. RunsFit'
  BY DEF ClientInv, RunsFit, isCurrentWireGeneration, Stop, stop, teardownWire
<1>9. BoundFits'
  BY DEF BoundFits, Stop, stop, teardownWire
<1> QED BY <1>1, <1>2, <1>3, <1>4, <1>5, <1>6, <1>7, <1>8, <1>9 DEF ClientInv

\* Only a registered wire is displaced, so nothing is at work.
LEMMA DisplacedKeeps ==
  ASSUME ClientInv, Displaced
  PROVE  ClientInv'
<1>1. Types'
  <2>1. TransportTypeOK'
    BY DEF ClientInv, Types, TransportTypeOK, MaybeWire, Displaced, stop, close, teardownWire
  <2>2. SessionTypeOK'
    <3>1. halt' \in Place({"idle", "teardown"}) BY DEF Place, MaybeWire, Displaced, stop, Waits
    <3>2. gen' \in Nat BY DEF ClientInv, Types, SessionTypeOK, Displaced, stop
    <3>3. live' \in BOOLEAN /\ stopped' \in BOOLEAN BY DEF Displaced, stop
    <3> QED
      BY <3>1, <3>2, <3>3 DEF ClientInv, Types, SessionTypeOK, Displaced, stop
  <2>3. HubTypeOK'
    BY DEF ClientInv, Types, HubTypeOK, Displaced
  <2> QED BY <2>1, <2>2, <2>3 DEF Types
<1>2. OneAtWork'
  BY DEF ClientInv, OneAtWork, Displaced, stop, close
<1>3. WireFits'
  BY DEF ClientInv, WireFits, Displaced, stop, close, teardownWire
<1>4. LoopFits'
  BY DEF ClientInv, Types, TransportTypeOK, HubTypeOK, Place, LoopFits, InService, Displaced,
         stop
<1>5. BootFits'
  BY DEF ClientInv, Types, TransportTypeOK, HubTypeOK, BootFits, Displaced, stop
<1>6. CycleFits'
  BY DEF ClientInv, Types, TransportTypeOK, SessionTypeOK, HubTypeOK, Place, CycleFits,
         InService, Displaced, stop
<1>7. SessionFits'
  BY DEF ClientInv, Types, TransportTypeOK, SessionTypeOK, HubTypeOK, Place, NothingAtWork,
         LoopFits, InService, BootFits, CycleFits, SessionFits, BoundFits, Displaced, stop,
         close, teardownWire
<1>8. RunsFit'
  BY DEF ClientInv, RunsFit, isCurrentWireGeneration, Displaced, stop, teardownWire
<1>9. BoundFits'
  BY DEF BoundFits, Displaced, stop, teardownWire
<1> QED BY <1>1, <1>2, <1>3, <1>4, <1>5, <1>6, <1>7, <1>8, <1>9 DEF ClientInv

\* The end of a stop; where the host may start the client again, nothing is at work.
LEMMA StopEndsKeeps ==
  ASSUME ClientInv, StopEnds
  PROVE  ClientInv'
<1>1. Types'
  BY DEF ClientInv, Types, TransportTypeOK, SessionTypeOK, HubTypeOK, Place, MaybeWire,
         StopEnds, Idle, transport, hub
<1>2. OneAtWork'
  BY DEF ClientInv, OneAtWork, StopEnds, transport
<1>3. WireFits'
  BY DEF ClientInv, WireFits, NothingAtWork, StopEnds, transport
<1>4. LoopFits'
  BY DEF ClientInv, LoopFits, InService, StopEnds, transport, hub
<1>5. BootFits'
  BY DEF ClientInv, MaybeWire, BootFits, SessionFits, StopEnds
<1>6. CycleFits'
  BY DEF ClientInv, CycleFits, InService, StopEnds, transport, hub
<1>7. SessionFits'
  BY DEF ClientInv, SessionFits, NothingAtWork, InService, StopEnds, Idle, transport, hub
<1>8. RunsFit'
  BY DEF ClientInv, MaybeWire, RunsFit, isCurrentWireGeneration, SessionFits, StopEnds
<1>9. BoundFits'
  BY DEF ClientInv, MaybeWire, BoundFits, SessionFits, StopEnds
<1> QED BY <1>1, <1>2, <1>3, <1>4, <1>5, <1>6, <1>7, <1>8, <1>9 DEF ClientInv

\* An answer moves on the run it belongs to, and the session if the run is current.
LEMMA SyncAnsweredKeeps ==
  ASSUME ClientInv, NEW g \in Gens, SyncAnswered(g)
  PROVE  ClientInv'
<1>1. Types'
  <2>1. TransportTypeOK'
    BY DEF ClientInv, Types, TransportTypeOK, SyncAnswered, transport
  <2>2. runs' \in [Gens -> Runs]
    <3>1. PICK r \in Runs : runs' = [runs EXCEPT ![g] = r]
      BY ClientAssumption, RunsReplaced
      DEF ClientInv, Types, SyncAnswered, Answers, End, Goto, Inert
    <3> QED BY <3>1, RunsTyped DEF ClientInv, Types, SessionTypeOK
  <2>3. SessionTypeOK'
    BY <2>2 DEF ClientInv, Types, SessionTypeOK, SyncAnswered, Inert, completeSync, SyncFails
  <2>4. HubTypeOK'
    BY DEF ClientInv, Types, HubTypeOK, SyncAnswered, Answers
  <2> QED BY <2>1, <2>3, <2>4 DEF Types
<1>2. OneAtWork'
  BY DEF ClientInv, OneAtWork, SyncAnswered, transport
<1>3. WireFits'
  BY DEF ClientInv, WireFits, NothingAtWork, SyncAnswered, transport
<1>4. LoopFits'
  BY DEF ClientInv, LoopFits, InService, SyncAnswered, transport
<1>5. BootFits'
  BY DEF ClientInv, BootFits, SyncAnswered, Inert, completeSync, Sends, NoRun, transport
<1>6. CycleFits'
  BY DEF ClientInv, CycleFits, InService, SyncAnswered, transport
<1>7. SessionFits'
  BY DEF ClientInv, SessionFits, NothingAtWork, InService, SyncAnswered, Inert, completeSync,
         transport
<1>8. RunsFit'
  BY DEF ClientInv, Types, SessionTypeOK, MaybeWire, RunsFit, isCurrentWireGeneration,
         SyncAnswered, Goto, End, Inert, completeSync, Sends, NoRun, transport
<1>9. BoundFits'
  BY DEF ClientInv, Types, SessionTypeOK, MaybeWire, BoundFits, isCurrentWireGeneration,
         RunsFit, SyncAnswered, Goto, End, Inert, completeSync, Sends, NoRun, transport
<1> QED BY <1>1, <1>2, <1>3, <1>4, <1>5, <1>6, <1>7, <1>8, <1>9 DEF ClientInv

\* A failed request ends its run, or begins a cycle if the run is current.
LEMMA SyncRequestFailsKeeps ==
  ASSUME ClientInv, NEW g \in Gens, SyncRequestFails(g)
  PROVE  ClientInv'
<1>1. Types'
  <2>1. TransportTypeOK'
    BY DEF ClientInv, Types, TransportTypeOK, SyncRequestFails, transport
  <2>2. runs' \in [Gens -> Runs]
    <3>1. PICK r \in Runs : runs' = [runs EXCEPT ![g] = r]
      BY ClientAssumption, RunsReplaced DEF ClientInv, Types, SyncRequestFails, End, Goto, Inert
    <3> QED BY <3>1, RunsTyped DEF ClientInv, Types, SessionTypeOK
  <2>3. SessionTypeOK'
    BY <2>2
    DEF ClientInv, Types, SessionTypeOK, SyncRequestFails, Inert, completeSync, SyncFails
  <2>4. HubTypeOK'
    BY DEF ClientInv, Types, HubTypeOK, SyncRequestFails, Answers
  <2> QED BY <2>1, <2>3, <2>4 DEF Types
<1>2. OneAtWork'
  BY DEF ClientInv, OneAtWork, SyncRequestFails, transport
<1>3. WireFits'
  BY DEF ClientInv, WireFits, NothingAtWork, SyncRequestFails, transport
<1>4. LoopFits'
  BY DEF ClientInv, LoopFits, InService, SyncRequestFails, transport
<1>5. BootFits'
  BY DEF ClientInv, MaybeWire, BootFits, RunsFit, SyncRequestFails, Inert, completeSync,
         transport
<1>6. CycleFits'
  BY DEF ClientInv, CycleFits, InService, SyncRequestFails, transport
<1>7. SessionFits'
  BY DEF ClientInv, MaybeWire, SessionFits, NothingAtWork, InService, WireFits,
         isCurrentWireGeneration, SyncRequestFails, Inert, completeSync, transport
<1>8. RunsFit'
  BY DEF ClientInv, Types, SessionTypeOK, MaybeWire, RunsFit, isCurrentWireGeneration,
         SyncRequestFails, Goto, End, Inert, completeSync, Sends, NoRun, transport
<1>9. BoundFits'
  BY DEF ClientInv, Types, SessionTypeOK, MaybeWire, BoundFits, isCurrentWireGeneration,
         SyncRequestFails, Goto, End, Inert, SyncFails, completeSync, Sends, NoRun, transport
<1> QED BY <1>1, <1>2, <1>3, <1>4, <1>5, <1>6, <1>7, <1>8, <1>9 DEF ClientInv

\* A rejection ends the run; at a first boot the client is disconnected again.
LEMMA RejectedKeeps ==
  ASSUME ClientInv, NEW g \in Gens, Rejected(g)
  PROVE  ClientInv'
<1>1. Types'
  BY DEF ClientInv, Types, TransportTypeOK, SessionTypeOK, HubTypeOK, MaybeWire, Rejected, End,
         SyncFails, completeSync, NoRun, transport, Runs
<1>2. OneAtWork'
  BY DEF ClientInv, OneAtWork, Rejected, NoRun, transport
<1>3. WireFits'
  BY DEF ClientInv, WireFits, NothingAtWork, Rejected, completeSync, NoRun, transport
<1>4. LoopFits'
  BY DEF ClientInv, LoopFits, InService, Rejected, completeSync, NoRun, transport
<1>5. BootFits'
  BY DEF ClientInv, MaybeWire, BootFits, RunsFit, Rejected
<1>6. CycleFits'
  BY DEF ClientInv, CycleFits, InService, Rejected, completeSync, NoRun, transport
<1>7. SessionFits'
  BY DEF ClientInv, MaybeWire, SessionFits, NothingAtWork, InService, WireFits,
         isCurrentWireGeneration, Rejected, transport
<1>8. RunsFit'
  BY DEF ClientInv, Types, SessionTypeOK, MaybeWire, RunsFit, isCurrentWireGeneration,
         Rejected, End, NoRun, transport
<1>9. BoundFits'
  BY DEF ClientInv, BoundFits, isCurrentWireGeneration, Rejected, End, SyncFails, completeSync,
         NoRun, transport
<1> QED BY <1>1, <1>2, <1>3, <1>4, <1>5, <1>6, <1>7, <1>8, <1>9 DEF ClientInv

\* A hook that fails ends the run of a wire that is registered by then.
LEMMA HookFailsKeeps ==
  ASSUME ClientInv, NEW g \in Gens, HookFails(g)
  PROVE  ClientInv'
<1>1. Types'
  BY DEF ClientInv, Types, TransportTypeOK, SessionTypeOK, HubTypeOK, Place, MaybeWire,
         WireFits, NothingAtWork, OneAtWork, BootFits, SessionFits, InService, RunsFit,
         isCurrentWireGeneration, HookFails, Answers, End, SyncFails, completeSync, NoRun,
         transport, Runs
<1>2. OneAtWork'
  BY DEF ClientInv, OneAtWork, HookFails, completeSync, NoRun, transport
<1>3. WireFits'
  BY DEF ClientInv, WireFits, NothingAtWork, HookFails, transport
<1>4. LoopFits'
  BY DEF ClientInv, LoopFits, InService, HookFails, transport
<1>5. BootFits'
  BY DEF ClientInv, BootFits, HookFails, Answers, completeSync, NoRun
<1>6. CycleFits'
  BY DEF ClientInv, CycleFits, InService, HookFails, transport
<1>7. SessionFits'
  BY DEF ClientInv, MaybeWire, SessionFits, NothingAtWork, InService, WireFits,
         isCurrentWireGeneration, HookFails, transport
<1>8. RunsFit'
  BY DEF ClientInv, Types, SessionTypeOK, MaybeWire, RunsFit, isCurrentWireGeneration,
         HookFails, End, NoRun, transport
<1>9. BoundFits'
  BY DEF BoundFits, HookFails
<1> QED BY <1>1, <1>2, <1>3, <1>4, <1>5, <1>6, <1>7, <1>8, <1>9 DEF ClientInv

\* The hub that goes away takes its sessions along.
LEMMA HubDownKeeps ==
  ASSUME ClientInv, HubDown
  PROVE  ClientInv'
<1>1. Types'
  <2>1. TransportTypeOK' /\ HubTypeOK'
    BY DEF ClientInv, Types, TransportTypeOK, HubTypeOK, HubDown, Client, transport
  <2>2. SessionTypeOK'
    BY DEF ClientInv, Types, SessionTypeOK, HubDown, Client, session
  <2> QED BY <2>1, <2>2 DEF Types
<1>2. OneAtWork'
  BY DEF ClientInv, OneAtWork, HubDown, Client, transport
<1>3. WireFits'
  BY DEF ClientInv, WireFits, NothingAtWork, HubDown, Client, transport
<1>4. LoopFits'
  BY DEF ClientInv, LoopFits, InService, HubDown, Client, transport, session
<1>5. BootFits'
  BY DEF ClientInv, BootFits, HubDown, Client, transport, session
<1>6. CycleFits'
  BY DEF ClientInv, CycleFits, InService, HubDown, Client, transport, session
<1>7. SessionFits'
  BY DEF ClientInv, SessionFits, NothingAtWork, InService, HubDown, Client, transport, session
<1>8. RunsFit'
  BY DEF ClientInv, RunsFit, isCurrentWireGeneration, HubDown, Client, transport, session
<1>9. BoundFits'
  BY DEF BoundFits, HubDown, session
<1> QED BY <1>1, <1>2, <1>3, <1>4, <1>5, <1>6, <1>7, <1>8, <1>9 DEF ClientInv

\* The hub that comes back has none.
LEMMA HubUpKeeps ==
  ASSUME ClientInv, HubUp
  PROVE  ClientInv'
<1>1. Types'
  BY DEF ClientInv, Types, TransportTypeOK, SessionTypeOK, HubTypeOK, HubUp, Client, transport,
         session
<1>2. OneAtWork'
  BY DEF ClientInv, OneAtWork, HubUp, Client, transport
<1>3. WireFits'
  BY DEF ClientInv, WireFits, NothingAtWork, HubUp, Client, transport
<1>4. LoopFits'
  BY DEF ClientInv, LoopFits, InService, HubUp, Client, transport, session
<1>5. BootFits'
  BY DEF ClientInv, BootFits, HubUp, Client, transport, session
<1>6. CycleFits'
  BY DEF ClientInv, CycleFits, InService, HubUp, Client, transport, session
<1>7. SessionFits'
  BY DEF ClientInv, SessionFits, NothingAtWork, InService, HubUp, Client, transport, session
<1>8. RunsFit'
  BY DEF ClientInv, RunsFit, isCurrentWireGeneration, HubUp, Client, transport, session
<1>9. BoundFits'
  BY DEF ClientInv, BoundFits, isCurrentWireGeneration, HubUp, Client, transport, session
<1> QED BY <1>1, <1>2, <1>3, <1>4, <1>5, <1>6, <1>7, <1>8, <1>9 DEF ClientInv

\* The hub forgets one session.
LEMMA LoseWireKeeps ==
  ASSUME ClientInv, NEW w \in Wires, LoseWire(w)
  PROVE  ClientInv'
<1>1. Types'
  BY DEF ClientInv, Types, TransportTypeOK, SessionTypeOK, HubTypeOK, LoseWire, Client,
         transport, session
<1>2. OneAtWork'
  BY DEF ClientInv, OneAtWork, LoseWire, Client, transport
<1>3. WireFits'
  BY DEF ClientInv, WireFits, NothingAtWork, LoseWire, Client, transport
<1>4. LoopFits'
  BY DEF ClientInv, LoopFits, InService, LoseWire, Client, transport, session
<1>5. BootFits'
  BY DEF ClientInv, BootFits, LoseWire, Client, transport, session
<1>6. CycleFits'
  BY DEF ClientInv, CycleFits, InService, LoseWire, Client, transport, session
<1>7. SessionFits'
  BY DEF ClientInv, SessionFits, NothingAtWork, InService, LoseWire, Client, transport, session
<1>8. RunsFit'
  BY DEF ClientInv, RunsFit, isCurrentWireGeneration, LoseWire, Client, transport, session
<1>9. BoundFits'
  BY DEF ClientInv, BoundFits, isCurrentWireGeneration, LoseWire, Client, transport, session
<1> QED BY <1>1, <1>2, <1>3, <1>4, <1>5, <1>6, <1>7, <1>8, <1>9 DEF ClientInv

-----------------------------------------------------------------------------
(* What the runs check, for every value of the constants.                  *)

\* A client that has not been started has nothing at work.
LEMMA InitClient == Init => ClientInv
<1> SUFFICES ASSUME Init PROVE ClientInv OBVIOUS
<1>1. Idle \in Place({"idle", "teardown", "create", "bail"}) /\ Idle \in Place({"idle", "create"})
      /\ Idle \in Place({"idle", "teardown", "create", "failed"})
      /\ Idle \in Place({"idle", "teardown"}) /\ Idle.at = "idle"
  BY DEF Idle, Place, MaybeWire
<1>2. NoRun \in Runs /\ NoRun.at = "none" BY DEF NoRun, Runs, MaybeWire
<1>3. Types
  BY <1>1, <1>2 DEF Init, Types, TransportTypeOK, SessionTypeOK, HubTypeOK, MaybeWire
<1>4. OneAtWork /\ WireFits /\ LoopFits /\ BootFits /\ CycleFits
  BY <1>1 DEF Init, OneAtWork, WireFits, NothingAtWork, LoopFits, BootFits, CycleFits
<1>5. SessionFits
  BY <1>1 DEF Init, SessionFits, NothingAtWork
<1>6. \A g \in Gens : runs[g].at = "none" BY <1>2 DEF Init
<1>7. RunsFit /\ BoundFits BY <1>6, <1>3 DEF Init, RunsFit, BoundFits, isCurrentWireGeneration
<1> QED BY <1>3, <1>4, <1>5, <1>7 DEF ClientInv

\* A step that changes nothing keeps it.
LEMMA StutterKeeps ==
  ASSUME ClientInv, UNCHANGED vars
  PROVE  ClientInv'
<1> USE DEF ClientInv, vars, transport, session, hub
<1>1. Types' BY DEF Types, TransportTypeOK, SessionTypeOK, HubTypeOK
<1>2. (OneAtWork /\ WireFits /\ LoopFits /\ BootFits /\ CycleFits)'
  BY DEF OneAtWork, WireFits, NothingAtWork, LoopFits, InService, BootFits, CycleFits
<1>3. (SessionFits /\ RunsFit /\ BoundFits)'
  BY DEF SessionFits, NothingAtWork, InService, RunsFit, BoundFits, isCurrentWireGeneration
<1> QED BY <1>1, <1>2, <1>3

\* The inductive invariant of the client.
THEOREM ClientStaysSound == Spec => []ClientInv
<1>1. ClientInv /\ [Next]_vars => ClientInv'
  <2> SUFFICES ASSUME ClientInv, [Next]_vars PROVE ClientInv' OBVIOUS
  <2>1. CASE WireDies \/ RetryTimer \/ Reconnect
    BY <2>1, WireDiesKeeps, RetryTimerKeeps, LoopCreatesKeeps, LoopOpensKeeps, LoopBailsKeeps,
       LoopFailsKeeps DEF Reconnect
  <2>2. CASE Start \/ Boot BY <2>2, StartKeeps, BootOpensKeeps, BootFailsKeeps DEF Boot
  <2>3. CASE CycleBegins \/ Cycle
    BY <2>3, CycleBeginsKeeps, CycleReopensKeeps, CycleOpensKeeps, CycleFailsKeeps DEF Cycle
  <2>4. CASE Stop \/ Displaced \/ StopEnds BY <2>4, StopKeeps, DisplacedKeeps, StopEndsKeeps
  <2>5. CASE \E g \in Gens : Sync(g) \/ Rejected(g) \/ HookFails(g)
    BY <2>5, SyncAnsweredKeeps, SyncRequestFailsKeeps, RejectedKeeps, HookFailsKeeps DEF Sync
  <2>6. CASE HubDown \/ HubUp \/ \E w \in Wires : LoseWire(w)
    BY <2>6, HubDownKeeps, HubUpKeeps, LoseWireKeeps
  <2>7. CASE UNCHANGED vars BY <2>7, StutterKeeps
  <2> QED BY <2>1, <2>2, <2>3, <2>4, <2>5, <2>6, <2>7 DEF Next
<1> QED BY <1>1, InitClient, PTL DEF Spec

\* A session that takes calls has its wire, and no coroutine of start,
\* reconnectWire, reconnectSession or stop leaves another one behind.
THEOREM OneWireAtATime == Spec => []SessionHasOneWire
<1>1. ClientInv => SessionHasOneWire
  BY DEF ClientInv, WireFits, NothingAtWork, CycleFits, SessionFits, SessionHasOneWire, Ignored
<1> QED BY <1>1, ClientStaysSound, PTL

\* Only a run of the current generation completes the synchronization, and that
\* run is on the wire of the client.
LEMMA OnlyRunsMakeReady ==
  ASSUME ClientInv, [Next]_vars, state' = "streaming", state # "streaming"
  PROVE  \E g \in Gens : runs[g].at # "none" /\ runs'[g].at = "none" /\ runs[g].on = client
<1>1. \/ state' = state \/ state' # "streaming"
      \/ \E g \in Gens : Sync(g) \/ Rejected(g) \/ HookFails(g)
  <2>1. CASE WireDies \/ RetryTimer \/ Reconnect
    BY <2>1
    DEF WireDies, RetryTimer, reconnectWire, Reconnect, LoopCreates, LoopOpens, LoopBails,
       LoopFails, ActivateAndSync, session
  <2>2. CASE Start \/ Boot
    BY <2>2 DEF Start, Boot, BootOpens, BootFails, ActivateAndSync
  <2>3. CASE CycleBegins \/ Cycle
    BY <2>3
    DEF CycleBegins, Cycle, CycleReopens, CycleOpens, CycleFails, ActivateAndSync, session
  <2>4. CASE Stop \/ Displaced \/ StopEnds BY <2>4 DEF Stop, Displaced, stop, StopEnds
  <2>5. CASE HubDown \/ HubUp \/ (\E w \in Wires : LoseWire(w)) \/ UNCHANGED vars
    BY <2>5 DEF HubDown, HubUp, LoseWire, Client, session, vars
  <2> QED BY <2>1, <2>2, <2>3, <2>4, <2>5 DEF Next
<1>2. PICK g \in Gens : Sync(g) \/ Rejected(g) \/ HookFails(g) BY <1>1
<1>3. runs \in [Gens -> Runs] /\ NoRun.at = "none" BY DEF ClientInv, Types, SessionTypeOK, NoRun
<1>4. isCurrentWireGeneration(g) /\ runs[g].at # "none" /\ End(g)
  BY <1>2 DEF Sync, SyncAnswered, SyncRequestFails, Rejected, HookFails, Inert, SyncFails,
     completeSync
<1>5. runs[g].on = client BY <1>4 DEF ClientInv, RunsFit
<1> QED BY <1>3, <1>4, <1>5 DEF End

\* The client becomes ready only by a run whose last request went out on the
\* wire it is ready on: generations keep every other run from it
\* (isCurrentWireGeneration, completeSyncInternal).
THEOREM ReadyWhereItIs == Spec => ReadyOnItsOwnWire
<1> DEFINE A ==
  state' = "streaming" /\ state # "streaming"
    => \E g \in Gens : /\ runs[g].at # "none" /\ runs'[g].at = "none"
                       /\ runs[g].on = client
<1>1. ClientInv /\ [Next]_vars => [A]_vars BY OnlyRunsMakeReady
<1> HIDE DEF A
<1>2. Spec => [][A]_vars BY <1>1, ClientStaysSound, PTL DEF Spec
<1> QED BY <1>2 DEF ReadyOnItsOwnWire, A

=============================================================================
