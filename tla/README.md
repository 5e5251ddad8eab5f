# A verification development for the agentic network hub

The hub (`src/hub`) coordinates software agents: engineers, architects,
verifiers and a director hold sessions with it, exchange messages and threads,
and work through a queue of WorkItems. These modules model the parts where the
program's own logic sits - the **WorkItem queue** and the **topology** its rows
belong to, **threads** from opening to cascade, the **queue of pending actions**
that wakes agents, the **projection** of replies into messages, the
**sessions** that speak for an agent, and the **client** that keeps an agent
connected - check them with TLC on small instances
and prove their safety properties with TLAPS for every instance.
Paths below are relative to `hub/src` unless they start with `packages/` or
`adapters/`.

## 1. Inventory of the system

| component | state | operations | with whom it interacts |
|---|---|---|---|
| WorkItem queue (`entities/work-item-repository-substrate.ts`, `entities/work-item.ts`) | one row per item: phase, suspension, lease, blocker, recall history, executor history, evidence, attestations, seal, notice intents | create, update, claim, start, block, resume, release, renew, complete, attest, abandon, pause, unpause, reset, recommit, system unblock, expire | agents through the tool surface, the sweeper, decisions, the fence |
| Lease sweeper (`policy/work-item-lease-sweeper.ts`) | a timer, the list of the sweep under way | list lapsed leases, expire each | the queue, the notice outboxes, the thrash counter |
| Currentness fence (`entities/workgraph-currentness-fence-v4.ts`) | advisory locks, the head pin in the call context | read pin, writer fence | wraps every verb of the queue |
| Revisions and generations (`entities/work-revision-storage-v4.ts`) | revision families, immutable generations, the head | prepare, publish, recommit | fence, pause authority |
| Tool surface (`policy/work-item-policy.ts`) | none | argument checks, blueprints, events, legal moves | agents |
| Notice outboxes (`policy/recall-notice-projector.ts`, `policy/failed-gate-notice-projector.ts`) | intents on the rows | project, mark projected | messages |
| PR review projection (`policy/pr-review-workitem-projection.ts`) | obligation rows | project review events | GitHub, the queue |
| Storage substrate (`storage-substrate/`) | rows with resource versions | compare-and-swap, batch, watch, advisory lock | everything |
| Threads and cascade (`entities/thread-repository-substrate.ts`, `policy/thread-policy.ts`, `policy/cascade.ts`, `policy/cascade-replay-sweeper.ts`) | turns, participants, staged actions, convergence, two markers | open, reply, stage, revise, retract, converge, cascade, replay, close, leave, reap, unpin | agents, most entities, messages, pending actions |
| Messages (`entities/message-repository-substrate.ts`, sweepers) | messages, sequence numbers, claims | create, claim, ack, schedule, project | agents, outboxes |
| Agents and sessions (`entities/agent-repository-substrate.ts`, `hub-networking.ts`, `policy/watchdog.ts`) | session epoch, liveness, thrash counter | register, displace, heartbeat, reap | adapters |
| Decisions and grants (`entities/decision-repository-substrate.ts` and others) | decision lifecycle, grants | raise, route, resolve, execute | unblocks WorkItems |
| Missions, ideas, bugs, documents, audit | status records | create, update | cascade |
| Pending actions (`entities/pending-action-repository-substrate.ts`, `policy/watchdog.ts`) | items: state, attempts, deadlines | enqueue, receipt and completion ack, save and resume a continuation, escalate, abandon, prune | threads, agents, the watchdog |
| Pulses (`policy/pulse-sweeper.ts`) | timers of missions | fire | messages |
| Network adapter (`packages/network-adapter`, hosts in `adapters/`) | wire, retry timer, session state, wire generation, event buffer | start, stop, connect, close, reopen a dead wire, synchronize, cycle a lost session, deliver, poll | hub, the host that starts and stops it |
| Cognitive layer (`packages/cognitive-layer`) | circuit breaker, dedup, cache | wrap tool calls | adapter |
| Message router, repo event bridge | seen ids, poll cursors | route, coalesce, poll | adapter, GitHub |

What is hard in the queue: every verb is a compare-and-swap on one row while the
sweeper writes outside the writer fence; leases lapse and return; processes
that lost a lease keep calling; a row can be withdrawn at any moment without
its phase changing; evidence outlives leases; two edges lead to `done`; gates
relate rows that change independently; sweeps fail and the hub restarts. In the
rest of the hub a tool call is a chain of awaits over several rows with no
transaction round them: the thread is written, then the message, the queue
items, the acknowledgement, the marker, the entities of the cascade; another
call, a sweeper, a failing store or a crash may come between any two. The
hazards are listed one by one, at their lines, in `PROJECT.json`, with the
property that would catch each, or the reason there is none yet.

What makes the components correct, beyond the queue (whose properties follow
below): a head names only complete generations and no fenced call writes a row
it has left; a thread is agreed by two agents with the authority for what they
agree, and only that is carried out, across restarts; whoever owes an answer has
an item that says so; the last reply of a thread reaches the message store,
under a number of its own; only sessions of an agent's own role speak for it, of
its own host too while all of them name one, and a displaced one never again; a
client that says it is ready is so on the wire it has, leaves no wire behind,
and finds the hub again. Of the components without a module: an outbox delivers
each notice at least once and marks it only after delivery; a tripped circuit
breaker lets a probe through eventually.

## 2. Modules and their correspondence to the code

`WorkItem.tla` - one row. Each verb of the repository is a guard `CanVerb` (the
throws of the transform, in conjunction) and `AfterVerb` (the row it returns),
named for the method. `Demand` says what evidence an item asks for. The
predicates the verbs share keep their names: `isParkedFromExecution`,
`isActivelyWithdrawn`, `isFailedGateSealed`, `assertLease`, `classifyGateChild`,
`evaluateEvidence`, `releaseHold`, `lastSuspenderAgentId`,
`recentLeaseExpiryCount`.

`WorkQueue.tla` - the table, the clock, the tokens issued and the sweep. What a
verb reads of other rows is computed here (`inFlightCount`,
`unmetDependencies`, `pendingChildren`, `ancestors`,
`selfAttestationExclusionFor`) and there is one action per verb:

| action | method | | action | method |
|---|---|---|---|---|
| `Claim` | `claimWorkItem` | | `Pause` | `pauseWork` |
| `Start`, `Block`, `Resume`, `Release` | `startWork` ... `releaseWork` | | `Unpause` | `unpauseWork` |
| `Renew` | `renewLease`, `propagateHeartbeatToAncestors` | | `Reset` | `resetWork` |
| `Complete` | `completeWork` | | `Abandon` | `abandonWork` |
| `Attest` | `attestEvidence` | | `StartSweep` | the list call of `fullSweepPinned` |
| `SystemUnblock` | `systemUnblock` | | `ExpireLease`, `SkipLease` | one turn of its loop, `expireLease` |
| `Tick` | the hub's clock | | `HubRestart` | a restart that loses the sweep |

`Custody.tla` - the abstract specification: what an agent may rely on without
knowing of phases, clocks, leases or suspension. An open item is in the custody
of at most one agent; custody ends and a new one begins, under a token never
used before, and is never handed over; only the custodian adds to the record
an item is delivered on; the record of a delivered item is not empty unless
none was asked for (`Unasked`); closed items stay closed.

`WorkQueueProperties.tla` - the properties, the refinement mapping to `Custody`
and the fair specification. `MCWorkQueue.tla` and the `.cfg` files - TLC's
instances. `WorkItemProofs.tla`, `WorkQueueProofs.tla` - the
proofs; each of the modules below has its `...Proofs` likewise.

`Topology.tla` - the head of the work graph. An operation builds a revision on
the head it reads (`Build`), puts its rows one by one (`PutEdge`, `PutShards`,
`PutGeneration`, `PutOperation`, in the order of `persistPrepared`),
materializes the physical row (`Materialize`) and activates (`Acquire`,
`ReadPrepared`, `PublishHead`, `ReconcileCommittedOperation`); it may be
retried. A writer runs `Fence`, `TakePin`, `WriteRow`, `CheckHead` under the
advisory lock, the lease sweeper the same without it. The lock lives in a
database session, which may be lost (`LoseSession`) before the call that relies
on it notices (`FailedQuery`).

`PendingAction.tla` - one item of the queue that wakes agents: the row each
repository method writes. `ThreadRow.tla` - one thread: `CanX` and the row, for
every write of the thread repository, and the authority over staged actions.

`Convergence.tla` - a thread from opening to end. The awaits of a call that
matter are steps: `BeginReply` (the authority check reads), `CommitReply` (the
write reads again), `MarkPending`, `FindSpawned` and `ExecuteAction` for each
action, `MarkCompleted`, `FinishCascade`; `StartReplay` is the start-up sweep.
`Negotiation.tla` - the abstract specification: open until agreed or ended, the
terms fixed at the agreement, nothing else carried out, no ending taken back.
`ThreadProperties.tla` - the properties and the refinement mapping.

`TurnQueue.tla` - the queue side of the same replies, each of which may begin
while others are under way: `Reply`, `AbandonOrphans`, `FindItem` and
`InsertItem` for each other participant, `MatchItem`, `AckItem`; `Drain`,
continuations, the watchdog, stewards, the reaper (`ReapThread`, `ReapItems`),
crashes. The watchdog reads one page of items, of every state and in no order
(`Pages`), keeps the overdue ones (`WatchdogTick`), and for each counts an
attempt (`Attempt`) and escalates it or sets a new deadline (`escalateOne`),
whatever became of it in between.

`Projection.tla` - the message side: `FindMessage`, `Acquire`,
`AllocateSequence`, `CreateOnly`, `MarkProjected`, by the replying call or by
`SweepThread`, each of which may fail. The mutex of a thread is a flag and its
waiters, as in the code: nobody can tell whose hold it is, and a hold that was
leaked is never given back.

`Sessions.tla` - one agent: `RegisterRole` (under its advisory lock),
`BeginClaim`, `ClaimSession`, the pointer rows one by one (`WriteBinding`,
`DeleteBinding`), `Bind`, `Evict`; the clean-up of a session (`Unpublish`,
`ForgetBinding`, `MarkAgentOffline`), `TouchAgent`, `ArchiveAgent`, `Crash`.

`AgentClient.tla` - the client of one agent. The wire layer (`McpTransport`) has
`wire`, `client`, `open`, `closed`, `timer` and the coroutine `loop`
(`reconnectWire`: `WireDies` or `RetryTimer`, then `LoopCreates`, `LoopOpens`,
`LoopBails`, `LoopFails`). The session layer (`McpAgentClient`) has `state`,
`gen`, `live`, `stopped`, one synchronizing phase per generation (`runs`:
`SyncAnswered`, `SyncRequestFails`, `Rejected`, `HookFails`) and the coroutines
`boot` (`start`), `cycle` (`reconnectSession`) and `halt` (`stop`). The host is
the opencode plugin, which starts an unconnected client whenever it is idle
(`restarts`), or one that starts it once and stops it. The hub goes away, comes
back, forgets sessions and displaces them.

The three thread modules share `ThreadRow` and cut the same call,
`createThreadReply`, along its effects; each leaves the effects of the others
out or lets them fail, and each lets every other call interleave. They are not
checked as one product, which would be out of TLC's reach.

### Grain

Verbs run under the hub-wide writer fence, so one verb is one step. The only
writer outside the fence is the sweeper: it may write between what a verb reads
and what it puts. The sweeper only takes leased rows back to `ready` or to
`abandoned`, so a completion's open gate stays open, a claim's met dependencies
stay met and its count of held rows can only fall: what a verb has read stays
good until its own row is written, and that write is ordered by the row's
version. The sweep itself is not one step: clock and list are read once, then
every row is written separately, against the row as it is by then.

A call whose guard throws changes nothing and is not a step. Calls are made by
any agent, at any time, with any token ever minted, which covers delayed,
repeated and zombie calls.

### What the row leaves out, and why that is sound

- `heartbeatAt` is always `expiresAt` minus the window. `stateDurations`,
  `updatedAt`, titles, payloads, friction texts and metrics decide nothing.
- `pendingRecallIntents` is a function of the appended recall entry; projecting
  it belongs to the outbox.
- What an item asks of its executor is one of four demands, the strictest of
  its requirements standing for all: `fresh`; `any`, when every requirement
  was authored with `allowPreClaim`, or there is none and the floor asks for a
  note of any age; `review`, fresh evidence or a review to come, for which an
  item without evidence waits; `nothing`, when a verifier's attestation is all
  that is required. With that goes at most one verifier requirement. That a
  piece is of the right kind, resolves, is of admissible provenance and passes
  the PR-review carve-out is an input: the model makes the calls with evidence
  that does. `producedAt` ranges over the past of the clock: a producer's stamp
  is not in the future.
- Lease tokens are `randomUUID`s, modelled as numbers that are issued once:
  that two of them differ is an assumption and no property says it.
- A verifier is kept out of its own targets as bracketed by
  `completionDependsOn`; items named by `targetRef` and the authors of
  revisions, whom `selfAttestationExclusionFor` excludes as well, are not
  modelled.
- The sweep lists every lapsed lease. The code's list is limited before
  suspended rows are filtered out, so a backlog longer than the limit is outside
  what is claimed.
- The authority frozen by a pause never drifts: contract edits and topology
  generations are not modelled yet.
- Items exist from `Init`, as `createWorkItem` inserts them; the row an older
  hub left with `status: "paused"` is among the initial rows.
- Legacy rows with an active FAIL and no seal, reconciled by `expireLease`, are
  not among the initial rows, so that branch is not there.
- `executorHistory` is `joined`, which also keeps the time of the first claim,
  and an evidence piece keeps who bound it: for the properties only.
- `lapses` is `leaseExpiryCount`.
- A renewal's bumps of its ancestors are best effort: any subset of the bumps
  that are allowed happens.
- Lookups of an absent child, dependency or parent do not occur: items are not
  deleted.

### What the other modules leave out, and why that is sound

- A compare-and-swap that loses is retried by the repository: the read and the
  write that succeeds on it are one step. Where the code gives up instead
  (`claimSession`, `markAgentOffline`) the loss is a step of its own.
- Threads: texts, titles, intents and labels. A reply makes one staged-action
  operation. Authors are agents with resolved ids; the Director and anonymous
  callers do not reply. The state-reality validation of staged actions can only
  refuse a reply, as a caller may. `updatedAt` counts writes, so that the
  reaper's idle test is "not written since". An action of the cascade is of the
  kind that spawns an entity; an update that throws or changes nothing is a
  failure or a success like another.
- Queue: one thread, so the agent is the natural key; only `thread_message`
  items. A reply acknowledges an open item of its author, found by key or named
  by the caller. An agent has one reply under way at a time; replies of
  different agents overlap. The thread is read for `wasCoercing` an await before
  the write; the model has that read in the write's step, so a claim is told
  from a later reply without fail. The items of the pool are abandoned in one
  step where the code awaits each. The page that limits the watchdog's scan is
  modelled; the continuation sweep, the reaper and the pruning read pages of the
  same size, taken here to hold all their items.
- Projection: an author is one call at a time; the sweeper's list of threads is
  one thread. `AllocateSequence` takes the highest number of all the thread's
  messages; the code looks at one unsorted page of 500, so a thread with more
  messages than that is outside what is claimed.
- Sessions: an agent is known by its name; `assertIdentity` compares role and,
  if both sides name one, host. A registration replaces the recorded host, by
  nothing if it names none. The lookups of `getAgentForSession` are one step
  (`BeginClaim`). The thrashing breaker may refuse any claim. Heartbeats,
  component states and labels decide nothing here.
- Topology: one logical WorkItem, whose physical rows are their revisions; the
  hashes of a manifest are the manifest itself; the shards of a generation are
  one row that names its author. The agent's lock a claim takes inside the fence
  is only ever taken there and adds no wait of its own. The timeouts of the lock
  calls are left out, and so is an unlock query that fails in a session that
  lives on: the code logs it and gives the connection back to the pool, the lock
  with it, while `End` always frees the lock. `FenceIsReleased` speaks of the
  other cases.
- Client: what travels on the wire once it is up (events, their buffer and
  dedup, `Last-Event-ID`), the request slots, the poll backstop, the watchdog
  that is off by default, and the pipeline round a call. A request that finds
  its wire gone fails; how long that takes decides nothing. The name of a wire
  is used again once nothing refers to it. A session cycle begins on a wire that
  is up (`CycleBegins`): closing a wire aborts the requests on it, so a request
  that fails later finds its wire gone. A stop during the very first connect is
  not modelled (`Stop` needs a generation).

## 3. The runs

| run | instance | what it shows | size |
|---|---|---|---|
| `row` (`Row.cfg`) | one item that demands `review`, four agents: a creator-engineer, another engineer, a steward, a verifier; fair sweeps | the life of a row under every verb, late calls, pauses, lapses, sweeps and restarts; the queue implements `Custody`; a lapsed lease is taken back | 212,000 states |
| `graph` (`Graph.cfg`) | an arc (`any`), the gated leaf it brackets (`nothing`), the seed the leaf depends on (`review`); an engineer that works the leaf, and its verifier, that works the arc and the seed | gates between rows, the cap of held rows; heartbeats of descendants never revive a lapsed lease | 211,000 states |
| `poison` (`Poison.cfg`) | as `row` | finding 1 | violation |
| `blocker` (`Blocker.cfg`) | as `row` | finding 2 | violation |
| `thread` (`Thread.cfg`) | an architect and two engineers; a thread between roles or between engineers; three rounds, a fault, a crash, a steward call | agreement, authority, cascade and replay; the thread implements `Negotiation` | 271,000 states |
| `queue` (`Queue.cfg`) | a thread to one engineer or to a pool of two, replies that may overlap, one upset, a queue that may outgrow the watchdog's page | who owes an answer has an item, unless the last reply was torn; items end | 111,000 states |
| `wakeup` (`Wakeup.cfg`) | a dialogue, replies that overlap, no upsets | finding 3 | violation |
| `session` (`Session.cfg`) | two sessions: of one host, of two, of two roles, or the second hiding its host; one registration kept, two claims, an upset | who speaks for the agent; displacement | 570,000 states |
| `projection` (`Projection.cfg`) | two replying calls and the sweeper, three replies, a fault, a crash | numbers, marker, the last reply lands | 398,000 states |
| `topology` (`Topology.cfg`) | two operations, a writer, the sweeper, one possible edge, two generations, three revisions, one loss | head, fence, stale writes | 135,000 states |
| `client` (`Client.cfg`) | one client, a host of either kind, five names for wires, three faults, starts up to the third generation | generations, the one wire, coming back | 40,300 states |
| `displaced` (`Displaced.cfg`) | as `client`, one fault | finding 4 | violation |

**Bounds.** `Ttl = 1` and a clock that ends at `MaxTime` make a lease lapse
after two ticks. `row` has `MaxTime = 4`: two claims, two lapses and a late
sweep in between, with a sweep's clock two ticks behind the hub's. Two tokens
are what a zombie and its successor need; `PoisonCap = 2` makes the second lapse
the one that can abandon, inside a window of two lease windows that the clock
can leave. One pause id is enough, since a retry is what matters, and it can be
delivered at every later state; pauses under different ids repeat the same
transitions from rows the first pause and unpause lead back to. `graph` trades
half the clock (`MaxTime = 2`: one lapse) and the decisions for three items,
three tokens and both edge kinds: a renewal below reaches an arc whose lease has
lapsed and not been swept; with `WipCap = 1` a seed the verifier holds in review
keeps it from the arc, and an arc it has claimed excludes it from the leaf's
verdict. The two runs have `review`, `any` and `nothing`; `fresh` is `review`
for an item that has evidence.

In `thread` three rounds are a proposal, a counter-signal and a convergence; an
action only an architect may converge and a retraction are among the replies,
and one upset of each kind is what every fault-tolerance claim is about: a
second crash meets a state the first leads to as well. `queue` climbs the whole
ladder (`MaxAttempts = 2`: one retry, then escalation), in three rounds (the
opening and an answer each way, of which any may overlap), with three items and
a page of two, so that the last item may stay unseen. `wakeup` needs a fourth
round; its page holds every item. `projection` has `Keep = 1`, so that three
replies are enough for a truncated thread. `session` has room for one of two
sessions in `registeredSessions`, so that one falls out. `topology` starts
before the first generation or after it, and lets two rivals meet at each; with
`MaxHead = 2` a prepared generation is overtaken. `client` has three faults: one
to lose a wire, one to fail the recovery, one to disturb what comes after; five
names are enough for the wires in use and those whose requests still unwind
(four faults and six names were checked as well); no wire is made while every
name is in use, which the runs never come to.

`CHECK_DEADLOCK FALSE` in all but `topology`: when the clock is at its bound,
the tokens are spent and every row is closed, nothing is left to do; likewise
when a thread has ended and its items with it, all sessions are used up, or the
client is stopped.

**Fairness.** In `row` (`FairSpec`): the sweep timer fires for ever
(`WF` of `StartSweep`), a sweep under way gets through its list (`WF` of
`ExpireLease \/ SkipLease`), and the write of one row does not fail every time
a sweep comes by (`SF` of `ExpireLease`): `start` keeps the interval until
`stop`, `fullSweepPinned` isolates the errors of a row and goes on with the
next, and failed writes are transient. Nothing is assumed of agents, who may
stop for ever, nor of the clock. In the other modules a call, a clean-up or a
sweep under way goes on (`WF` of its next step): each is an async function whose
awaits return or throw. The timers of the watchdog, the continuation sweep and
the projection sweeper fire, and deadlines pass. A tick of the watchdog is sure
to list an overdue item only while its page holds the whole queue; beyond that
the store returns any page, the same one for ever perhaps. Agents may save
continuations for ever. A lost database session is
noticed by the next query. The client's awaits return, its retry timer fires,
the heartbeat finds a dead wire and the hub comes back up; no host need start or
stop it and no agent need call. Replies, stewards, faults and crashes may never
come, and a lock that is busy may stay so for whoever waits.

**Properties.** In `row`: `TypeOK`; `LeaseMatchesPhase`, the shape three verbs
call corrupt when it is missing; `SuspensionOnRecord`, that the suspender read
from the last recall entry is the suspender; `WithdrawalOutranksHolder`, the
disposal matrix composed with the phase envelopes; `BaselineIsOwn` and
`EvidenceIsEarned`, the freshness rule, where the item's author has not waived
it, through any chain of lapses, returns and resets; `PauseTakesEffectOnce`
under retries; `ClosedIsFinal` under late calls with tokens that still match;
`FullWindow`, no lease is handed out or back already lapsed;
`WithdrawnStaysPut`, what a suspended row may become; `ReapsOnlyLapsed`, the
sweep's stale list and clock; `ImplementsCustody`; and, under fairness,
`LapsedIsReaped`. In `graph`: `WipCapHolds`, `DoneIsGated` (both edges to
`done`), `DependenciesStayMet`, `LapsedStaysLapsed`. In `thread`:
`TwoAgentsConverge` (the code compares flags, not authors),
`CounterpartyResolved` (the error INV-TH27 is unreachable), `AuthorityWhenSeen`,
`ClosedByCascadeIsComplete`, `ImplementsNegotiation` and, under fairness,
`MarkedCascadeEnds`. In `queue`: `OwedUnlessTorn`, `ClaimEndsTheRest`,
`LadderEnds`. In `session`: `ResolvesOnlyOwner`, `DisplacedStaysOut`,
`DisplacementEnds`. In `projection`: `SequencesDistinct`, `MarkerIsHonest`,
`LatestLands`. In `topology`: `HeadIsWhole`, `FencedWritesAreCurrent`,
`StaleWriteIsReported`, `FenceIsReleased`. In `client`: `SessionHasOneWire` (no
coroutine leaves a wire behind or a session without one), `ReadyOnItsOwnWire`
(what generations are for) and, under fairness, `Reconnects`. Every property is
paired in `PROJECT.json` with a mutant, a plausible bug in one mapped definition
that makes its run fail; the mutated forms stand beside the definitions, named
`<definition>_<bug>`.

### Findings

1. `poison`: `recentLeaseExpiryCount` counts every lapse on record, though
   only lapses of claimed and in-progress work should count towards the poison
   cap: a parked item that lapsed once in review and once blocked is abandoned
   by its first crash. The comment at `POISON_ELIGIBLE_PHASES` says otherwise.
2. `blocker`: pausing a blocked row drops its blocker and keeps the phase; the
   row is then one that `pauseWork` itself calls corrupt, and no decision will
   unblock it (its holder still can).
3. `wakeup`: a reply tells the next agent before it acknowledges its own item.
   The next agent's answer finds that item still open under the same natural
   key and re-uses it for the new turn; the late acknowledgement then ends it.
   The turn is owed, no open item says so, and the watchdog sees nothing,
   though the queue is said to be "truth".
4. `displaced`: a client that a newer session displaced stops itself, and "must
   not reconnect". The opencode host starts whatever client is not connected
   when its own session becomes idle; `start` clears `stopped`, and the client
   registers and takes the agent back from the newer session.

Read and not run: the description of the attest tool says that a failed verdict
keeps the item in review and that a later pass supersedes it; `AfterAttest`
seals the row for good, as `attestEvidence` does.

### What the properties had to leave out

Each of these is a condition in a property, because without it TLC finds a run
of the code that breaks it:

- `AuthorityWhenSeen`: the authority check reads the thread before the write. If
  it read before the first of the two signals came, it is skipped, and the
  convergence commits what nobody had the authority for. Nor is it enough that
  it read after a signal: a check against an earlier round says nothing of what
  was staged since. So the property speaks of replies that were checked against
  the round they answer (`round` in the call).
- `TwoAgentsConverge`: between two agents of one role the agent reaper unpins
  the turn, and the one that spoke last may speak, and converge, again. Between
  two roles the same takes a third agent: when the first participant is reaped,
  an agent of its role takes its place, and when the first participant has come
  back and is reaped once more, the turn is unpinned on that role, which spoke
  last. The runs' bounds do not reach this; the proof would not close without
  the exception.
- `MarkedCascadeEnds`: between the convergence and the marker a crash or a
  failed acknowledgement loses the cascade. A replay never closes the thread.
  The hub serves before it replays, so a replay may overlap a live cascade, and
  since an action is looked up and then executed, an entity may be created
  twice.
- `EvidenceIsEarned`: a requirement authored with `allowPreClaim`, and the floor
  of an item without requirements, admit evidence from before any claim of its
  submitter.
- `OwedUnlessTorn`: a reply that meets another one may lose the item (finding
  3), and so does a crash between the reply and the enqueue. The history `torn`
  speaks of the last reply only: the next one that runs by itself puts the queue
  right. `enqueue` takes an escalated item for live, which nobody drains any
  more. `ClaimEndsTheRest`: the opener's enqueue loop may still be running when
  the claim comes (`rushed`), and tells agents of the pool after it.
- `LadderEnds`: the watchdog filters one unsorted page of the items of all
  states, so once there are more items than a page an overdue one may never be
  listed. And every continuation that is saved and resumed starts the ladder
  again, so an agent may keep its item open for ever.
- `ResolvesOnlyOwner`: a registration that names no host is accepted on the role
  alone, and clears the recorded host, so any host may follow it. The host is
  the owner's only while every session names one (`HostsKnown`).
- `LatestLands`: `createMessage` takes the mutex and then reads the highest
  number; if that read throws, nothing releases the mutex, and every later
  message of the thread, and the sweeper, waits for ever. `MarkerIsHonest`
  speaks of the last reply only: a later reply's marker passes an earlier one
  whose projection failed, which is then never projected. A closed thread is
  read truncated, and the sweeper numbers what is left from one.
  `SequencesDistinct` speaks of numbers: the lookup by source is outside the
  mutex, and the same reply may be stored twice.
- `DisplacedStaysOut`: when a claim overlaps another claim or a
  registration, the index writes and the eviction of the older one may come
  after the newer one's, which may close the winner's transport.
- `HeadIsWhole` has the edges of a manifest among the edge rows, not equal to
  them: rivals for one number put their edges under it too. If they do so before
  the activation, it fails, and with it every later generation. An operation
  whose hub died between the head and its own row stays "prepared" once a later
  generation is published.
- `Reconnects`: a session cycle closes the wire and connects again; if the hub
  is away at that moment, the call throws and the client stays "reconnecting"
  with no timer, and `start` ignores it, although the network documentation
  promises eventual connectivity. A cycle under way also reopens the wire of a
  client that was stopped meanwhile, which is why `SessionHasOneWire` speaks of
  clients not stopped. On a reconnect a registration refused for good still
  ends in "streaming" when the host does not exit.

## 4. The proofs

The proofs hold for all items, agents, roles, sessions, hosts, wires, edges,
windows, caps and bounds, from the assumptions named in the modules: the shape
of the constants, and that `None` is nobody. Each safety and action property
of a passing run is stated by a theorem; one proof module belongs to one module
of the model.

### The work queue

`WorkQueueProofs`:

| theorem | property |
|---|---|
| `TypeCorrect` | `TypeOK` |
| `LeaseFollowsPhase` | `LeaseMatchesPhase` |
| `SuspenderIsOnRecord` | `SuspensionOnRecord` |
| `StewardsOutrankHolders` | `WithdrawalOutranksHolder` |
| `ClosedStaysClosed` | `ClosedIsFinal` |
| `DependenciesRemainMet` | `DependenciesStayMet` |
| `PausesTakeEffectOnce` | `PauseTakesEffectOnce` |
| `WithdrawnRowsStayPut` | `WithdrawnStaysPut` |
| `SweeperReapsOnlyLapsed` | `ReapsOnlyLapsed` |
| `DoneStaysGated` | `DoneIsGated` |
| `LeasesRunFullWindow` | `FullWindow` |
| `LapsedLeasesStayLapsed` | `LapsedStaysLapsed` |
| `BaselinesAreOwn` | `BaselineIsOwn` |
| `EvidenceStaysEarned` | `EvidenceIsEarned` |
| `WipCapIsKept` | `WipCapHolds` |
| `QueueKeepsCustody` | `ImplementsCustody` |

They hold for every `Demand`. The argument has two halves. `WorkItemProofs`
knows no queue: it collects the ways one row can become another in `RowStep` and
proves of each that it keeps the row well typed (`StepKeepsRow`), a lease in
exactly the phases that need one (`StepKeepsFit`), the suspender on record
(`StepKeepsSuspension`) and closed rows closed (`StepKeepsClosed`).
`QueueStepIsRowStep` then shows once and for all that whatever step the queue
takes, each of its rows takes a `RowStep` or stays: the invariants of the table
follow row by row.

`TypeOK` is inductive with nothing added; every lemma on rows assumes it.
`SuspensionOnRecord` is proved through `SuspensionInv`, which says it row by row
and adds two facts. A suspended row is in one of the four phases a pause
accepts: an attestation closes a row in review without looking at its
suspension, and only the phase keeps suspended rows out of its way. And a
suspended row waits for no decision: `systemUnblock` does not look at the
suspension either, and only the blocker the pause dropped keeps it from moving a
withdrawn row (the same line that finding 2 is about).
`WithdrawalOutranksHolder` follows from it without a step of its own: a held
suspended row was suspended by a steward, so the matrix's branch for a holder
that suspended itself is never taken by anybody but a steward.
`WithdrawnStaysPut` and `ClosedIsFinal` need the same invariant.

`DependenciesStayMet` holds because
only a claim makes an item worked on (`StepKeepsUnworked`), a claim reads its
dependencies closed, and closed rows stay closed. `ReapsOnlyLapsed` needs that
the time a sweep works with is never ahead of the clock (`SweepReadsPast`) and
that nothing but the sweeper records a lapse.

The refinement of `Custody` again goes by rows. `RowStepIsCustodyStep` says what
custody sees of a row's step: nothing, a contribution, an end of custody, or a
drop. `OneRowShows` says that a step shows on one row at most: only a renewal
writes several, and an extended lease shows nothing. A claim is treated on its
own, as it also mints the token.

`DoneIsGated` is a matter of the two ways to `done`: a completion finds its gate
open and a verdict closes only rows that bracket nothing, and what a gate was
opened by is final; unless an item demands `nothing`, either way needs evidence
(`DoneHasEvidence`). `FullWindow` and `LapsedStaysLapsed` follow from what each
verb writes to a lease (`QueueStepIsQueueVerb` lists what a step may do to a
row); the second needs the guard of a heartbeat, which goes up the ancestors.
`BaselineIsOwn` and `EvidenceIsEarned` are proved together as `BaselineInv`: a
claim dates the executor's first claim with the clock, so what keeps a baseline
from being somebody else's is that no recorded claim is ahead of the clock.
`WipCapHolds` speaks of a cardinality: `CapInv` adds that the set counted is
finite, which nothing else bounds, shows that steps other than a claim only take
rows out of it (`OthersKeepInFlight`) and that a claim adds one to a count it
has just read.

### The topology

| theorem of `TopologyProofs` | property |
|---|---|
| `HeadStaysWhole` | `HeadIsWhole` |
| `FencedWritesStayCurrent` | `FencedWritesAreCurrent` |
| `StaleWritesAreReported` | `StaleWriteIsReported` |

`TopologyInv` says of each process what its place implies. Under the lock means:
has the lock, or is in a session that is gone and has not noticed. An operation
about to publish in a session that is alive has read its own generation whole,
next to the head; a fenced writer past its pin has the head it read; the sweeper
may only be behind. The steps are shown to be of one form, `GoodStep`: rows of
the store are added and never changed, the head moves by one, under the lock, to
a generation that is all there, and the calls of others are not touched.
`GoodStepKeeps` shows once that such a step leaves the invariant of the
other processes alone; only the process that steps is then left to look at,
action by action.

### The projection

| theorem of `ProjectionProofs` | property |
|---|---|
| `ProjectionStaysSound` | (the inductive invariant `ProjectionInv`) |
| `NumbersStayDistinct` | `SequencesDistinct` |
| `MarkerStaysHonest` | `MarkerIsHonest` |

One call at most is between its allocation and its insert, and what it has
allocated is above every number in the store. For that the mutex has to be
followed: the flag is set while somebody is inside, the queue of waiters names
each call at most once and only calls that wait, so a release lets one in. A
leaked hold leaves the flag set with nobody inside, which keeps everybody out.
The marker is honest because a call that will set it past the last reply still
has that reply in its list, or has put it in the store, unless the thread is
read truncated.

### The sessions

| theorem of `SessionsProofs` | property |
|---|---|
| `SessionsStaySound` | (the inductive invariant `SessionsInv`) |
| `OnlyTheOwnerResolves` | `ResolvesOnlyOwner` |
| `TheDisplacedStayOut` | `DisplacedStaysOut` |

A session is carried from step to step by the map, a pointer row, the list of
the agent row, its place there as the current one, a call, or the pointer writes
a call still has to make (`Carried`). `OwnerInv` says that whatever is carried
has the role on record and, as long as no session used so far hides its host,
the host on record (`OnRecord`); identity is checked at the registration alone,
and every later place is filled from an earlier one. That the record names a
host while all sessions do is part of the invariant: without it the next
registration could bring another one. A displaced session stays out because it
has no transport to begin a call with, and nothing but its own call binds it;
this holds as long as no two handshakes overlap (`raced`), when one call at most
is under way.

### Threads

| theorem of `ThreadProofs` | property |
|---|---|
| `ThreadStaysSound` | (the inductive invariant `ThreadInv`) |
| `NobodyConvergesAlone` | `TwoAgentsConverge` |
| `SomebodyIsTold` | `CounterpartyResolved` |
| `AuthorityIsHeard` | `AuthorityWhenSeen` |
| `CascadeClosesWhatIsDone` | `ClosedByCascadeIsComplete` |
| `ThreadKeepsItsPromise` | `ImplementsNegotiation` |

`ThreadInv` has a part on the row and a part on each call. On the row
(`RowInv`): the last message is the one the convergence flag tells of; while the
thread is active, the turn is not with the role that spoke last (`TurnFits`),
unless that agent had replaced the first participant; what is committed was
converged by the last two messages (`AgreedByTwo`); something is committed
exactly when the thread has converged (`EndFits`). On calls: an action that is
committed and no longer to run has been executed, unless one failed
(`CascadeFits`), and a reply whose round is still the last has passed the check
of authority against this very row (`CheckFits`). The lemmas on the helpers
(`OpsProperties`, `RestatusProperties`, `UpsertProperties`,
`CounterpartProperties`) say what a reply does to the staged actions and to the
participants. The refinement goes action by action: `PromiseStep` is a step of
`Negotiation` or a stutter.

### The turn queue

| theorem of `TurnQueueProofs` | property |
|---|---|
| `QueueFollowsTurn` | (the inductive invariant `QueueInv`) |
| `WhoIsOwedIsQueued` | `OwedUnlessTorn` |
| `ClaimIsFinal` | `ClaimEndsTheRest` |

Replies overlap freely. Two history variables tell the cases in which the queue
may be wrong: `torn`, that the last reply met another call under way or was cut
short by a crash, and `rushed`, that the reply that claimed the broadcast did.
`QueueInv` holds at every await. If the last reply met no other, its call is the
only one under way (`OneReply`); then, while the thread is active, the agent
whose turn it is has an item that is not answered, or is on the list of that
call (`TurnFits`), and has no call of its own, so the item the call acknowledges
at the end, its author's, is not the next agent's. The invariant asks nothing of
the queue an overlap left behind: whatever state that is, the next reply that
runs by itself tells the next agent. After a claim that met nobody, only
participants are told or keep an open item, but for the time until the claimer
has ended the others, and this stays so however later replies overlap
(`ClaimFits`). Two lemmas carry the steps: whatever looks after the queue opens
no item and answers none (`CalmKeeps`), and a call only shortens its list by
whom the queue then knows (`CallKeeps`).

### The client

| theorem of `AgentClientProofs` | property |
|---|---|
| `ClientStaysSound` | (the inductive invariant `ClientInv`) |
| `OneWireAtATime` | `SessionHasOneWire` |
| `ReadyWhereItIs` | `ReadyOnItsOwnWire` |

No lock keeps `reconnectWire`, `start` and `reconnectSession` apart: the wire's
state, the session's state and the timer do, together. `ClientInv` says how. One
coroutine is at work at a time; a connected wire has none at work and is the
client's (`WireFits`); what a coroutine left when it began to wait is still so
when it goes on (`LoopFits`, `BootFits`, `CycleFits`); the wire follows the
session as long as the client is in service, that is, not stopped or of a host
that starts it again (`SessionFits`). The run of the current generation is on
the client's wire and no other run is (`RunsFit`), so a phase that finds itself
current acts on the wire it was made for. That a displaced client leaves no
coroutine behind rests on the hub: only a wire that registered is displaced, and
a registered wire is a connected one (`BoundFits`).

### Only model-checked

Liveness (`LapsedIsReaped`, `MarkedCascadeEnds`, `LadderEnds`,
`DisplacementEnds`, `LatestLands`, `FenceIsReleased`, `Reconnects`) and anything
with `ENABLED` are out of the prover's reach and stay with TLC. Of the client it
is not proved that its generations stay in `Gens`, a count of starts and faults
no property rests on: a phase beyond them would only not be recorded, and the
theorems hold either way.

## 5. What is not modelled, and the plan

Not modelled and not planned: schema reconciliation, envelope encoding and SQL
translation of the substrate, hashing and canonical JSON, HTTP and SSE plumbing,
rendering, and the record-keeping entities, which are I/O or have no
interleaving worth a model; deployment and packaging. The other components are
listed with their reasons in `PROJECT.json`.

Planned, in this order:

1. The rest of the queue: `LegalMoves` (the hand-written projection of the
   guards agrees with the verbs; candidates for divergence are rows paused by
   an older hub and blocked rows that lost their blocker), the edit tiers of
   `update_work` with the frozen authority, independence of verifiers over the
   whole life of a gate (attest first, claim later), reconciliation of legacy
   FAIL rows, the scan limit of the sweep.
2. `NoticeOutbox`: persist, project, mark, with failures between any two, as an
   implementation of at-least-once delivery; the notice's wording about tokens
   against what a pause really does with them.
3. `Messages`: claim, ack, scheduled delivery and the replay to a session that
   reconnects, joined with the adapter's event buffer, dedup and
   `Last-Event-ID`.
4. `Decisions`: the lifecycle, the grant's lock, the unblocking of items.
5. `CallPipeline` (circuit breaker, dedup of writes, cache) and `PollCursor`
   (the bridge's cursor and the events it repeats).

Proofs planned: of each module above as it comes, its safety properties; and
that `Topology` implements a specification with nothing but a head that moves.
