--------------------------- MODULE TopologyProofs ---------------------------
(***************************************************************************)
(* Theorems about the topology head, for any operations, writers, edges and*)
(* bounds.  The head moves only under the lock and only to a generation    *)
(* that was read whole; whoever works under the lock in a session that is  *)
(* alive works there alone.                                                *)
(***************************************************************************)
EXTENDS Topology, TLAPS

PCs == {"idle", "edges", "shards", "manifest", "operation", "prepared", "read",
        "publish", "reconcile", "pin", "write", "check", "ended"}
MaybePlan == Generation \cup {None}
EdgeSets == SUBSET Edges
Heads == 0 .. MaxNumber

Call == [pc : PCs, plan : MaybePlan, todo : EdgeSets, pin : Heads,
         wrote : {"nothing", "current", "stale"}, result : {"none", "ok", "error"}]

\* What an operation can build: the generation after the head it read.
Plans(o) == {g \in Generation : g.op = o /\ g.gen = g.prev + 1}

\* An operation under way has a plan.
CallOK(p, c) == c \in Call /\ (p \in Ops /\ c.pc # "idle" => c.plan \in Plans(p))

CallsOK ==
  /\ call \in [Procs -> Call]
  /\ \A p \in Procs : CallOK(p, call[p])

\* Every row of the store and every call has its shape.
TypeOK ==
  /\ head \in Heads
  /\ gens \in [Numbers -> MaybePlan]
  /\ edgeRows \in [Numbers -> EdgeSets]
  /\ shardRows \in [Numbers -> Ops \cup {Origin, None}]
  /\ ops \in [Ops \cup {Origin} -> {"none", "prepared", "committed"}]
  /\ latest \in Heads
  /\ rows \in [Numbers -> {"absent", "legacy", "identified"}]
  /\ lock \in Procs \cup {None}
  /\ lost \subseteq Procs
  /\ CallsOK

\* The places of a call under the lock (the sweeper is there without it).
Locked == {"read", "publish", "reconcile", "pin", "write", "check"}

\* A step of p does nothing to the calls of others, to their lock or to their
\* sessions.
OnlyCall(p) == \A q \in Procs \ {p} : call'[q] = call[q]
Frame(p) ==
  /\ OnlyCall(p)
  /\ \A q \in Procs \ {p} : (lock = q => lock' = q) /\ (q \in lost <=> q \in lost')

\* A step after which the call of p is not, or no more, under the lock; it moves
\* no head and leaves no trace of a write.
Rests(p) ==
  /\ call'[p].pc \notin Locked
  /\ call'[p].wrote \in {call[p].wrote, "nothing"}
  /\ head' = head

-----------------------------------------------------------------------------
(* Calls.                                                                  *)

\* A step of one call leaves the others alone.
LEMMA OneCall ==
  ASSUME CallsOK, NEW p \in Procs, NEW c, CallOK(p, c), call' = [call EXCEPT ![p] = c]
  PROVE  CallsOK' /\ call'[p] = c /\ OnlyCall(p)
  BY DEF CallsOK, CallOK, OnlyCall

\* An operation at work has a plan for the generation after another.
LEMMA PlanType ==
  ASSUME CallsOK, NEW o \in Ops, call[o].pc # "idle"
  PROVE  /\ Plan(o) \in Plans(o) /\ Plan(o) \in Generation /\ Plan(o) \in MaybePlan
         /\ Plan(o).gen \in Numbers /\ Plan(o).rev \in Numbers /\ Plan(o).prev \in Heads
         /\ Plan(o).op = o /\ Plan(o).gen = Plan(o).prev + 1
         /\ Plan(o).edges \in EdgeSets /\ Plan(o) # None
<1>1. Plan(o) \in Plans(o)
  BY DEF CallsOK, CallOK, Plan, Procs, Fenced
<1>2. QED
  BY <1>1, TopologyAssumption DEF Plans, Generation, MaybePlan, EdgeSets, Heads

\* A call that only moves on keeps everything else.
LEMMA GotoKeeps ==
  ASSUME CallsOK, NEW p \in Procs, NEW pc \in PCs, call[p].pc # "idle", Goto(p, pc)
  PROVE  /\ CallsOK' /\ OnlyCall(p)
         /\ call'[p].pc = pc /\ call'[p].plan = call[p].plan /\ call'[p].pin = call[p].pin
         /\ call'[p].wrote = call[p].wrote /\ call'[p].result = call[p].result
<1> DEFINE c == [call[p] EXCEPT !.pc = pc]
<1>1. call[p] \in Call
  BY DEF CallsOK
<1>2. /\ c \in Call /\ c.pc = pc /\ c.plan = call[p].plan /\ c.pin = call[p].pin
      /\ c.wrote = call[p].wrote /\ c.result = call[p].result
  BY <1>1 DEF Call
<1>3. CallOK(p, c)
  BY <1>2 DEF CallsOK, CallOK
<1>4. call' = [call EXCEPT ![p] = c]
  BY DEF Goto, CallsOK
<1> HIDE DEF c
<1>5. QED
  BY <1>2, <1>3, <1>4, OneCall

\* An idle call is a call.
LEMMA IdleIsCall ==
  /\ Idle \in Call
  /\ Idle.pc = "idle" /\ Idle.plan = None /\ Idle.wrote = "nothing" /\ Idle.result = "none"
  BY TopologyAssumption DEF Idle, Call, PCs, MaybePlan, EdgeSets, Heads

\* A call that ended is out of the lock and keeps what it built and wrote, or
\* starts afresh.
LEMMA EndedKeeps ==
  ASSUME CallsOK, NEW p \in Procs, NEW result \in {"ok", "error"}, call[p].pc # "idle",
         call' = [call EXCEPT ![p] = Ended(@, result)]
  PROVE  /\ CallsOK' /\ OnlyCall(p)
         /\ call'[p].pc \in {"idle", "ended"}
         /\ call'[p].wrote \in {call[p].wrote, "nothing"}
         /\ call'[p].plan = call[p].plan
         /\ result = "error" /\ call[p].plan = None => call'[p] = Idle
<1> DEFINE d == [call[p] EXCEPT !.pc = "ended", !.result = result, !.pin = 0, !.todo = {}]
<1>1. call[p] \in Call /\ (p \in Ops => call[p].plan \in Plans(p) /\ call[p].plan # None)
  BY TopologyAssumption DEF CallsOK, CallOK, Plans
<1>2. "ended" \in PCs /\ 0 \in Heads /\ {} \in EdgeSets
  BY TopologyAssumption DEF PCs, Heads, EdgeSets
<1>3. d \in Call /\ d.pc = "ended" /\ d.plan = call[p].plan /\ d.wrote = call[p].wrote
  BY <1>1, <1>2 DEF Call
<1>4. call' = [call EXCEPT ![p] = Ended(call[p], result)]
  BY DEF CallsOK
<1>5. Ended(call[p], result) = IF result = "error" /\ call[p].plan = None THEN Idle ELSE d
  BY DEF Ended
<1> HIDE DEF d
<1>6. CASE result = "error" /\ call[p].plan = None
  <2>1. CallOK(p, Idle)
    BY IdleIsCall DEF CallOK
  <2>2. call' = [call EXCEPT ![p] = Idle]
    BY <1>4, <1>5, <1>6
  <2>3. QED
    BY <1>6, <2>1, <2>2, OneCall, IdleIsCall
<1>7. CASE ~(result = "error" /\ call[p].plan = None)
  <2>1. CallOK(p, d)
    BY <1>1, <1>3 DEF CallOK
  <2>2. call' = [call EXCEPT ![p] = d]
    BY <1>4, <1>5, <1>7
  <2>3. QED
    BY <1>3, <1>7, <2>1, <2>2, OneCall
<1>8. QED
  BY <1>6, <1>7

\* The end of a call gives its lock and its session back and no one else's.
LEMMA EndKeeps ==
  ASSUME CallsOK, lock \in Procs \cup {None}, lost \subseteq Procs,
         NEW p \in Procs, NEW result \in {"ok", "error"}, End(p, result), call[p].pc # "idle"
  PROVE  /\ CallsOK' /\ Frame(p)
         /\ call'[p].pc \in {"idle", "ended"}
         /\ call'[p].wrote \in {call[p].wrote, "nothing"}
         /\ call'[p].plan = call[p].plan
         /\ result = "error" /\ call[p].plan = None => call'[p] = Idle
         /\ lock' \in Procs \cup {None}
         /\ lost' \subseteq Procs
<1>1. call' = [call EXCEPT ![p] = Ended(@, result)]
  BY DEF End
<1>2. /\ lock' \in Procs \cup {None} /\ lost' \subseteq Procs
      /\ \A q \in Procs \ {p} : (lock = q => lock' = q) /\ (q \in lost <=> q \in lost')
  BY DEF End, Released
<1>3. QED
  BY <1>1, <1>2, EndedKeeps DEF Frame

\* A plan is built on the head of the moment.
LEMMA BuildKeeps ==
  ASSUME TypeOK, NEW o \in Ops, Build(o)
  PROVE  /\ CallsOK' /\ OnlyCall(o) /\ latest' \in Heads
         /\ call'[o].pc = "edges" /\ call'[o].wrote = call[o].wrote
<1> USE TopologyAssumption DEF Procs, Fenced
<1>1. PICK es \in SUBSET Edges :
        LET plan == IF head = 0 THEN First(o)
                    ELSE [gen |-> head + 1, prev |-> head, rev |-> latest + 1,
                          edges |-> es, op |-> o] IN
          /\ call' = [call EXCEPT ![o].pc = "edges", ![o].todo = plan.edges, ![o].plan = plan]
          /\ latest' = IF head = 0 THEN latest ELSE plan.rev
  BY DEF Build
<1> DEFINE plan == IF head = 0 THEN First(o)
                   ELSE [gen |-> head + 1, prev |-> head, rev |-> latest + 1,
                         edges |-> es, op |-> o]
<1>2. plan \in Plans(o)
  BY DEF TypeOK, Heads, Build, First, Generation, Numbers, Plans
<1>3. plan \in Generation /\ plan.edges \in SUBSET Edges
  BY <1>2 DEF Plans, Generation
<1>4. latest' \in Heads
  BY <1>1 DEF TypeOK, Heads, Build
<1>5. call' = [call EXCEPT ![o].pc = "edges", ![o].todo = plan.edges, ![o].plan = plan]
  BY <1>1
<1> HIDE DEF plan
<1> DEFINE c == [call[o] EXCEPT !.pc = "edges", !.todo = plan.edges, !.plan = plan]
<1>6. call' = [call EXCEPT ![o] = c]
  BY <1>5 DEF TypeOK, CallsOK
<1>7. call[o] \in Call
  BY DEF TypeOK, CallsOK
<1>8. "edges" \in PCs /\ plan \in MaybePlan /\ plan.edges \in EdgeSets
  BY <1>3 DEF PCs, MaybePlan, EdgeSets
<1>9. c \in Call /\ c.pc = "edges" /\ c.plan = plan /\ c.wrote = call[o].wrote
  BY <1>7, <1>8 DEF Call
<1>10. CallOK(o, c)
  BY <1>2, <1>9 DEF CallOK
<1> HIDE DEF c
<1>11. QED
  BY <1>4, <1>6, <1>9, <1>10, OneCall DEF TypeOK

-----------------------------------------------------------------------------
(* The invariant.                                                          *)

\* Generation n is all there, but for rows that a rival added.
Sound(n) ==
  /\ gens[n] # None /\ gens[n].prev = n - 1
  /\ gens[n].edges \subseteq edgeRows[n]
  /\ shardRows[n] = gens[n].op
  /\ ops[gens[n].op] # "none"
  /\ rows[gens[n].rev] = "identified"

\* A call works under the lock or in a session that is gone.
LockFits(p) == call[p].pc \in Locked => lock = p \/ p \in lost

\* An operation about to publish, in a session that is alive, read its own whole
\* generation next to the head; one about to reconcile has its generation there.
OpFits(o) ==
  /\ At(o, "publish") /\ o \notin lost =>
       /\ call[o].pin = head /\ Plan(o).prev = head
       /\ gens[Plan(o).gen] = Plan(o) /\ Sound(Plan(o).gen)
  /\ At(o, "reconcile") => Plan(o).gen <= head /\ gens[Plan(o).gen] = Plan(o)

\* The head does not move under a fenced call whose session is alive.
WriterFits(w) ==
  /\ call[w].wrote # "stale"
  /\ call[w].pc \in {"write", "check"} /\ w \notin lost => call[w].pin = head

\* The head moves under the sweeper, and then never back to its pin.
SweeperFits ==
  /\ call[Sweeper].plan = None
  /\ call[Sweeper].pc \in {"write", "check"} =>
       call[Sweeper].pin <= head /\ call[Sweeper].result = "none"
  /\ call[Sweeper].wrote = "stale" => At(Sweeper, "check") /\ call[Sweeper].pin < head

ProcFits(p) ==
  /\ p \in Fenced => LockFits(p)
  /\ p \in Ops => OpFits(p)
  /\ p \in Writers => WriterFits(p)
  /\ p = Sweeper => SweeperFits

TopologyInv ==
  /\ TypeOK
  /\ \A p \in Procs : ProcFits(p)
  /\ \A n \in 1 .. head : Sound(n)
  /\ \A o \in Ops \cup {Origin} : ops[o] = "committed" => \E n \in 1 .. head : gens[n].op = o

\* Rows of the store are added, never changed or taken back.
StoreGrows ==
  /\ \A n \in Numbers : gens[n] # None => gens'[n] = gens[n]
  /\ \A n \in Numbers : edgeRows[n] \subseteq edgeRows'[n]
  /\ \A n \in Numbers : shardRows[n] # None => shardRows'[n] = shardRows[n]
  /\ \A o \in Ops \cup {Origin} : ops[o] # "none" => ops'[o] # "none"
  /\ \A n \in Numbers : rows[n] = "identified" => rows'[n] = "identified"

\* The head moves by one, to a whole generation, by whoever has the lock.
Moves(p) == head' = head \/ (head' = head + 1 /\ lock = p /\ Sound(head + 1))

\* An operation is committed when the head has reached its generation.
Commits ==
  \A o \in Ops \cup {Origin} :
    ops'[o] = "committed" => ops[o] = "committed" \/ \E n \in 1 .. head : gens[n].op = o

\* What every step of a process is.
GoodStep(p) == TypeOK' /\ Frame(p) /\ StoreGrows /\ Moves(p) /\ Commits /\ ProcFits(p)'

\* A generation that is all there stays so, and stays the same.
LEMMA SoundStays ==
  ASSUME TypeOK, StoreGrows, NEW n \in Numbers, Sound(n)
  PROVE  Sound(n)' /\ gens'[n] = gens[n]
<1>1. gens[n] \in Generation
  BY DEF TypeOK, MaybePlan, Sound
<1>2. gens[n].op \in Ops \cup {Origin} /\ gens[n].rev \in Numbers
  BY <1>1 DEF Generation
<1>3. gens[n].op # None
  BY <1>2, TopologyAssumption
<1>4. gens'[n] = gens[n] /\ shardRows'[n] = shardRows[n]
  BY <1>3 DEF StoreGrows, Sound
<1>5. QED
  BY <1>2, <1>4 DEF StoreGrows, Sound

\* A step of one process leaves the invariant of the others alone: the head
\* moves only under the lock, which the others in live sessions do not have.
LEMMA OthersFit ==
  ASSUME TopologyInv, NEW p \in Procs, GoodStep(p), NEW q \in Procs \ {p}
  PROVE  ProcFits(q)'
<1>1. /\ call'[q] = call[q] /\ (lock = q => lock' = q) /\ (q \in lost <=> q \in lost')
      /\ ProcFits(q) /\ TypeOK
  BY DEF GoodStep, Frame, OnlyCall, TopologyInv
<1>2. head \in Nat /\ head' \in Nat /\ head' >= head
  BY DEF GoodStep, Moves, TypeOK, Heads, TopologyInv
<1>3. q \in Fenced /\ call[q].pc \in Locked /\ q \notin lost => head' = head
  BY <1>1, TopologyAssumption DEF GoodStep, Moves, ProcFits, LockFits
<1>4. q \in Fenced => LockFits(q)'
  BY <1>1 DEF ProcFits, LockFits
<1>5. ASSUME q \in Ops
      PROVE  OpFits(q)'
  <2>1. OpFits(q) /\ q \in Fenced
    BY <1>1, <1>5 DEF ProcFits, Fenced
  <2>2. Plan(q)' = Plan(q)
    BY <1>1 DEF Plan
  <2>3. ASSUME At(q, "publish") \/ At(q, "reconcile")
        PROVE  Plan(q).gen \in Numbers /\ Plan(q) # None /\ Plan(q).gen \in Nat
    <3>1. call[q].pc # "idle"
      BY <2>3 DEF At
    <3>2. QED
      BY <1>1, <1>5, <3>1, PlanType DEF TypeOK, Numbers
  <2>4. ASSUME At(q, "publish")', q \notin lost'
        PROVE  /\ call'[q].pin = head' /\ Plan(q).prev = head'
               /\ gens'[Plan(q).gen] = Plan(q) /\ Sound(Plan(q).gen)'
    <3>1. At(q, "publish") /\ q \notin lost /\ call[q].pc \in Locked
      BY <1>1, <2>4 DEF At, Locked
    <3>2. head' = head
      BY <1>3, <2>1, <3>1
    <3>3. gens[Plan(q).gen] = Plan(q) /\ Sound(Plan(q).gen) /\ Plan(q).prev = head /\ call[q].pin = head
      BY <2>1, <3>1 DEF OpFits
    <3>4. PICK g \in Numbers : g = Plan(q).gen
      BY <2>3, <3>1
    <3>5. Sound(g)
      BY <3>3, <3>4
    <3>6. Sound(g)' /\ gens'[g] = gens[g]
      BY <1>1, <3>5, SoundStays DEF GoodStep
    <3>7. Sound(Plan(q).gen)'
      BY <2>2, <3>4, <3>6
    <3>8. QED
      BY <1>1, <3>2, <3>3, <3>4, <3>6, <3>7
  <2>5. ASSUME At(q, "reconcile")'
        PROVE  Plan(q).gen <= head' /\ gens'[Plan(q).gen] = Plan(q)
    <3>1. At(q, "reconcile")
      BY <1>1, <2>5 DEF At
    <3>2. Plan(q).gen <= head /\ gens[Plan(q).gen] = Plan(q)
      BY <2>1, <3>1 DEF OpFits
    <3>3. Plan(q).gen \in Numbers /\ Plan(q) # None /\ Plan(q).gen \in Nat
      BY <2>3, <3>1
    <3>4. gens'[Plan(q).gen] = gens[Plan(q).gen]
      BY <3>2, <3>3 DEF GoodStep, StoreGrows
    <3>5. QED
      BY <1>2, <3>2, <3>3, <3>4
  <2>6. QED
    BY <2>2, <2>4, <2>5 DEF OpFits, At
<1>6. ASSUME q \in Writers
      PROVE  WriterFits(q)'
  BY <1>1, <1>3, <1>6 DEF ProcFits, WriterFits, Fenced, Locked
<1>7. ASSUME q = Sweeper
      PROVE  SweeperFits'
  <2>1. call[q].pin \in Nat
    BY <1>1 DEF TypeOK, CallsOK, Call, Heads
  <2>2. QED
    BY <1>1, <1>2, <1>7, <2>1 DEF ProcFits, SweeperFits, At
<1>8. QED
  BY <1>4, <1>5, <1>6, <1>7 DEF ProcFits

\* A good step keeps the invariant.
LEMMA GoodStepKeeps ==
  ASSUME TopologyInv, NEW p \in Procs, GoodStep(p)
  PROVE  TopologyInv'
<1>1. \A q \in Procs : ProcFits(q)'
  BY OthersFit DEF GoodStep
<1>2. TypeOK /\ TypeOK' /\ head \in Heads /\ head' \in Heads
  BY DEF TopologyInv, GoodStep, TypeOK
<1>3. 1 .. head \subseteq Numbers /\ head + 1 \in Nat /\ head \in Nat
  BY <1>2, TopologyAssumption DEF Heads, Numbers
<1>4. ASSUME NEW n \in 1 .. head'
      PROVE  Sound(n)'
  <2>1. Sound(n)
    BY <1>3, <1>4 DEF TopologyInv, GoodStep, Moves
  <2>2. n \in Numbers
    BY <1>2, <1>4, TopologyAssumption DEF Heads, Numbers
  <2>3. QED
    BY <1>2, <2>1, <2>2, SoundStays DEF GoodStep
<1>5. ASSUME NEW o \in Ops \cup {Origin}, ops'[o] = "committed"
      PROVE  \E n \in 1 .. head' : gens'[n].op = o
  <2>1. PICK n \in 1 .. head : gens[n].op = o
    BY <1>5 DEF GoodStep, Commits, TopologyInv
  <2>2. n \in Numbers /\ Sound(n)
    BY <1>3 DEF TopologyInv
  <2>3. gens'[n] = gens[n]
    BY <1>2, <2>2, SoundStays DEF GoodStep
  <2>4. n \in 1 .. head'
    BY <1>3 DEF GoodStep, Moves
  <2>5. QED
    BY <2>1, <2>3, <2>4
<1>6. QED
  BY <1>1, <1>2, <1>4, <1>5 DEF TopologyInv

-----------------------------------------------------------------------------
(* Every step is a good step: operations.                                  *)

\* The processes are told apart.
LEMMA ProcsApart ==
  /\ Ops \subseteq Procs /\ Writers \subseteq Procs /\ Sweeper \in Procs
  /\ Fenced \subseteq Procs /\ Ops \subseteq Fenced /\ Writers \subseteq Fenced
  /\ Ops \cap Writers = {} /\ Sweeper \notin Fenced /\ None \notin Procs
  BY TopologyAssumption DEF Procs, Fenced

\* A process under the fence that is not at work under it fits.
LEMMA RestsFits ==
  ASSUME NEW p \in Fenced, ProcFits(p), Rests(p)
  PROVE  ProcFits(p)'
  BY ProcsApart DEF ProcFits, Rests, LockFits, OpFits, WriterFits, Locked, At

\* A step that touches no row of the store.
LEMMA SameStore ==
  ASSUME UNCHANGED svars
  PROVE  StoreGrows /\ Commits
  BY DEF StoreGrows, Commits, svars

\* Building and storing a generation, with no lock.
LEMMA PrepareStep ==
  ASSUME TopologyInv, NEW o \in Ops,
         Build(o) \/ PutEdge(o) \/ PutShards(o) \/ PutGeneration(o) \/ PutOperation(o)
  PROVE  GoodStep(o)
<1> USE ProcsApart
<1>0. TypeOK /\ CallsOK /\ ProcFits(o) /\ o \in Procs /\ o \in Fenced
  BY DEF TopologyInv, TypeOK
<1>1. /\ lock' = lock /\ lost' = lost /\ head' = head
  BY DEF Build, PutEdge, PutShards, PutGeneration, PutOperation
<1>2. ASSUME OnlyCall(o)
      PROVE  Frame(o) /\ Moves(o)
  BY <1>1, <1>2 DEF Frame, Moves
<1>3. CASE Build(o)
  <2>1. CallsOK' /\ OnlyCall(o) /\ Rests(o) /\ latest' \in Heads
    BY <1>0, <1>1, <1>3, BuildKeeps DEF Rests, Locked
  <2>2. TypeOK' /\ StoreGrows /\ Commits
    BY <1>0, <1>1, <1>3, <2>1 DEF TypeOK, Build, StoreGrows, Commits
  <2>3. QED
    BY <1>0, <1>2, <2>1, <2>2, RestsFits DEF GoodStep
<1>p. ASSUME call[o].pc # "idle"
      PROVE  /\ Plan(o) \in MaybePlan /\ Plan(o).gen \in Numbers /\ Plan(o).rev \in Heads
             /\ Plan(o) # None /\ Plan(o).op = o /\ call[o] \in Call
  BY <1>0, <1>p, PlanType DEF CallsOK, Numbers, Heads
<1>4. CASE PutEdge(o)
  <2>1. call[o].pc = "edges" /\ latest' \in Heads
    BY <1>0, <1>4, <1>p DEF PutEdge, At, TypeOK, Heads
  <2>2. CASE call[o].todo = {}
    <3>1. CallsOK' /\ OnlyCall(o) /\ Rests(o)
      BY <1>0, <1>1, <1>4, <2>1, <2>2, GotoKeeps DEF PutEdge, PCs, Rests, Locked
    <3>2. TypeOK' /\ StoreGrows /\ Commits
      BY <1>0, <1>1, <1>4, <2>1, <2>2, <3>1 DEF TypeOK, PutEdge, StoreGrows, Commits
    <3>3. QED
      BY <1>0, <1>2, <3>1, <3>2, RestsFits DEF GoodStep
  <2>3. CASE call[o].todo # {}
    <3>1. PICK e \in call[o].todo : /\ edgeRows' = [edgeRows EXCEPT ![Plan(o).gen] = @ \cup {e}]
                                   /\ call' = [call EXCEPT ![o].todo = @ \ {e}]
      BY <1>4, <2>3 DEF PutEdge
    <3> DEFINE c == [call[o] EXCEPT !.todo = @ \ {e}]
    <3>2. call' = [call EXCEPT ![o] = c]
      BY <1>0, <3>1 DEF CallsOK
    <3>3. call[o].todo \ {e} \in EdgeSets /\ e \in Edges
      BY <1>p, <2>1, <3>1 DEF Call, EdgeSets
    <3>4. c \in Call /\ c.pc = call[o].pc /\ c.plan = call[o].plan /\ c.wrote = call[o].wrote
      BY <1>p, <2>1, <3>3 DEF Call
    <3>5. CallOK(o, c)
      BY <1>0, <3>4 DEF CallOK, CallsOK
    <3> HIDE DEF c
    <3>6. CallsOK' /\ OnlyCall(o) /\ Rests(o)
      BY <1>0, <1>1, <2>1, <3>2, <3>4, <3>5, OneCall DEF Rests, Locked
    <3>7. edgeRows' \in [Numbers -> EdgeSets] /\ \A n \in Numbers : edgeRows[n] \subseteq edgeRows'[n]
      BY <1>0, <1>p, <2>1, <3>1, <3>3 DEF TypeOK, EdgeSets
    <3>8. TypeOK' /\ StoreGrows /\ Commits
      BY <1>0, <1>1, <1>4, <2>1, <3>6, <3>7 DEF TypeOK, PutEdge, StoreGrows, Commits
    <3>9. QED
      BY <1>0, <1>2, <3>6, <3>8, RestsFits DEF GoodStep
  <2>4. QED
    BY <2>2, <2>3
<1>5. CASE PutShards(o)
  <2>1. call[o].pc = "shards"
    BY <1>5 DEF PutShards, At
  <2>2. CallsOK' /\ OnlyCall(o) /\ Rests(o)
    BY <1>0, <1>1, <1>5, <2>1, GotoKeeps, EndedKeeps DEF PutShards, Failed, PCs, Rests, Locked
  <2>3. TypeOK' /\ StoreGrows /\ Commits
    BY <1>0, <1>1, <1>5, <1>p, <2>1, <2>2 DEF TypeOK, PutShards, StoreGrows, Commits
  <2>4. QED
    BY <1>0, <1>2, <2>2, <2>3, RestsFits DEF GoodStep
<1>6. CASE PutGeneration(o)
  <2>1. call[o].pc = "manifest"
    BY <1>6 DEF PutGeneration, At
  <2>2. CallsOK' /\ OnlyCall(o) /\ Rests(o)
    BY <1>0, <1>1, <1>6, <2>1, GotoKeeps, EndedKeeps DEF PutGeneration, Failed, PCs, Rests, Locked
  <2>3. TypeOK' /\ StoreGrows /\ Commits
    BY <1>0, <1>1, <1>6, <1>p, <2>1, <2>2 DEF TypeOK, PutGeneration, StoreGrows, Commits
  <2>4. QED
    BY <1>0, <1>2, <2>2, <2>3, RestsFits DEF GoodStep
<1>7. CASE PutOperation(o)
  <2>1. call[o].pc = "operation"
    BY <1>7 DEF PutOperation, At
  <2>2. CallsOK' /\ OnlyCall(o) /\ Rests(o)
    BY <1>0, <1>1, <1>7, <2>1, GotoKeeps DEF PutOperation, PCs, Rests, Locked
  <2>3. TypeOK' /\ StoreGrows /\ Commits
    BY <1>0, <1>1, <1>7, <2>2 DEF TypeOK, PutOperation, StoreGrows, Commits
  <2>4. QED
    BY <1>0, <1>2, <2>2, <2>3, RestsFits DEF GoodStep
<1>8. QED
  BY <1>3, <1>4, <1>5, <1>6, <1>7

\* A process under the fence whose call ends, with the head and the store as
\* they were.
LEMMA EndStep ==
  ASSUME TopologyInv, NEW p \in Fenced, NEW result \in {"ok", "error"}, End(p, result),
         call[p].pc # "idle", UNCHANGED <<head, svars>>
  PROVE  GoodStep(p)
<1>1. TypeOK /\ ProcFits(p) /\ p \in Procs
  BY ProcsApart DEF TopologyInv
<1>2. /\ CallsOK' /\ Frame(p) /\ Rests(p)
      /\ lock' \in Procs \cup {None} /\ lost' \subseteq Procs
  BY <1>1, EndKeeps DEF TypeOK, Rests, Locked
<1>3. TypeOK'
  BY <1>1, <1>2 DEF TypeOK, svars
<1>4. StoreGrows /\ Commits
  BY SameStore
<1>5. QED
  BY <1>1, <1>2, <1>3, <1>4, RestsFits DEF GoodStep, Moves

\* A step that changes the call of p and the lock, and nothing else.
LEMMA CallStep ==
  ASSUME TopologyInv, NEW p \in Procs, NEW c, CallOK(p, c), call' = [call EXCEPT ![p] = c],
         lock' = lock \/ (lock = None /\ lock' = p), UNCHANGED <<head, svars, lost>>
  PROVE  /\ TypeOK' /\ Frame(p) /\ StoreGrows /\ Moves(p) /\ Commits
         /\ call'[p] = c
<1>1. TypeOK
  BY DEF TopologyInv
<1>2. CallsOK' /\ OnlyCall(p) /\ call'[p] = c
  BY <1>1, OneCall DEF TypeOK
<1>3. TypeOK'
  BY <1>1, <1>2 DEF TypeOK, svars
<1>4. Frame(p)
  BY <1>2, ProcsApart DEF Frame
<1>5. QED
  BY <1>2, <1>3, <1>4, SameStore DEF Moves

\* An operation that is tried again, and one that waited for the lock in vain.
LEMMA RetryStep ==
  ASSUME TopologyInv, NEW o \in Ops, Retry(o) \/ LockTimeout(o)
  PROVE  GoodStep(o)
<1> USE ProcsApart
<1>1. TypeOK /\ CallsOK /\ ProcFits(o) /\ o \in Procs /\ o \in Fenced /\ call[o] \in Call
  BY DEF TopologyInv, TypeOK, CallsOK
<1>2. CASE Retry(o)
  <2> DEFINE c == [call[o] EXCEPT !.pc = "edges", !.result = "none", !.todo = Plan(o).edges]
  <2>1. call[o].pc = "ended"
    BY <1>2 DEF Retry, At
  <2>2. Plan(o).edges \in EdgeSets /\ "edges" \in PCs
    BY <1>1, <2>1, PlanType DEF PCs
  <2>3. c \in Call /\ c.pc = "edges" /\ c.plan = call[o].plan /\ c.wrote = call[o].wrote
    BY <1>1, <2>2 DEF Call
  <2>4. CallOK(o, c)
    BY <1>1, <2>1, <2>3 DEF CallOK, CallsOK
  <2>5. call' = [call EXCEPT ![o] = c]
    BY <1>1, <1>2 DEF Retry, CallsOK
  <2> HIDE DEF c
  <2>6. /\ TypeOK' /\ Frame(o) /\ StoreGrows /\ Moves(o) /\ Commits
        /\ call'[o] = c /\ head' = head
    BY <1>1, <1>2, <2>4, <2>5, CallStep DEF Retry
  <2>7. Rests(o)
    BY <2>3, <2>6 DEF Rests, Locked
  <2>8. QED
    BY <1>1, <2>6, <2>7, RestsFits DEF GoodStep
<1>3. CASE LockTimeout(o)
  <2>1. call[o].pc # "idle" /\ call' = [call EXCEPT ![o] = Ended(@, "error")]
    BY <1>3 DEF LockTimeout, At
  <2>2. UNCHANGED <<head, svars, lock, lost>>
    BY <1>3 DEF LockTimeout
  <2>3. CallsOK' /\ OnlyCall(o) /\ Rests(o)
    BY <1>1, <2>1, <2>2, EndedKeeps DEF Rests, Locked
  <2>4. TypeOK' /\ Frame(o)
    BY <1>1, <2>2, <2>3 DEF TypeOK, svars, Frame
  <2>5. QED
    BY <1>1, <2>2, <2>3, <2>4, SameStore, RestsFits DEF GoodStep, Moves
<1>4. QED
  BY <1>2, <1>3

\* The physical row of a generation is written between calls.
LEMMA MaterializeStep ==
  ASSUME TopologyInv, NEW o \in Ops, Materialize(o)
  PROVE  GoodStep(o)
<1> USE ProcsApart
<1>1. TypeOK /\ CallsOK /\ ProcFits(o) /\ call[o].pc = "prepared"
  BY DEF TopologyInv, TypeOK, Materialize, At
<1>2. Plan(o).rev \in Numbers
  BY <1>1, PlanType
<1>3. UNCHANGED <<head, gens, edgeRows, shardRows, ops, latest, lock, lost, call>>
  BY DEF Materialize
<1>4. /\ rows' \in [Numbers -> {"absent", "legacy", "identified"}]
      /\ \A n \in Numbers : rows[n] = "identified" => rows'[n] = "identified"
  BY <1>1, <1>2 DEF Materialize, TypeOK
<1>5. TypeOK' /\ StoreGrows /\ Commits
  BY <1>1, <1>3, <1>4 DEF TypeOK, CallsOK, StoreGrows, Commits
<1>6. Frame(o) /\ Moves(o) /\ Rests(o)
  BY <1>1, <1>3 DEF Frame, OnlyCall, Moves, Rests, Locked
<1>7. QED
  BY <1>1, <1>5, <1>6, RestsFits DEF GoodStep

\* activateGeneration takes the lock.
LEMMA ActivateStep ==
  ASSUME TopologyInv, NEW o \in Ops, At(o, "prepared"), Acquire(o, [call[o] EXCEPT !.pc = "read"])
  PROVE  GoodStep(o)
<1> USE ProcsApart
<1>1. TypeOK /\ CallsOK /\ ProcFits(o) /\ call[o].pc = "prepared" /\ call[o] \in Call
  BY DEF TopologyInv, TypeOK, CallsOK, At
<1> DEFINE c == [call[o] EXCEPT !.pc = "read"]
<1>2. c \in Call /\ c.pc = "read" /\ c.plan = call[o].plan
  BY <1>1 DEF Call, PCs
<1>3. CallOK(o, c)
  BY <1>1, <1>2 DEF CallOK, CallsOK
<1>4. call' = [call EXCEPT ![o] = c] /\ lock = None /\ lock' = o /\ UNCHANGED <<head, svars, lost>>
  BY DEF Acquire
<1> HIDE DEF c
<1>5. TypeOK' /\ Frame(o) /\ StoreGrows /\ Moves(o) /\ Commits /\ call'[o] = c
  BY <1>3, <1>4, CallStep
<1>6. ProcFits(o)'
  BY <1>2, <1>4, <1>5 DEF ProcFits, LockFits, OpFits, At
<1>7. QED
  BY <1>5, <1>6 DEF GoodStep

\* activateGeneration reads the head and its own generation: it ends, goes on to
\* publish a whole generation next to the head, or finds itself published.
LEMMA ReadStep ==
  ASSUME TopologyInv, NEW o \in Ops, ReadPrepared(o)
  PROVE  GoodStep(o)
<1> USE ProcsApart
<1>1. /\ TypeOK /\ CallsOK /\ ProcFits(o) /\ call[o].pc = "read" /\ call[o] \in Call
      /\ o \notin lost /\ UNCHANGED <<head, svars>>
  BY DEF TopologyInv, TypeOK, CallsOK, At, ReadPrepared, Query
<1>2. lock = o
  BY <1>1 DEF ProcFits, LockFits, Locked
<1>3. /\ Plan(o) \in Generation /\ Plan(o).gen \in Numbers /\ Plan(o) # None
      /\ Plan(o).gen = Plan(o).prev + 1 /\ Plan(o).prev \in Nat
  BY <1>1, PlanType DEF Heads
<1>4. ASSUME NEW pc \in {"publish", "reconcile"}, UNCHANGED <<lock, lost>>,
             call' = [call EXCEPT ![o].pc = pc, ![o].pin = head]
      PROVE  /\ TypeOK' /\ Frame(o) /\ StoreGrows /\ Moves(o) /\ Commits /\ LockFits(o)'
             /\ call'[o].pc = pc /\ call'[o].pin = head /\ call'[o].plan = call[o].plan
  <2> DEFINE c == [call[o] EXCEPT !.pc = pc, !.pin = head]
  <2>1. c \in Call /\ c.pc = pc /\ c.plan = call[o].plan /\ c.pin = head
    BY <1>1 DEF Call, PCs, TypeOK
  <2>2. CallOK(o, c)
    BY <1>1, <2>1 DEF CallOK, CallsOK
  <2>3. call' = [call EXCEPT ![o] = c]
    BY <1>1, <1>4 DEF CallsOK
  <2> HIDE DEF c
  <2>4. TypeOK' /\ Frame(o) /\ StoreGrows /\ Moves(o) /\ Commits /\ call'[o] = c
    BY <1>1, <1>4, <2>2, <2>3, CallStep
  <2>5. QED
    BY <1>2, <1>4, <2>1, <2>4 DEF LockFits
<1>5. PICK g \in Numbers : g = Plan(o).gen
  BY <1>3
<1>6. CASE /\ head = g /\ gens[g] = Plan(o)
           /\ call' = [call EXCEPT ![o].pc = "reconcile", ![o].pin = head]
           /\ UNCHANGED <<lock, lost>>
  <2>1. /\ TypeOK' /\ Frame(o) /\ StoreGrows /\ Moves(o) /\ Commits /\ LockFits(o)'
        /\ call'[o].pc = "reconcile" /\ call'[o].plan = call[o].plan
    BY <1>4, <1>6
  <2>2. OpFits(o)'
    BY <1>1, <1>5, <1>6, <2>1 DEF OpFits, At, Plan, svars, Numbers
  <2>3. QED
    BY <2>1, <2>2 DEF GoodStep, ProcFits
<1>7. CASE /\ Whole(g) /\ gens[g] = Plan(o) /\ BoundRows(g) /\ head = Plan(o).prev
           /\ call' = [call EXCEPT ![o].pc = "publish", ![o].pin = head]
           /\ UNCHANGED <<lock, lost>>
  <2>1. /\ TypeOK' /\ Frame(o) /\ StoreGrows /\ Moves(o) /\ Commits /\ LockFits(o)'
        /\ call'[o].pc = "publish" /\ call'[o].plan = call[o].plan /\ call'[o].pin = head
    BY <1>4, <1>7
  <2>2. Sound(g)
    BY <1>3, <1>5, <1>7 DEF Sound, Whole, BoundRows
  <2>3. Sound(g)' /\ gens'[g] = gens[g]
    BY <1>1, <2>1, <2>2, SoundStays
  <2>4. OpFits(o)'
    BY <1>1, <1>5, <1>7, <2>1, <2>3 DEF OpFits, At, Plan
  <2>5. QED
    BY <2>1, <2>4 DEF GoodStep, ProcFits
<1>8. CASE End(o, "error")
  BY <1>1, <1>8, EndStep
<1>9. QED
  BY <1>5, <1>6, <1>7, <1>8 DEF ReadPrepared

\* The head moves, to the generation its operation read whole next to it.
LEMMA PublishStep ==
  ASSUME TopologyInv, NEW o \in Ops, PublishHead(o)
  PROVE  GoodStep(o)
<1> USE ProcsApart
<1>1. /\ TypeOK /\ CallsOK /\ ProcFits(o) /\ call[o].pc = "publish"
      /\ o \notin lost /\ UNCHANGED svars
  BY DEF TopologyInv, TypeOK, At, PublishHead, Query
<1>2. lock = o /\ OpFits(o)
  BY <1>1 DEF ProcFits, LockFits, Locked
<1>3. /\ Plan(o).gen \in Numbers /\ Plan(o).gen = Plan(o).prev + 1 /\ Plan(o).prev = head
      /\ Plan(o).gen \in Heads /\ gens[Plan(o).gen] = Plan(o) /\ Sound(Plan(o).gen)
  BY <1>1, <1>2, PlanType DEF OpFits, At, Heads, Numbers
<1>4. CASE head' = Plan(o).gen /\ Goto(o, "reconcile") /\ UNCHANGED <<lock, lost>>
  <2>1. CallsOK' /\ OnlyCall(o) /\ call'[o].pc = "reconcile" /\ call'[o].plan = call[o].plan
    BY <1>1, <1>4, GotoKeeps DEF PCs
  <2>2. TypeOK' /\ Frame(o)
    BY <1>1, <1>3, <1>4, <2>1 DEF TypeOK, svars, Frame
  <2>3. Moves(o)
    BY <1>2, <1>3, <1>4 DEF Moves
  <2>4. ProcFits(o)'
    <3>1. Plan(o)' = Plan(o)
      BY <2>1 DEF Plan
    <3>2. Plan(o).gen <= head' /\ gens'[Plan(o).gen] = Plan(o)
      BY <1>1, <1>3, <1>4 DEF svars, Numbers
    <3>3. OpFits(o)'
      BY <2>1, <3>1, <3>2 DEF OpFits, At
    <3>4. QED
      BY <1>2, <1>4, <3>3 DEF ProcFits, LockFits
  <2>5. QED
    BY <1>1, <2>2, <2>3, <2>4, SameStore DEF GoodStep
<1>5. CASE End(o, "error") /\ UNCHANGED head
  BY <1>1, <1>5, EndStep
<1>6. QED
  BY <1>4, <1>5 DEF PublishHead

\* The operation is marked committed: the head has reached its generation.
LEMMA ReconcileStep ==
  ASSUME TopologyInv, NEW o \in Ops, ReconcileCommittedOperation(o)
  PROVE  GoodStep(o)
<1> USE ProcsApart
<1>1. /\ TypeOK /\ CallsOK /\ ProcFits(o) /\ call[o].pc = "reconcile" /\ o \in Procs
      /\ UNCHANGED <<head, gens, edgeRows, shardRows, latest, rows>>
      /\ ops' = [ops EXCEPT ![o] = "committed"]
  BY DEF TopologyInv, TypeOK, At, ReconcileCommittedOperation
<1>2. PICK result \in {"ok", "error"} : End(o, result)
  BY DEF ReconcileCommittedOperation
<1>3. /\ CallsOK' /\ Frame(o) /\ Rests(o)
      /\ lock' \in Procs \cup {None} /\ lost' \subseteq Procs
  BY <1>1, <1>2, EndKeeps DEF TypeOK, Rests, Locked
<1>4. /\ ops' \in [Ops \cup {Origin} -> {"none", "prepared", "committed"}]
      /\ \A x \in Ops \cup {Origin} : ops'[x] = IF x = o THEN "committed" ELSE ops[x]
  BY <1>1 DEF TypeOK
<1>5. TypeOK' /\ StoreGrows
  BY <1>1, <1>3, <1>4 DEF TypeOK, StoreGrows
<1>6. Plan(o).gen \in 1 .. head /\ gens[Plan(o).gen].op = o
  <2>1. Plan(o).gen \in Numbers /\ Plan(o).op = o
    BY <1>1, PlanType
  <2>2. Plan(o).gen <= head /\ gens[Plan(o).gen] = Plan(o)
    BY <1>1 DEF ProcFits, OpFits, At
  <2>3. QED
    BY <1>1, <2>1, <2>2 DEF TypeOK, Heads, Numbers
<1>7. Commits
  BY <1>4, <1>6 DEF Commits
<1>8. QED
  BY <1>1, <1>3, <1>5, <1>7, RestsFits DEF GoodStep, Moves, Rests

-----------------------------------------------------------------------------
(* Every step is a good step: writes and failures.                         *)

\* A fenced call takes the lock.
LEMMA FenceStep ==
  ASSUME TopologyInv, NEW w \in Writers, Fence(w)
  PROVE  GoodStep(w)
<1> USE ProcsApart
<1> DEFINE c == [Idle EXCEPT !.pc = "pin"]
<1>1. c \in Call /\ c.pc = "pin" /\ c.wrote = "nothing"
  BY IdleIsCall DEF Call, PCs
<1>2. CallOK(w, c)
  BY <1>1 DEF CallOK
<1>3. call' = [call EXCEPT ![w] = c] /\ lock = None /\ lock' = w /\ UNCHANGED <<head, svars, lost>>
  BY DEF Fence, Acquire
<1> HIDE DEF c
<1>4. TypeOK' /\ Frame(w) /\ StoreGrows /\ Moves(w) /\ Commits /\ call'[w] = c
  BY <1>2, <1>3, CallStep
<1>5. ProcFits(w)'
  BY <1>1, <1>3, <1>4 DEF ProcFits, LockFits, WriterFits
<1>6. QED
  BY <1>4, <1>5 DEF GoodStep

\* A call reads the head it pins, the sweeper without the lock.
LEMMA PinStep ==
  ASSUME TopologyInv, NEW p \in Writers \cup {Sweeper}, TakePin(p)
  PROVE  GoodStep(p)
<1> USE ProcsApart
<1>1. TypeOK /\ ProcFits(p) /\ p \in Procs /\ head \in Heads /\ head \in Nat
  BY DEF TopologyInv, TypeOK, Heads
<1> DEFINE c == [Idle EXCEPT !.pc = "write", !.pin = head]
<1>2. /\ c \in Call /\ c.pc = "write" /\ c.pin = head /\ c.plan = None
      /\ c.wrote = "nothing" /\ c.result = "none"
  BY <1>1, IdleIsCall DEF Call, PCs
<1>3. CallOK(p, c)
  BY <1>2 DEF CallOK
<1>4. call' = [call EXCEPT ![p] = c] /\ UNCHANGED <<head, svars, lock, lost>>
  BY DEF TakePin
<1> HIDE DEF c
<1>5. TypeOK' /\ Frame(p) /\ StoreGrows /\ Moves(p) /\ Commits /\ call'[p] = c
  BY <1>1, <1>3, <1>4, CallStep
<1>6. CASE p \in Writers
  <2>1. call[p].pc \in Locked
    BY <1>6 DEF TakePin, At, Locked
  <2>2. QED
    BY <1>1, <1>2, <1>4, <1>5, <1>6, <2>1 DEF GoodStep, ProcFits, LockFits, WriterFits
<1>7. CASE p = Sweeper
  BY <1>1, <1>2, <1>4, <1>5, <1>7 DEF GoodStep, ProcFits, SweeperFits
<1>8. QED
  BY <1>6, <1>7

\* The end of a sweep's call, well only if the head is where the pin was.
LEMMA SweeperEnds ==
  ASSUME TopologyInv, NEW result \in {"ok", "error"}, End(Sweeper, result),
         result = "ok" => call[Sweeper].pc \in {"write", "check"} /\ call[Sweeper].pin = head,
         call[Sweeper].pc # "idle", UNCHANGED <<head, svars>>
  PROVE  GoodStep(Sweeper)
<1> USE ProcsApart
<1>1. TypeOK /\ SweeperFits /\ head \in Nat
  BY DEF TopologyInv, ProcFits, TypeOK, Heads
<1>2. /\ CallsOK' /\ Frame(Sweeper)
      /\ call'[Sweeper].pc \in {"idle", "ended"}
      /\ call'[Sweeper].wrote \in {call[Sweeper].wrote, "nothing"}
      /\ call'[Sweeper].plan = call[Sweeper].plan
      /\ result = "error" /\ call[Sweeper].plan = None => call'[Sweeper] = Idle
      /\ lock' \in Procs \cup {None} /\ lost' \subseteq Procs
  BY <1>1, EndKeeps DEF TypeOK
<1>3. TypeOK'
  BY <1>1, <1>2 DEF TypeOK, svars
<1>4. call'[Sweeper].wrote # "stale"
  <2>1. CASE result = "error"
    BY <1>1, <1>2, <2>1, IdleIsCall DEF SweeperFits
  <2>2. CASE result = "ok"
    BY <1>1, <1>2, <2>2 DEF SweeperFits
  <2>3. QED
    BY <2>1, <2>2
<1>5. ProcFits(Sweeper)'
  BY <1>1, <1>2, <1>4 DEF ProcFits, SweeperFits
<1>6. QED
  BY <1>2, <1>3, <1>5, SameStore DEF GoodStep, Moves

\* A row is written if it is current by the pin: under the fence it is then
\* current by the head, for the sweeper it may not be.
LEMMA WriteStep ==
  ASSUME TopologyInv, NEW p \in Writers \cup {Sweeper}, WriteRow(p)
  PROVE  GoodStep(p)
<1> USE ProcsApart
<1>1. /\ TypeOK /\ CallsOK /\ ProcFits(p) /\ p \in Procs /\ call[p].pc = "write"
      /\ call[p] \in Call /\ p \notin lost /\ UNCHANGED <<head, svars>>
      /\ head \in Nat /\ call[p].pin \in Nat
  BY DEF TopologyInv, TypeOK, CallsOK, WriteRow, At, Query, Heads, Call
<1>2. PICK r \in Numbers :
        IF CurrentAt(call[p].pin, r)
        THEN /\ call' = [call EXCEPT ![p].pc = "check",
                           ![p].wrote = IF CurrentAt(head, r) THEN "current" ELSE "stale"]
             /\ UNCHANGED <<lock, lost>>
        ELSE End(p, "error")
  BY DEF WriteRow
<1>3. CASE ~CurrentAt(call[p].pin, r)
  BY <1>1, <1>2, <1>3, EndStep, SweeperEnds
<1>4. CASE CurrentAt(call[p].pin, r)
  <2> DEFINE x == IF CurrentAt(head, r) THEN "current" ELSE "stale"
             c == [call[p] EXCEPT !.pc = "check", !.wrote = x]
  <2>1. x \in {"current", "stale"} /\ (x = "stale" => call[p].pin # head)
    BY <1>4
  <2>2. call' = [call EXCEPT ![p] = c] /\ UNCHANGED <<lock, lost>>
    BY <1>1, <1>2, <1>4 DEF CallsOK
  <2> HIDE DEF x
  <2>3. /\ c \in Call /\ c.pc = "check" /\ c.wrote = x /\ c.pin = call[p].pin
        /\ c.plan = call[p].plan /\ c.result = call[p].result
    BY <1>1, <2>1 DEF Call, PCs
  <2>4. CallOK(p, c)
    BY <1>1, <2>3 DEF CallOK, CallsOK
  <2> HIDE DEF c
  <2>5. TypeOK' /\ Frame(p) /\ StoreGrows /\ Moves(p) /\ Commits /\ call'[p] = c
    BY <1>1, <2>2, <2>4, CallStep
  <2>6. CASE p \in Writers
    <3>1. call[p].pin = head /\ lock = p
      BY <1>1, <2>6 DEF ProcFits, WriterFits, LockFits, Locked
    <3>2. QED
      BY <1>1, <2>1, <2>2, <2>3, <2>5, <2>6, <3>1 DEF GoodStep, ProcFits, LockFits, WriterFits
  <2>7. CASE p = Sweeper
    <3>1. SweeperFits
      BY <1>1, <2>7 DEF ProcFits
    <3>2. SweeperFits'
      BY <1>1, <2>1, <2>3, <2>5, <2>7, <3>1 DEF SweeperFits, At
    <3>3. QED
      BY <2>5, <2>7, <3>2 DEF GoodStep, ProcFits
  <2>8. QED
    BY <2>6, <2>7
<1>5. QED
  BY <1>3, <1>4

\* assertHeadUnchanged decides how the call ends.
LEMMA CheckStep ==
  ASSUME TopologyInv, NEW p \in Writers \cup {Sweeper}, CheckHead(p)
  PROVE  GoodStep(p)
<1> USE ProcsApart
<1>1. call[p].pc = "check" /\ UNCHANGED <<head, svars>>
  BY DEF CheckHead, At
<1>2. End(p, IF head = call[p].pin THEN "ok" ELSE "error")
  BY DEF CheckHead
<1>3. CASE p \in Writers
  BY <1>1, <1>2, <1>3, EndStep
<1>4. CASE p = Sweeper
  BY <1>1, <1>2, <1>4, SweeperEnds
<1>5. QED
  BY <1>3, <1>4

\* A session is lost, or a query fails and ends its call.
LEMMA FailureStep ==
  ASSUME TopologyInv, NEW p \in Procs, FailedQuery(p) \/ (p \in Fenced /\ LoseSession(p))
  PROVE  GoodStep(p)
<1> USE ProcsApart
<1>1. TypeOK /\ CallsOK /\ ProcFits(p)
  BY DEF TopologyInv, TypeOK
<1>2. CASE FailedQuery(p)
  <2>1. call[p].pc # "idle" /\ End(p, "error") /\ UNCHANGED <<head, svars>>
    BY <1>2 DEF FailedQuery
  <2>2. CASE p \in Fenced
    BY <2>1, <2>2, EndStep
  <2>3. CASE p = Sweeper
    BY <2>1, <2>3, SweeperEnds
  <2>4. QED
    BY <2>2, <2>3 DEF Procs
<1>3. CASE p \in Fenced /\ LoseSession(p)
  <2>1. /\ lock = p /\ lock' = None /\ lost' = lost \cup {p}
        /\ UNCHANGED <<head, svars, call>>
    BY <1>3 DEF LoseSession
  <2>2. TypeOK' /\ Frame(p) /\ Moves(p)
    BY <1>1, <2>1 DEF TypeOK, CallsOK, svars, Frame, OnlyCall, Moves
  <2>3. ProcFits(p)'
    BY <1>1, <1>3, <2>1 DEF ProcFits, LockFits, OpFits, WriterFits, At, Plan, svars
  <2>4. QED
    BY <2>1, <2>2, <2>3, SameStore DEF GoodStep
<1>4. QED
  BY <1>2, <1>3

\* Every step of the system is a good step of one of its processes.
LEMMA StepsAreGood ==
  ASSUME TopologyInv, Next
  PROVE  \E p \in Procs : GoodStep(p)
<1> USE ProcsApart
<1>1. ASSUME NEW o \in Ops, Build(o) \/ Operate(o) \/ Materialize(o) \/ Retry(o) \/ LockTimeout(o)
      PROVE  GoodStep(o)
  BY <1>1, PrepareStep, ActivateStep, ReadStep, PublishStep, ReconcileStep, MaterializeStep,
     RetryStep DEF Operate
<1>2. ASSUME NEW w \in Writers, Fence(w) \/ TakePin(w) \/ Write(w)
      PROVE  GoodStep(w)
  BY <1>2, FenceStep, PinStep, WriteStep, CheckStep DEF Write
<1>3. ASSUME TakePin(Sweeper) \/ Write(Sweeper)
      PROVE  GoodStep(Sweeper)
  BY <1>3, PinStep, WriteStep, CheckStep DEF Write
<1>4. ASSUME NEW p \in Procs, FailedQuery(p) \/ (p \in Fenced /\ LoseSession(p))
      PROVE  GoodStep(p)
  BY <1>4, FailureStep
<1>5. QED
  BY <1>1, <1>2, <1>3, <1>4 DEF Next

\* A step that changes nothing keeps the invariant.
LEMMA StutterKeeps ==
  ASSUME TopologyInv, UNCHANGED vars
  PROVE  TopologyInv'
<1>1. UNCHANGED <<head, gens, edgeRows, shardRows, ops, latest, rows, lock, lost, call>>
  BY DEF vars, svars
<1>2. TypeOK'
  BY <1>1 DEF TopologyInv, TypeOK, CallsOK
<1>3. \A p \in Procs : ProcFits(p)'
  BY <1>1 DEF TopologyInv, ProcFits, LockFits, OpFits, WriterFits, SweeperFits, Sound, At, Plan
<1>4. QED
  BY <1>1, <1>2, <1>3 DEF TopologyInv, Sound

\* Before the first operation the head names no generation, or one an operation
\* of the past left whole.
LEMMA InitTopology ==
  ASSUME Init
  PROVE  TopologyInv
<1> USE ProcsApart
<1>1. head \in Heads /\ latest \in Heads /\ 1 \in Numbers /\ MaxNumber \in Nat
  BY TopologyAssumption DEF Init, Heads, Numbers
<1>2. /\ First(Origin) \in Generation /\ First(Origin) \in MaybePlan /\ None \in MaybePlan
      /\ First(Origin) # None
      /\ First(Origin).prev = 0 /\ First(Origin).rev = 1 /\ First(Origin).op = Origin
      /\ First(Origin).edges = {}
  BY <1>1, TopologyAssumption DEF First, Generation, MaybePlan, Numbers
<1>3. \A p \in Procs : call[p] = Idle
  BY DEF Init
<1>4. CallsOK
  BY <1>3, IdleIsCall DEF Init, CallsOK, CallOK
<1>5. gens \in [Numbers -> MaybePlan]
  BY <1>2 DEF Init
<1>6. TypeOK
  BY <1>1, <1>4, <1>5 DEF Init, TypeOK, EdgeSets
<1>7. \A p \in Procs : ProcFits(p)
  BY <1>3, IdleIsCall DEF ProcFits, LockFits, OpFits, WriterFits, SweeperFits, At, Locked
<1>8. ASSUME NEW n \in 1 .. head
      PROVE  n = 1 /\ head = 1 /\ Sound(n)
  <2>1. n = 1 /\ head = 1
    BY <1>8 DEF Init
  <2>2. /\ gens[1] = First(Origin) /\ edgeRows[1] = {} /\ shardRows[1] = Origin
        /\ ops[Origin] = "committed" /\ rows[1] = "identified"
    BY <1>1, <2>1 DEF Init
  <2>3. QED
    BY <1>2, <2>1, <2>2 DEF Sound
<1>9. ASSUME NEW o \in Ops \cup {Origin}, ops[o] = "committed"
      PROVE  \E n \in 1 .. head : gens[n].op = o
  <2>1. o = Origin /\ head = 1
    BY <1>9 DEF Init
  <2>2. gens[1] = First(Origin) /\ 1 \in 1 .. head
    BY <1>1, <2>1 DEF Init
  <2>3. QED
    BY <1>2, <2>1, <2>2
<1>10. QED
  BY <1>6, <1>7, <1>8, <1>9 DEF TopologyInv

-----------------------------------------------------------------------------
(* The theorems.                                                           *)

\* The invariant holds of every state.
LEMMA TopologyInvariant == Spec => []TopologyInv
<1>1. Init => TopologyInv
  BY InitTopology
<1>2. TopologyInv /\ [Next]_vars => TopologyInv'
  BY StepsAreGood, GoodStepKeeps, StutterKeeps
<1>3. QED
  BY <1>1, <1>2, PTL DEF Spec

\* Every generation the head is or was at is all there, and only operations
\* whose generation it reached are committed: whatever rivals write, sessions
\* are lost and operations are tried again.
THEOREM HeadStaysWhole == Spec => []HeadIsWhole
<1>1. TopologyInv => HeadIsWhole
  BY DEF TopologyInv, HeadIsWhole, Sound
<1>2. QED
  BY <1>1, TopologyInvariant, PTL

\* A fenced call never writes a row the head has left.
THEOREM FencedWritesStayCurrent == Spec => []FencedWritesAreCurrent
<1>1. TopologyInv => FencedWritesAreCurrent
  BY ProcsApart DEF TopologyInv, ProcFits, WriterFits, FencedWritesAreCurrent
<1>2. QED
  BY <1>1, TopologyInvariant, PTL

\* A call that wrote a row the head has left does not end well.
THEOREM StaleWritesAreReported == Spec => []StaleWriteIsReported
<1>1. TopologyInv => StaleWriteIsReported
  BY ProcsApart DEF TopologyInv, ProcFits, WriterFits, SweeperFits, At, StaleWriteIsReported
<1>2. QED
  BY <1>1, TopologyInvariant, PTL

=============================================================================
