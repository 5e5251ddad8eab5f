-------------------------- MODULE ProjectionProofs --------------------------
(***************************************************************************)
(* Proofs about Projection: the numbers of a thread's messages are         *)
(* distinct and the marker is honest, for any number of authors, replies,  *)
(* failures and crashes.                                                   *)
(*                                                                         *)
(* The numbers rest on the mutex: at most one call is between its          *)
(* allocation and its insert, and what it allocated is above everything in *)
(* the store.  The marker rests on what a call still has to project: a     *)
(* call that will move the marker past the last reply has that reply in    *)
(* its list or in the store.                                               *)
(***************************************************************************)
EXTENDS Projection, SequenceTheorems, TLAPS

-----------------------------------------------------------------------------
(* Types.                                                                  *)

Entries == [source : Nat, text : Nat]
Places == {"idle", "find", "acquire", "wait", "allocate", "insert", "mark"}
Lists == Seq(Entries)
Calls == [pc : Places, todo : Lists, at : Nat, seq : Int]
Messages == [source : Nat, text : Nat, seq : Int]

ThreadTypeOK ==
  /\ rounds \in Nat /\ closed \in BOOLEAN /\ updatedAt \in Nat
  /\ saidAt \in Seq(Nat) /\ Len(saidAt) = rounds
  /\ projectedAt \in Nat

CallsTypeOK ==
  /\ call \in [Procs -> Calls]
  /\ mutex \in [held : BOOLEAN, waiters : Seq(Procs)]

Seqs == {m.seq : m \in store} \cup {-1}

\* The store has a last number: the maximum that is read exists.
StoreTypeOK ==
  /\ store \in SUBSET Messages
  /\ \E x \in Seqs : \A y \in Seqs : x >= y

TypeOK == ThreadTypeOK /\ CallsTypeOK /\ StoreTypeOK

-----------------------------------------------------------------------------
(* The mutex.                                                              *)

Inside(p) == At(p, "allocate") \/ At(p, "insert")

MutexFits ==
  /\ \A p, q \in Procs : Inside(p) /\ Inside(q) => p = q
  /\ \A p \in Procs : Inside(p) => mutex.held
  /\ \A i \in 1 .. Len(mutex.waiters) : At(mutex.waiters[i], "wait")
  /\ \A i, j \in 1 .. Len(mutex.waiters) :
        mutex.waiters[i] = mutex.waiters[j] => i = j

\* What a call is about to insert is above what is there.
NumberIsNew ==
  \A p \in Procs : At(p, "insert") => \A m \in store : m.seq < call[p].seq

-----------------------------------------------------------------------------
(* The marker.                                                             *)

\* An entry that is not the text of its reply comes of a truncated thread.
TextFits(e) == Truncated \/ e.text = e.source

Landed == \E m \in store : m.source = rounds /\ m.text = rounds

\* A call that will move the marker past the last reply.
Covered(c) ==
  rounds > 0 /\ c.at >= saidAt[rounds] =>
    Truncated \/ Landed \/ \E i \in 1 .. Len(c.todo) : c.todo[i].source = rounds

CallFits(c) ==
  /\ c.at <= updatedAt
  /\ c.pc \notin {"idle", "mark"} => c.todo # << >>
  /\ c.pc = "mark" => c.todo = << >>
  /\ \A i \in 1 .. Len(c.todo) : TextFits(c.todo[i])
  /\ c.pc # "idle" => Covered(c)

TimesFit ==
  /\ projectedAt <= updatedAt
  /\ \A i \in 1 .. rounds : saidAt[i] \in 1 .. updatedAt

MarkerFits ==
  /\ TimesFit
  /\ \A m \in store : TextFits(m)
  /\ \A p \in Procs : CallFits(call[p])
  /\ MarkerIsHonest

ProjectionInv ==
  TypeOK /\ MutexFits /\ NumberIsNew /\ SequencesDistinct /\ MarkerFits

-----------------------------------------------------------------------------
(* Lemmas about the operators of the model.                                *)

\* The larger of two marks is one of them and not below either: the marker
\* only moves forward.
LEMMA MaxOfTwo ==
  ASSUME NEW a \in Int, NEW b \in Int
  PROVE  Max({a, b}) \in {a, b} /\ Max({a, b}) >= a /\ Max({a, b}) >= b
<1>1. \E x \in {a, b} : \A y \in {a, b} : x >= y
  <2>1. CASE a >= b BY <2>1
  <2>2. CASE ~(a >= b) BY <2>2
  <2> QED BY <2>1, <2>2
<1> QED BY <1>1 DEF Max

\* The number read is above every number of the store.
LEMMA MaxSeqIsLast ==
  ASSUME StoreTypeOK
  PROVE  MaxSeq \in Int /\ \A m \in store : m.seq < MaxSeq + 1
<1>1. Seqs \subseteq Int BY DEF StoreTypeOK, Seqs, Messages
<1>2. MaxSeq \in Seqs /\ \A y \in Seqs : MaxSeq >= y
  <2>1. \E x \in Seqs : \A y \in Seqs : x >= y BY DEF StoreTypeOK
  <2> QED BY <2>1 DEF MaxSeq, Max, Seqs
<1>3. MaxSeq \in Int BY <1>1, <1>2
<1>4. ASSUME NEW m \in store PROVE m.seq < MaxSeq + 1
  <2>1. m.seq \in Seqs BY DEF Seqs
  <2>2. m.seq \in Int /\ MaxSeq >= m.seq BY <1>1, <1>2, <2>1
  <2> QED BY <1>3, <2>2
<1> QED BY <1>3, <1>4

\* Appending a waiter.
LEMMA AppendWaiter ==
  ASSUME NEW S, NEW s \in Seq(S), NEW x \in S
  PROVE  /\ Append(s, x) \in Seq(S)
         /\ Len(Append(s, x)) = Len(s) + 1
         /\ \A i \in 1 .. Len(s) : Append(s, x)[i] = s[i]
         /\ Append(s, x)[Len(s) + 1] = x
BY AppendProperties

\* What is left of a list once its first element is done.
LEMMA TailOf ==
  ASSUME NEW S, NEW s \in Seq(S), s # << >>
  PROVE  /\ Tail(s) \in Seq(S) /\ Head(s) \in S /\ Len(s) \in Nat /\ Len(s) > 0
         /\ Head(s) = s[1]
         /\ Len(Tail(s)) = Len(s) - 1
         /\ \A i \in 1 .. Len(Tail(s)) : Tail(s)[i] = s[i + 1]
         /\ \A i \in 1 .. Len(s) : i # 1 => i - 1 \in 1 .. Len(Tail(s)) /\ s[i] = Tail(s)[i - 1]
<1>1. Len(s) \in Nat /\ Len(s) # 0 BY EmptySeq, LenProperties
<1>2. Tail(s) \in Seq(S) /\ Head(s) \in S /\ Len(Tail(s)) = Len(s) - 1 /\ Head(s) = s[1]
  BY <1>1, HeadTailProperties
<1>3. \A i \in 1 .. Len(Tail(s)) : Tail(s)[i] = s[i + 1] BY <1>1, HeadTailProperties
<1> QED BY <1>1, <1>2, <1>3

-----------------------------------------------------------------------------
(* Steps that leave the call of others alone, but for the one they wake.   *)

Woken(q) == At(q, "wait") /\ call'[q] = [call[q] EXCEPT !.pc = "allocate"]

OthersKeep(p) == \A q \in Procs \ {p} : call'[q] = call[q] \/ Woken(q)

\* Releasing the mutex: the call goes on as it says, the calls of others stay
\* but for the waiter that goes in, and nobody else is inside.
LEMMA ReleaseHandsOver ==
  ASSUME CallsTypeOK, MutexFits,
         NEW p \in Procs, Inside(p),
         NEW c \in Calls, c.pc \notin {"wait", "allocate", "insert"},
         Release(p, c)
  PROVE  /\ CallsTypeOK' /\ MutexFits'
         /\ call'[p] = c /\ OthersKeep(p)
         /\ \A q \in Procs : ~(call'[q].pc = "insert")
<1> DEFINE w == mutex.waiters
<1>0. /\ call \in [Procs -> Calls] /\ mutex \in [held : BOOLEAN, waiters : Seq(Procs)]
      /\ w \in Seq(Procs) /\ mutex.held
  BY DEF CallsTypeOK, MutexFits
<1>1. \A q \in Procs \ {p} : ~Inside(q) BY DEF MutexFits
<1>2. CASE w = << >>
  <2>1. mutex' = [mutex EXCEPT !.held = FALSE] /\ call' = [call EXCEPT ![p] = c]
    BY <1>2 DEF Release
  <2>2. CallsTypeOK' BY <1>0, <2>1 DEF CallsTypeOK
  <2>3. call'[p] = c /\ \A q \in Procs \ {p} : call'[q] = call[q] BY <1>0, <2>1
  <2>4. mutex'.waiters = << >> BY <1>0, <1>2, <2>1
  <2>5. \A q \in Procs : ~Inside(q)' BY <1>1, <2>3 DEF Inside, At
  <2>6. MutexFits' BY <2>4, <2>5 DEF MutexFits
  <2> QED BY <2>2, <2>3, <2>5, <2>6 DEF OthersKeep, Inside, At
<1>3. CASE w # << >>
  <2> DEFINE h == Head(w)
  <2>0. /\ Tail(w) \in Seq(Procs) /\ h \in Procs /\ Len(w) \in Nat /\ Len(w) > 0 /\ h = w[1]
        /\ Len(Tail(w)) = Len(w) - 1
        /\ \A i \in 1 .. Len(Tail(w)) : Tail(w)[i] = w[i + 1]
    BY <1>0, <1>3, TailOf
  <2>1. /\ mutex' = [mutex EXCEPT !.waiters = Tail(w)]
        /\ call' = [[call EXCEPT ![p] = c] EXCEPT ![h].pc = "allocate"]
    BY <1>3 DEF Release
  <2>2. At(h, "wait") /\ h # p BY <2>0 DEF MutexFits, Inside, At
  <2>3. /\ call'[p] = c /\ call'[h] = [call[h] EXCEPT !.pc = "allocate"]
        /\ \A q \in Procs \ {p, h} : call'[q] = call[q]
    BY <1>0, <2>0, <2>1, <2>2
  <2>4. [call[h] EXCEPT !.pc = "allocate"] \in Calls /\ [call[h] EXCEPT !.pc = "allocate"].pc = "allocate"
    BY <1>0, <2>0 DEF Calls, Places
  <2>5. CallsTypeOK'
    <3>1. call' \in [Procs -> Calls] BY <1>0, <2>0, <2>1, <2>4
    <3>2. mutex' \in [held : BOOLEAN, waiters : Seq(Procs)] BY <1>0, <2>0, <2>1
    <3> QED BY <3>1, <3>2 DEF CallsTypeOK
  <2>6. mutex'.waiters = Tail(w) /\ mutex'.held BY <1>0, <2>1
  <2>7. \A q \in Procs : Inside(q)' => q = h BY <1>1, <2>3 DEF Inside, At
  <2>8. ASSUME NEW i \in 1 .. Len(Tail(w)) PROVE call'[Tail(w)[i]].pc = "wait"
    <3>1. i + 1 \in 1 .. Len(w) /\ 1 \in 1 .. Len(w) /\ i + 1 # 1 /\ Tail(w)[i] = w[i + 1] BY <2>0
    <3>2. At(w[i + 1], "wait") /\ w[i + 1] # h /\ w[i + 1] \in Procs
      BY <1>0, <2>0, <3>1, ElementOfSeq DEF MutexFits
    <3>3. w[i + 1] # p BY <3>2 DEF Inside, At
    <3> QED BY <2>3, <3>1, <3>2, <3>3 DEF At
  <2>9. ASSUME NEW i \in 1 .. Len(Tail(w)), NEW j \in 1 .. Len(Tail(w)), Tail(w)[i] = Tail(w)[j]
        PROVE  i = j
    <3>1. i + 1 \in 1 .. Len(w) /\ j + 1 \in 1 .. Len(w) /\ w[i + 1] = w[j + 1] BY <2>0, <2>9
    <3>2. i + 1 = j + 1 BY <3>1 DEF MutexFits
    <3> QED BY <2>0, <3>2
  <2>10. MutexFits'
    <3> HIDE DEF w, h
    <3> QED BY <2>6, <2>7, <2>8, <2>9 DEF MutexFits, At
  <2>11. OthersKeep(p) BY <2>2, <2>3 DEF OthersKeep, Woken
  <2>12. \A q \in Procs : ~(call'[q].pc = "insert")
    <3>1. call'[h].pc = "allocate" BY <2>3, <2>4
    <3>2. \A q \in Procs \ {p, h} : call[q].pc # "insert" BY <1>1 DEF Inside, At
    <3> HIDE DEF h
    <3> QED BY <2>3, <3>1, <3>2
  <2> QED BY <2>3, <2>5, <2>10, <2>11, <2>12
<1> QED BY <1>2, <1>3

-----------------------------------------------------------------------------
(* What a call has to project, when the thread stays and the store grows.  *)

StoreGrows == UNCHANGED tvars /\ store \subseteq store'

\* A call stays in order.
LEMMA FitsLater ==
  ASSUME StoreGrows, NEW c \in Calls, CallFits(c)
  PROVE  CallFits(c)'
<1>1. Truncated' = Truncated /\ (Landed => Landed')
  BY DEF StoreGrows, tvars, Truncated, Landed
<1> QED BY <1>1 DEF StoreGrows, tvars, CallFits, Covered, TextFits

\* Going on to another place with work left changes nothing of it.
LEMMA FitsElsewhere ==
  ASSUME NEW c \in Calls, CallFits(c), c.pc \notin {"idle", "mark"},
         NEW d \in Calls, d.pc \notin {"idle", "mark"},
         d.todo = c.todo, d.at = c.at
  PROVE  CallFits(d)
BY DEF CallFits, Covered

\* The call that is not there.
LEMMA IdleFits ==
  ASSUME updatedAt \in Nat
  PROVE  Idle \in Calls /\ Idle.pc = "idle" /\ CallFits(Idle)
<1>1. Idle.pc = "idle" /\ Idle.at = 0 /\ Idle.todo = << >> BY DEF Idle
<1>2. << >> \in Seq(Entries) /\ Len(<< >>) = 0 BY EmptySeq
<1>3. Idle \in Calls BY <1>2 DEF Idle, Calls, Places, Lists
<1> QED BY <1>1, <1>2, <1>3 DEF CallFits

\* The next entry, once the first is in the store: if it was the last reply,
\* its text has landed, else that reply is still in the list.
LEMMA ProjectedFits ==
  ASSUME ThreadTypeOK, StoreGrows,
         \A m \in store' : TextFits(m)',
         NEW c \in Calls, CallFits(c), c.pc \notin {"idle", "mark"},
         \E m \in store' : m.source = Head(c.todo).source
  PROVE  /\ Projected(c) \in Calls /\ Projected(c).pc \in {"find", "mark"}
         /\ CallFits(Projected(c))'
<1> DEFINE d == Projected(c)
<1>0. /\ c.todo \in Seq(Entries) /\ c.todo # << >>
  BY DEF Calls, CallFits, Lists
<1>1. /\ Tail(c.todo) \in Seq(Entries) /\ Head(c.todo) = c.todo[1]
      /\ Len(c.todo) \in Nat /\ Len(c.todo) > 0
      /\ Len(Tail(c.todo)) = Len(c.todo) - 1
      /\ \A i \in 1 .. Len(Tail(c.todo)) : Tail(c.todo)[i] = c.todo[i + 1]
      /\ \A i \in 1 .. Len(c.todo) : i # 1 =>
            i - 1 \in 1 .. Len(Tail(c.todo)) /\ c.todo[i] = Tail(c.todo)[i - 1]
  BY <1>0, TailOf
<1>2. << >> \in Seq(Entries) /\ Len(<< >>) = 0 BY EmptySeq
<1>20. c \in [pc : Places, todo : Lists, at : Nat, seq : Int] BY DEF Calls
<1>3. /\ d \in Calls /\ d.at = c.at /\ d.pc \in {"find", "mark"}
      /\ d.pc = "find" => d.todo = Tail(c.todo) /\ Len(c.todo) > 1
      /\ d.pc = "mark" => d.todo = << >> /\ Len(c.todo) <= 1
  <2>1. CASE Len(c.todo) > 1
    <3> DEFINE e == [c EXCEPT !.pc = "find", !.todo = Tail(c.todo), !.seq = 0]
    <3>1. d = e BY <2>1 DEF Projected
    <3>2. Tail(c.todo) \in Lists BY <1>1 DEF Lists
    <3>3. "find" \in Places /\ 0 \in Int BY DEF Places
    <3>4. e \in [pc : Places, todo : Lists, at : Nat, seq : Int]
          /\ e.at = c.at /\ e.pc = "find" /\ e.todo = Tail(c.todo)
      BY <1>20, <3>2, <3>3
    <3> QED BY <2>1, <3>1, <3>4 DEF Calls
  <2>2. CASE ~(Len(c.todo) > 1)
    <3> DEFINE e == [c EXCEPT !.pc = "mark", !.todo = << >>, !.seq = 0]
    <3>1. d = e BY <2>2 DEF Projected
    <3>2. << >> \in Lists BY <1>2 DEF Lists
    <3>3. "mark" \in Places /\ 0 \in Int BY DEF Places
    <3>4. e \in [pc : Places, todo : Lists, at : Nat, seq : Int]
          /\ e.at = c.at /\ e.pc = "mark" /\ e.todo = << >>
      BY <1>20, <3>2, <3>3
    <3> QED BY <1>1, <2>2, <3>1, <3>4 DEF Calls
  <2> QED BY <2>1, <2>2
<1> HIDE DEF d
<1>4. Truncated' = Truncated /\ rounds' = rounds /\ saidAt' = saidAt /\ updatedAt' = updatedAt
  BY DEF StoreGrows, tvars, Truncated
<1>5. d.at <= updatedAt' BY <1>3, <1>4 DEF CallFits
<1>6. d.pc = "find" => d.todo # << >>
  <2> SUFFICES ASSUME d.pc = "find" PROVE d.todo # << >> OBVIOUS
  <2>0. d.todo = Tail(c.todo) /\ Len(c.todo) > 1 BY <1>3
  <2>1. Len(d.todo) > 0
    <3>1. Len(c.todo) \in Nat /\ Len(Tail(c.todo)) = Len(c.todo) - 1 BY <1>1
    <3> QED BY <2>0, <3>1
  <2>2. ASSUME d.todo = << >> PROVE FALSE
    <3>1. Len(d.todo) = 0 BY <1>2, <2>2
    <3> QED BY <2>1, <3>1
  <2> QED BY <2>2
<1>7. ASSUME NEW i \in 1 .. Len(d.todo) PROVE TextFits(d.todo[i])'
  <2>1. d.pc = "find" BY <1>2, <1>3
  <2>11. d.todo = Tail(c.todo) BY <1>3, <2>1
  <2>12. i + 1 \in 1 .. Len(c.todo) BY <1>1, <2>11
  <2>2. TextFits(c.todo[i + 1]) BY <2>12 DEF CallFits
  <2> QED BY <1>1, <1>4, <2>11, <2>2 DEF TextFits
<1>8. Covered(d)'
  <2> SUFFICES ASSUME rounds > 0, d.at >= saidAt[rounds], ~Truncated, ~Landed'
               PROVE  \E i \in 1 .. Len(d.todo) : d.todo[i].source = rounds
    BY <1>4 DEF Covered
  <2>1. Covered(c) BY DEF CallFits
  <2>2. ~Landed BY DEF Landed, StoreGrows, tvars
  <2>3. PICK i \in 1 .. Len(c.todo) : c.todo[i].source = rounds
    BY <1>3, <2>1, <2>2 DEF Covered
  <2>4. i # 1
    <3> SUFFICES ASSUME i = 1 PROVE FALSE OBVIOUS
    <3>1. PICK m \in store' : m.source = rounds BY <1>1, <2>3
    <3>2. m.text = rounds BY <1>4, <3>1 DEF TextFits
    <3> QED BY <1>4, <3>1, <3>2 DEF Landed
  <2>5. i - 1 \in 1 .. Len(Tail(c.todo)) /\ Tail(c.todo)[i - 1].source = rounds BY <1>1, <2>3, <2>4
  <2>6. d.pc = "find" BY <1>1, <1>3, <2>3, <2>4
  <2> QED BY <1>3, <2>5, <2>6
<1>9. CallFits(d)' BY <1>3, <1>5, <1>6, <1>7, <1>8 DEF CallFits
<1> QED BY <1>3, <1>9 DEF d

\* A step of one call p on a thread that stays: what it leaves of the marker's
\* bookkeeping holds if its own call and the messages are in order.
LEMMA WorkKeepsMarker ==
  ASSUME TypeOK, MarkerFits, StoreGrows, UNCHANGED projectedAt,
         NEW p \in Procs, OthersKeep(p), call' \in [Procs -> Calls],
         CallFits(call[p])',
         \A m \in store' : TextFits(m)'
  PROVE  MarkerFits'
<1>1. TimesFit' BY DEF TimesFit, MarkerFits, StoreGrows, tvars
<1>2. ASSUME NEW q \in Procs PROVE CallFits(call[q])'
  <2>1. CASE q = p BY <2>1
  <2>2. CASE q # p
    <3>1. PICK c \in Calls : c = call[q] BY DEF TypeOK, CallsTypeOK
    <3>2. PICK d \in Calls : d = call'[q] OBVIOUS
    <3>3. CallFits(c)' BY <3>1, FitsLater DEF MarkerFits
    <3>4. CASE d = c BY <3>2, <3>3, <3>4
    <3>5. CASE d # c
      <4>1. c.pc = "wait" /\ d = [c EXCEPT !.pc = "allocate"]
        BY <2>2, <3>1, <3>2, <3>5 DEF OthersKeep, Woken, At
      <4>2. d.pc = "allocate" /\ d.todo = c.todo /\ d.at = c.at BY <4>1 DEF Calls
      <4>3. CallFits(c) BY <3>1 DEF MarkerFits
      <4>4. CallFits(d) BY <4>1, <4>2, <4>3, FitsElsewhere
      <4> QED BY <3>2, <4>4, FitsLater
    <3> QED BY <3>4, <3>5
  <2> QED BY <2>1, <2>2
<1>3. MarkerIsHonest'
  <2>1. Truncated' = Truncated BY DEF StoreGrows, tvars, Truncated
  <2> QED BY <2>1 DEF MarkerIsHonest, MarkerFits, StoreGrows, tvars
<1> QED BY <1>1, <1>2, <1>3 DEF MarkerFits

-----------------------------------------------------------------------------
(* Steps that touch one call and not the mutex.                            *)

\* Nobody comes in and nobody waits, so the mutex is as it was.
LEMMA OwnStepKeepsMutex ==
  ASSUME CallsTypeOK, MutexFits, UNCHANGED mutex,
         NEW p \in Procs, call[p].pc # "wait",
         NEW c \in Calls, c.pc \in {"allocate", "insert"} => Inside(p),
         call' = [call EXCEPT ![p] = c]
  PROVE  /\ CallsTypeOK' /\ MutexFits'
         /\ call'[p] = c /\ \A q \in Procs \ {p} : call'[q] = call[q]
         /\ OthersKeep(p)
<1>0. call \in [Procs -> Calls] /\ mutex \in [held : BOOLEAN, waiters : Seq(Procs)]
  BY DEF CallsTypeOK
<1>1. CallsTypeOK' BY <1>0 DEF CallsTypeOK
<1>2. call'[p] = c /\ \A q \in Procs \ {p} : call'[q] = call[q] BY <1>0
<1>3. \A q \in Procs : Inside(q)' => Inside(q) BY <1>2 DEF Inside, At
<1>4. ASSUME NEW i \in 1 .. Len(mutex.waiters) PROVE call'[mutex.waiters[i]].pc = "wait"
  <2>1. mutex.waiters[i] \in Procs BY <1>0, ElementOfSeq
  <2>2. call[mutex.waiters[i]].pc = "wait" BY DEF MutexFits, At
  <2> QED BY <1>2, <2>1, <2>2
<1>5. MutexFits' BY <1>3, <1>4 DEF MutexFits, At
<1> QED BY <1>1, <1>2, <1>5 DEF OthersKeep

\* With the store as it was, numbers stay new and distinct unless one was just
\* allocated.
LEMMA OwnStepKeepsNumbers ==
  ASSUME NumberIsNew, SequencesDistinct, UNCHANGED store,
         NEW p \in Procs, call'[p].pc # "insert",
         \A q \in Procs \ {p} : call'[q] = call[q]
  PROVE  NumberIsNew' /\ SequencesDistinct'
<1>1. NumberIsNew' BY DEF NumberIsNew, At
<1>2. SequencesDistinct' BY DEF SequencesDistinct
<1> QED BY <1>1, <1>2

\* Going on with the same work at a place that is not the insert.
LEMMA GoingOnKeeps ==
  ASSUME ProjectionInv, UNCHANGED <<tvars, store, projectedAt, mutex>>,
         NEW p \in Procs, call[p].pc # "wait",
         NEW c \in Calls, c.pc \notin {"wait", "allocate", "insert"}, CallFits(c),
         call' = [call EXCEPT ![p] = c]
  PROVE  ProjectionInv'
<1>0. TypeOK /\ MutexFits /\ NumberIsNew /\ SequencesDistinct /\ MarkerFits
  BY DEF ProjectionInv
<1>3. /\ CallsTypeOK' /\ MutexFits' /\ call'[p] = c /\ OthersKeep(p)
      /\ \A q \in Procs \ {p} : call'[q] = call[q]
  BY <1>0, OwnStepKeepsMutex DEF TypeOK
<1>4. NumberIsNew' /\ SequencesDistinct' BY <1>0, <1>3, OwnStepKeepsNumbers
<1>5. StoreGrows BY DEF StoreGrows
<1>6. CallFits(c)' BY <1>5, FitsLater
<1>7. TypeOK'
  <2>1. ThreadTypeOK' BY <1>0 DEF TypeOK, ThreadTypeOK, tvars
  <2>2. StoreTypeOK' BY <1>0 DEF TypeOK, StoreTypeOK, Seqs
  <2> QED BY <1>3, <2>1, <2>2 DEF TypeOK
<1>8. \A m \in store' : TextFits(m)' BY <1>0 DEF MarkerFits, TextFits, Truncated, tvars
<1>9. MarkerFits'
  <2>1. CallFits(call[p])' BY <1>3, <1>6
  <2> QED BY <1>0, <1>3, <1>5, <1>8, <2>1, WorkKeepsMarker DEF CallsTypeOK
<1> QED BY <1>3, <1>4, <1>7, <1>9 DEF ProjectionInv

-----------------------------------------------------------------------------
(* The steps of a call.                                                    *)

\* Facts of the invariant that the steps use.
LEMMA InvParts ==
  ASSUME ProjectionInv, NEW p \in Procs
  PROVE  /\ TypeOK /\ CallsTypeOK /\ MutexFits /\ NumberIsNew /\ SequencesDistinct /\ MarkerFits
         /\ ThreadTypeOK /\ StoreTypeOK /\ updatedAt \in Nat
         /\ call \in [Procs -> Calls] /\ call[p] \in Calls /\ CallFits(call[p])
         /\ \A m \in store : TextFits(m)
BY DEF ProjectionInv, TypeOK, ThreadTypeOK, CallsTypeOK, MarkerFits

\* Looking for the message: it is there and the call goes on to the next entry,
\* or the call goes for the mutex.
LEMMA FindMessageKeeps ==
  ASSUME ProjectionInv, NEW p \in Procs, FindMessage(p)
  PROVE  ProjectionInv'
<1>0. /\ ThreadTypeOK /\ call \in [Procs -> Calls] /\ call[p] \in Calls /\ CallFits(call[p])
      /\ \A m \in store : TextFits(m)
  BY InvParts
<1>1. PICK c \in Calls : c = call[p] BY <1>0
<1>2. c.pc = "find" /\ CallFits(c) /\ UNCHANGED <<tvars, store, projectedAt, mutex>>
  BY <1>0, <1>1 DEF FindMessage, At
<1>3. StoreGrows BY <1>2 DEF StoreGrows
<1>4. CASE Head(c.todo).source \in Sources
  <2>1. call' = [call EXCEPT ![p] = Projected(c)] BY <1>1, <1>4 DEF FindMessage
  <2>2. \A m \in store' : TextFits(m)' BY <1>0, <1>2 DEF TextFits, Truncated, tvars
  <2>3. \E m \in store' : m.source = Head(c.todo).source BY <1>2, <1>4 DEF Sources
  <2>4. /\ Projected(c) \in Calls /\ Projected(c).pc \in {"find", "mark"}
        /\ CallFits(Projected(c))'
    BY <1>0, <1>2, <1>3, <2>2, <2>3, ProjectedFits
  <2>5. PICK d \in Calls : d = Projected(c) BY <2>4
  <2>6. CallFits(d)
    BY <1>2, <2>4, <2>5 DEF CallFits, Covered, TextFits, Truncated, Landed, tvars
  <2> QED BY <1>1, <1>2, <2>1, <2>4, <2>5, <2>6, GoingOnKeeps
<1>5. CASE Head(c.todo).source \notin Sources
  <2> DEFINE d == [c EXCEPT !.pc = "acquire"]
  <2>1. call' = [call EXCEPT ![p] = d] BY <1>1, <1>5 DEF FindMessage
  <2>2. d \in Calls /\ d.pc = "acquire" /\ d.todo = c.todo /\ d.at = c.at BY DEF Calls, Places
  <2> HIDE DEF d
  <2>3. CallFits(d) BY <1>2, <2>2, FitsElsewhere
  <2> QED BY <1>1, <1>2, <2>1, <2>2, <2>3, GoingOnKeeps
<1> QED BY <1>4, <1>5

\* Going for the mutex: inside when nobody holds it, else the last of those who
\* wait.
LEMMA AcquireKeeps ==
  ASSUME ProjectionInv, NEW p \in Procs, Acquire(p)
  PROVE  ProjectionInv'
<1>0. /\ TypeOK /\ CallsTypeOK /\ MutexFits /\ NumberIsNew /\ SequencesDistinct /\ MarkerFits
      /\ ThreadTypeOK /\ StoreTypeOK
      /\ call \in [Procs -> Calls] /\ call[p] \in Calls /\ CallFits(call[p])
      /\ \A m \in store : TextFits(m)
  BY InvParts
<1>1. PICK c \in Calls : c = call[p] BY <1>0
<1>2. /\ c.pc = "acquire" /\ CallFits(c) /\ UNCHANGED <<tvars, store, projectedAt>>
      /\ mutex \in [held : BOOLEAN, waiters : Seq(Procs)]
  BY <1>0, <1>1 DEF Acquire, At, CallsTypeOK
<1> DEFINE pc == IF mutex.held THEN "wait" ELSE "allocate"
           d == [c EXCEPT !.pc = pc]
           w == mutex.waiters
<1>3. call' = [call EXCEPT ![p] = d] BY <1>0, <1>1 DEF Acquire
<1>4. d \in Calls /\ d.pc = pc /\ d.todo = c.todo /\ d.at = c.at BY DEF Calls, Places
<1> HIDE DEF d
<1>5. call'[p] = d /\ \A q \in Procs \ {p} : call'[q] = call[q] BY <1>0, <1>3
<1>6. OthersKeep(p) BY <1>5 DEF OthersKeep
<1>7. \A i \in 1 .. Len(w) : w[i] \in Procs /\ w[i] # p /\ call[w[i]].pc = "wait"
  BY <1>1, <1>2, ElementOfSeq DEF MutexFits, At, ProjectionInv
<1>8. CallsTypeOK' /\ MutexFits'
  <2>1. CASE ~mutex.held
    <3>1. mutex' = [mutex EXCEPT !.held = TRUE] BY <2>1 DEF Acquire
    <3>2. mutex'.held /\ mutex'.waiters = w /\ mutex' \in [held : BOOLEAN, waiters : Seq(Procs)]
      BY <1>2, <3>1
    <3>3. \A q \in Procs : Inside(q)' => q = p BY <1>0, <1>5, <2>1 DEF MutexFits, Inside, At
    <3>4. \A i \in 1 .. Len(w) : call'[w[i]].pc = "wait" BY <1>5, <1>7
    <3>5. CallsTypeOK' BY <1>0, <1>3, <1>4, <3>2 DEF CallsTypeOK
    <3> QED BY <1>0, <3>2, <3>3, <3>4, <3>5 DEF MutexFits, At
  <2>2. CASE mutex.held
    <3> DEFINE v == Append(w, p)
    <3>1. mutex' = [mutex EXCEPT !.waiters = v] BY <2>2 DEF Acquire
    <3>2. /\ v \in Seq(Procs) /\ Len(v) = Len(w) + 1 /\ Len(w) \in Nat
          /\ \A i \in 1 .. Len(w) : v[i] = w[i]
          /\ v[Len(w) + 1] = p
      BY <1>2, AppendWaiter, LenProperties
    <3> HIDE DEF v
    <3>3. mutex'.held = mutex.held /\ mutex'.waiters = v /\ mutex' \in [held : BOOLEAN, waiters : Seq(Procs)]
      BY <1>2, <3>1, <3>2
    <3>4. \A q \in Procs : Inside(q)' => Inside(q) BY <1>4, <1>5, <2>2 DEF Inside, At
    <3>5. ASSUME NEW i \in 1 .. Len(v) PROVE call'[v[i]].pc = "wait"
      <4>1. CASE i = Len(w) + 1 BY <1>4, <1>5, <2>2, <3>2, <4>1
      <4>2. CASE i \in 1 .. Len(w) BY <1>5, <1>7, <3>2, <4>2
      <4> QED BY <3>2, <4>1, <4>2
    <3>6. ASSUME NEW i \in 1 .. Len(v), NEW j \in 1 .. Len(v), v[i] = v[j] PROVE i = j
      <4>1. CASE i = Len(w) + 1 /\ j = Len(w) + 1 BY <4>1
      <4>2. CASE i \in 1 .. Len(w) /\ j = Len(w) + 1 BY <1>7, <3>2, <3>6, <4>2
      <4>3. CASE i = Len(w) + 1 /\ j \in 1 .. Len(w) BY <1>7, <3>2, <3>6, <4>3
      <4>4. CASE i \in 1 .. Len(w) /\ j \in 1 .. Len(w)
        <5>1. w[i] = w[j] BY <3>2, <3>6, <4>4
        <5> QED BY <1>0, <4>4, <5>1 DEF MutexFits
      <4> QED BY <3>2, <4>1, <4>2, <4>3, <4>4
    <3>7. CallsTypeOK' BY <1>0, <1>3, <1>4, <3>3 DEF CallsTypeOK
    <3> HIDE DEF w
    <3> QED BY <1>0, <3>3, <3>4, <3>5, <3>6, <3>7 DEF MutexFits, At
  <2> QED BY <2>1, <2>2
<1>9. NumberIsNew' /\ SequencesDistinct'
  <2>1. call'[p].pc # "insert" BY <1>4, <1>5
  <2> QED BY <1>0, <1>2, <1>5, <2>1, OwnStepKeepsNumbers
<1>10. StoreGrows BY <1>2 DEF StoreGrows
<1>11. MarkerFits'
  <2>1. CallFits(d) BY <1>2, <1>4, FitsElsewhere
  <2>2. PICK e \in Calls : e = d BY <1>4
  <2>3. CallFits(e)' BY <1>10, <2>1, <2>2, FitsLater
  <2>4. call'[p] = e BY <1>5, <2>2
  <2>5. CallFits(call[p])' BY <2>3, <2>4
  <2>6. \A m \in store' : TextFits(m)' BY <1>0, <1>2 DEF TextFits, Truncated, tvars
  <2> QED BY <1>0, <1>2, <1>6, <1>8, <1>10, <2>5, <2>6, WorkKeepsMarker DEF CallsTypeOK
<1>12. ThreadTypeOK' /\ StoreTypeOK'
  BY <1>0, <1>2 DEF ThreadTypeOK, tvars, StoreTypeOK, Seqs
<1> QED BY <1>8, <1>9, <1>11, <1>12 DEF ProjectionInv, TypeOK

\* Allocating: the number is above everything that is there, and it stays so
\* because nobody else is inside.
LEMMA AllocateKeeps ==
  ASSUME ProjectionInv, NEW p \in Procs, AllocateSequence(p)
  PROVE  ProjectionInv'
<1>0. /\ TypeOK /\ CallsTypeOK /\ MutexFits /\ NumberIsNew /\ SequencesDistinct /\ MarkerFits
      /\ ThreadTypeOK /\ StoreTypeOK
      /\ call \in [Procs -> Calls] /\ call[p] \in Calls /\ CallFits(call[p])
      /\ \A m \in store : TextFits(m)
  BY InvParts
<1>1. PICK c \in Calls : c = call[p] BY <1>0
<1>2. c.pc = "allocate" /\ CallFits(c) /\ UNCHANGED <<tvars, store, projectedAt, mutex>>
  BY <1>0, <1>1 DEF AllocateSequence, At
<1>3. PICK n \in Int : n = MaxSeq + 1 /\ \A m \in store : m.seq < n BY <1>0, MaxSeqIsLast
<1> DEFINE d == [c EXCEPT !.pc = "insert", !.seq = n]
<1>4. call' = [call EXCEPT ![p] = d] BY <1>0, <1>1, <1>3 DEF AllocateSequence
<1>5. d \in Calls /\ d.pc = "insert" /\ d.todo = c.todo /\ d.at = c.at /\ d.seq = n
  BY DEF Calls, Places
<1> HIDE DEF d
<1>6. /\ CallsTypeOK' /\ MutexFits' /\ call'[p] = d /\ OthersKeep(p)
      /\ \A q \in Procs \ {p} : call'[q] = call[q]
  <2>1. Inside(p) /\ call[p].pc # "wait" BY <1>1, <1>2 DEF Inside, At
  <2> QED BY <1>0, <1>2, <1>4, <1>5, <2>1, OwnStepKeepsMutex
<1>7. NumberIsNew'
  <2>1. \A q \in Procs \ {p} : call'[q].pc # "insert"
    BY <1>1, <1>2, <1>6, <1>0 DEF MutexFits, Inside, At
  <2> QED BY <1>2, <1>3, <1>5, <1>6, <2>1 DEF NumberIsNew, At
<1>8. SequencesDistinct' BY <1>0, <1>2 DEF SequencesDistinct
<1>9. StoreGrows BY <1>2 DEF StoreGrows
<1>10. MarkerFits'
  <2>1. PICK e \in Calls : e = d BY <1>5
  <2>2. CallFits(e) BY <1>2, <1>5, <2>1, FitsElsewhere
  <2>3. CallFits(e)' BY <1>9, <2>2, FitsLater
  <2>4. CallFits(call[p])' BY <1>6, <2>1, <2>3
  <2>5. \A m \in store' : TextFits(m)' BY <1>0, <1>2 DEF TextFits, Truncated, tvars
  <2> QED BY <1>0, <1>2, <1>6, <1>9, <2>4, <2>5, WorkKeepsMarker DEF CallsTypeOK
<1>11. ThreadTypeOK' /\ StoreTypeOK'
  BY <1>0, <1>2 DEF ThreadTypeOK, tvars, StoreTypeOK, Seqs
<1> QED BY <1>6, <1>7, <1>8, <1>10, <1>11 DEF ProjectionInv, TypeOK

\* The allocation fails and the mutex stays held.
LEMMA AllocateFailsKeeps ==
  ASSUME ProjectionInv, NEW p \in Procs, AllocateFails(p)
  PROVE  ProjectionInv'
<1>1. updatedAt \in Nat BY InvParts
<1>2. PICK c \in Calls : c = Idle /\ c.pc = "idle" /\ CallFits(c) BY <1>1, IdleFits
<1>3. /\ call[p].pc # "wait" /\ call' = [call EXCEPT ![p] = c]
      /\ UNCHANGED <<tvars, store, projectedAt, mutex>>
  BY <1>2 DEF AllocateFails, At
<1> QED BY <1>2, <1>3, GoingOnKeeps

\* Leaving the mutex, with the message inserted or not.
LEMMA LeavingKeeps ==
  ASSUME ProjectionInv, NEW p \in Procs, At(p, "insert"),
         StoreGrows, UNCHANGED projectedAt,
         StoreTypeOK', SequencesDistinct', \A m \in store' : TextFits(m)',
         NEW c \in Calls, c.pc \in {"idle", "find", "mark"}, CallFits(c)',
         Release(p, c)
  PROVE  ProjectionInv'
<1>0. /\ TypeOK /\ CallsTypeOK /\ MutexFits /\ MarkerFits /\ ThreadTypeOK
  BY InvParts
<1>1. /\ CallsTypeOK' /\ MutexFits' /\ call'[p] = c /\ OthersKeep(p)
      /\ \A q \in Procs : ~(call'[q].pc = "insert")
  <2>1. Inside(p) BY DEF Inside
  <2> QED BY <1>0, <2>1, ReleaseHandsOver
<1>2. NumberIsNew' BY <1>1 DEF NumberIsNew, At
<1>3. CallFits(call[p])' BY <1>1
<1>4. MarkerFits' BY <1>0, <1>1, <1>3, WorkKeepsMarker DEF CallsTypeOK
<1>5. ThreadTypeOK' BY <1>0 DEF ThreadTypeOK, StoreGrows, tvars
<1> QED BY <1>1, <1>2, <1>4, <1>5 DEF ProjectionInv, TypeOK

\* The insert: the message has a number of its own, and what it projects is in
\* the store from now on.
LEMMA CreateOnlyKeeps ==
  ASSUME ProjectionInv, NEW p \in Procs, CreateOnly(p)
  PROVE  ProjectionInv'
<1>0. /\ NumberIsNew /\ SequencesDistinct /\ ThreadTypeOK /\ StoreTypeOK
      /\ call[p] \in Calls /\ CallFits(call[p]) /\ \A m \in store : TextFits(m)
  BY InvParts
<1>1. PICK c \in Calls : c = call[p] BY <1>0
<1>2. c.pc = "insert" /\ CallFits(c) /\ UNCHANGED <<tvars, projectedAt>>
  BY <1>0, <1>1 DEF CreateOnly, At
<1>3. c.todo \in Seq(Entries) /\ c.todo # << >> /\ c.seq \in Int
  BY <1>2 DEF Calls, Lists, CallFits
<1>4. Head(c.todo) \in Entries /\ Head(c.todo) = c.todo[1] /\ Len(c.todo) \in Nat /\ Len(c.todo) > 0
  BY <1>3, TailOf
<1>5. PICK e \in Entries : e = Head(c.todo) BY <1>4
<1> DEFINE m == [source |-> e.source, text |-> e.text, seq |-> c.seq]
<1>6. store' = store \cup {m} /\ Release(p, Projected(c)) BY <1>1, <1>5 DEF CreateOnly
<1>7. m \in Messages /\ m.seq = c.seq /\ m.source = e.source /\ m.text = e.text
  BY <1>3 DEF Messages, Entries
<1> HIDE DEF m
<1>8. StoreGrows BY <1>2, <1>6 DEF StoreGrows
<1>9. \A n \in store : n.seq < c.seq /\ n.seq \in Int
  BY <1>0, <1>1, <1>2 DEF NumberIsNew, At, StoreTypeOK, Messages
<1>10. StoreTypeOK'
  <2>1. store' \in SUBSET Messages BY <1>0, <1>6, <1>7 DEF StoreTypeOK
  <2>2. PICK x \in Seqs : \A y \in Seqs : x >= y BY <1>0 DEF StoreTypeOK
  <2>3. Seqs' = Seqs \cup {c.seq} BY <1>6, <1>7 DEF Seqs
  <2>4. Seqs \subseteq Int BY <1>0 DEF StoreTypeOK, Seqs, Messages
  <2>5. \E z \in Seqs \cup {c.seq} : \A y \in Seqs \cup {c.seq} : z >= y
    <3>1. CASE c.seq >= x BY <1>3, <2>2, <2>4, <3>1
    <3>2. CASE ~(c.seq >= x) BY <1>3, <2>2, <2>4, <3>2
    <3> QED BY <3>1, <3>2
  <2> QED BY <2>1, <2>3, <2>5 DEF StoreTypeOK
<1>11. SequencesDistinct' BY <1>0, <1>3, <1>6, <1>7, <1>9 DEF SequencesDistinct
<1>12. \A n \in store' : TextFits(n)'
  <2>1. TextFits(c.todo[1]) BY <1>2, <1>4 DEF CallFits
  <2>2. TextFits(m) BY <1>4, <1>5, <1>7, <2>1 DEF TextFits
  <2>3. Truncated' = Truncated BY <1>2 DEF Truncated, tvars
  <2> QED BY <1>0, <1>6, <2>2, <2>3 DEF TextFits
<1>13. \E n \in store' : n.source = Head(c.todo).source BY <1>5, <1>6, <1>7
<1>14. /\ Projected(c) \in Calls /\ Projected(c).pc \in {"find", "mark"}
       /\ CallFits(Projected(c))'
  BY <1>0, <1>2, <1>8, <1>12, <1>13, ProjectedFits
<1>15. PICK d \in Calls : d = Projected(c) BY <1>14
<1>16. At(p, "insert") BY DEF CreateOnly
<1>17. CallFits(d)' /\ d.pc \in {"idle", "find", "mark"} /\ Release(p, d) BY <1>6, <1>14, <1>15
<1> QED BY <1>2, <1>8, <1>10, <1>11, <1>12, <1>16, <1>17, LeavingKeeps

\* The insert fails: the mutex is released and the call given up.
LEMMA CreateFailsKeeps ==
  ASSUME ProjectionInv, NEW p \in Procs, CreateFails(p)
  PROVE  ProjectionInv'
<1>0. /\ SequencesDistinct /\ StoreTypeOK /\ updatedAt \in Nat /\ \A m \in store : TextFits(m)
  BY InvParts
<1>1. PICK c \in Calls : c = Idle /\ c.pc = "idle" /\ CallFits(c) BY <1>0, IdleFits
<1>2. At(p, "insert") /\ Release(p, c) /\ UNCHANGED <<tvars, projectedAt, store>>
  BY <1>1 DEF CreateFails
<1>3. StoreGrows BY <1>2 DEF StoreGrows
<1>4. CallFits(c)' BY <1>1, <1>3, FitsLater
<1>5. StoreTypeOK' /\ SequencesDistinct' BY <1>0, <1>2 DEF StoreTypeOK, Seqs, SequencesDistinct
<1>6. \A m \in store' : TextFits(m)' BY <1>0, <1>2 DEF TextFits, Truncated, tvars
<1> QED BY <1>1, <1>2, <1>3, <1>4, <1>5, <1>6, LeavingKeeps

\* Moving the marker: the call has nothing left to project, so the last reply,
\* if the marker passes it, has landed.
LEMMA MarkProjectedKeeps ==
  ASSUME ProjectionInv, NEW p \in Procs, MarkProjected(p)
  PROVE  ProjectionInv'
<1>0. /\ TypeOK /\ CallsTypeOK /\ MutexFits /\ NumberIsNew /\ SequencesDistinct /\ MarkerFits
      /\ ThreadTypeOK /\ StoreTypeOK /\ updatedAt \in Nat
      /\ call \in [Procs -> Calls] /\ call[p] \in Calls /\ CallFits(call[p])
  BY InvParts
<1>1. PICK c \in Calls : c = Idle /\ c.pc = "idle" /\ CallFits(c) BY <1>0, IdleFits
<1>2. /\ call[p].pc = "mark" /\ call' = [call EXCEPT ![p] = c]
      /\ UNCHANGED <<tvars, store, mutex>>
      /\ projectedAt' = Max({projectedAt, call[p].at}) \/ projectedAt' = projectedAt
  BY <1>1 DEF MarkProjected, At
<1>3. CASE projectedAt' = projectedAt BY <1>1, <1>2, <1>3, GoingOnKeeps
<1>4. CASE projectedAt' = Max({projectedAt, call[p].at})
  <2>1. projectedAt \in Nat /\ call[p].at \in Nat BY <1>0 DEF ThreadTypeOK, Calls
  <2>2. projectedAt' \in {projectedAt, call[p].at}
    <3>1. PICK x \in Int, y \in Int : x = projectedAt /\ y = call[p].at BY <2>1
    <3>2. Max({x, y}) \in {x, y} BY MaxOfTwo
    <3>3. projectedAt' = Max({x, y}) BY <1>4, <3>1
    <3> QED BY <3>1, <3>2, <3>3
  <2>3. /\ CallsTypeOK' /\ MutexFits' /\ call'[p] = c
        /\ \A q \in Procs \ {p} : call'[q] = call[q]
    BY <1>0, <1>1, <1>2, OwnStepKeepsMutex
  <2>4. NumberIsNew' /\ SequencesDistinct' BY <1>0, <1>1, <1>2, <2>3, OwnStepKeepsNumbers
  <2>5. StoreGrows BY <1>2 DEF StoreGrows
  <2>6. TimesFit' BY <1>0, <1>2, <2>2 DEF TimesFit, MarkerFits, CallFits, tvars
  <2>7. ASSUME NEW q \in Procs PROVE CallFits(call[q])'
    <3>1. PICK d \in Calls : d = call'[q] BY <2>3 DEF CallsTypeOK
    <3>2. CallFits(d) BY <1>0, <1>1, <2>3, <3>1 DEF MarkerFits
    <3> QED BY <2>5, <3>1, <3>2, FitsLater
  <2>8. \A m \in store' : TextFits(m)' BY <1>0, <1>2 DEF TextFits, Truncated, tvars, MarkerFits
  <2>9. MarkerIsHonest'
    <3>1. Truncated' = Truncated /\ Landed' = Landed BY <1>2 DEF Truncated, Landed, tvars
    <3>2. call[p].todo = << >> /\ Covered(call[p]) BY <1>0, <1>2 DEF CallFits
    <3>3. ~\E i \in 1 .. Len(call[p].todo) : call[p].todo[i].source = rounds BY <3>2
    <3>4. rounds > 0 /\ call[p].at >= saidAt[rounds] => Truncated \/ Landed
      BY <3>2, <3>3 DEF Covered
    <3>5. rounds > 0 /\ projectedAt >= saidAt[rounds] => Truncated \/ Landed
      BY <1>0 DEF MarkerFits, MarkerIsHonest, Landed
    <3>6. rounds' = rounds /\ saidAt' = saidAt BY <1>2 DEF tvars
    <3>7. rounds' > 0 /\ projectedAt' >= saidAt'[rounds'] => Truncated' \/ Landed'
      BY <2>2, <3>1, <3>4, <3>5, <3>6
    <3> QED BY <3>7 DEF MarkerIsHonest, Landed
  <2>10. ThreadTypeOK' /\ StoreTypeOK'
    BY <1>0, <1>2, <2>1, <2>2 DEF ThreadTypeOK, tvars, StoreTypeOK, Seqs
  <2> QED BY <2>3, <2>4, <2>6, <2>7, <2>8, <2>9, <2>10 DEF ProjectionInv, TypeOK, MarkerFits
<1> QED BY <1>2, <1>3, <1>4

-----------------------------------------------------------------------------
(* The thread, the sweeper and crashes.                                    *)

\* A reply: nobody's marker reaches it yet, and its own call has it to project.
LEMMA ReplyKeeps ==
  ASSUME ProjectionInv, NEW a \in Authors, Reply(a)
  PROVE  ProjectionInv'
<1>p. a \in Procs BY DEF Procs
<1>0. /\ TypeOK /\ CallsTypeOK /\ MutexFits /\ NumberIsNew /\ SequencesDistinct /\ MarkerFits
      /\ ThreadTypeOK /\ StoreTypeOK /\ updatedAt \in Nat /\ call \in [Procs -> Calls]
  BY <1>p, InvParts
<1>1. PICK r \in Nat, u \in Nat : r = rounds + 1 /\ u = updatedAt + 1 BY <1>0 DEF ThreadTypeOK
<1> DEFINE t == <<Entry(r, r)>>
           c == [Idle EXCEPT !.pc = "find", !.at = u, !.todo = t]
<1>2. /\ call[a].pc = "idle" /\ ~closed /\ closed' = closed
      /\ rounds' = r /\ updatedAt' = u /\ saidAt' = Append(saidAt, u)
      /\ call' = [call EXCEPT ![a] = c]
      /\ UNCHANGED <<projectedAt, store, mutex>>
  BY <1>1 DEF Reply, At
<1>3. t \in Lists /\ t # << >> /\ Len(t) = 1 /\ t[1] = Entry(r, r) BY DEF Lists, Entry, Entries
<1>4. Entry(r, r).source = r /\ Entry(r, r).text = r BY DEF Entry
<1> HIDE DEF t
<1>5. c \in Calls /\ c.pc = "find" /\ c.at = u /\ c.todo = t
  <2>1. "find" \in Places /\ 0 \in Int BY DEF Places
  <2> QED BY <1>3, <2>1 DEF Idle, Calls
<1> HIDE DEF c
<1>6. /\ CallsTypeOK' /\ MutexFits' /\ call'[a] = c
      /\ \A q \in Procs \ {a} : call'[q] = call[q]
  BY <1>p, <1>0, <1>2, <1>5, OwnStepKeepsMutex
<1>7. NumberIsNew' /\ SequencesDistinct' BY <1>p, <1>0, <1>2, <1>5, <1>6, OwnStepKeepsNumbers
<1>8. /\ saidAt' \in Seq(Nat) /\ Len(saidAt') = r /\ saidAt'[r] = u
      /\ \A i \in 1 .. rounds : saidAt'[i] = saidAt[i]
  BY <1>0, <1>1, <1>2, AppendWaiter DEF ThreadTypeOK
<1>9. ThreadTypeOK' /\ StoreTypeOK'
  BY <1>0, <1>2, <1>8 DEF ThreadTypeOK, StoreTypeOK, Seqs
<1>10. TimesFit'
  <2>1. rounds \in Nat /\ projectedAt \in Nat BY <1>0 DEF ThreadTypeOK
  <2>2. TimesFit BY <1>0 DEF MarkerFits
  <2>3. projectedAt' <= updatedAt' BY <1>0, <1>1, <1>2, <2>1, <2>2 DEF TimesFit
  <2>4. ASSUME NEW i \in 1 .. r PROVE saidAt'[i] \in 1 .. u
    <3>1. CASE i = r BY <1>0, <1>1, <1>8, <3>1
    <3>2. CASE i \in 1 .. rounds
      <4>1. saidAt[i] \in 1 .. updatedAt BY <2>2, <3>2 DEF TimesFit
      <4> QED BY <1>0, <1>1, <1>8, <3>2, <4>1
    <3> QED BY <1>1, <2>1, <3>1, <3>2
  <2> QED BY <1>2, <2>3, <2>4 DEF TimesFit
<1>11. ~Truncated /\ ~Truncated' BY <1>2 DEF Truncated
<1>12. \A m \in store' : TextFits(m)' BY <1>0, <1>2, <1>11 DEF TextFits, MarkerFits
<1>13. ASSUME NEW q \in Procs PROVE CallFits(call[q])'
  <2>1. CASE q = a
    <3>1. CallFits(c)'
      <4>1. c.at <= updatedAt' BY <1>2, <1>5
      <4>2. c.todo # << >> BY <1>3, <1>5
      <4>0. Len(c.todo) = 1 /\ c.todo[1].source = r /\ c.todo[1].text = r BY <1>3, <1>4, <1>5
      <4>3. ASSUME NEW i \in 1 .. Len(c.todo) PROVE TextFits(c.todo[i])'
        <5>1. i = 1 BY <4>0
        <5> QED BY <4>0, <5>1 DEF TextFits
      <4>4. Covered(c)'
        <5>1. 1 \in 1 .. Len(c.todo) BY <4>0
        <5> QED BY <1>2, <4>0, <5>1 DEF Covered
      <4> QED BY <1>5, <4>1, <4>2, <4>3, <4>4 DEF CallFits
    <3> QED BY <1>6, <2>1, <3>1
  <2>2. CASE q # a
    <3>1. PICK d \in Calls : d = call[q] /\ d = call'[q] BY <1>0, <1>6, <2>2
    <3>2. CallFits(d) /\ d.at \in Nat BY <1>0, <3>1 DEF MarkerFits, Calls
    <3>3. d.at <= updatedAt BY <3>2 DEF CallFits
    <3>4. d.at <= updatedAt' /\ ~(d.at >= saidAt'[rounds']) BY <1>0, <1>1, <1>2, <1>8, <3>2, <3>3
    <3>5. \A i \in 1 .. Len(d.todo) : TextFits(d.todo[i])' BY <1>11, <3>2 DEF CallFits, TextFits
    <3>6. Covered(d)' BY <3>4 DEF Covered
    <3>7. CallFits(d)' BY <3>2, <3>4, <3>5, <3>6 DEF CallFits
    <3> QED BY <3>1, <3>7
  <2> QED BY <2>1, <2>2
<1>14. MarkerIsHonest'
  <2>1. projectedAt \in Nat /\ projectedAt <= updatedAt BY <1>0 DEF ThreadTypeOK, MarkerFits, TimesFit
  <2>2. ~(projectedAt' >= saidAt'[rounds']) BY <1>0, <1>1, <1>2, <1>8, <2>1
  <2> QED BY <2>2 DEF MarkerIsHonest
<1> QED BY <1>6, <1>7, <1>9, <1>10, <1>12, <1>13, <1>14 DEF ProjectionInv, TypeOK, MarkerFits

\* Closing: the thread may become a truncated one, which excuses more.
LEMMA CloseThreadKeeps ==
  ASSUME ProjectionInv, CloseThread
  PROVE  ProjectionInv'
<1>0. /\ TypeOK /\ CallsTypeOK /\ MutexFits /\ NumberIsNew /\ SequencesDistinct /\ MarkerFits
      /\ ThreadTypeOK /\ StoreTypeOK /\ updatedAt \in Nat /\ projectedAt \in Nat
  BY DEF ProjectionInv, TypeOK, ThreadTypeOK
<1>1. /\ closed' = TRUE /\ updatedAt' = updatedAt + 1
      /\ UNCHANGED <<rounds, saidAt, projectedAt, store, mutex, call>>
  BY DEF CloseThread
<1>2. (Truncated => Truncated') /\ Landed' = Landed BY <1>1 DEF Truncated, Landed
<1>3. ThreadTypeOK' /\ CallsTypeOK' /\ StoreTypeOK'
  <2>1. ThreadTypeOK' BY <1>0, <1>1 DEF ThreadTypeOK
  <2>2. CallsTypeOK' BY <1>0, <1>1 DEF CallsTypeOK, TypeOK
  <2>3. StoreTypeOK' BY <1>0, <1>1 DEF StoreTypeOK, Seqs
  <2> QED BY <2>1, <2>2, <2>3
<1>4. MutexFits' /\ NumberIsNew' /\ SequencesDistinct'
  BY <1>0, <1>1 DEF MutexFits, NumberIsNew, SequencesDistinct, Inside, At
<1>5. TimesFit'
  <2>1. TimesFit BY <1>0 DEF MarkerFits
  <2>2. 1 .. updatedAt \subseteq 1 .. updatedAt + 1 BY <1>0
  <2> QED BY <1>0, <1>1, <2>1, <2>2 DEF TimesFit
<1>6. \A m \in store' : TextFits(m)' BY <1>0, <1>1, <1>2 DEF MarkerFits, TextFits
<1>7. ASSUME NEW q \in Procs PROVE CallFits(call[q])'
  <2>1. PICK c \in Calls : c = call[q] /\ c = call'[q] BY <1>0, <1>1 DEF CallsTypeOK
  <2>2. CallFits(c) /\ c.at \in Nat BY <1>0, <2>1 DEF MarkerFits, Calls
  <2>3. c.at <= updatedAt' BY <1>0, <1>1, <2>2 DEF CallFits
  <2>4. CallFits(c)' BY <1>1, <1>2, <2>2, <2>3 DEF CallFits, Covered, TextFits
  <2> QED BY <2>1, <2>4
<1>8. MarkerIsHonest' BY <1>0, <1>1, <1>2 DEF MarkerIsHonest, MarkerFits
<1> QED BY <1>3, <1>4, <1>5, <1>6, <1>7, <1>8 DEF ProjectionInv, TypeOK, MarkerFits

\* A pass of the sweeper reads every reply of a thread that is not truncated.
LEMMA SweepThreadKeeps ==
  ASSUME ProjectionInv, SweepThread
  PROVE  ProjectionInv'
<1>p. Sweeper \in Procs BY DEF Procs
<1>0. /\ ThreadTypeOK /\ updatedAt \in Nat /\ rounds \in Nat /\ call \in [Procs -> Calls]
  BY <1>p, InvParts DEF ThreadTypeOK
<1> DEFINE t == [k \in DOMAIN Visible |-> Entry(k, Visible[k])]
           c == [Idle EXCEPT !.pc = "find", !.at = updatedAt, !.todo = t]
<1>1. /\ call[Sweeper].pc = "idle" /\ rounds > 0 /\ call' = [call EXCEPT ![Sweeper] = c]
      /\ UNCHANGED <<tvars, projectedAt, store, mutex>>
  BY DEF SweepThread, At
<1>2. \E n \in Nat \ {0} :
         /\ DOMAIN Visible = 1 .. n
         /\ \A k \in 1 .. n : Visible[k] \in Nat
         /\ ~Truncated => n = rounds /\ \A k \in 1 .. n : Visible[k] = k
  <2>k. Keep \in Nat /\ Keep # 0 BY ProjectionAssumption
  <2>1. CASE ~closed \/ rounds <= 2 * Keep
    <3>1. Visible = [k \in 1 .. rounds |-> k] BY <2>1 DEF Visible
    <3> QED BY <1>0, <1>1, <3>1
  <2>2. CASE ~(~closed \/ rounds <= 2 * Keep)
    <3> DEFINE n == 2 * Keep
    <3>1. Visible = [k \in 1 .. n |-> IF k <= Keep THEN k ELSE rounds - n + k]
      BY <2>2 DEF Visible
    <3>2. n \in Nat \ {0} /\ rounds > n BY <1>0, <2>k, <2>2
    <3>3. Truncated BY <1>0, <2>2, <3>2 DEF Truncated
    <3> HIDE DEF n
    <3>4. \A k \in 1 .. n : Visible[k] \in Nat BY <1>0, <2>k, <3>1, <3>2
    <3>5. DOMAIN Visible = 1 .. n BY <3>1
    <3> QED BY <3>2, <3>3, <3>4, <3>5
  <2> QED BY <2>1, <2>2
<1>3. PICK n \in Nat \ {0} :
         /\ DOMAIN Visible = 1 .. n
         /\ \A k \in 1 .. n : Visible[k] \in Nat
         /\ ~Truncated => n = rounds /\ \A k \in 1 .. n : Visible[k] = k
  BY <1>2
<1>4. t = [k \in 1 .. n |-> Entry(k, Visible[k])] BY <1>3
<1>5. \A k \in 1 .. n : Entry(k, Visible[k]) \in Entries BY <1>3 DEF Entry, Entries
<1>6. t \in Lists /\ Len(t) = n
  BY <1>4, <1>5 DEF Lists
<1>7. \A k \in 1 .. n : t[k].source = k /\ t[k].text = Visible[k] BY <1>4 DEF Entry
<1> HIDE DEF t
<1>8. c \in Calls /\ c.pc = "find" /\ c.at = updatedAt /\ c.todo = t
  <2>1. "find" \in Places /\ 0 \in Int BY DEF Places
  <2> QED BY <1>0, <1>6, <2>1 DEF Idle, Calls
<1> HIDE DEF c
<1>9. CallFits(c)
  <2>1. c.at <= updatedAt BY <1>0, <1>8
  <2>2. c.todo # << >> BY <1>6, <1>8
  <2>3. \A i \in 1 .. Len(c.todo) : TextFits(c.todo[i]) BY <1>3, <1>6, <1>7, <1>8 DEF TextFits
  <2>4. Covered(c) BY <1>1, <1>0, <1>3, <1>6, <1>7, <1>8 DEF Covered
  <2> QED BY <1>8, <2>1, <2>2, <2>3, <2>4 DEF CallFits
<1>10. PICK d \in Calls : d = c BY <1>8
<1> QED BY <1>p, <1>1, <1>8, <1>9, <1>10, GoingOnKeeps

\* After a crash nobody is anywhere and the mutex is new.
LEMMA CrashKeeps ==
  ASSUME ProjectionInv, Crash
  PROVE  ProjectionInv'
<1>0. /\ TypeOK /\ SequencesDistinct /\ MarkerFits
      /\ ThreadTypeOK /\ StoreTypeOK /\ updatedAt \in Nat
  BY DEF ProjectionInv, TypeOK, ThreadTypeOK
<1>1. PICK c \in Calls : c = Idle /\ c.pc = "idle" /\ CallFits(c) BY <1>0, IdleFits
<1>2. /\ call' = [p \in Procs |-> c] /\ mutex' = Free
      /\ UNCHANGED <<tvars, projectedAt, store>>
  BY <1>1 DEF Crash
<1>3. mutex'.waiters = << >> /\ mutex' \in [held : BOOLEAN, waiters : Seq(Procs)]
  BY <1>2 DEF Free
<1>4. CallsTypeOK' BY <1>2, <1>3 DEF CallsTypeOK
<1>5. MutexFits' /\ NumberIsNew' BY <1>1, <1>2, <1>3 DEF MutexFits, NumberIsNew, Inside, At
<1>6. SequencesDistinct' /\ ThreadTypeOK' /\ StoreTypeOK'
  BY <1>0, <1>2 DEF SequencesDistinct, ThreadTypeOK, StoreTypeOK, Seqs, tvars
<1>7. StoreGrows BY <1>2 DEF StoreGrows
<1>8. MarkerFits'
  <2>1. CallFits(c)' BY <1>1, <1>7, FitsLater
  <2>2. TimesFit' /\ MarkerIsHonest' /\ \A m \in store' : TextFits(m)'
    BY <1>0, <1>2 DEF MarkerFits, TimesFit, MarkerIsHonest, TextFits, Truncated, tvars
  <2>3. ASSUME NEW q \in Procs PROVE CallFits(call[q])'
    <3>1. call'[q] = c BY <1>2
    <3> QED BY <2>1, <3>1
  <2> QED BY <2>2, <2>3 DEF MarkerFits
<1> QED BY <1>4, <1>5, <1>6, <1>8 DEF ProjectionInv, TypeOK

-----------------------------------------------------------------------------
(* The theorems.                                                           *)

\* The invariant holds at the start.
LEMMA InitProjection == Init => ProjectionInv
<1> SUFFICES ASSUME Init PROVE ProjectionInv OBVIOUS
<1>1. /\ rounds = 0 /\ closed = FALSE /\ updatedAt = 0 /\ saidAt = << >> /\ projectedAt = 0
      /\ store = {} /\ mutex = Free /\ call = [p \in Procs |-> Idle]
  BY DEF Init
<1>2. Idle \in Calls /\ Idle.pc = "idle" /\ CallFits(Idle) BY <1>1, IdleFits
<1>3. ThreadTypeOK
  <2>1. << >> \in Seq(Nat) /\ Len(<< >>) = 0 BY EmptySeq
  <2> QED BY <1>1, <2>1 DEF ThreadTypeOK
<1>4. mutex.waiters = << >> /\ mutex \in [held : BOOLEAN, waiters : Seq(Procs)]
  BY <1>1 DEF Free
<1>5. CallsTypeOK BY <1>1, <1>2, <1>4 DEF CallsTypeOK
<1>6. StoreTypeOK
  <2>1. Seqs = {-1} BY <1>1 DEF Seqs
  <2> QED BY <1>1, <2>1 DEF StoreTypeOK
<1>7. MutexFits /\ NumberIsNew BY <1>1, <1>2, <1>4 DEF MutexFits, NumberIsNew, Inside, At
<1>8. SequencesDistinct /\ MarkerIsHonest /\ TimesFit /\ \A m \in store : TextFits(m)
  BY <1>1 DEF SequencesDistinct, MarkerIsHonest, TimesFit
<1>9. MarkerFits BY <1>1, <1>2, <1>8 DEF MarkerFits
<1> QED BY <1>3, <1>5, <1>6, <1>7, <1>8, <1>9 DEF ProjectionInv, TypeOK

\* Every step keeps it.
LEMMA NextKeepsProjection == ProjectionInv /\ [Next]_vars => ProjectionInv'
<1> SUFFICES ASSUME ProjectionInv, [Next]_vars PROVE ProjectionInv' OBVIOUS
<1>1. CASE UNCHANGED vars
  <2>1. UNCHANGED <<rounds, closed, updatedAt, saidAt, projectedAt, store, mutex, call>>
    BY <1>1 DEF vars, tvars
  <2> QED BY <2>1 DEF ProjectionInv, TypeOK, ThreadTypeOK, CallsTypeOK, StoreTypeOK, Seqs, MutexFits,
       Inside, At, NumberIsNew, SequencesDistinct, MarkerFits, TimesFit, TextFits, CallFits,
       Covered, Landed, Truncated, MarkerIsHonest
<1>2. ASSUME NEW a \in Authors, Reply(a) PROVE ProjectionInv' BY <1>2, ReplyKeeps
<1>3. ASSUME NEW p \in Procs, Proceed(p) \/ AllocateFails(p) \/ CreateFails(p) PROVE ProjectionInv'
  BY <1>3, FindMessageKeeps, AcquireKeeps, AllocateKeeps, AllocateFailsKeeps, CreateOnlyKeeps,
     CreateFailsKeeps, MarkProjectedKeeps DEF Proceed
<1>4. CASE CloseThread BY <1>4, CloseThreadKeeps
<1>5. CASE SweepThread BY <1>5, SweepThreadKeeps
<1>6. CASE Crash BY <1>6, CrashKeeps
<1> QED BY <1>1, <1>2, <1>3, <1>4, <1>5, <1>6 DEF Next

\* The inductive invariant of the projection.
THEOREM ProjectionStaysSound == Spec => []ProjectionInv
BY InitProjection, NextKeepsProjection, PTL DEF Spec

\* No two messages of a thread get the same number, whoever projects them and
\* however calls, failures, a leaked mutex and crashes interleave
\* (allocateSequence under the mutex, createOnly before its release).
THEOREM NumbersStayDistinct == Spec => []SequencesDistinct
<1>1. ProjectionInv => SequencesDistinct BY DEF ProjectionInv
<1> QED BY <1>1, ProjectionStaysSound, PTL

\* The marker the sweeper trusts has not passed the last reply before that
\* reply's text is in the store (createThreadReply, sweepThread and
\* markLastMessageProjected).
THEOREM MarkerStaysHonest == Spec => []MarkerIsHonest
<1>1. ProjectionInv => MarkerIsHonest BY DEF ProjectionInv, MarkerFits
<1> QED BY <1>1, ProjectionStaysSound, PTL

=============================================================================
