--------------------------- MODULE SessionsProofs ---------------------------
(***************************************************************************)
(* Proofs about Sessions: the hub resolves only sessions of the agent's    *)
(* role, and of its host while every registration names one, and a         *)
(* displaced session stays out, for any number of sessions and callers.    *)
(*                                                                         *)
(* Ownership spreads along lists, pointer rows, the map and calls, and is  *)
(* checked at the one place where it starts, the registration.  Staying    *)
(* out rests on what a session without a transport cannot do: it begins no *)
(* call, so nobody binds it.                                               *)
(***************************************************************************)
EXTENDS Sessions, SequenceTheorems, TLAPS

-----------------------------------------------------------------------------
(* Types.                                                                  *)

Lists == Seq(Sessions)

Rows == [role : Roles \cup {None}, host : Hosts \cup {None}, current : Sessions \cup {None},
         epoch : Nat, registered : Lists, online : BOOLEAN, archived : BOOLEAN]

Places == {"idle", "claim", "mirror", "evict"}

Calls == [pc : Places, add : SUBSET Sessions, del : SUBSET Sessions,
          displaced : Sessions \cup {None}, locked : BOOLEAN]

Callers == [role : Roles, host : Hosts \cup {None}]

TypeOK ==
  /\ who \in [Sessions -> Callers]
  /\ row \in Rows
  /\ pointer \subseteq Sessions /\ bound \subseteq Sessions
  /\ open \subseteq Sessions /\ fresh \subseteq Sessions
  /\ call \in [Sessions -> Calls]
  /\ raced \in BOOLEAN
  /\ ousted \subseteq Sessions

-----------------------------------------------------------------------------
(* Ownership.                                                              *)

\* Whatever carries a session from one step to the next.
Carried(s) ==
  \/ s \in bound \/ s \in pointer \/ row.current = s \/ ~At(s, "idle")
  \/ s \in ToSet(row.registered)
  \/ \E t \in Sessions : s \in call[t].add

OnRecord(s) == /\ who[s].role = row.role
               /\ HostsKnown => who[s].host = row.host

\* A record that names no host was last written by somebody who hides it.
OwnerInv ==
  /\ \A s \in Sessions : Carried(s) => OnRecord(s)
  /\ HostsKnown /\ row.role # None => row.host # None

-----------------------------------------------------------------------------
(* Displacement.                                                           *)

\* Used sessions are not fresh; a call that has not claimed displaces nobody;
\* without a race one call is under way at most.
CallsFit ==
  /\ \A s \in Sessions : s \in open \/ row.current = s \/ ~At(s, "idle") => s \notin fresh
  /\ \A s \in Sessions : call[s].pc \in {"idle", "claim"} => call[s].displaced = None
  /\ ~raced => \A s, t \in Sessions : ~At(s, "idle") /\ ~At(t, "idle") => s = t

\* The claim that displaced d is still under way.
Displacing(d) == \E s \in Sessions : call[s].displaced = d

Out(d) ==
  /\ d \notin fresh /\ At(d, "idle")
  /\ Displacing(d) \/ d \notin bound \cup open

OustedInv == ~raced => \A d \in ousted : Out(d)

SessionsInv == TypeOK /\ OwnerInv /\ CallsFit /\ OustedInv

-----------------------------------------------------------------------------
(* Lists of sessions.                                                      *)

\* The members of a list are its elements.
LEMMA Members ==
  ASSUME NEW list \in Lists
  PROVE  /\ \A x : x \in ToSet(list) <=> \E i \in 1 .. Len(list) : x = list[i]
         /\ ToSet(list) \subseteq Sessions
<1>1. DOMAIN list = 1 .. Len(list) /\ \A i \in 1 .. Len(list) : list[i] \in Sessions
  BY ElementOfSeq, LenProperties DEF Lists
<1> QED BY <1>1 DEF ToSet

\* A set that holds the elements of a list holds its members.
LEMMA MembersIn ==
  ASSUME NEW list \in Lists, NEW S, \A i \in 1 .. Len(list) : list[i] \in S
  PROVE  ToSet(list) \subseteq S
<1> SUFFICES ASSUME NEW x \in ToSet(list) PROVE x \in S OBVIOUS
<1>1. PICK i \in 1 .. Len(list) : x = list[i] BY Members
<1> QED BY <1>1

\* Dropping a place of a list leaves a list of the others.
LEMMA OthersAreFewer ==
  ASSUME NEW list \in Lists, NEW s
  PROVE  Others(list, s) \in Lists /\ ToSet(Others(list, s)) \subseteq ToSet(list)
<1>1. CASE ~Contains(list, s) BY <1>1 DEF Others
<1>2. CASE Contains(list, s)
  <2>0. list \in Seq(Sessions) /\ Len(list) \in Nat /\ DOMAIN list = 1 .. Len(list)
    BY LenProperties DEF Lists
  <2> DEFINE i == CHOOSE i \in DOMAIN list : list[i] = s
  <2>1. i \in 1 .. Len(list) BY <1>2, <2>0 DEF Contains
  <2>2. Others(list, s) = RemoveAt(list, i) BY <1>2 DEF Others
  <2> HIDE DEF i
  <2>3. \A j \in 1 .. Len(list) : list[j] \in Sessions BY <2>0, ElementOfSeq
  <2> DEFINE a == SubSeq(list, 1, i - 1)
             b == SubSeq(list, i + 1, Len(list))
  <2>4. /\ a \in Seq(Sessions) /\ Len(a) = i - 1 /\ \A j \in 1 .. Len(a) : a[j] = list[j]
    <3>1. 1 \in Int /\ i - 1 \in Int /\ \A j \in 1 .. i - 1 : list[j] \in Sessions BY <2>0, <2>1, <2>3
    <3>2. /\ a \in Seq(Sessions)
          /\ Len(a) = (IF 1 <= i - 1 THEN i - 1 - 1 + 1 ELSE 0)
          /\ \A j \in 1 .. i - 1 - 1 + 1 : a[j] = list[1 + j - 1]
      BY <3>1, SubSeqProperties
    <3> QED BY <2>0, <2>1, <3>2
  <2>5. /\ b \in Seq(Sessions) /\ Len(b) = Len(list) - i
        /\ \A j \in 1 .. Len(b) : b[j] = list[i + j]
    <3>1. i + 1 \in Int /\ Len(list) \in Int /\ \A j \in i + 1 .. Len(list) : list[j] \in Sessions
      BY <2>0, <2>1, <2>3
    <3>2. /\ b \in Seq(Sessions)
          /\ Len(b) = (IF i + 1 <= Len(list) THEN Len(list) - (i + 1) + 1 ELSE 0)
          /\ \A j \in 1 .. Len(list) - (i + 1) + 1 : b[j] = list[i + 1 + j - 1]
      BY <3>1, SubSeqProperties
    <3> HIDE DEF b
    <3>3. Len(b) = Len(list) - i
      <4>1. PICK n \in Nat : n = Len(list) BY <2>0
      <4>2. CASE i + 1 <= n BY <2>1, <3>2, <4>1, <4>2
      <4>3. CASE ~(i + 1 <= n) BY <2>1, <3>2, <4>1, <4>3
      <4> QED BY <4>2, <4>3
    <3>4. ASSUME NEW j \in 1 .. Len(b) PROVE b[j] = list[i + j]
      <4>1. j \in 1 .. Len(list) - (i + 1) + 1 /\ i + 1 + j - 1 = i + j BY <2>0, <2>1, <3>3
      <4>2. b[j] = list[i + 1 + j - 1] BY <3>2, <4>1
      <4> QED BY <4>1, <4>2
    <3> QED BY <3>2, <3>3, <3>4
  <2> HIDE DEF a, b
  <2>6. /\ a \o b \in Seq(Sessions) /\ Len(a \o b) = Len(a) + Len(b)
        /\ \A j \in 1 .. Len(a) + Len(b) : (a \o b)[j] = IF j <= Len(a) THEN a[j] ELSE b[j - Len(a)]
    BY <2>4, <2>5, ConcatProperties
  <2>7. Others(list, s) = a \o b BY <2>2 DEF RemoveAt, a, b
  <2>8. ASSUME NEW j \in 1 .. Len(a \o b) PROVE (a \o b)[j] \in ToSet(list)
    <3>0. \A k \in 1 .. Len(list) : list[k] \in ToSet(list) BY Members
    <3>1. CASE j <= Len(a) BY <2>0, <2>1, <2>4, <2>5, <2>6, <3>0, <3>1
    <3>2. CASE ~(j <= Len(a))
      <4>1. j - Len(a) \in 1 .. Len(b) BY <2>0, <2>1, <2>4, <2>5, <2>6, <3>2
      <4>2. (a \o b)[j] = list[i + (j - Len(a))] BY <2>5, <2>6, <3>2, <4>1
      <4>3. i + (j - Len(a)) \in 1 .. Len(list) BY <2>0, <2>1, <2>4, <2>5, <4>1
      <4> QED BY <3>0, <4>2, <4>3
    <3> QED BY <3>1, <3>2
  <2>9. a \o b \in Lists BY <2>6 DEF Lists
  <2> QED BY <2>7, <2>8, <2>9, MembersIn
<1> QED BY <1>1, <1>2

\* What is registered after an append was registered before or is the new one.
LEMMA AppendAddsOne ==
  ASSUME NEW list \in Lists, NEW s \in Sessions
  PROVE  /\ appendRegisteredSession(list, s) \in Lists
         /\ ToSet(appendRegisteredSession(list, s)) \subseteq ToSet(list) \cup {s}
<1> DEFINE o == Others(list, s)
           n == Append(o, s)
<1>1. o \in Lists /\ ToSet(o) \subseteq ToSet(list) BY OthersAreFewer
<1> HIDE DEF o
<1>2. /\ n \in Seq(Sessions) /\ Len(o) \in Nat /\ Len(n) = Len(o) + 1
      /\ \A i \in 1 .. Len(o) : n[i] = o[i]
      /\ n[Len(o) + 1] = s
  BY <1>1, AppendProperties, LenProperties DEF Lists
<1> HIDE DEF n
<1>3. n \in Lists BY <1>2 DEF Lists
<1>4. ToSet(n) \subseteq ToSet(o) \cup {s}
  <2>1. ASSUME NEW i \in 1 .. Len(n) PROVE n[i] \in ToSet(o) \cup {s}
    <3>1. CASE i = Len(o) + 1 BY <1>2, <3>1
    <3>2. CASE i \in 1 .. Len(o) BY <1>1, <1>2, <3>2, Members
    <3> QED BY <1>2, <3>1, <3>2
  <2> QED BY <1>3, <2>1, MembersIn
<1>5. n # << >>
  <2>1. Len(n) # 0 BY <1>2
  <2> QED BY <2>1, EmptySeq
<1>6. Tail(n) \in Lists /\ ToSet(Tail(n)) \subseteq ToSet(n)
  <2>1. /\ Tail(n) \in Seq(Sessions) /\ Len(Tail(n)) = Len(n) - 1
        /\ \A i \in 1 .. Len(Tail(n)) : Tail(n)[i] = n[i + 1]
    BY <1>2, <1>5, HeadTailProperties
  <2>2. Tail(n) \in Lists BY <2>1 DEF Lists
  <2>3. ASSUME NEW i \in 1 .. Len(Tail(n)) PROVE Tail(n)[i] \in ToSet(n)
    <3>1. i + 1 \in 1 .. Len(n) BY <1>2, <2>1
    <3> QED BY <1>3, <2>1, <3>1, Members
  <2> QED BY <2>2, <2>3, MembersIn
<1>7. appendRegisteredSession(list, s) = IF Len(n) > Cap THEN Tail(n) ELSE n
  BY DEF appendRegisteredSession, n, o
<1> QED BY <1>1, <1>3, <1>4, <1>6, <1>7

-----------------------------------------------------------------------------
(* Types.                                                                  *)

\* A registration that leaves the list and has the pointer rows still to write.
Registers(s, list, add, del) ==
  /\ ToSet(list) \subseteq ToSet(row.registered) \cup {s}
  /\ add \subseteq ToSet(list)
  /\ row' = [row EXCEPT !.role = IF row.role = None THEN who[s].role ELSE row.role,
                        !.host = who[s].host, !.registered = list, !.archived = FALSE]
  /\ call' = [call EXCEPT ![s] = [Idle EXCEPT !.pc = "mirror", !.add = add, !.del = del,
                                              !.locked = TRUE]]

\* A claim that leaves the list and takes over from a session.
Claims(s, list, add, del, displaced) ==
  /\ displaced = IF row.current = s THEN None ELSE row.current
  /\ ToSet(list) \subseteq ToSet(row.registered) \cup {s}
  /\ add \subseteq ToSet(list)
  /\ row' = [row EXCEPT !.current = s, !.epoch = row.epoch + 1, !.registered = list,
                        !.online = TRUE]
  /\ call' = [call EXCEPT ![s] = [call[s] EXCEPT !.pc = "mirror", !.add = add, !.del = del,
                                                 !.displaced = displaced]]
  /\ ousted' = IF raced THEN {} ELSE (ousted \cup ({displaced} \ {None})) \ {s}

\* What a registration writes.
LEMMA RegistrationWrites ==
  ASSUME TypeOK, NEW s \in Sessions, RegisterRole(s)
  PROVE  \E list \in Lists, add \in SUBSET Sessions, del \in SUBSET Sessions :
           Registers(s, list, add, del)
<1> DEFINE list == appendRegisteredSession(row.registered, s)
           add == ToSet(list) \ ToSet(row.registered)
           del == ToSet(row.registered) \ ToSet(list)
<1>1. row.registered \in Lists BY DEF TypeOK, Rows
<1>2. list \in Lists /\ ToSet(list) \subseteq ToSet(row.registered) \cup {s} BY <1>1, AppendAddsOne
<1>3. ToSet(list) \subseteq Sessions /\ ToSet(row.registered) \subseteq Sessions
  BY <1>1, <1>2, Members
<1>4. /\ row' = [row EXCEPT !.role = IF row.role = None THEN who[s].role ELSE row.role,
                            !.host = who[s].host, !.registered = list, !.archived = FALSE]
      /\ call' = [call EXCEPT ![s] = [Idle EXCEPT !.pc = "mirror", !.add = add, !.del = del,
                                                  !.locked = TRUE]]
  BY DEF RegisterRole, reconcileSessionBindings
<1>5. add \in SUBSET Sessions /\ del \in SUBSET Sessions /\ add \subseteq ToSet(list) BY <1>3
<1> HIDE DEF list, add, del
<1>6. Registers(s, list, add, del) BY <1>2, <1>4, <1>5 DEF Registers
<1> QED BY <1>2, <1>5, <1>6

\* What a claim writes: the session it takes over from is no longer registered.
LEMMA ClaimWrites ==
  ASSUME TypeOK, NEW s \in Sessions, ClaimSession(s)
  PROVE  \E list \in Lists, add \in SUBSET Sessions, del \in SUBSET Sessions,
            displaced \in Sessions \cup {None} : Claims(s, list, add, del, displaced)
<1> DEFINE displaced == IF row.current = s THEN None ELSE row.current
           kept == Others(row.registered, displaced)
           list == appendRegisteredSession(kept, s)
           add == ToSet(list) \ ToSet(row.registered)
           del == ToSet(row.registered) \ ToSet(list)
<1>1. row.registered \in Lists /\ displaced \in Sessions \cup {None} BY DEF TypeOK, Rows
<1>2. kept \in Lists /\ ToSet(kept) \subseteq ToSet(row.registered) BY <1>1, OthersAreFewer
<1>3. list \in Lists /\ ToSet(list) \subseteq ToSet(kept) \cup {s} BY <1>2, AppendAddsOne
<1>4. ToSet(list) \subseteq Sessions /\ ToSet(row.registered) \subseteq Sessions
  BY <1>1, <1>3, Members
<1>5. /\ row' = [row EXCEPT !.current = s, !.epoch = row.epoch + 1, !.registered = list,
                            !.online = TRUE]
      /\ call' = [call EXCEPT ![s] = [call[s] EXCEPT !.pc = "mirror", !.add = add,
                                         !.del = del, !.displaced = displaced]]
      /\ ousted' = IF raced THEN {} ELSE (ousted \cup ({displaced} \ {None})) \ {s}
  BY DEF ClaimSession, reconcileSessionBindings, TypeOK
<1>6. add \in SUBSET Sessions /\ del \in SUBSET Sessions /\ add \subseteq ToSet(list) BY <1>4
<1>7. displaced = IF row.current = s THEN None ELSE row.current OBVIOUS
<1> HIDE DEF list, kept, add, del, displaced
<1>8. Claims(s, list, add, del, displaced) BY <1>2, <1>3, <1>5, <1>6, <1>7 DEF Claims
<1> QED BY <1>1, <1>3, <1>6, <1>8

\* Calls with the fields a registration, a claim and a hand-over write.
LEMMA CallsOf ==
  ASSUME NEW c \in Calls, NEW add \in SUBSET Sessions, NEW del \in SUBSET Sessions,
         NEW displaced \in Sessions \cup {None}
  PROVE  /\ Idle \in Calls
         /\ [Idle EXCEPT !.pc = "mirror", !.add = add, !.del = del, !.locked = TRUE] \in Calls
         /\ [c EXCEPT !.pc = "mirror", !.add = add, !.del = del, !.displaced = displaced] \in Calls
         /\ [c EXCEPT !.pc = "evict"] \in Calls /\ [c EXCEPT !.pc = "claim"] \in Calls
         /\ [c EXCEPT !.add = add] \in Calls /\ [c EXCEPT !.del = del] \in Calls
<1>1. {"idle", "mirror", "evict", "claim"} \subseteq Places /\ {} \in SUBSET Sessions BY DEF Places
<1>2. Idle \in Calls BY <1>1 DEF Idle, Calls
<1>3. [Idle EXCEPT !.pc = "mirror", !.add = add, !.del = del, !.locked = TRUE] \in Calls
  BY <1>1 DEF Idle, Calls
<1>4. [c EXCEPT !.pc = "mirror", !.add = add, !.del = del, !.displaced = displaced] \in Calls
  BY <1>1 DEF Calls
<1>5. [c EXCEPT !.pc = "evict"] \in Calls /\ [c EXCEPT !.pc = "claim"] \in Calls BY <1>1 DEF Calls
<1>6. [c EXCEPT !.add = add] \in Calls /\ [c EXCEPT !.del = del] \in Calls BY DEF Calls
<1> QED BY <1>2, <1>3, <1>4, <1>5, <1>6

\* Every step keeps the types.
LEMMA TypesStay == TypeOK /\ [Next]_vars => TypeOK'
<1> SUFFICES ASSUME TypeOK, [Next]_vars PROVE TypeOK' OBVIOUS
<1>0. Idle \in Calls BY DEF Idle, Calls, Places
<1>1. CASE UNCHANGED vars BY <1>1 DEF vars, TypeOK
<1>2. ASSUME NEW s \in Sessions, Initialize(s) PROVE TypeOK' BY <1>2 DEF Initialize, TypeOK
<1>3. ASSUME NEW s \in Sessions, RegisterRole(s) PROVE TypeOK'
  <2>1. PICK list \in Lists, add \in SUBSET Sessions, del \in SUBSET Sessions :
           Registers(s, list, add, del)
    BY <1>3, RegistrationWrites
  <2>2. row' \in Rows
    <3>1. who[s].role \in Roles /\ who[s].host \in Hosts \cup {None} BY DEF TypeOK, Callers
    <3>2. PICK r \in Rows : r = row BY DEF TypeOK
    <3>3. PICK role \in Roles \cup {None} : role = IF r.role = None THEN who[s].role ELSE r.role
      BY <3>1 DEF Rows
    <3>4. [r EXCEPT !.role = role, !.host = who[s].host, !.registered = list,
                    !.archived = FALSE] \in Rows
      BY <3>1, <3>3 DEF Rows
    <3> QED BY <2>1, <3>2, <3>3, <3>4 DEF Registers
  <2>3. PICK c \in Calls :
           c = [Idle EXCEPT !.pc = "mirror", !.add = add, !.del = del, !.locked = TRUE]
    BY <1>0, CallsOf
  <2>4. call' \in [Sessions -> Calls] BY <2>1, <2>3 DEF Registers, TypeOK
  <2> QED BY <1>3, <2>2, <2>4 DEF RegisterRole, TypeOK
<1>4. ASSUME NEW s \in Sessions, BeginClaim(s) PROVE TypeOK'
  <2>1. PICK c \in Calls : c = call[s] BY DEF TypeOK
  <2>2. call' = [call EXCEPT ![s] = [c EXCEPT !.pc = "claim"]] BY <1>4, <2>1 DEF BeginClaim, TypeOK
  <2>3. call' \in [Sessions -> Calls] BY <2>2, CallsOf DEF TypeOK
  <2> QED BY <1>4, <2>3 DEF BeginClaim, TypeOK
<1>5. ASSUME NEW s \in Sessions, TouchAgent(s) PROVE TypeOK'
  <2>1. row' \in Rows BY <1>5 DEF TouchAgent, TypeOK, Rows
  <2> QED BY <1>5, <2>1 DEF TouchAgent, TypeOK
<1>6. ASSUME NEW s \in Sessions, RefuseClaim(s) PROVE TypeOK' BY <1>0, <1>6 DEF RefuseClaim, TypeOK
<1>7. ASSUME NEW s \in Sessions, ClaimSession(s) PROVE TypeOK'
  <2>1. PICK list \in Lists, add \in SUBSET Sessions, del \in SUBSET Sessions,
             displaced \in Sessions \cup {None} : Claims(s, list, add, del, displaced)
    BY <1>7, ClaimWrites
  <2>2. row' \in Rows
    <3>1. PICK r \in Rows : r = row BY DEF TypeOK
    <3>2. r.epoch + 1 \in Nat BY DEF Rows
    <3>3. [r EXCEPT !.current = s, !.epoch = r.epoch + 1, !.registered = list, !.online = TRUE] \in Rows
      BY <3>2 DEF Rows
    <3> QED BY <2>1, <3>1, <3>3 DEF Claims
  <2>3. PICK c \in Calls : c = call[s] BY DEF TypeOK
  <2>4. PICK d \in Calls :
           d = [c EXCEPT !.pc = "mirror", !.add = add, !.del = del, !.displaced = displaced]
    BY CallsOf
  <2>5. call' \in [Sessions -> Calls] BY <2>1, <2>3, <2>4 DEF Claims, TypeOK
  <2>6. ousted' \subseteq Sessions BY <2>1 DEF Claims, TypeOK
  <2> QED BY <1>7, <2>2, <2>5, <2>6 DEF ClaimSession, TypeOK
<1>8. ASSUME NEW s \in Sessions, NEW t \in Sessions, WriteBinding(s, t) \/ DeleteBinding(s, t)
      PROVE  TypeOK'
  <2>1. PICK c \in Calls : c = call[s] BY DEF TypeOK
  <2>2. /\ c.add \ {t} \in SUBSET Sessions /\ c.del \ {t} \in SUBSET Sessions BY DEF Calls
  <2>3. /\ [c EXCEPT !.add = c.add \ {t}] \in Calls /\ [c EXCEPT !.del = c.del \ {t}] \in Calls
    BY <2>2, CallsOf
  <2>4. \/ call' = [call EXCEPT ![s] = [c EXCEPT !.add = c.add \ {t}]]
        \/ call' = [call EXCEPT ![s] = [c EXCEPT !.del = c.del \ {t}]]
    BY <1>8, <2>1 DEF WriteBinding, DeleteBinding, TypeOK
  <2>5. call' \in [Sessions -> Calls] BY <2>3, <2>4 DEF TypeOK
  <2> QED BY <1>8, <2>5 DEF WriteBinding, DeleteBinding, TypeOK
<1>9. ASSUME NEW s \in Sessions, Bind(s) PROVE TypeOK'
  <2>1. PICK c \in Calls : c = call[s] BY DEF TypeOK
  <2>2. call' = [call EXCEPT ![s] = Idle] \/ call' = [call EXCEPT ![s] = [c EXCEPT !.pc = "evict"]]
    BY <1>9, <2>1 DEF Bind, TypeOK
  <2>3. [c EXCEPT !.pc = "evict"] \in Calls BY DEF Calls, Places
  <2>4. call' \in [Sessions -> Calls] BY <1>0, <2>2, <2>3 DEF TypeOK
  <2> QED BY <1>9, <2>4 DEF Bind, TypeOK
<1>10. ASSUME NEW s \in Sessions, Evict(s) PROVE TypeOK' BY <1>0, <1>10 DEF Evict, TypeOK
<1>11. ASSUME NEW s \in Sessions, Unpublish(s) PROVE TypeOK' BY <1>11 DEF Unpublish, TypeOK
<1>12. ASSUME NEW s \in Sessions, CleanUp(s) PROVE TypeOK'
  <2>1. CASE ForgetBinding(s) BY <2>1 DEF ForgetBinding, TypeOK
  <2>2. CASE MarkAgentOffline(s)
    <3>1. row' \in Rows BY <2>2 DEF MarkAgentOffline, TypeOK, Rows
    <3> QED BY <2>2, <3>1 DEF MarkAgentOffline, TypeOK
  <2> QED BY <1>12, <2>1, <2>2 DEF CleanUp
<1>13. CASE ArchiveAgent
  <2>1. row' \in Rows BY <1>13 DEF ArchiveAgent, TypeOK, Rows
  <2> QED BY <1>13, <2>1 DEF ArchiveAgent, TypeOK
<1>14. CASE Crash BY <1>0, <1>14 DEF Crash, TypeOK
<1> QED BY <1>1, <1>2, <1>3, <1>4, <1>5, <1>6, <1>7, <1>8, <1>9, <1>10, <1>11, <1>12, <1>13, <1>14
        DEF Next, Proceed

-----------------------------------------------------------------------------
(* Ownership.                                                              *)

\* The role and the host on record stay.
SameRecord == row'.role = row.role /\ row'.host = row.host

\* A step that lets nothing new be carried, under the same record.
LEMMA NothingNewCarried ==
  ASSUME OwnerInv, UNCHANGED who, fresh' \subseteq fresh, SameRecord,
         \A x \in Sessions : Carried(x)' => Carried(x)
  PROVE  OwnerInv'
<1>1. HostsKnown' => HostsKnown BY DEF HostsKnown
<1> QED BY <1>1 DEF OwnerInv, OnRecord, SameRecord

\* Every step keeps ownership.  Only a registration makes a session carried
\* that was not, and it compares the session's role and host with the record.
LEMMA OwnerStays == TypeOK /\ OwnerInv /\ CallsFit /\ [Next]_vars => OwnerInv'
<1> SUFFICES ASSUME TypeOK, OwnerInv, CallsFit, [Next]_vars PROVE OwnerInv' OBVIOUS
<1>0. call \in [Sessions -> Calls] /\ row \in Rows /\ who \in [Sessions -> Callers] BY DEF TypeOK
<1>00. Idle.pc = "idle" /\ Idle.add = {} BY DEF Idle
<1>1. CASE UNCHANGED vars
  <2>1. SameRecord /\ who' = who /\ fresh' \subseteq fresh BY <1>1 DEF vars, SameRecord
  <2>2. \A x \in Sessions : Carried(x)' => Carried(x) BY <1>1 DEF vars, Carried, At
  <2> QED BY <2>1, <2>2, NothingNewCarried
<1>2. ASSUME NEW s \in Sessions, Initialize(s) PROVE OwnerInv'
  <2>1. SameRecord /\ who' = who /\ fresh' \subseteq fresh BY <1>2 DEF Initialize, SameRecord
  <2>2. \A x \in Sessions : Carried(x)' => Carried(x) BY <1>2 DEF Initialize, Carried, At
  <2> QED BY <2>1, <2>2, NothingNewCarried
<1>3. ASSUME NEW s \in Sessions, RegisterRole(s) PROVE OwnerInv'
  <2>1. PICK list \in Lists, add \in SUBSET Sessions, del \in SUBSET Sessions :
           Registers(s, list, add, del)
    BY <1>3, RegistrationWrites
  <2>2. /\ row'.role = (IF row.role = None THEN who[s].role ELSE row.role)
        /\ row'.host = who[s].host
        /\ row'.registered = list /\ row'.current = row.current
    BY <1>0, <2>1 DEF Registers, Rows
  <2>3. row'.role = who[s].role BY <1>3, <2>2 DEF RegisterRole, SameIdentity
  <2>4. /\ call'[s].add = add /\ \A t \in Sessions \ {s} : call'[t] = call[t]
    <3> DEFINE c == [Idle EXCEPT !.pc = "mirror", !.add = add, !.del = del, !.locked = TRUE]
    <3>1. c.add = add BY DEF Idle
    <3>2. call' = [call EXCEPT ![s] = c] BY <2>1 DEF Registers
    <3> HIDE DEF c
    <3> QED BY <1>0, <3>1, <3>2
  <2>5. ToSet(list) \subseteq ToSet(row.registered) \cup {s} /\ add \subseteq ToSet(list)
    BY <2>1 DEF Registers
  <2>6. ASSUME NEW x \in Sessions, Carried(x)', x # s PROVE Carried(x)
    <3>1. bound' = bound /\ pointer' = pointer BY <1>3 DEF RegisterRole
    <3> QED BY <2>2, <2>4, <2>5, <2>6, <3>1 DEF Carried, At
  <2>7. who' = who /\ fresh' = fresh /\ s \notin fresh BY <1>3 DEF RegisterRole, CallsFit
  <2>8. HostsKnown => who[s].host # None BY <2>7 DEF HostsKnown
  <2>9. ASSUME NEW x \in Sessions, Carried(x)'
        PROVE  /\ who[x].role = row'.role
               /\ HostsKnown => who[x].host = row'.host
    <3>1. CASE x = s BY <2>2, <2>3, <3>1
    <3>2. CASE x # s
      <4>0. OnRecord(x) BY <2>6, <2>9, <3>2 DEF OwnerInv
      <4>1. who[x].role = row.role /\ (HostsKnown => who[x].host = row.host)
        BY <4>0 DEF OnRecord
      <4>2. who[x].role \in Roles BY <1>0 DEF Callers
      <4>3. row.role # None BY <4>1, <4>2, SessionsAssumption
      <4>4. HostsKnown => row.host = who[s].host
        BY <1>3, <2>8, <4>3 DEF RegisterRole, SameIdentity, OwnerInv
      <4> QED BY <2>2, <4>1, <4>3, <4>4
    <3> QED BY <3>1, <3>2
  <2>10. HostsKnown' <=> HostsKnown BY <2>7 DEF HostsKnown
  <2>11. \A x \in Sessions : Carried(x)' => OnRecord(x)' BY <2>7, <2>9, <2>10 DEF OnRecord
  <2> QED BY <2>2, <2>7, <2>8, <2>10, <2>11 DEF OwnerInv
<1>4. ASSUME NEW s \in Sessions, BeginClaim(s) PROVE OwnerInv'
  <2>1. Carried(s)
    BY <1>4 DEF BeginClaim, Resolves, Carried
  <2>2. call'[s].add = call[s].add /\ \A t \in Sessions \ {s} : call'[t] = call[t]
    BY <1>0, <1>4 DEF BeginClaim, Calls
  <2>3. ASSUME NEW x \in Sessions, Carried(x)' PROVE Carried(x)
    <3>1. (\E t \in Sessions : x \in call'[t].add) => \E u \in Sessions : x \in call[u].add
      BY <2>2
    <3> QED BY <1>4, <2>1, <2>2, <2>3, <3>1 DEF BeginClaim, Carried, At
  <2>4. SameRecord /\ who' = who /\ fresh' = fresh BY <1>4 DEF BeginClaim, SameRecord
  <2> QED BY <2>3, <2>4, NothingNewCarried
<1>5. ASSUME NEW s \in Sessions, TouchAgent(s) PROVE OwnerInv'
  <2>1. SameRecord /\ who' = who /\ fresh' \subseteq fresh
    BY <1>0, <1>5 DEF TouchAgent, SameRecord, Rows
  <2>2. \A x \in Sessions : Carried(x)' => Carried(x)
    BY <1>0, <1>5 DEF TouchAgent, Carried, At, Rows
  <2> QED BY <2>1, <2>2, NothingNewCarried
<1>6. ASSUME NEW s \in Sessions, RefuseClaim(s) PROVE OwnerInv'
  <2>1. SameRecord /\ who' = who /\ fresh' \subseteq fresh
    BY <1>0, <1>00, <1>6 DEF RefuseClaim, SameRecord
  <2>2. \A x \in Sessions : Carried(x)' => Carried(x)
    BY <1>0, <1>00, <1>6 DEF RefuseClaim, Carried, At
  <2> QED BY <2>1, <2>2, NothingNewCarried
<1>7. ASSUME NEW s \in Sessions, ClaimSession(s) PROVE OwnerInv'
  <2>1. PICK list \in Lists, add \in SUBSET Sessions, del \in SUBSET Sessions,
             displaced \in Sessions \cup {None} : Claims(s, list, add, del, displaced)
    BY <1>7, ClaimWrites
  <2>2. SameRecord /\ row'.registered = list /\ row'.current = s
    BY <1>0, <2>1 DEF Claims, Rows, SameRecord
  <2>3. call'[s].add = add /\ \A t \in Sessions \ {s} : call'[t] = call[t]
    <3>1. PICK c \in Calls : c = call[s] BY <1>0
    <3> DEFINE d == [c EXCEPT !.pc = "mirror", !.add = add, !.del = del, !.displaced = displaced]
    <3>2. d.add = add BY DEF Calls
    <3>3. call' = [call EXCEPT ![s] = d] BY <2>1, <3>1 DEF Claims
    <3> HIDE DEF d
    <3> QED BY <1>0, <3>2, <3>3
  <2>4. ToSet(list) \subseteq ToSet(row.registered) \cup {s} /\ add \subseteq ToSet(list)
    BY <2>1 DEF Claims
  <2>5. Carried(s) BY <1>7 DEF ClaimSession, Carried, At
  <2>6. ASSUME NEW x \in Sessions, Carried(x)' PROVE Carried(x)
    <3>1. CASE x = s BY <2>5, <3>1
    <3>2. CASE x # s BY <1>7, <2>2, <2>3, <2>4, <2>6, <3>2 DEF ClaimSession, Carried, At
    <3> QED BY <3>1, <3>2
  <2>7. who' = who /\ fresh' = fresh BY <1>7 DEF ClaimSession
  <2> QED BY <2>2, <2>6, <2>7, NothingNewCarried
<1>8. ASSUME NEW s \in Sessions, NEW t \in Sessions, WriteBinding(s, t) \/ DeleteBinding(s, t)
      PROVE  OwnerInv'
  <2>1. /\ call'[s].pc = call[s].pc /\ call'[s].add \subseteq call[s].add
        /\ \A u \in Sessions \ {s} : call'[u] = call[u]
    BY <1>0, <1>8 DEF WriteBinding, DeleteBinding, Calls
  <2>2. /\ pointer' \subseteq pointer \cup {t}
        /\ t \in pointer' => t \in pointer \/ t \in call[s].add
        /\ UNCHANGED <<who, row, bound, fresh>>
    BY <1>8 DEF WriteBinding, DeleteBinding
  <2>3. ASSUME NEW x \in Sessions, Carried(x)' PROVE Carried(x)
    <3>1. CASE \E u \in Sessions : x \in call'[u].add
      <4>1. PICK u \in Sessions : x \in call'[u].add BY <3>1
      <4>2. x \in call[u].add BY <2>1, <4>1
      <4> QED BY <4>2 DEF Carried
    <3>2. CASE x \in pointer' BY <2>2, <3>2 DEF Carried
    <3>3. CASE call'[x].pc # "idle" BY <2>1, <3>3 DEF Carried, At
    <3> QED BY <2>2, <2>3, <3>1, <3>2, <3>3 DEF Carried, At
  <2> QED BY <2>2, <2>3, NothingNewCarried DEF SameRecord
<1>9. ASSUME NEW s \in Sessions, Bind(s) PROVE OwnerInv'
  <2>1. /\ call'[s].add \subseteq call[s].add /\ \A u \in Sessions \ {s} : call'[u] = call[u]
    BY <1>0, <1>00, <1>9 DEF Bind, Calls
  <2>2. Carried(s) /\ bound' \subseteq bound \cup {s} /\ UNCHANGED <<who, row, pointer, fresh>>
    BY <1>9 DEF Bind, Mirrored, Carried, At
  <2>3. ASSUME NEW x \in Sessions, Carried(x)' PROVE Carried(x)
    <3>1. CASE x = s BY <2>2, <3>1
    <3>2. CASE x # s /\ \E u \in Sessions : x \in call'[u].add
      <4>1. PICK u \in Sessions : x \in call'[u].add BY <3>2
      <4>2. x \in call[u].add BY <2>1, <4>1
      <4> QED BY <4>2 DEF Carried
    <3>3. CASE x # s /\ ~\E u \in Sessions : x \in call'[u].add
      BY <2>1, <2>2, <2>3, <3>3 DEF Carried, At
    <3> QED BY <3>1, <3>2, <3>3
  <2> QED BY <2>2, <2>3, NothingNewCarried DEF SameRecord
<1>10. ASSUME NEW s \in Sessions, Evict(s) PROVE OwnerInv'
  <2>1. SameRecord /\ who' = who /\ fresh' \subseteq fresh
    BY <1>0, <1>00, <1>10 DEF Evict, SameRecord
  <2>2. \A x \in Sessions : Carried(x)' => Carried(x) BY <1>0, <1>00, <1>10 DEF Evict, Carried, At
  <2> QED BY <2>1, <2>2, NothingNewCarried
<1>11. ASSUME NEW s \in Sessions, Unpublish(s) PROVE OwnerInv'
  <2>1. SameRecord /\ who' = who /\ fresh' \subseteq fresh BY <1>11 DEF Unpublish, SameRecord
  <2>2. \A x \in Sessions : Carried(x)' => Carried(x) BY <1>11 DEF Unpublish, Carried, At
  <2> QED BY <2>1, <2>2, NothingNewCarried
<1>12. ASSUME NEW s \in Sessions, CleanUp(s) PROVE OwnerInv'
  <2>1. SameRecord /\ who' = who /\ fresh' \subseteq fresh
    BY <1>0, <1>12 DEF CleanUp, ForgetBinding, MarkAgentOffline,
          SameRecord, Rows
  <2>2. \A x \in Sessions : Carried(x)' => Carried(x) 
    BY <1>0, <1>12 DEF CleanUp, ForgetBinding, MarkAgentOffline, Carried, At, Rows
  <2> QED BY <2>1, <2>2, NothingNewCarried
<1>13. CASE ArchiveAgent
  <2>1. SameRecord /\ who' = who /\ fresh' \subseteq fresh
    BY <1>0, <1>13 DEF ArchiveAgent, SameRecord, Rows
  <2>2. \A x \in Sessions : Carried(x)' => Carried(x)
    BY <1>0, <1>13 DEF ArchiveAgent, Carried, At, Rows
  <2> QED BY <2>1, <2>2, NothingNewCarried
<1>14. CASE Crash
  <2>1. \A u \in Sessions : call'[u].pc = "idle" /\ call'[u].add = {} BY <1>00, <1>14 DEF Crash
  <2>2. SameRecord /\ who' = who /\ fresh' \subseteq fresh BY <1>14 DEF Crash, SameRecord
  <2>3. \A x \in Sessions : Carried(x)' => Carried(x) BY <1>14, <2>1 DEF Crash, Carried, At
  <2> QED BY <2>2, <2>3, NothingNewCarried
<1> QED BY <1>1, <1>2, <1>3, <1>4, <1>5, <1>6, <1>7, <1>8, <1>9, <1>10, <1>11, <1>12, <1>13, <1>14
        DEF Next, Proceed

-----------------------------------------------------------------------------
(* Displacement.                                                           *)

\* How the call of s goes on in a step that leaves the other calls alone.
Moves(s) == \A t \in Sessions \ {s} : call'[t] = call[t]

\* The step of a call that is under way keeps the calls in order, as long as
\* it forgets what it displaced when it ends.
LEMMA MoveKeepsCalls ==
  ASSUME CallsFit, UNCHANGED <<raced, fresh>>, NEW s \in Sessions, ~At(s, "idle"), Moves(s),
         open' \subseteq open, row'.current \in {row.current, s},
         call'[s].pc \in {"idle", "claim"} => call'[s].displaced = None
  PROVE  CallsFit'
<1>1. \A x \in Sessions : ~At(x, "idle")' => ~At(x, "idle") BY DEF Moves, At
<1>2. \A x \in Sessions : (x \in open \/ row.current = x \/ ~At(x, "idle") => x \notin fresh)'
  BY <1>1 DEF CallsFit
<1>3. \A x \in Sessions : call'[x].pc \in {"idle", "claim"} => call'[x].displaced = None
  BY DEF CallsFit, Moves
<1> QED BY <1>1, <1>2, <1>3 DEF CallsFit

\* The first step of a call keeps them in order: it has not claimed, and if
\* another call is under way the two have raced.
LEMMA BeginKeepsCalls ==
  ASSUME CallsFit, UNCHANGED <<fresh, open>>, NEW s \in Sessions, s \in open, Moves(s),
         raced' = (raced \/ Busy(s)), row'.current = row.current, call'[s].displaced = None
  PROVE  CallsFit'
<1>1. \A x \in Sessions : (x \in open \/ row.current = x \/ ~At(x, "idle") => x \notin fresh)'
  BY DEF CallsFit, Moves, At
<1>2. \A x \in Sessions : call'[x].pc \in {"idle", "claim"} => call'[x].displaced = None
  BY DEF CallsFit, Moves
<1>3. ~raced' => \A x, y \in Sessions : ~At(x, "idle")' /\ ~At(y, "idle")' => x = y
  <2> SUFFICES ASSUME ~raced' PROVE \A x \in Sessions : ~At(x, "idle")' => x = s
    OBVIOUS
  <2>1. ~Busy(s) OBVIOUS
  <2> QED BY <2>1 DEF Busy, Moves, At
<1> QED BY <1>1, <1>2, <1>3 DEF CallsFit

\* What a registration and a claim make of the call.
LEMMA CallFields ==
  ASSUME TypeOK, NEW s \in Sessions, NEW list, NEW add, NEW del, NEW displaced
  PROVE  /\ Registers(s, list, add, del) =>
              /\ call'[s].pc = "mirror" /\ call'[s].displaced = None /\ Moves(s)
              /\ row'.current = row.current
         /\ Claims(s, list, add, del, displaced) =>
              /\ call'[s].pc = "mirror" /\ call'[s].displaced = displaced /\ Moves(s)
              /\ row'.current = s
<1>0. call \in [Sessions -> Calls] /\ row \in Rows BY DEF TypeOK
<1>1. ASSUME Registers(s, list, add, del)
      PROVE  /\ call'[s].pc = "mirror" /\ call'[s].displaced = None /\ Moves(s)
             /\ row'.current = row.current
  <2> DEFINE c == [Idle EXCEPT !.pc = "mirror", !.add = add, !.del = del, !.locked = TRUE]
  <2>1. c.pc = "mirror" /\ c.displaced = None BY DEF Idle
  <2>2. call' = [call EXCEPT ![s] = c] BY <1>1 DEF Registers
  <2>3. row'.current = row.current BY <1>0, <1>1 DEF Registers, Rows
  <2> HIDE DEF c
  <2> QED BY <1>0, <2>1, <2>2, <2>3 DEF Moves
<1>2. ASSUME Claims(s, list, add, del, displaced)
      PROVE  /\ call'[s].pc = "mirror" /\ call'[s].displaced = displaced /\ Moves(s)
             /\ row'.current = s
  <2>1. PICK c \in Calls : c = call[s] BY <1>0
  <2> DEFINE d == [c EXCEPT !.pc = "mirror", !.add = add, !.del = del, !.displaced = displaced]
  <2>2. d.pc = "mirror" /\ d.displaced = displaced BY DEF Calls
  <2>3. call' = [call EXCEPT ![s] = d] BY <1>2, <2>1 DEF Claims
  <2>4. row'.current = s BY <1>0, <1>2 DEF Claims, Rows
  <2> HIDE DEF d
  <2> QED BY <1>0, <2>2, <2>3, <2>4 DEF Moves
<1> QED BY <1>1, <1>2

\* Every step keeps the calls in order and the displaced out.
LEMMA DisplacedStayOut ==
  ASSUME TypeOK, CallsFit, OustedInv, [Next]_vars
  PROVE  CallsFit' /\ OustedInv'
<1>0. call \in [Sessions -> Calls] /\ row \in Rows BY DEF TypeOK
<1>00. Idle.pc = "idle" /\ Idle.displaced = None BY DEF Idle
<1>000. None \notin Sessions BY SessionsAssumption
<1>1. CASE UNCHANGED vars BY <1>1 DEF vars, CallsFit, OustedInv, Out, Displacing, At
<1>2. ASSUME NEW s \in Sessions, Initialize(s) PROVE CallsFit' /\ OustedInv'
  <2>1. CallsFit' BY <1>2 DEF Initialize, CallsFit, At
  <2>2. OustedInv' BY <1>2 DEF Initialize, OustedInv, Out, Displacing, At
  <2> QED BY <2>1, <2>2
<1>3. ASSUME NEW s \in Sessions, RegisterRole(s) \/ BeginClaim(s) PROVE CallsFit' /\ OustedInv'
  <2>1. call'[s].displaced = None /\ Moves(s) /\ row'.current = row.current
    <3>1. CASE RegisterRole(s) BY <3>1, RegistrationWrites, CallFields
    <3>2. CASE BeginClaim(s)
      <4>1. call[s].displaced = None BY <3>2 DEF BeginClaim, CallsFit, At
      <4> QED BY <1>0, <3>2, <4>1 DEF BeginClaim, Moves, Calls
    <3> QED BY <1>3, <3>1, <3>2
  <2>2. /\ s \in open /\ At(s, "idle") /\ raced' = (raced \/ Busy(s))
        /\ bound' \subseteq bound \cup {s} /\ UNCHANGED <<fresh, open, ousted>>
    BY <1>3 DEF RegisterRole, BeginClaim
  <2>3. CallsFit' BY <2>1, <2>2, BeginKeepsCalls
  <2>4. ASSUME ~raced', NEW d \in ousted PROVE Out(d)'
    <3>1. ~raced /\ Out(d) /\ \A t \in Sessions : At(t, "idle")
      BY <2>2, <2>4 DEF OustedInv, Busy
    <3>2. ~Displacing(d) BY <1>000, <2>4, <3>1 DEF CallsFit, Displacing, At, TypeOK
    <3>3. d # s /\ d \in Sessions BY <2>2, <2>4, <3>1, <3>2 DEF Out, TypeOK
    <3> QED BY <2>1, <2>2, <3>1, <3>2, <3>3 DEF Out, Moves, At
  <2> QED BY <2>2, <2>3, <2>4 DEF OustedInv
<1>4. ASSUME NEW s \in Sessions, TouchAgent(s) PROVE CallsFit' /\ OustedInv'
  <2>1. row'.current = row.current BY <1>0, <1>4 DEF TouchAgent, Rows
  <2>2. CallsFit' BY <1>4, <2>1 DEF TouchAgent, CallsFit, At
  <2>3. OustedInv' BY <1>4 DEF TouchAgent, OustedInv, Out, Displacing, At
  <2> QED BY <2>2, <2>3
<1>5. ASSUME NEW s \in Sessions, RefuseClaim(s) PROVE CallsFit' /\ OustedInv'
  <2>1. call'[s] = Idle /\ Moves(s) BY <1>0, <1>5 DEF RefuseClaim, Moves
  <2>2. /\ At(s, "claim") /\ call[s].displaced = None
        /\ UNCHANGED <<row, bound, open, fresh, raced, ousted>>
    BY <1>5 DEF RefuseClaim, CallsFit, At
  <2>3. CallsFit' BY <1>00, <2>1, <2>2, MoveKeepsCalls DEF At
  <2>4. ASSUME ~raced', NEW d \in ousted PROVE Out(d)'
    <3>1. Out(d) /\ d \in Sessions BY <2>2, <2>4 DEF OustedInv, TypeOK
    <3>2. At(d, "idle")' BY <1>00, <2>1, <3>1 DEF Out, Moves, At
    <3>3. Displacing(d) => Displacing(d)'
      <4> SUFFICES ASSUME NEW t \in Sessions, call[t].displaced = d PROVE Displacing(d)'
        BY DEF Displacing
      <4>1. t # s BY <1>000, <2>2, <3>1
      <4> QED BY <2>1, <4>1 DEF Displacing, Moves
    <3> QED BY <2>2, <3>1, <3>2, <3>3 DEF Out
  <2> QED BY <2>2, <2>3, <2>4 DEF OustedInv
<1>6. ASSUME NEW s \in Sessions, ClaimSession(s) PROVE CallsFit' /\ OustedInv'
  <2>1. PICK list \in Lists, add \in SUBSET Sessions, del \in SUBSET Sessions,
             displaced \in Sessions \cup {None} : Claims(s, list, add, del, displaced)
    BY <1>6, ClaimWrites
  <2>2. /\ call'[s].pc = "mirror" /\ call'[s].displaced = displaced /\ Moves(s)
        /\ row'.current = s
    BY <2>1, CallFields
  <2>3. /\ displaced = (IF row.current = s THEN None ELSE row.current)
        /\ ousted' = IF raced THEN {} ELSE (ousted \cup ({displaced} \ {None})) \ {s}
    BY <2>1 DEF Claims
  <2>4. At(s, "claim") /\ UNCHANGED <<bound, open, fresh, raced>> BY <1>6 DEF ClaimSession
  <2>5. CallsFit' BY <2>2, <2>4, MoveKeepsCalls DEF At
  <2>6. ASSUME ~raced', NEW d \in ousted' PROVE Out(d)'
    <3>1. ~raced /\ d # s /\ d \in Sessions /\ (d \in ousted \/ d = displaced)
      BY <2>1, <2>3, <2>4, <2>6 DEF TypeOK
    <3>2. At(d, "idle") /\ At(d, "idle")' BY <2>2, <2>4, <3>1 DEF CallsFit, Moves, At
    <3>3. CASE d = displaced
      <4>1. d \notin fresh
        <5>1. row.current = d BY <1>000, <2>3, <3>1, <3>3
        <5> QED BY <3>1, <5>1 DEF CallsFit
      <4>2. Displacing(d)' BY <2>2, <3>3 DEF Displacing
      <4> QED BY <2>4, <3>2, <4>1, <4>2 DEF Out
    <3>4. CASE d \in ousted
      <4>1. Out(d) BY <3>1, <3>4 DEF OustedInv
      <4>2. ~Displacing(d)
        <5> SUFFICES ASSUME NEW t \in Sessions, call[t].displaced = d PROVE FALSE BY DEF Displacing
        <5>1. call[t].pc = "idle" \/ t = s BY <2>4, <3>1 DEF CallsFit, At
        <5>2. call[t].displaced = None BY <2>4, <5>1 DEF CallsFit, At
        <5> QED BY <1>000, <3>1, <5>2
      <4> QED BY <2>4, <3>2, <4>1, <4>2 DEF Out
    <3> QED BY <3>1, <3>3, <3>4
  <2> QED BY <2>5, <2>6 DEF OustedInv
<1>7. ASSUME NEW s \in Sessions, NEW t \in Sessions, WriteBinding(s, t) \/ DeleteBinding(s, t)
      PROVE  CallsFit' /\ OustedInv'
  <2>1. /\ call'[s].pc = call[s].pc /\ call'[s].displaced = call[s].displaced /\ Moves(s)
    BY <1>0, <1>7 DEF WriteBinding, DeleteBinding, Calls, Moves
  <2>2. At(s, "mirror") /\ UNCHANGED <<row, bound, open, fresh, raced, ousted>>
    BY <1>7 DEF WriteBinding, DeleteBinding
  <2>3. CallsFit' BY <2>1, <2>2, MoveKeepsCalls DEF At
  <2>4. \A x \in Sessions : At(x, "idle")' <=> At(x, "idle") BY <2>1, <2>2 DEF Moves, At
  <2>5. \A d : Displacing(d) => Displacing(d)' BY <2>1 DEF Displacing, Moves
  <2>6. OustedInv' BY <2>2, <2>4, <2>5 DEF OustedInv, Out, TypeOK
  <2> QED BY <2>3, <2>6
<1>8. ASSUME NEW s \in Sessions, Bind(s) PROVE CallsFit' /\ OustedInv'
  <2>1. /\ At(s, "mirror") /\ bound' = (bound \cup {s}) \ {call[s].displaced}
        /\ UNCHANGED <<row, open, fresh, raced, ousted>>
    BY <1>8 DEF Bind, Mirrored
  <2>2. /\ Moves(s)
        /\ \/ call[s].displaced = None /\ call'[s] = Idle
           \/ call'[s].pc = "evict" /\ call'[s].displaced = call[s].displaced
    BY <1>0, <1>8 DEF Bind, Moves, Calls
  <2>3. CallsFit' BY <1>00, <2>1, <2>2, MoveKeepsCalls DEF At
  <2>4. ASSUME ~raced', NEW d \in ousted PROVE Out(d)'
    <3>1. Out(d) /\ d \in Sessions BY <2>1, <2>4 DEF OustedInv, TypeOK
    <3>2. d # s BY <2>1, <3>1 DEF Out, At
    <3>3. At(d, "idle")' BY <2>2, <3>1, <3>2 DEF Out, Moves, At
    <3>4. Displacing(d) => Displacing(d)' BY <1>000, <2>2, <3>1 DEF Displacing, Moves
    <3> QED BY <2>1, <3>1, <3>2, <3>3, <3>4 DEF Out
  <2> QED BY <2>1, <2>3, <2>4 DEF OustedInv
<1>9. ASSUME NEW s \in Sessions, Evict(s) PROVE CallsFit' /\ OustedInv'
  <2>1. /\ At(s, "evict") /\ call'[s] = Idle /\ Moves(s)
        /\ open' = open \ {call[s].displaced} /\ bound' = bound \ {call[s].displaced}
        /\ UNCHANGED <<row, fresh, raced, ousted>>
    BY <1>0, <1>9 DEF Evict, Moves
  <2>3. CallsFit' BY <1>00, <2>1, MoveKeepsCalls DEF At
  <2>4. ASSUME ~raced', NEW d \in ousted PROVE Out(d)'
    <3>1. Out(d) /\ d \in Sessions BY <2>1, <2>4 DEF OustedInv, TypeOK
    <3>2. At(d, "idle")' BY <1>00, <2>1, <3>1 DEF Out, Moves, At
    <3>3. Displacing(d) => Displacing(d)' \/ call[s].displaced = d BY <2>1 DEF Displacing, Moves
    <3> QED BY <2>1, <3>1, <3>2, <3>3 DEF Out
  <2> QED BY <2>1, <2>3, <2>4 DEF OustedInv
<1>10. ASSUME NEW s \in Sessions, Unpublish(s) PROVE CallsFit' /\ OustedInv'
  <2>1. CallsFit' BY <1>10 DEF Unpublish, CallsFit, At
  <2>2. OustedInv' BY <1>10 DEF Unpublish, OustedInv, Out, Displacing, At
  <2> QED BY <2>1, <2>2
<1>11. ASSUME NEW s \in Sessions, CleanUp(s) PROVE CallsFit' /\ OustedInv'
  <2>1. /\ row'.current = row.current /\ bound' = bound \ {s}
        /\ UNCHANGED <<open, fresh, call, raced, ousted>>
    BY <1>0, <1>11 DEF CleanUp, ForgetBinding, MarkAgentOffline, Rows
  <2>2. CallsFit' BY <2>1 DEF CallsFit, At
  <2>3. OustedInv' BY <2>1 DEF OustedInv, Out, Displacing, At
  <2> QED BY <2>2, <2>3
<1>12. CASE ArchiveAgent
  <2>1. row'.current = row.current BY <1>0, <1>12 DEF ArchiveAgent, Rows
  <2>2. CallsFit' BY <1>12, <2>1 DEF ArchiveAgent, CallsFit, At
  <2>3. OustedInv' BY <1>12 DEF ArchiveAgent, OustedInv, Out, Displacing, At
  <2> QED BY <2>2, <2>3
<1>13. CASE Crash
  <2>1. /\ \A s \in Sessions : call'[s] = Idle
        /\ open' = {} /\ ousted' = {} /\ UNCHANGED <<row, fresh>>
    BY <1>13 DEF Crash
  <2>2. CallsFit' BY <1>00, <2>1 DEF CallsFit, At
  <2>3. OustedInv' BY <2>1 DEF OustedInv
  <2> QED BY <2>2, <2>3
<1> QED BY <1>1, <1>2, <1>3, <1>4, <1>5, <1>6, <1>7, <1>8, <1>9, <1>10, <1>11, <1>12, <1>13
        DEF Next, Proceed

-----------------------------------------------------------------------------
(* The theorems.                                                           *)

\* The invariant holds at the start.
LEMMA InitSessions == Init => SessionsInv
<1> SUFFICES ASSUME Init PROVE SessionsInv OBVIOUS
<1>1. /\ Idle \in Calls /\ Idle.pc = "idle" /\ Idle.add = {} /\ Idle.displaced = None
  BY DEF Idle, Calls, Places
<1>2. << >> \in Lists /\ ToSet(<< >>) = {}
  <2>1. << >> \in Lists BY EmptySeq DEF Lists
  <2>2. ToSet(<< >>) = {} BY DEF ToSet
  <2> QED BY <2>1, <2>2
<1>3. NoAgent \in Rows /\ NoAgent.current = None /\ NoAgent.registered = << >>
  <2>1. 0 \in Nat /\ FALSE \in BOOLEAN OBVIOUS
  <2> QED BY <1>2, <2>1 DEF NoAgent, Rows
<1>4. TypeOK BY <1>1, <1>3, SessionsAssumption DEF Init, TypeOK, Callers
<1>5. OwnerInv BY <1>1, <1>2, <1>3, SessionsAssumption DEF Init, NoAgent, OwnerInv, Carried, At
<1>6. CallsFit BY <1>1, <1>3, SessionsAssumption DEF Init, CallsFit, At
<1>7. OustedInv BY DEF Init, OustedInv
<1> QED BY <1>4, <1>5, <1>6, <1>7 DEF SessionsInv

\* The inductive invariant of the sessions.
THEOREM SessionsStaySound == Spec => []SessionsInv
<1>1. SessionsInv /\ [Next]_vars => SessionsInv'
  BY TypesStay, OwnerStays, DisplacedStayOut DEF SessionsInv
<1> QED BY <1>1, InitSessions, PTL DEF Spec

\* A session that is bound, has a pointer row, is current or has a call under
\* way comes with the role the agent was created with, so nobody speaks for an
\* agent under a token of another role; and as long as every registration names
\* a host, from the host on record.  One that names none is let in and clears
\* the record (assertIdentity, claimSession, getAgentForSession and the pointer
\* rows).
THEOREM OnlyTheOwnerResolves == Spec => []ResolvesOnlyOwner
<1>1. SessionsInv => ResolvesOnlyOwner
  <2> SUFFICES ASSUME SessionsInv, NEW s \in Sessions,
                      s \in bound \cup pointer \/ row.current = s \/ ~At(s, "idle")
               PROVE  OnRecord(s)
    BY DEF ResolvesOnlyOwner, OnRecord
  <2>1. Carried(s) BY DEF Carried
  <2> QED BY <2>1 DEF SessionsInv, OwnerInv
<1> QED BY <1>1, SessionsStaySound, PTL

\* Between handshakes that did not overlap, a session that was displaced is
\* neither in the map nor connected (claimSession, cleanupSession and the
\* session map).
THEOREM TheDisplacedStayOut == Spec => []DisplacedStaysOut
<1>1. SessionsInv => DisplacedStaysOut
  <2> SUFFICES ASSUME SessionsInv, Quiet, ~raced, NEW d \in ousted
               PROVE  d \notin bound \cup open
    BY DEF DisplacedStaysOut
  <2>1. Out(d) /\ d \in Sessions BY DEF SessionsInv, OustedInv, TypeOK
  <2>2. ~Displacing(d)
    BY <2>1, SessionsAssumption DEF SessionsInv, CallsFit, Quiet, Displacing, At
  <2> QED BY <2>1, <2>2 DEF Out
<1> QED BY <1>1, SessionsStaySound, PTL

=============================================================================
