-------------------------- MODULE RadioQueueRefines --------------------------
(***************************************************************************)
(* Proof that RadioQueue implements AbsQueue, for every finite set of      *)
(* producers, all priorities and every array length: as long as operations *)
(* neither overlap nor leave the arrays, counters and slots are a queue.   *)
(***************************************************************************)
EXTENDS RadioQueueProofs, SequenceTheorems

(* Without overlap at most one thread is in the middle of an operation.    *)
SoleInv == \A t, u \in Threads : ~Blocked(t) /\ ~Blocked(u) => t = u

(* A producer's copy of TargetNum is current, its message is new and, once *)
(* written, in its slot.                                                   *)
ProducerInv ==
    \A p \in Producers : ~Blocked(p) =>
        /\ NumTemp[p] = TargetNum + 1 /\ NumTemp[p] < Cap
        /\ msg[p] \notin accepted
        /\ pc[p] = "store" => load[p] = TargetNum
        /\ pc[p] \in {"load", "store"} =>
             slot[IF p \in Urgents THEN NowNum + 1 ELSE TargetNum + 1] = msg[p]

(* An urgent message has been written and TargetNum not yet moved. *)
Shifted == \E p \in Urgents : pc[p] \in {"load", "store"}

(* The slots that wait hold messages, and so does the one that is taken.   *)
SlotInv ==
    /\ TargetNum < Cap
    /\ pc[Dequeuer] = "reset_now" => NowNum = TargetNum
    /\ pc[Dequeuer] # "reset_target" =>
         \A i \in Slots : NowNum < i /\ (i <= TargetNum \/ (Shifted /\ i = TargetNum + 1))
                            => slot[i] \in Msgs
    /\ pc[Dequeuer] = "delay" => slot[NowNum] \in Msgs

CleanInv == SoleInv /\ ProducerInv /\ SlotInv

QueueInv == BoundsInv /\ (clean => CleanInv)

(* The messages in the slots from a to b of an array s. *)
Slice(s, a, b) == [i \in 1 .. (b + 1 - a) |-> s[a + i - 1]]

-----------------------------------------------------------------------------
(* A slice of messages is a sequence of them. *)
LEMMA SliceSeq ==
    ASSUME NEW s, NEW a \in Nat, NEW b \in Nat, a <= b + 1, NEW S,
           \A i \in a..b : s[i] \in S
    PROVE  Slice(s, a, b) \in Seq(S) /\ Len(Slice(s, a, b)) = b + 1 - a
<1>1. b + 1 - a \in Nat
  OBVIOUS
<1>2. \A i \in 1 .. (b + 1 - a) : a + i - 1 \in a..b
  OBVIOUS
<1>3. Slice(s, a, b) \in [1 .. (b + 1 - a) -> S]
  BY <1>2 DEF Slice
<1>4. Slice(s, a, b) \in Seq(S)
  BY <1>1, <1>3, SeqDef
<1>5. Len(Slice(s, a, b)) = b + 1 - a
  <2>1. DOMAIN Slice(s, a, b) = 1 .. (b + 1 - a)
    BY <1>3
  <2> QED
   BY <1>1, <1>4, <2>1, LenProperties
<1> QED
  BY <1>4, <1>5

(* The slice between a slot and the next one is empty. *)
LEMMA SliceEmpty ==
    ASSUME NEW s, NEW a \in Nat
    PROVE  Slice(s, a + 1, a) = << >>
  BY DEF Slice

(* A slice that is one slot longer is the shorter one with a message behind. *)
LEMMA SliceAppend ==
    ASSUME NEW s, NEW t, NEW a \in Nat, NEW b \in Nat, a <= b + 1, NEW S,
           \A i \in a..b : s[i] \in S /\ t[i] = s[i], t[b + 1] \in S
    PROVE  Slice(t, a, b + 1) = Append(Slice(s, a, b), t[b + 1])
<1>1. /\ Slice(s, a, b) \in Seq(S) /\ Len(Slice(s, a, b)) = b + 1 - a
  BY SliceSeq
<1>2. \A i \in a .. b + 1 : t[i] \in S
  OBVIOUS
<1>3. /\ Slice(t, a, b + 1) \in Seq(S) /\ Len(Slice(t, a, b + 1)) = b + 2 - a
  <2>1. b + 1 \in Nat /\ a <= (b + 1) + 1 /\ (b + 1) + 1 - a = b + 2 - a
    OBVIOUS
  <2>2. /\ Slice(t, a, b + 1) \in Seq(S) /\ Len(Slice(t, a, b + 1)) = (b + 1) + 1 - a
    BY <1>2, <2>1, SliceSeq
  <2> QED
    BY <2>1, <2>2
<1>4. /\ Append(Slice(s, a, b), t[b + 1]) \in Seq(S)
      /\ Len(Append(Slice(s, a, b), t[b + 1])) = b + 2 - a
      /\ \A i \in 1 .. b + 1 - a : Append(Slice(s, a, b), t[b + 1])[i] = Slice(s, a, b)[i]
      /\ Append(Slice(s, a, b), t[b + 1])[b + 2 - a] = t[b + 1]
  BY <1>1, AppendProperties
<1>5. ASSUME NEW i \in 1 .. b + 2 - a
      PROVE  Slice(t, a, b + 1)[i] = Append(Slice(s, a, b), t[b + 1])[i]
  <2>1. CASE i = b + 2 - a
    BY <1>4, <2>1 DEF Slice
  <2>2. CASE i # b + 2 - a
    <3>1. i \in 1 .. b + 1 - a /\ a + i - 1 \in a..b
      BY <2>2
    <3>2. Slice(t, a, b + 1)[i] = t[a + i - 1]
      BY DEF Slice
    <3>3. Slice(s, a, b)[i] = s[a + i - 1]
      BY <3>1 DEF Slice
    <3> QED
      BY <1>4, <3>1, <3>2, <3>3
  <2> QED
    BY <2>1, <2>2
<1> QED
  BY <1>3, <1>4, <1>5, SeqEqual

(* The first slot of a slice is its head, the others are its tail. *)
LEMMA SliceFirst ==
    ASSUME NEW s, NEW a \in Nat, NEW b \in Nat, a <= b, NEW S,
           \A i \in a..b : s[i] \in S
    PROVE  /\ Slice(s, a, b) # << >>
           /\ Head(Slice(s, a, b)) = s[a]
           /\ Tail(Slice(s, a, b)) = Slice(s, a + 1, b)
           /\ Slice(s, a, b) = <<s[a]>> \o Slice(s, a + 1, b)
<1> DEFINE h == Slice(s, a, b)
           r == Slice(s, a + 1, b)
<1>1. h \in Seq(S) /\ Len(h) = b + 1 - a
  <2>1. a <= b + 1
    OBVIOUS
  <2> QED
    BY <2>1, SliceSeq
<1>2. r \in Seq(S) /\ Len(r) = b - a
  <2>1. /\ a + 1 \in Nat /\ a + 1 <= b + 1 /\ b + 1 - (a + 1) = b - a
        /\ \A i \in a + 1 .. b : s[i] \in S
    OBVIOUS
  <2>2. r \in Seq(S) /\ Len(r) = b + 1 - (a + 1)
    BY <2>1, SliceSeq
  <2> QED
    BY <2>1, <2>2
<1>3. h # << >> /\ Head(h) = s[a]
  <2>1. h[1] = s[a]
    BY DEF Slice
  <2>2. Head(h) = h[1] /\ Len(h) # 0
    BY <1>1
  <2> QED
    BY <2>1, <2>2
<1>4. ASSUME NEW i \in 1 .. b - a PROVE r[i] = h[i + 1]
  BY DEF Slice
<1>5. Tail(h) = r
  <2>1. Tail(h) \in Seq(S) /\ Len(Tail(h)) = b - a /\ \A i \in 1 .. b - a : Tail(h)[i] = h[i + 1]
    BY <1>1, <1>3, HeadTailProperties
  <2> HIDE DEF h, r
  <2> QED
    BY <1>2, <1>4, <2>1, SeqEqual
<1>6. h = <<s[a]>> \o r
  <2>1. s[a] \in S
    OBVIOUS
  <2>2. <<s[a]>> \in Seq(S) /\ Len(<<s[a]>>) = 1
    BY <2>1
  <2> DEFINE one == <<s[a]>>
  <2>3. one[1] = s[a]
    OBVIOUS
  <2> HIDE DEF h, r, one
  <2>4. /\ one \o r \in Seq(S) /\ Len(one \o r) = b + 1 - a
        /\ (one \o r)[1] = s[a]
        /\ \A i \in 2 .. b + 1 - a : (one \o r)[i] = r[i - 1]
    BY <1>2, <2>2, <2>3, ConcatProperties DEF one
  <2>5. ASSUME NEW i \in 1 .. b + 1 - a PROVE h[i] = (one \o r)[i]
    <3>1. CASE i = 1
      BY <1>1, <1>3, <2>4, <3>1
    <3>2. CASE i # 1
      <4>1. i - 1 \in 1 .. b - a
        BY <3>2
      <4>2. r[i - 1] = h[(i - 1) + 1]
        BY <1>4, <4>1
      <4>3. (i - 1) + 1 = i /\ i \in 2 .. b + 1 - a
        BY <3>2
      <4>4. (one \o r)[i] = r[i - 1]
        BY <2>4, <4>3
      <4> QED
        BY <4>2, <4>3, <4>4
    <3> QED
      BY <3>1, <3>2
  <2> QED
    BY <1>1, <2>4, <2>5, SeqEqual DEF one
<1> QED
  BY <1>3, <1>5, <1>6

-----------------------------------------------------------------------------
(* If one producer is under way alone the others are idle and the dequeue  *)
(* thread sleeps or waits to send.                                         *)
LEMMA SoleProducer ==
    ASSUME TypeOK, NEW p \in Producers, OthersBlocked(p)
    PROVE  /\ \A q \in Producers \ {p} : pc[q] = "idle"
           /\ pc[Dequeuer] \in {"sleep", "delay"}
           /\ Shifted <=> p \in Urgents /\ pc[p] \in {"load", "store"}
<1>1. \A q \in Producers \ {p} : pc[q] = "idle"
  BY BlockedFacts, SlotFacts DEF OthersBlocked
<1>2. pc[Dequeuer] \in {"sleep", "delay"}
  BY BlockedFacts, SlotFacts DEF OthersBlocked
<1>3. Shifted <=> p \in Urgents /\ pc[p] \in {"load", "store"}
  BY <1>1 DEF Shifted, Producers
<1> QED
  BY <1>1, <1>2, <1>3

(* If the dequeue thread is under way alone all producers are idle. *)
LEMMA SoleDequeuer ==
    ASSUME TypeOK, OthersBlocked(Dequeuer)
    PROVE  /\ \A q \in Producers : pc[q] = "idle" /\ Blocked(q)
           /\ ~Shifted
<1>1. \A q \in Producers : pc[q] = "idle" /\ Blocked(q)
  BY BlockedFacts, SlotFacts DEF OthersBlocked
<1> QED
  BY <1>1 DEF Shifted, Producers

(* The thread under way is alone as long as nothing has overlapped. *)
LEMMA SoleRuns ==
    ASSUME CleanInv, NEW t \in Threads, ~Blocked(t)
    PROVE  OthersBlocked(t)
  BY DEF CleanInv, SoleInv, OthersBlocked

(* Start-up. *)
LEMMA InitQueue == Init => QueueInv
<1> SUFFICES ASSUME Init PROVE QueueInv
  OBVIOUS
<1>1. BoundsInv
  BY InitBounds
<1>2. \A t \in Threads : Blocked(t)
  BY DEF Init, Blocked
<1>3. SoleInv /\ ProducerInv
  BY <1>2, SlotFacts DEF SoleInv, ProducerInv
<1>4. SlotInv
  <2>1. pc[Dequeuer] = "sleep" /\ ~Shifted
    BY SlotFacts DEF Init, Shifted, Producers
  <2>2. \A i \in Slots : ~(0 < i /\ i <= 0)
    BY SlotFacts
  <2> QED
    BY <2>1, <2>2, SlotFacts DEF Init, SlotInv
<1> QED
  BY <1>1, <1>3, <1>4 DEF QueueInv, CleanInv

(* A producer that begins alone reads a TargetNum that stays current. *)
LEMMA ReadNumClean ==
    ASSUME QueueInv, NEW p \in Producers, ReadNum(p), clean'
    PROVE  /\ CleanInv'
           /\ UNCHANGED <<Pending, InHand, accepted, sent, clean>>
<1> USE SlotFacts DEF QueueInv
<1>1. /\ clean /\ OthersBlocked(p) /\ Blocked(p) /\ TargetNum + 1 < Cap
      /\ UNCHANGED <<NowNum, TargetNum, slot, load, accepted, sent>>
  BY DEF ReadNum, Starts, queueVars
<1>2. TypeOK /\ CleanInv /\ TargetNum \in Nat /\ offered \in Nat /\ TargetNum < Cap
  BY <1>1, TypeFacts DEF BoundsInv
<1>3. /\ Goto(p, "write") /\ NumTemp' = [NumTemp EXCEPT ![p] = TargetNum + 1]
      /\ msg' = [msg EXCEPT ![p] = offered + 1]
  BY <1>2 DEF ReadNum
<1>4. /\ pc'[p] = "write" /\ pc[p] = "idle"
      /\ \A u \in Threads \ {p} : pc'[u] = pc[u] /\ Blocked(u)'
  BY <1>1, <1>2, <1>3, GotoFacts, BlockedFacts DEF OthersBlocked
<1>5. ~Shifted /\ ~Shifted' /\ pc'[Dequeuer] = pc[Dequeuer]
  <2>1. \A q \in Producers : pc[q] = "idle"
    BY <1>1, <1>2, <1>4, SoleProducer
  <2> QED
    BY <1>4, <2>1 DEF Shifted, Producers
<1>6. SoleInv'
  BY <1>4 DEF SoleInv
<1>7. ProducerInv'
  <2>1. \A q \in Producers : ~Blocked(q)' => q = p
    BY <1>4
  <2>2. NumTemp'[p] = TargetNum' + 1 /\ NumTemp'[p] < Cap
    BY <1>1, <1>2, <1>3 DEF TypeOK
  <2>3. msg'[p] \notin accepted'
    BY <1>1, <1>2, <1>3 DEF TypeOK, BoundsInv, OfferInv
  <2> QED
    BY <1>4, <2>1, <2>2, <2>3 DEF ProducerInv
<1>8. SlotInv'
  BY <1>1, <1>2, <1>5 DEF SlotInv, CleanInv
<1>9. UNCHANGED <<Pending, InHand>>
  BY <1>1, <1>5 DEF Pending, InHand, Held, Shifted
<1> QED
  BY <1>1, <1>6, <1>7, <1>8, <1>9 DEF CleanInv

(* The write of a message leaves those that wait as they are, though an    *)
(* urgent one moves each of them by a slot.                                *)
LEMMA WriteClean ==
    ASSUME QueueInv, NEW p \in Producers, Write(p), clean'
    PROVE  /\ CleanInv'
           /\ UNCHANGED <<Pending, InHand, accepted, sent, clean>>
<1>1. /\ pc[p] = "write" /\ Goto(p, "load")
      /\ UNCHANGED <<NowNum, TargetNum, msg, NumTemp, load, clean, accepted, sent>>
  BY DEF Write, localVars, histVars
<1>2. TypeOK /\ CleanInv /\ OvertakeInv /\ ~Blocked(p) /\ clean
  BY <1>1 DEF QueueInv, BoundsInv, Blocked
<1>3. OthersBlocked(p)
  BY <1>2, SoleRuns, SlotFacts
<1>4. /\ pc'[p] = "load" /\ ~Blocked(p)'
      /\ \A u \in Threads \ {p} : pc'[u] = pc[u] /\ Blocked(u)'
  BY <1>1, <1>2, <1>3, GotoFacts, SlotFacts DEF OthersBlocked, Blocked
<1>5. /\ pc[Dequeuer] \in {"sleep", "delay"} /\ pc'[Dequeuer] = pc[Dequeuer]
      /\ ~Shifted /\ (Shifted' <=> p \in Urgents)
  <2>1. /\ \A q \in Producers \ {p} : pc[q] = "idle"
        /\ pc[Dequeuer] \in {"sleep", "delay"} /\ ~Shifted
    BY <1>1, <1>2, <1>3, SoleProducer
  <2>2. \A q \in Producers \ {p} : pc'[q] = "idle"
    BY <1>4, <2>1, SlotFacts
  <2> QED
    BY <1>4, <2>1, <2>2, SlotFacts DEF Shifted, Producers
<1>6. /\ NowNum \in Nat /\ TargetNum \in Nat /\ NowNum <= TargetNum /\ TargetNum + 1 < Cap
      /\ NumTemp[p] = TargetNum + 1 /\ msg[p] \notin accepted /\ msg[p] \in Msgs
  <2>1. msg[p] \in Msgs
    BY <1>2, TypeFacts, SlotFacts DEF QueueInv, BoundsInv, OfferInv
  <2>2. NumTemp[p] = TargetNum + 1 /\ NumTemp[p] < Cap /\ msg[p] \notin accepted
    BY <1>2 DEF CleanInv, ProducerInv
  <2> QED
    BY <1>2, <2>1, <2>2, TypeFacts DEF OvertakeInv
<1>7. \A i \in Slots : NowNum < i /\ i <= TargetNum => slot[i] \in Msgs
  BY <1>2, <1>5 DEF CleanInv, SlotInv
<1>8. /\ slot'[IF p \in Urgents THEN NowNum + 1 ELSE TargetNum + 1] = msg[p]
      /\ slot'[NowNum] = slot[NowNum]
      /\ \A i \in Slots : NowNum < i /\ i <= TargetNum =>
           slot'[IF p \in Urgents THEN i + 1 ELSE i] = slot[i]
  <2>0. /\ NowNum \in Slots /\ NowNum + 1 \in Slots /\ TargetNum + 1 \in Slots
        /\ \A i \in Slots : i \in Nat /\ (i <= TargetNum => i + 1 \in Slots)
    BY <1>6, SlotFacts
  <2>1. CASE p \in Urgents
    <3>1. slot' = [i \in Slots |->
                     IF i = NowNum + 1 THEN msg[p]
                     ELSE IF i \in NowNum + 2 .. TargetNum + 1 THEN slot[i - 1]
                     ELSE slot[i]]
      BY <1>6, <2>1 DEF Write, WriteNext
    <3>2. slot'[NowNum + 1] = msg[p]
      BY <2>0, <3>1
    <3>3. slot'[NowNum] = slot[NowNum]
      <4>1. NowNum # NowNum + 1 /\ NowNum \notin NowNum + 2 .. TargetNum + 1
        BY <1>6
      <4> QED
        BY <2>0, <3>1, <4>1
    <3>4. ASSUME NEW i \in Slots, NowNum < i, i <= TargetNum
          PROVE  slot'[i + 1] = slot[i]
      <4>1. /\ i + 1 \in Slots /\ i + 1 # NowNum + 1
            /\ i + 1 \in NowNum + 2 .. TargetNum + 1 /\ (i + 1) - 1 = i
        BY <1>6, <2>0, <3>4
      <4> QED
        BY <3>1, <4>1
    <3> QED
      BY <2>1, <3>2, <3>3, <3>4
  <2>2. CASE p \notin Urgents
    <3>1. slot' = [slot EXCEPT ![TargetNum + 1] = msg[p]]
      BY <1>6, <2>2 DEF Write, WriteLast
    <3>2. NowNum # TargetNum + 1 /\ \A i \in Slots : i <= TargetNum => i # TargetNum + 1
      BY <1>6, <2>0
    <3> QED
      BY <1>2, <2>0, <2>2, <3>1, <3>2 DEF TypeOK
  <2> QED
    BY <2>1, <2>2
<1>9. SoleInv'
  BY <1>4 DEF SoleInv
<1>10. ProducerInv'
  <2>1. \A q \in Producers : ~Blocked(q)' => q = p
    BY <1>4, SlotFacts
  <2> QED
    BY <1>1, <1>4, <1>6, <1>8, <2>1 DEF ProducerInv
<1>11. SlotInv'
  <2>1. ASSUME NEW i \in Slots, NowNum < i,
               i <= TargetNum \/ (p \in Urgents /\ i = TargetNum + 1)
        PROVE  slot'[i] \in Msgs
    <3>1. CASE p \in Urgents
      <4>1. CASE i = NowNum + 1
        BY <1>6, <1>8, <3>1, <4>1
      <4>2. CASE i # NowNum + 1
        <5>1. /\ i - 1 \in Slots /\ NowNum < i - 1 /\ i - 1 <= TargetNum
              /\ (i - 1) + 1 = i
          BY <1>6, <2>1, <4>2, SlotFacts
        <5> QED
          BY <1>7, <1>8, <3>1, <5>1
      <4> QED
        BY <4>1, <4>2
    <3>2. CASE p \notin Urgents
      BY <1>7, <1>8, <2>1, <3>2
    <3> QED
      BY <3>1, <3>2
  <2>2. pc'[Dequeuer] = "delay" => slot'[NowNum'] \in Msgs
    BY <1>1, <1>2, <1>5, <1>8 DEF CleanInv, SlotInv
  <2> QED
    BY <1>1, <1>2, <1>5, <2>1, <2>2 DEF CleanInv, SlotInv
<1>12. Pending' = Pending
  <2>1. Pending = Slice(slot, NowNum + 1, TargetNum)
    BY <1>2, <1>5 DEF Pending, Held, Slice, Shifted
  <2>2. CASE p \in Urgents
    <3>1. Pending' = Slice(slot', NowNum + 2, TargetNum + 1)
      BY <1>1, <1>2, <1>5, <2>2 DEF Pending, Held, Slice, Shifted
    <3>2. (TargetNum + 1) + 1 - (NowNum + 2) = TargetNum + 1 - (NowNum + 1)
      BY <1>6
    <3>3. ASSUME NEW i \in 1 .. TargetNum + 1 - (NowNum + 1)
          PROVE  slot'[NowNum + 2 + i - 1] = slot[NowNum + 1 + i - 1]
      <4>1. /\ NowNum + i \in Slots /\ NowNum < NowNum + i /\ NowNum + i <= TargetNum
            /\ NowNum + 2 + i - 1 = (NowNum + i) + 1 /\ NowNum + 1 + i - 1 = NowNum + i
        BY <1>6, SlotFacts
      <4> QED
        BY <1>8, <2>2, <4>1
    <3> QED
      BY <2>1, <3>1, <3>2, <3>3 DEF Slice
  <2>3. CASE p \notin Urgents
    <3>1. Pending' = Slice(slot', NowNum + 1, TargetNum)
      BY <1>1, <1>2, <1>5, <2>3 DEF Pending, Held, Slice, Shifted
    <3>2. ASSUME NEW i \in 1 .. TargetNum + 1 - (NowNum + 1)
          PROVE  slot'[NowNum + 1 + i - 1] = slot[NowNum + 1 + i - 1]
      <4>1. /\ NowNum + i \in Slots /\ NowNum < NowNum + i /\ NowNum + i <= TargetNum
            /\ NowNum + 1 + i - 1 = NowNum + i
        BY <1>6, SlotFacts
      <4> QED
        BY <1>8, <2>3, <4>1
    <3> QED
      BY <2>1, <3>1, <3>2 DEF Slice
  <2> QED
    BY <2>2, <2>3
<1>13. InHand' = InHand
  BY <1>1, <1>5, <1>8 DEF InHand
<1> QED
  BY <1>1, <1>9, <1>10, <1>11, <1>12, <1>13 DEF CleanInv

(* The load of TargetNum++ changes nothing that waits. *)
LEMMA LoadClean ==
    ASSUME QueueInv, NEW p \in Producers, Load(p), clean'
    PROVE  /\ CleanInv'
           /\ UNCHANGED <<Pending, InHand, accepted, sent, clean>>
<1>1. /\ pc[p] = "load" /\ Goto(p, "store") /\ load' = [load EXCEPT ![p] = TargetNum]
      /\ UNCHANGED <<NowNum, TargetNum, slot, msg, NumTemp, clean, accepted, sent>>
  BY DEF Load, queueVars, histVars
<1>2. TypeOK /\ CleanInv /\ ~Blocked(p) /\ clean
  BY <1>1 DEF QueueInv, BoundsInv, Blocked
<1>3. OthersBlocked(p)
  BY <1>2, SoleRuns, SlotFacts
<1>4. /\ pc'[p] = "store" /\ ~Blocked(p)'
      /\ \A u \in Threads \ {p} : pc'[u] = pc[u] /\ Blocked(u)'
  BY <1>1, <1>2, <1>3, GotoFacts, SlotFacts DEF OthersBlocked, Blocked
<1>5. pc'[Dequeuer] = pc[Dequeuer] /\ (Shifted' <=> Shifted)
  <2>1. \A q \in Producers : pc'[q] \in {"load", "store"} <=> pc[q] \in {"load", "store"}
    BY <1>1, <1>4, SlotFacts
  <2> QED
    BY <1>4, <2>1, SlotFacts DEF Shifted, Producers
<1>6. SoleInv'
  BY <1>4 DEF SoleInv
<1>7. ProducerInv'
  <2>1. \A q \in Producers : ~Blocked(q)' => q = p
    BY <1>4, SlotFacts
  <2>2. load'[p] = TargetNum
    BY <1>1, <1>2 DEF TypeOK
  <2> QED
    BY <1>1, <1>2, <1>4, <2>1, <2>2 DEF ProducerInv, CleanInv
<1>8. SlotInv'
  BY <1>1, <1>2, <1>5 DEF SlotInv, CleanInv
<1>9. UNCHANGED <<Pending, InHand>>
  BY <1>1, <1>5 DEF Pending, InHand, Held, Shifted
<1> QED
  BY <1>1, <1>6, <1>7, <1>8, <1>9 DEF CleanInv

(* The store of TargetNum++ puts the message into the abstract queue: an   *)
(* urgent one first, another one last.                                     *)
LEMMA StoreClean ==
    ASSUME QueueInv, NEW p \in Producers, Store(p), clean'
    PROVE  /\ CleanInv'
           /\ UNCHANGED <<InHand, sent, clean>>
           /\ msg[p] \in Msgs \ accepted /\ accepted' = accepted \cup {msg[p]}
           /\ Len(Pending) < Cap
           /\ Pending' = IF p \in Urgents THEN <<msg[p]>> \o Pending
                         ELSE Append(Pending, msg[p])
<1>1. /\ pc[p] = "store" /\ Goto(p, "idle") /\ TargetNum' = load[p] + 1
      /\ accepted' = accepted \cup {msg[p]}
      /\ UNCHANGED <<NowNum, slot, clean, sent>>
  BY DEF Store
<1>2. TypeOK /\ CleanInv /\ OvertakeInv /\ ~Blocked(p) /\ clean
  BY <1>1 DEF QueueInv, BoundsInv, Blocked
<1>3. OthersBlocked(p)
  BY <1>2, SoleRuns, SlotFacts
<1>4. /\ pc'[p] = "idle" /\ Blocked(p)'
      /\ \A u \in Threads \ {p} : pc'[u] = pc[u] /\ Blocked(u)'
  BY <1>1, <1>2, <1>3, GotoFacts, SlotFacts DEF OthersBlocked, Blocked
<1>5. /\ pc[Dequeuer] \in {"sleep", "delay"} /\ pc'[Dequeuer] = pc[Dequeuer]
      /\ (Shifted <=> p \in Urgents) /\ ~Shifted'
  <2>1. /\ \A q \in Producers \ {p} : pc[q] = "idle"
        /\ pc[Dequeuer] \in {"sleep", "delay"} /\ (Shifted <=> p \in Urgents)
    BY <1>1, <1>2, <1>3, SoleProducer
  <2>2. \A q \in Producers : pc'[q] = "idle"
    BY <1>4, <2>1, SlotFacts
  <2> QED
    BY <1>4, <2>1, <2>2, SlotFacts DEF Shifted, Producers
<1>6. /\ NowNum \in Nat /\ TargetNum \in Nat /\ NowNum <= TargetNum
      /\ TargetNum' = TargetNum + 1 /\ TargetNum + 1 < Cap
      /\ msg[p] \in Msgs \ accepted
      /\ slot[IF p \in Urgents THEN NowNum + 1 ELSE TargetNum + 1] = msg[p]
  <2>1. msg[p] \in Msgs
    BY <1>2, TypeFacts, SlotFacts DEF QueueInv, BoundsInv, OfferInv
  <2>2. /\ NumTemp[p] = TargetNum + 1 /\ NumTemp[p] < Cap /\ msg[p] \notin accepted
        /\ load[p] = TargetNum
        /\ slot[IF p \in Urgents THEN NowNum + 1 ELSE TargetNum + 1] = msg[p]
    BY <1>1, <1>2 DEF CleanInv, ProducerInv
  <2> QED
    BY <1>1, <1>2, <2>1, <2>2, TypeFacts DEF OvertakeInv
<1>7. \A i \in NowNum + 1 .. TargetNum + 1 : slot[i] \in Msgs
  <2> SUFFICES ASSUME NEW i \in NowNum + 1 .. TargetNum + 1 PROVE slot[i] \in Msgs
    OBVIOUS
  <2>1. i \in Slots /\ NowNum < i /\ (i <= TargetNum \/ i = TargetNum + 1)
    BY <1>6, SlotFacts
  <2>2. i <= TargetNum \/ (Shifted /\ i = TargetNum + 1) => slot[i] \in Msgs
    BY <1>2, <1>5, <2>1 DEF CleanInv, SlotInv
  <2> QED
    BY <1>5, <1>6, <2>1, <2>2
<1>8. SoleInv' /\ ProducerInv'
  BY <1>4, SlotFacts DEF SoleInv, ProducerInv
<1>9. SlotInv'
  <2>1. \A i \in Slots : NowNum < i /\ i <= TargetNum + 1 => slot[i] \in Msgs
    BY <1>6, <1>7, SlotFacts
  <2> QED
    BY <1>1, <1>2, <1>5, <1>6, <2>1 DEF SlotInv, CleanInv
<1>10. Pending' = Slice(slot, NowNum + 1, TargetNum + 1)
  BY <1>1, <1>2, <1>5, <1>6 DEF Pending, Held, Slice, Shifted
<1>11. CASE p \in Urgents
  <2>1. Pending = Slice(slot, NowNum + 2, TargetNum + 1)
    BY <1>2, <1>5, <1>11 DEF Pending, Held, Slice, Shifted
  <2>2. /\ NowNum + 1 \in Nat /\ TargetNum + 1 \in Nat /\ NowNum + 1 <= TargetNum + 1
        /\ (NowNum + 1) + 1 = NowNum + 2
    BY <1>6
  <2>3. Slice(slot, NowNum + 1, TargetNum + 1)
          = <<slot[NowNum + 1]>> \o Slice(slot, NowNum + 2, TargetNum + 1)
    <3> DEFINE a == NowNum + 1
               b == TargetNum + 1
    <3>1. a \in Nat /\ b \in Nat /\ a <= b /\ \A i \in a..b : slot[i] \in Msgs
      BY <1>7, <2>2
    <3> HIDE DEF a, b
    <3>2. Slice(slot, a, b) = <<slot[a]>> \o Slice(slot, a + 1, b)
      BY <3>1, SliceFirst
    <3> QED
      BY <2>2, <3>2 DEF a, b
  <2>4. Len(Pending) < Cap
    <3>1. /\ NowNum + 2 \in Nat /\ NowNum + 2 <= (TargetNum + 1) + 1
          /\ \A i \in NowNum + 2 .. TargetNum + 1 : slot[i] \in Msgs
          /\ (TargetNum + 1) + 1 - (NowNum + 2) < Cap
      BY <1>6, <1>7, SlotFacts
    <3>2. Len(Slice(slot, NowNum + 2, TargetNum + 1)) = (TargetNum + 1) + 1 - (NowNum + 2)
      BY <2>2, <3>1, SliceSeq
    <3> QED
      BY <2>1, <3>1, <3>2
  <2>5. Pending' = <<msg[p]>> \o Pending
    BY <1>6, <1>10, <1>11, <2>1, <2>3
  <2> QED
    BY <1>1, <1>5, <1>6, <1>8, <1>9, <1>11, <2>4, <2>5 DEF CleanInv, InHand
<1>12. CASE p \notin Urgents
  <2>1. Pending = Slice(slot, NowNum + 1, TargetNum)
    BY <1>2, <1>5, <1>12 DEF Pending, Held, Slice, Shifted
  <2>2. /\ NowNum + 1 \in Nat /\ NowNum + 1 <= TargetNum + 1
        /\ TargetNum + 1 - (NowNum + 1) < Cap
        /\ \A i \in NowNum + 1 .. TargetNum : slot[i] \in Msgs /\ slot[i] = slot[i]
        /\ slot[TargetNum + 1] \in Msgs
    BY <1>6, <1>7, SlotFacts
  <2>3. Slice(slot, NowNum + 1, TargetNum + 1)
          = Append(Slice(slot, NowNum + 1, TargetNum), slot[TargetNum + 1])
    BY <1>6, <2>2, SliceAppend
  <2>4. Len(Pending) < Cap
    <3>1. Len(Slice(slot, NowNum + 1, TargetNum)) = TargetNum + 1 - (NowNum + 1)
      BY <1>6, <2>2, SliceSeq
    <3> QED
      BY <2>1, <2>2, <3>1
  <2>5. Pending' = Append(Pending, msg[p])
    BY <1>6, <1>10, <1>12, <2>1, <2>3
  <2> QED
    BY <1>1, <1>5, <1>6, <1>8, <1>9, <1>12, <2>4, <2>5 DEF CleanInv, InHand
<1> QED
  BY <1>11, <1>12

(* The dequeue thread on its own: what is common to its steps. *)
LEMMA DequeuerAlone ==
    ASSUME TypeOK, OthersBlocked(Dequeuer), NEW label, Goto(Dequeuer, label)
    PROVE  /\ pc'[Dequeuer] = label /\ ~Shifted /\ ~Shifted'
           /\ SoleInv' /\ ProducerInv'
<1>1. \A q \in Producers : pc[q] = "idle" /\ Blocked(q)
  BY SoleDequeuer
<1>2. /\ pc'[Dequeuer] = label
      /\ \A u \in Threads \ {Dequeuer} : pc'[u] = pc[u] /\ (Blocked(u)' <=> Blocked(u))
  BY GotoFacts, SlotFacts
<1>3. \A q \in Producers : pc'[q] = "idle" /\ Blocked(q)'
  BY <1>1, <1>2, SlotFacts
<1>4. ~Shifted /\ ~Shifted'
  BY <1>1, <1>3 DEF Shifted, Producers
<1>5. SoleInv'
  <2>1. \A u \in Threads : ~Blocked(u)' => u = Dequeuer
    BY <1>3 DEF Threads
  <2> QED
    BY <2>1 DEF SoleInv
<1>6. ProducerInv'
  BY <1>3 DEF ProducerInv
<1> QED
  BY <1>2, <1>4, <1>5, <1>6

(* The comparison of the counters changes nothing that waits. *)
LEMMA CheckClean ==
    ASSUME QueueInv, Check, clean'
    PROVE  /\ CleanInv'
           /\ UNCHANGED <<Pending, InHand, accepted, sent, clean>>
<1> DEFINE label == IF NowNum = TargetNum THEN "reset_now" ELSE "pick"
<1>1. /\ clean /\ OthersBlocked(Dequeuer) /\ pc[Dequeuer] = "sleep"
      /\ UNCHANGED <<NowNum, TargetNum, slot, accepted, sent>>
  BY DEF Check, Starts, queueVars
<1>2. TypeOK /\ CleanInv /\ NowNum \in Nat /\ TargetNum \in Nat /\ NowNum <= TargetNum
  BY <1>1, TypeFacts DEF QueueInv, BoundsInv, OvertakeInv
<1>3. Goto(Dequeuer, label)
  BY <1>2 DEF Check
<1>4. /\ pc'[Dequeuer] = label /\ ~Shifted /\ ~Shifted' /\ SoleInv' /\ ProducerInv'
  BY <1>1, <1>2, <1>3, DequeuerAlone
<1>5. SlotInv'
  BY <1>1, <1>2, <1>4 DEF SlotInv, CleanInv
<1>6. UNCHANGED <<Pending, InHand>>
  BY <1>1, <1>4 DEF Pending, InHand, Held, Shifted
<1> QED
  BY <1>1, <1>4, <1>5, <1>6 DEF CleanInv

(* The reset begins with an empty queue and leaves it empty. *)
LEMMA ResetNowClean ==
    ASSUME QueueInv, ResetNow, clean'
    PROVE  /\ CleanInv'
           /\ UNCHANGED <<Pending, InHand, accepted, sent, clean>>
<1>1. /\ pc[Dequeuer] = "reset_now" /\ Goto(Dequeuer, "reset_target") /\ NowNum' = 0
      /\ UNCHANGED <<TargetNum, slot, clean, accepted, sent>>
  BY DEF ResetNow, histVars
<1>2. TypeOK /\ CleanInv /\ clean /\ NowNum \in Nat /\ NowNum = TargetNum
  BY <1>1, TypeFacts DEF QueueInv, BoundsInv, CleanInv, SlotInv
<1>3. OthersBlocked(Dequeuer)
  BY <1>1, <1>2, SoleRuns, SlotFacts DEF Blocked
<1>4. /\ pc'[Dequeuer] = "reset_target" /\ ~Shifted /\ ~Shifted' /\ SoleInv' /\ ProducerInv'
  BY <1>1, <1>2, <1>3, DequeuerAlone
<1>5. SlotInv'
  BY <1>1, <1>2, <1>4 DEF SlotInv, CleanInv
<1>6. Pending = << >> /\ Pending' = << >>
  <2>1. Pending = Slice(slot, NowNum + 1, NowNum)
    BY <1>1, <1>2, <1>4 DEF Pending, Held, Slice, Shifted
  <2> QED
    BY <1>2, <1>4, <2>1, SliceEmpty DEF Pending
<1>7. InHand' = InHand
  BY <1>1, <1>4 DEF InHand
<1> QED
  BY <1>1, <1>4, <1>5, <1>6, <1>7 DEF CleanInv

LEMMA ResetTargetClean ==
    ASSUME QueueInv, ResetTarget, clean'
    PROVE  /\ CleanInv'
           /\ UNCHANGED <<Pending, InHand, accepted, sent, clean>>
<1>1. /\ pc[Dequeuer] = "reset_target" /\ Goto(Dequeuer, "sleep") /\ TargetNum' = 0
      /\ UNCHANGED <<NowNum, slot, clean, accepted, sent>>
  BY DEF ResetTarget, histVars
<1>2. TypeOK /\ CleanInv /\ clean /\ NowNum = 0
  BY <1>1 DEF QueueInv, BoundsInv, OvertakeInv
<1>3. OthersBlocked(Dequeuer)
  BY <1>1, <1>2, SoleRuns, SlotFacts DEF Blocked
<1>4. /\ pc'[Dequeuer] = "sleep" /\ ~Shifted /\ ~Shifted' /\ SoleInv' /\ ProducerInv'
  BY <1>1, <1>2, <1>3, DequeuerAlone
<1>5. SlotInv'
  <2>1. \A i \in Slots : ~(0 < i /\ i <= 0)
    BY SlotFacts
  <2> QED
    BY <1>1, <1>2, <1>4, <2>1, SlotFacts DEF SlotInv
<1>6. Pending = << >> /\ Pending' = << >>
  <2>1. Pending' = Slice(slot, 0 + 1, 0)
    BY <1>1, <1>2, <1>4 DEF Pending, Held, Slice, Shifted
  <2> QED
    BY <1>1, <2>1, SliceEmpty DEF Pending
<1>7. InHand' = InHand
  BY <1>1, <1>4 DEF InHand
<1> QED
  BY <1>1, <1>4, <1>5, <1>6, <1>7 DEF CleanInv

(* NowNum++ takes the first message that waits. *)
LEMMA PickClean ==
    ASSUME QueueInv, Pick, clean'
    PROVE  /\ CleanInv'
           /\ UNCHANGED <<accepted, sent, clean>>
           /\ Pending # << >> /\ InHand = Zero
           /\ InHand' = Head(Pending) /\ Pending' = Tail(Pending)
<1>1. /\ pc[Dequeuer] = "pick" /\ Goto(Dequeuer, "delay") /\ NowNum' = NowNum + 1
      /\ UNCHANGED <<TargetNum, slot, clean, accepted, sent>>
  BY DEF Pick
<1>2. /\ TypeOK /\ CleanInv /\ clean
      /\ NowNum \in Nat /\ TargetNum \in Nat /\ NowNum < TargetNum /\ TargetNum < Cap
  BY <1>1, TypeFacts DEF QueueInv, BoundsInv, OvertakeInv, CleanInv, SlotInv
<1>3. OthersBlocked(Dequeuer)
  BY <1>1, <1>2, SoleRuns, SlotFacts DEF Blocked
<1>4. /\ pc'[Dequeuer] = "delay" /\ ~Shifted /\ ~Shifted' /\ SoleInv' /\ ProducerInv'
  BY <1>1, <1>2, <1>3, DequeuerAlone
<1>5. \A i \in Slots : NowNum < i /\ i <= TargetNum => slot[i] \in Msgs
  BY <1>1, <1>2 DEF CleanInv, SlotInv
<1>6. SlotInv'
  <2>1. NowNum + 1 \in Slots /\ slot[NowNum + 1] \in Msgs
    BY <1>2, <1>5, SlotFacts
  <2>2. \A i \in Slots : NowNum + 1 < i /\ i <= TargetNum => slot[i] \in Msgs
    BY <1>2, <1>5, SlotFacts
  <2> QED
    BY <1>1, <1>2, <1>4, <2>1, <2>2 DEF SlotInv
<1>7. /\ Pending = Slice(slot, NowNum + 1, TargetNum)
      /\ Pending' = Slice(slot, (NowNum + 1) + 1, TargetNum)
      /\ InHand = Zero /\ InHand' = slot[NowNum + 1]
  BY <1>1, <1>2, <1>4 DEF Pending, Held, Slice, InHand, Shifted
<1>8. /\ NowNum + 1 \in Nat /\ NowNum + 1 <= TargetNum
      /\ \A i \in NowNum + 1 .. TargetNum : slot[i] \in Msgs
  BY <1>2, <1>5, SlotFacts
<1>9. /\ Pending # << >> /\ Head(Pending) = slot[NowNum + 1]
      /\ Tail(Pending) = Slice(slot, (NowNum + 1) + 1, TargetNum)
  BY <1>2, <1>7, <1>8, SliceFirst
<1> QED
  BY <1>1, <1>4, <1>6, <1>7, <1>9 DEF CleanInv

(* The message that was taken is the one that is sent. *)
LEMMA SendClean ==
    ASSUME QueueInv, Send, clean'
    PROVE  /\ CleanInv'
           /\ UNCHANGED <<Pending, accepted, clean>>
           /\ InHand # Zero /\ InHand' = Zero
           /\ sent' = Append(sent, InHand)
<1>1. /\ clean /\ OthersBlocked(Dequeuer) /\ pc[Dequeuer] = "delay" /\ NowNum < Cap
      /\ Goto(Dequeuer, "sleep")
      /\ UNCHANGED <<NowNum, TargetNum, slot, accepted>>
  BY DEF Send, Starts, queueVars
<1>2. TypeOK /\ CleanInv
  BY <1>1 DEF QueueInv, BoundsInv
<1>3. /\ pc'[Dequeuer] = "sleep" /\ ~Shifted /\ ~Shifted' /\ SoleInv' /\ ProducerInv'
  BY <1>1, <1>2, DequeuerAlone
<1>4. SlotInv'
  BY <1>1, <1>2, <1>3 DEF SlotInv, CleanInv
<1>5. Pending' = Pending
  BY <1>1, <1>3 DEF Pending, Held, Shifted
<1>6. InHand = slot[NowNum] /\ InHand' = Zero
  BY <1>1, <1>3 DEF InHand
<1>7. slot[NowNum] \in Msgs
  BY <1>1, <1>2 DEF CleanInv, SlotInv
<1>8. sent' = Append(sent, slot[NowNum])
  BY <1>1 DEF Send
<1> QED
  BY <1>1, <1>3, <1>4, <1>5, <1>6, <1>7, <1>8, SlotFacts DEF CleanInv

-----------------------------------------------------------------------------
(* Every step keeps the invariant and is a step of the abstract queue. *)
LEMMA StepQueue == QueueInv /\ [Next]_vars => QueueInv' /\ [Abs!Next]_(Abs!vars)
<1> SUFFICES ASSUME QueueInv, [Next]_vars
             PROVE  QueueInv' /\ [Abs!Next]_(Abs!vars)
  OBVIOUS
<1>1. BoundsInv' /\ clean' \in BOOLEAN
  <2>1. BoundsInv'
    BY StepBounds DEF QueueInv
  <2> QED
    BY <2>1 DEF BoundsInv, TypeOK
<1>2. CASE ~clean'
  <2>1. Abs!Break
    BY <1>2 DEF Abs!Break
  <2> QED
    BY <1>1, <1>2, <2>1 DEF QueueInv, Abs!Next
<1>3. CASE clean'
  <2> SUFFICES CleanInv' /\ [Abs!Next]_(Abs!vars)
    BY <1>1 DEF QueueInv
  <2>1. ASSUME NEW p \in Producers, ReadNum(p) \/ Write(p) \/ Load(p)
        PROVE  CleanInv' /\ [Abs!Next]_(Abs!vars)
    <3>1. CleanInv' /\ UNCHANGED <<Pending, InHand, accepted, sent, clean>>
      BY <1>3, <2>1, ReadNumClean, WriteClean, LoadClean
    <3> QED
      BY <3>1 DEF Abs!vars
  <2>2. ASSUME NEW p \in Producers, Store(p)
        PROVE  CleanInv' /\ [Abs!Next]_(Abs!vars)
    <3>1. CleanInv' /\ msg[p] \in Msgs
      BY <1>3, <2>2, StoreClean
    <3>2. Abs!Enqueue(msg[p]) \/ Abs!UrgentEnqueue(msg[p])
      BY <1>3, <2>2, StoreClean DEF Abs!Enqueue, Abs!UrgentEnqueue, Abs!Accept
    <3> QED
      BY <3>1, <3>2 DEF Abs!Next
  <2>3. CASE Check \/ ResetNow \/ ResetTarget
    <3>1. CleanInv' /\ UNCHANGED <<Pending, InHand, accepted, sent, clean>>
      BY <1>3, <2>3, CheckClean, ResetNowClean, ResetTargetClean
    <3> QED
      BY <3>1 DEF Abs!vars
  <2>4. CASE Pick
    <3>1. CleanInv' /\ Abs!Take
      BY <1>3, <2>4, PickClean DEF Abs!Take
    <3> QED
      BY <3>1 DEF Abs!Next
  <2>5. CASE Send
    <3>1. CleanInv' /\ Abs!Send
      BY <1>3, <2>5, SendClean DEF Abs!Send
    <3> QED
      BY <3>1 DEF Abs!Next
  <2>6. CASE UNCHANGED vars
    <3>1. UNCHANGED <<NowNum, TargetNum, slot, pc, msg, NumTemp, load, clean, accepted, sent>>
      BY <2>6 DEF vars, queueVars, localVars, histVars
    <3>2. CleanInv
      BY <1>3, <3>1 DEF QueueInv
    <3>3. CleanInv'
      BY <3>1, <3>2 DEF CleanInv, SoleInv, ProducerInv, SlotInv, Shifted, Blocked
    <3>4. UNCHANGED <<Pending, InHand>>
      BY <3>1 DEF Pending, InHand, Held
    <3> QED
      BY <3>1, <3>3, <3>4 DEF Abs!vars
  <2> QED
    BY <2>1, <2>2, <2>3, <2>4, <2>5, <2>6 DEF Next, Dequeue
<1> QED
  BY <1>1, <1>2, <1>3

(* The queue starts as an empty abstract queue. *)
LEMMA InitAbs == Init => Abs!Init
<1> SUFFICES ASSUME Init PROVE Abs!Init
  OBVIOUS
<1>1. pc[Dequeuer] = "sleep" /\ ~\E p \in Urgents : pc[p] \in {"load", "store"}
  BY SlotFacts DEF Init, Producers
<1>2. Pending = Slice(slot, 0 + 1, 0) /\ InHand = Zero
  BY <1>1 DEF Init, Pending, Held, Slice, InHand
<1>3. Pending = << >>
  BY <1>2, SliceEmpty
<1> QED
  BY <1>2, <1>3 DEF Init, Abs!Init

(* QueueInv is an invariant of the send queue. *)
THEOREM QueueInvariant == Spec => []QueueInv
  BY InitQueue, StepQueue, PTL DEF Spec

(* rf_433_Enqueue, rf_433_Urgent_Enqueue and rf_433_Dequeue implement the  *)
(* abstract queue for every set of producers and every array length: as    *)
(* long as calls neither overlap nor leave the arrays, an urgent message   *)
(* goes first, another one last, and what is taken is what is sent.        *)
THEOREM QueueRefines == Spec => IsQueue
<1> DEFINE Puts == \A p \in Producers : Store(p) /\ clean =>
              IF p \in Urgents THEN Abs!UrgentEnqueue(msg[p]) ELSE Abs!Enqueue(msg[p])
<1>1. QueueInv /\ [Next]_vars => [Puts]_vars
  <2> SUFFICES ASSUME QueueInv, NEW p \in Producers, Store(p), clean
               PROVE  IF p \in Urgents THEN Abs!UrgentEnqueue(msg[p])
                      ELSE Abs!Enqueue(msg[p])
    OBVIOUS
  <2>1. clean'
    BY DEF Store
  <2> QED
    BY <2>1, StoreClean DEF Abs!Enqueue, Abs!UrgentEnqueue, Abs!Accept
<1>2. Init /\ [][Next]_vars /\ []QueueInv => Abs!Init /\ [][Abs!Next]_(Abs!vars) /\ [][Puts]_vars
  <2> HIDE DEF Puts
  <2> QED
    BY <1>1, InitAbs, StepQueue, PTL
<1> QED
  BY <1>2, QueueInvariant, PTL DEF Spec, IsQueue, Abs!Spec

=============================================================================
