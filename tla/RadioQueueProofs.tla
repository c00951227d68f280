--------------------------- MODULE RadioQueueProofs ---------------------------
(***************************************************************************)
(* Proofs about module RadioQueue, for every finite set of producers, all  *)
(* priorities and every array length: the indices stay in bounds and       *)
(* NowNum never overtakes TargetNum, however the operations overlap.       *)
(***************************************************************************)
EXTENDS RadioQueue, FiniteSetTheorems, TLAPS

(* A thread in the middle of an operation may go on. *)
SpentInv == \A t \in Threads : ~Blocked(t) => t \notin spent

(* Every producer that has run since all threads were last blocked has     *)
(* moved TargetNum by one at most, beginning below the limit.              *)
LimitInv ==
    \A p \in Producers : ~Blocked(p) =>
        /\ TargetNum < Cap + Cardinality(spent \cap Producers)
        /\ pc[p] = "store" => load[p] < Cap + Cardinality(spent \cap Producers)

(* NowNum stays below the value that TargetNum is about to get: while a    *)
(* producer is between load and store the dequeue thread moves it by one   *)
(* at most.                                                                *)
OvertakeInv ==
    /\ NowNum <= TargetNum
    /\ pc[Dequeuer] = "pick" => NowNum < TargetNum
    /\ pc[Dequeuer] = "reset_target" => NowNum = 0
    /\ \A p \in Producers : pc[p] = "store" =>
         /\ NowNum <= load[p] + 1
         /\ Dequeuer \notin spent => NowNum <= load[p]

(* The messages that are offered are numbered. *)
OfferInv ==
    /\ accepted \subseteq 1..offered
    /\ \A p \in Producers : ~Blocked(p) => msg[p] \in 1..offered

BoundsInv == TypeOK /\ SpentInv /\ LimitInv /\ OvertakeInv /\ OfferInv

-----------------------------------------------------------------------------
(* Counting producers: each set of spent threads holds a number of them,   *)
(* one more when another producer joins it, the same when the dequeue      *)
(* thread does.                                                            *)
LEMMA CountFacts ==
    /\ Cardinality(Producers) \in Nat \ {0}
    /\ \A s : Cardinality(s \cap Producers) \in Nat
    /\ \A s : \A p \in Producers \ s :
         /\ Cardinality((s \cup {p}) \cap Producers) = Cardinality(s \cap Producers) + 1
         /\ Cardinality(s \cap Producers) + 1 <= Cardinality(Producers)
    /\ \A s : (s \cup {Dequeuer}) \cap Producers = s \cap Producers
<1>1. IsFiniteSet(Producers)
  BY QueueAssumption
<1>2. ASSUME NEW S, S \subseteq Producers
      PROVE  /\ IsFiniteSet(S) /\ Cardinality(S) \in Nat
             /\ Cardinality(S) <= Cardinality(Producers)
  BY <1>1, <1>2, FS_Subset, FS_CardinalityType
<1>3. Cardinality(Producers) \in Nat \ {0}
  BY <1>1, FS_CardinalityType, FS_EmptySet, QueueAssumption DEF Producers
<1>4. ASSUME NEW s PROVE Cardinality(s \cap Producers) \in Nat
  BY <1>2
<1>5. ASSUME NEW s, NEW p \in Producers \ s
      PROVE  /\ Cardinality((s \cup {p}) \cap Producers) = Cardinality(s \cap Producers) + 1
             /\ Cardinality(s \cap Producers) + 1 <= Cardinality(Producers)
  <2>1. (s \cup {p}) \cap Producers = (s \cap Producers) \cup {p}
    OBVIOUS
  <2>2. IsFiniteSet(s \cap Producers) /\ p \notin s \cap Producers
    BY <1>2
  <2>3. Cardinality((s \cap Producers) \cup {p}) = Cardinality(s \cap Producers) + 1
    BY <2>2, FS_AddElement
  <2>4. Cardinality((s \cap Producers) \cup {p}) <= Cardinality(Producers)
    <3>1. (s \cap Producers) \cup {p} \subseteq Producers
      OBVIOUS
    <3> QED
      BY <3>1, <1>2
  <2> QED
    BY <2>1, <2>3, <2>4
<1>6. ASSUME NEW s PROVE (s \cup {Dequeuer}) \cap Producers = s \cap Producers
  BY QueueAssumption
<1> QED
  BY <1>3, <1>4, <1>5, <1>6

(* The slots reach as far as the array and the producers require. *)
LEMMA SlotFacts ==
    /\ Cap \in Nat \ {0} /\ MaxMsgs \in Nat
    /\ LastSlot \in Nat /\ LastSlot = Cap + Cardinality(Producers) - 1 /\ Cap <= LastSlot
    /\ \A i : i \in Slots <=> i \in Nat /\ i <= LastSlot
    /\ Zero \notin Msgs /\ \A m : m \in Msgs <=> m \in Nat /\ 1 <= m /\ m <= MaxMsgs
    /\ Dequeuer \in Threads /\ Dequeuer \notin Producers
    /\ \A p \in Producers : p \in Threads /\ p # Dequeuer
  BY CountFacts, QueueAssumption DEF LastSlot, Slots, Msgs, Zero, Threads

(* A producer is blocked where it is idle, the dequeue thread where it     *)
(* sleeps or waits to send.                                                *)
LEMMA BlockedFacts ==
    ASSUME TypeOK
    PROVE  /\ \A p \in Producers : Blocked(p) <=> pc[p] = "idle"
           /\ Blocked(Dequeuer) <=> pc[Dequeuer] \in {"sleep", "delay"}
  BY DEF TypeOK, Blocked, ProducerPcs, DequeuePcs

(* The numbers are numbers. *)
LEMMA TypeFacts ==
    ASSUME TypeOK
    PROVE  /\ NowNum \in Nat /\ TargetNum \in Nat
           /\ offered \in Nat /\ offered <= MaxMsgs
           /\ \A p \in Producers : load[p] \in Nat /\ NumTemp[p] \in Nat /\ NumTemp[p] <= Cap
  BY SlotFacts DEF TypeOK

(* Start-up establishes the bounds. *)
LEMMA InitBounds == Init => BoundsInv
<1> SUFFICES ASSUME Init PROVE BoundsInv
  OBVIOUS
<1> USE SlotFacts DEF Init
<1>1. TypeOK
  <2>1. NowNum \in Slots /\ TargetNum \in Slots /\ offered \in 0..MaxMsgs
    OBVIOUS
  <2>2. slot \in [Slots -> Msgs \cup {Zero}]
    OBVIOUS
  <2>3. /\ pc \in [Threads -> ProducerPcs \cup DequeuePcs]
        /\ \A p \in Producers : pc[p] \in ProducerPcs
        /\ pc[Dequeuer] \in DequeuePcs
    BY DEF ProducerPcs, DequeuePcs
  <2>4. /\ msg \in [Producers -> Msgs \cup {Zero}]
        /\ NumTemp \in [Producers -> 0..Cap]
        /\ load \in [Producers -> Slots]
    OBVIOUS
  <2>5. clean \in BOOLEAN /\ accepted \subseteq Msgs /\ spent \subseteq Threads
    OBVIOUS
  <2>6. sent \in Seq(Msgs \cup {Zero})
    OBVIOUS
  <2> QED
    BY <2>1, <2>2, <2>3, <2>4, <2>5, <2>6 DEF TypeOK
<1>2. \A t \in Threads : Blocked(t)
  BY DEF Blocked
<1>3. SpentInv /\ LimitInv /\ OfferInv
  BY <1>2 DEF SpentInv, LimitInv, OfferInv
<1>4. OvertakeInv
  BY DEF OvertakeInv
<1> QED
  BY <1>1, <1>3, <1>4 DEF BoundsInv

(* A step that moves thread t alone leaves the others where they are. *)
LEMMA GotoFacts ==
    ASSUME TypeOK, NEW t \in Threads, NEW label, Goto(t, label)
    PROVE  /\ pc'[t] = label
           /\ \A u \in Threads \ {t} : pc'[u] = pc[u] /\ (Blocked(u)' <=> Blocked(u))
  BY DEF TypeOK, Goto, Blocked

(* The labels of one kind of thread. *)
LEMMA GotoType ==
    ASSUME TypeOK, NEW t \in Threads, NEW label, Goto(t, label),
           t = Dequeuer => label \in DequeuePcs,
           t # Dequeuer => label \in ProducerPcs
    PROVE  /\ pc' \in [Threads -> ProducerPcs \cup DequeuePcs]
           /\ \A p \in Producers : pc'[p] \in ProducerPcs
           /\ pc'[Dequeuer] \in DequeuePcs
<1>1. pc' = [pc EXCEPT ![t] = label]
  BY DEF Goto
<1>2. label \in ProducerPcs \cup DequeuePcs
  OBVIOUS
<1>3. pc' \in [Threads -> ProducerPcs \cup DequeuePcs]
  BY <1>1, <1>2 DEF TypeOK
<1>4. ASSUME NEW p \in Producers PROVE pc'[p] \in ProducerPcs
  BY <1>1, SlotFacts DEF TypeOK
<1>5. pc'[Dequeuer] \in DequeuePcs
  BY <1>1, SlotFacts DEF TypeOK
<1> QED
  BY <1>3, <1>4, <1>5

(* A thread that blocks is spent, unless it is the last one to block. *)
LEMMA StopsFacts ==
    ASSUME TypeOK, SpentInv, NEW t \in Threads, Stops(t), Blocked(t)',
           \A u \in Threads \ {t} : Blocked(u)' <=> Blocked(u)
    PROVE  /\ spent' \subseteq Threads
           /\ SpentInv'
           /\ (\E u \in Threads : ~Blocked(u)') => spent' = spent \cup {t}
<1>1. CASE OthersBlocked(t)
  BY <1>1 DEF Stops, OthersBlocked, SpentInv
<1>2. CASE ~OthersBlocked(t)
  BY <1>2 DEF Stops, SpentInv, TypeOK
<1> QED
  BY <1>1, <1>2

(* The test of the limit keeps the bounds: below the limit TargetNum has   *)
(* room for every producer.                                                *)
LEMMA ReadNumBounds ==
    ASSUME NEW p \in Producers, BoundsInv, ReadNum(p)
    PROVE  BoundsInv'
<1> USE SlotFacts DEF BoundsInv
<1>1. /\ Blocked(p) /\ p \notin spent /\ offered < MaxMsgs /\ offered' = offered + 1
      /\ clean' \in BOOLEAN /\ UNCHANGED <<NowNum, TargetNum, slot, load, accepted, sent>>
  BY DEF ReadNum, Starts, queueVars
<1>2. CASE TargetNum < Cap
  <2>1. /\ msg' = [msg EXCEPT ![p] = offered + 1]
        /\ NumTemp' = [NumTemp EXCEPT ![p] = TargetNum + 1]
        /\ Goto(p, "write") /\ spent' = spent
    BY <1>2 DEF ReadNum
  <2>2. /\ pc'[p] = "write"
        /\ \A u \in Threads \ {p} : pc'[u] = pc[u] /\ (Blocked(u)' <=> Blocked(u))
    BY <2>1, GotoFacts
  <2>3. TypeOK'
    <3>1. /\ pc' \in [Threads -> ProducerPcs \cup DequeuePcs]
          /\ \A q \in Producers : pc'[q] \in ProducerPcs
          /\ pc'[Dequeuer] \in DequeuePcs
      BY <2>1, GotoType DEF ProducerPcs
    <3>2. /\ offered + 1 \in Msgs /\ offered + 1 \in 0..MaxMsgs
          /\ TargetNum + 1 \in 0..Cap
      BY <1>1, <1>2, TypeFacts
    <3>3. /\ msg' \in [Producers -> Msgs \cup {Zero}]
          /\ NumTemp' \in [Producers -> 0..Cap] /\ offered' \in 0..MaxMsgs
      BY <1>1, <2>1, <3>2 DEF TypeOK
    <3> QED
      BY <1>1, <2>1, <3>1, <3>3 DEF TypeOK
  <2>4. SpentInv'
    BY <1>1, <2>1, <2>2 DEF SpentInv
  <2>5. LimitInv'
    <3>0. Cardinality(spent \cap Producers) \in Nat
      BY CountFacts
    <3>1. TargetNum < Cap + Cardinality(spent \cap Producers)
      BY <1>2, <3>0, TypeFacts
    <3>2. \A q \in Producers : pc'[q] = "store" => pc[q] = "store" /\ ~Blocked(q)
      BY <2>2 DEF Blocked
    <3> QED
      BY <1>1, <2>1, <3>1, <3>2 DEF LimitInv
  <2>6. OvertakeInv'
    BY <1>1, <2>1, <2>2 DEF OvertakeInv
  <2>7. OfferInv'
    BY <1>1, <2>1, <2>2 DEF OfferInv, TypeOK
  <2> QED
    BY <2>3, <2>4, <2>5, <2>6, <2>7
<1>3. CASE ~(TargetNum < Cap)
  <2>1. Stops(p) /\ UNCHANGED <<pc, msg, NumTemp>>
    BY <1>3 DEF ReadNum
  <2>2. \A u \in Threads : Blocked(u)' <=> Blocked(u)
    BY <2>1 DEF Blocked
  <2>3. /\ spent' \subseteq Threads /\ SpentInv'
        /\ (\E u \in Threads : ~Blocked(u)') => spent' = spent \cup {p}
    BY <1>1, <2>1, <2>2, StopsFacts
  <2>4. TypeOK'
    BY <1>1, <2>1, <2>3 DEF TypeOK
  <2>5. LimitInv'
    <3> SUFFICES ASSUME NEW q \in Producers, ~Blocked(q)'
                 PROVE  /\ TargetNum' < Cap + Cardinality(spent' \cap Producers)
                        /\ pc'[q] = "store" => load'[q] < Cap + Cardinality(spent' \cap Producers)
      BY DEF LimitInv
    <3>1. Cardinality(spent' \cap Producers) = Cardinality(spent \cap Producers) + 1
      BY <1>1, <2>3, CountFacts
    <3>2. Cardinality(spent \cap Producers) \in Nat
      BY CountFacts
    <3> QED
      BY <1>1, <2>1, <2>2, <3>1, <3>2 DEF LimitInv, TypeOK
  <2>6. OvertakeInv'
    <3>1. \A q \in Producers : pc'[q] = "store" => spent' = spent \cup {p}
      BY <2>3 DEF Blocked
    <3> QED
      BY <1>1, <2>1, <3>1 DEF OvertakeInv
  <2>7. OfferInv'
    BY <1>1, <2>1, <2>2 DEF OfferInv, TypeOK
  <2> QED
    BY <2>3, <2>4, <2>5, <2>6, <2>7
<1> QED
  BY <1>2, <1>3

(* The write of the message keeps them: no counter moves. *)
LEMMA WriteBounds ==
    ASSUME NEW p \in Producers, BoundsInv, Write(p)
    PROVE  BoundsInv'
<1> USE SlotFacts DEF BoundsInv
<1>1. /\ pc[p] = "write" /\ Goto(p, "load")
      /\ UNCHANGED <<NowNum, TargetNum, msg, NumTemp, load, spent, offered, clean, accepted, sent>>
  BY DEF Write, localVars, histVars
<1>2. /\ pc'[p] = "load"
      /\ \A u \in Threads \ {p} : pc'[u] = pc[u] /\ (Blocked(u)' <=> Blocked(u))
  BY <1>1, GotoFacts
<1>3. ~Blocked(p) /\ ~Blocked(p)'
  BY <1>1, <1>2 DEF Blocked
<1>4. TypeOK'
  <2>1. /\ pc' \in [Threads -> ProducerPcs \cup DequeuePcs]
        /\ \A q \in Producers : pc'[q] \in ProducerPcs
        /\ pc'[Dequeuer] \in DequeuePcs
    BY <1>1, GotoType DEF ProducerPcs
  <2>2. slot' \in [Slots -> Msgs \cup {Zero}]
    <3>1. CASE p \in Urgents
      <4>1. \A i \in Slots : i \in NowNum + 2 .. NumTemp[p] => i - 1 \in Slots
        BY TypeFacts
      <4> QED
        BY <3>1, <4>1 DEF Write, WriteNext, TypeOK
    <3>2. CASE p \notin Urgents
      BY <3>2 DEF Write, WriteLast, TypeOK
    <3> QED
      BY <3>1, <3>2
  <2> QED
    BY <1>1, <2>1, <2>2 DEF TypeOK
<1>5. SpentInv'
  BY <1>1, <1>2, <1>3 DEF SpentInv
<1>6. LimitInv'
  BY <1>1, <1>2, <1>3 DEF LimitInv
<1>7. OvertakeInv'
  BY <1>1, <1>2 DEF OvertakeInv
<1>8. OfferInv'
  BY <1>1, <1>2, <1>3 DEF OfferInv
<1> QED
  BY <1>4, <1>5, <1>6, <1>7, <1>8

(* The load of TargetNum keeps them. *)
LEMMA LoadBounds ==
    ASSUME NEW p \in Producers, BoundsInv, Load(p)
    PROVE  BoundsInv'
<1> USE SlotFacts DEF BoundsInv
<1>1. /\ pc[p] = "load" /\ Goto(p, "store")
      /\ load' = [load EXCEPT ![p] = TargetNum]
      /\ UNCHANGED <<NowNum, TargetNum, slot, msg, NumTemp, spent, offered, clean, accepted, sent>>
  BY DEF Load, queueVars, histVars
<1>2. /\ pc'[p] = "store"
      /\ \A u \in Threads \ {p} : pc'[u] = pc[u] /\ (Blocked(u)' <=> Blocked(u))
  BY <1>1, GotoFacts
<1>3. ~Blocked(p) /\ ~Blocked(p)'
  BY <1>1, <1>2 DEF Blocked
<1>4. TypeOK'
  <2>1. /\ pc' \in [Threads -> ProducerPcs \cup DequeuePcs]
        /\ \A q \in Producers : pc'[q] \in ProducerPcs
        /\ pc'[Dequeuer] \in DequeuePcs
    BY <1>1, GotoType DEF ProducerPcs
  <2> QED
    BY <1>1, <2>1 DEF TypeOK
<1>5. SpentInv'
  BY <1>1, <1>2, <1>3 DEF SpentInv
<1>6. LimitInv'
  BY <1>1, <1>2, <1>3 DEF LimitInv, TypeOK
<1>7. OvertakeInv'
  BY <1>1, <1>2 DEF OvertakeInv, TypeOK
<1>8. OfferInv'
  BY <1>1, <1>2, <1>3 DEF OfferInv
<1> QED
  BY <1>4, <1>5, <1>6, <1>7, <1>8

(* The store keeps them: this producer is spent if another one is under    *)
(* way, and NowNum has moved by one at most since the load.                *)
LEMMA StoreBounds ==
    ASSUME NEW p \in Producers, BoundsInv, Store(p)
    PROVE  BoundsInv'
<1> USE SlotFacts DEF BoundsInv
<1>1. /\ pc[p] = "store" /\ Goto(p, "idle") /\ Stops(p)
      /\ TargetNum' = load[p] + 1 /\ accepted' = accepted \cup {msg[p]}
      /\ msg' = [msg EXCEPT ![p] = Zero] /\ NumTemp' = [NumTemp EXCEPT ![p] = 0]
      /\ load' = [load EXCEPT ![p] = 0]
      /\ UNCHANGED <<NowNum, slot, offered, clean, sent>>
  BY DEF Store
<1>2. /\ pc'[p] = "idle"
      /\ \A u \in Threads \ {p} : pc'[u] = pc[u] /\ (Blocked(u)' <=> Blocked(u))
  BY <1>1, GotoFacts
<1>3. ~Blocked(p) /\ Blocked(p)' /\ p \notin spent
  BY <1>1, <1>2 DEF Blocked, SpentInv
<1>4. /\ spent' \subseteq Threads /\ SpentInv'
      /\ (\E u \in Threads : ~Blocked(u)') => spent' = spent \cup {p}
  BY <1>1, <1>2, <1>3, StopsFacts
<1>5. /\ Cardinality(spent \cap Producers) \in Nat /\ Cardinality(Producers) \in Nat
      /\ Cardinality((spent \cup {p}) \cap Producers) = Cardinality(spent \cap Producers) + 1
      /\ Cardinality(spent \cap Producers) + 1 <= Cardinality(Producers)
  BY <1>3, CountFacts
<1>6. load[p] \in Nat /\ load[p] < Cap + Cardinality(spent \cap Producers)
  BY <1>1, <1>3 DEF LimitInv, TypeOK
<1>7. TypeOK'
  <2>1. /\ pc' \in [Threads -> ProducerPcs \cup DequeuePcs]
        /\ \A q \in Producers : pc'[q] \in ProducerPcs
        /\ pc'[Dequeuer] \in DequeuePcs
    BY <1>1, GotoType DEF ProducerPcs
  <2>2. TargetNum' \in Slots
    BY <1>1, <1>5, <1>6
  <2>3. accepted' \subseteq Msgs
    <3>1. msg[p] \in Msgs
      BY <1>3, TypeFacts DEF OfferInv
    <3> QED
      BY <1>1, <3>1 DEF TypeOK
  <2>4. /\ msg' \in [Producers -> Msgs \cup {Zero}]
        /\ NumTemp' \in [Producers -> 0..Cap] /\ load' \in [Producers -> Slots]
    <3>1. Zero \in Msgs \cup {Zero} /\ 0 \in 0..Cap /\ 0 \in Slots
      OBVIOUS
    <3> QED
      BY <1>1, <3>1 DEF TypeOK
  <2> QED
    BY <1>1, <1>4, <2>1, <2>2, <2>3, <2>4 DEF TypeOK
<1>8. LimitInv'
  <2> SUFFICES ASSUME NEW q \in Producers, ~Blocked(q)'
               PROVE  /\ TargetNum' < Cap + Cardinality(spent' \cap Producers)
                      /\ pc'[q] = "store" => load'[q] < Cap + Cardinality(spent' \cap Producers)
    BY DEF LimitInv
  <2>1. q # p /\ spent' = spent \cup {p} /\ pc'[q] = pc[q] /\ ~Blocked(q)
    BY <1>2, <1>3, <1>4
  <2>2. load'[q] = load[q] /\ load[q] \in Nat
    BY <1>1, <2>1 DEF TypeOK
  <2> QED
    BY <1>1, <1>5, <1>6, <2>1, <2>2 DEF LimitInv
<1>9. OvertakeInv'
  <2>1. /\ NowNum \in Nat
        /\ NowNum <= load[p] + 1 /\ (Dequeuer \notin spent => NowNum <= load[p])
    BY <1>1 DEF OvertakeInv, TypeOK
  <2>2. pc'[Dequeuer] = pc[Dequeuer]
    BY <1>2
  <2>3. pc[Dequeuer] = "pick" => Dequeuer \notin spent
    BY DEF SpentInv, Blocked
  <2>4. ASSUME NEW q \in Producers, pc'[q] = "store"
        PROVE  /\ NowNum <= load'[q] + 1 /\ (Dequeuer \notin spent' => NowNum <= load'[q])
    <3>1. q # p /\ pc[q] = "store" /\ load'[q] = load[q] /\ spent' = spent \cup {p}
      BY <1>1, <1>2, <1>4, <2>4 DEF Blocked, TypeOK
    <3> QED
      BY <3>1 DEF OvertakeInv
  <2>5. /\ NowNum' <= TargetNum'
        /\ pc'[Dequeuer] = "pick" => NowNum' < TargetNum'
        /\ pc'[Dequeuer] = "reset_target" => NowNum' = 0
    BY <1>1, <1>6, <2>1, <2>2, <2>3 DEF OvertakeInv
  <2> QED
    BY <1>1, <2>4, <2>5 DEF OvertakeInv
<1>10. OfferInv'
  BY <1>1, <1>2, <1>3 DEF OfferInv, TypeOK
<1> QED
  BY <1>4, <1>7, <1>8, <1>9, <1>10

(* What all steps of the dequeue thread have in common: they keep the      *)
(* bounds if they keep the counters in range, NowNum behind TargetNum and  *)
(* behind the values that producers are about to store.                    *)
LEMMA DequeueBounds ==
    ASSUME BoundsInv, NEW label \in DequeuePcs, Goto(Dequeuer, label),
           UNCHANGED <<slot, localVars, offered, accepted>>,
           clean' \in BOOLEAN, sent' \in Seq(Msgs \cup {Zero}),
           NowNum' \in Slots, TargetNum' \in Nat, TargetNum' <= TargetNum,
           Dequeuer \notin spent,
           IF label \in {"sleep", "delay"} THEN Stops(Dequeuer) ELSE spent' = spent,
           NowNum' <= TargetNum',
           label = "pick" => NowNum' < TargetNum',
           label = "reset_target" => NowNum' = 0,
           \/ NowNum' <= NowNum
           \/ NowNum' = NowNum + 1 /\ label = "delay"
    PROVE  BoundsInv'
<1> USE SlotFacts DEF BoundsInv
<1>1. /\ pc'[Dequeuer] = label
      /\ \A u \in Threads \ {Dequeuer} : pc'[u] = pc[u] /\ (Blocked(u)' <=> Blocked(u))
  BY GotoFacts
<1>2. Blocked(Dequeuer)' <=> label \in {"sleep", "delay"}
  BY <1>1 DEF Blocked, DequeuePcs
<1>3. /\ spent' \subseteq Threads /\ SpentInv'
      /\ (\E u \in Threads : ~Blocked(u)') =>
           spent' = IF label \in {"sleep", "delay"} THEN spent \cup {Dequeuer} ELSE spent
  <2>1. CASE label \in {"sleep", "delay"}
    BY <1>1, <1>2, <2>1, StopsFacts
  <2>2. CASE label \notin {"sleep", "delay"}
    BY <1>1, <1>2, <2>2 DEF SpentInv, TypeOK
  <2> QED
    BY <2>1, <2>2
<1>4. TypeOK'
  <2>1. /\ pc' \in [Threads -> ProducerPcs \cup DequeuePcs]
        /\ \A q \in Producers : pc'[q] \in ProducerPcs
        /\ pc'[Dequeuer] \in DequeuePcs
    BY GotoType
  <2>2. TargetNum' \in Slots
    BY TypeFacts DEF TypeOK
  <2> QED
    BY <1>3, <2>1, <2>2 DEF TypeOK, localVars
<1>5. LimitInv'
  <2> SUFFICES ASSUME NEW q \in Producers, ~Blocked(q)'
               PROVE  /\ TargetNum' < Cap + Cardinality(spent' \cap Producers)
                      /\ pc'[q] = "store" => load'[q] < Cap + Cardinality(spent' \cap Producers)
    BY DEF LimitInv
  <2>1. pc'[q] = pc[q] /\ ~Blocked(q)
    BY <1>1
  <2>2. spent' \cap Producers = spent \cap Producers
    BY <1>3, CountFacts
  <2>3. Cardinality(spent \cap Producers) \in Nat
    BY CountFacts
  <2>4. /\ TargetNum < Cap + Cardinality(spent \cap Producers)
        /\ pc[q] = "store" => load[q] < Cap + Cardinality(spent \cap Producers)
    BY <2>1 DEF LimitInv
  <2>5. load'[q] = load[q]
    BY DEF localVars
  <2>6. TargetNum \in Nat
    BY TypeFacts
  <2>7. TargetNum' < Cap + Cardinality(spent \cap Producers)
    BY <2>3, <2>4, <2>6
  <2> QED
    BY <2>1, <2>2, <2>4, <2>5, <2>7
<1>6. OvertakeInv'
  <2>1. ASSUME NEW q \in Producers, pc'[q] = "store"
        PROVE  /\ NowNum' <= load'[q] + 1 /\ (Dequeuer \notin spent' => NowNum' <= load'[q])
    <3>1. pc[q] = "store" /\ load'[q] = load[q] /\ load[q] \in Nat /\ ~Blocked(q)'
      BY <1>1, <2>1, TypeFacts DEF localVars, Blocked
    <3>2. NowNum <= load[q]
      BY <3>1 DEF OvertakeInv
    <3>3. CASE NowNum' <= NowNum
      BY <3>1, <3>2, <3>3, TypeFacts
    <3>4. CASE NowNum' = NowNum + 1 /\ label = "delay"
      <4>1. spent' = spent \cup {Dequeuer}
        BY <1>3, <3>1, <3>4
      <4> QED
        BY <3>1, <3>2, <3>4, <4>1, TypeFacts
    <3> QED
      BY <3>3, <3>4
  <2> QED
    BY <1>1, <2>1 DEF OvertakeInv
<1>7. OfferInv'
  BY <1>1 DEF OfferInv, localVars
<1> QED
  BY <1>3, <1>4, <1>5, <1>6, <1>7

(* The comparison of the counters keeps the bounds; NowNum is never past   *)
(* TargetNum.                                                              *)
LEMMA CheckBounds ==
    ASSUME BoundsInv, Check
    PROVE  BoundsInv'
<1> USE DEF BoundsInv
<1> DEFINE label == IF NowNum = TargetNum THEN "reset_now" ELSE "pick"
<1>1. ~(NowNum > TargetNum)
  BY TypeFacts DEF OvertakeInv
<1>2. /\ Goto(Dequeuer, label) /\ spent' = spent /\ Dequeuer \notin spent
      /\ UNCHANGED <<NowNum, TargetNum, slot, localVars, offered, accepted, sent>>
      /\ clean' \in BOOLEAN
  BY <1>1 DEF Check, Starts, queueVars
<1>3. /\ label \in DequeuePcs /\ label \notin {"sleep", "delay", "reset_target"}
      /\ label = "pick" => NowNum < TargetNum
  BY TypeFacts DEF OvertakeInv, DequeuePcs
<1>4. /\ NowNum' \in Slots /\ TargetNum' \in Nat /\ TargetNum' <= TargetNum
      /\ NowNum' <= NowNum /\ NowNum' <= TargetNum' /\ sent' \in Seq(Msgs \cup {Zero})
  BY <1>2, TypeFacts DEF TypeOK, OvertakeInv
<1> HIDE DEF label, BoundsInv
<1> QED
  BY <1>2, <1>3, <1>4, DequeueBounds

(* So do the two halves of the reset. *)
LEMMA ResetNowBounds ==
    ASSUME BoundsInv, ResetNow
    PROVE  BoundsInv'
<1> USE DEF BoundsInv
<1>1. /\ pc[Dequeuer] = "reset_now" /\ Goto(Dequeuer, "reset_target") /\ NowNum' = 0
      /\ UNCHANGED <<TargetNum, slot, localVars, spent, offered, clean, accepted, sent>>
  BY DEF ResetNow, histVars
<1>2. Dequeuer \notin spent
  BY <1>1, SlotFacts DEF SpentInv, Blocked
<1>3. /\ NowNum' \in Slots /\ TargetNum' \in Nat /\ TargetNum' <= TargetNum
      /\ NowNum' <= NowNum /\ NowNum' <= TargetNum'
  BY <1>1, TypeFacts, SlotFacts
<1>4. "reset_target" \in DequeuePcs /\ clean' \in BOOLEAN /\ sent' \in Seq(Msgs \cup {Zero})
  BY <1>1 DEF DequeuePcs, TypeOK
<1> HIDE DEF BoundsInv
<1> QED
  BY <1>1, <1>2, <1>3, <1>4, DequeueBounds

LEMMA ResetTargetBounds ==
    ASSUME BoundsInv, ResetTarget
    PROVE  BoundsInv'
<1> USE DEF BoundsInv
<1>1. /\ pc[Dequeuer] = "reset_target" /\ Goto(Dequeuer, "sleep") /\ TargetNum' = 0
      /\ Stops(Dequeuer)
      /\ UNCHANGED <<NowNum, slot, localVars, offered, clean, accepted, sent>>
  BY DEF ResetTarget, histVars
<1>2. Dequeuer \notin spent /\ NowNum = 0
  BY <1>1, SlotFacts DEF SpentInv, Blocked, OvertakeInv
<1>3. /\ NowNum' \in Slots /\ TargetNum' \in Nat /\ TargetNum' <= TargetNum
      /\ NowNum' <= NowNum /\ NowNum' <= TargetNum'
      /\ clean' \in BOOLEAN /\ sent' \in Seq(Msgs \cup {Zero})
  BY <1>1, <1>2, TypeFacts DEF TypeOK
<1>4. "sleep" \in DequeuePcs
  BY DEF DequeuePcs
<1> HIDE DEF BoundsInv
<1> QED
  BY <1>1, <1>2, <1>3, <1>4, DequeueBounds

(* NowNum++ keeps them: TargetNum has not come down to NowNum since the    *)
(* comparison.                                                             *)
LEMMA PickBounds ==
    ASSUME BoundsInv, Pick
    PROVE  BoundsInv'
<1> USE DEF BoundsInv
<1>1. /\ pc[Dequeuer] = "pick" /\ Goto(Dequeuer, "delay") /\ NowNum' = NowNum + 1
      /\ Stops(Dequeuer)
      /\ UNCHANGED <<TargetNum, slot, localVars, offered, clean, accepted, sent>>
  BY DEF Pick
<1>2. Dequeuer \notin spent /\ NowNum < TargetNum
  BY <1>1, SlotFacts DEF SpentInv, Blocked, OvertakeInv
<1>3. /\ NowNum' \in Slots /\ TargetNum' \in Nat /\ TargetNum' <= TargetNum
      /\ NowNum' <= TargetNum'
  <2>1. TargetNum <= LastSlot
    BY SlotFacts DEF TypeOK
  <2> QED
    BY <1>1, <1>2, <2>1, TypeFacts, SlotFacts
<1>4. "delay" \in DequeuePcs /\ clean' \in BOOLEAN /\ sent' \in Seq(Msgs \cup {Zero})
  BY <1>1 DEF DequeuePcs, TypeOK
<1> HIDE DEF BoundsInv
<1> QED
  BY <1>1, <1>2, <1>3, <1>4, DequeueBounds

(* Sending keeps them. *)
LEMMA SendBounds ==
    ASSUME BoundsInv, Send
    PROVE  BoundsInv'
<1> USE DEF BoundsInv
<1>1. /\ Goto(Dequeuer, "sleep") /\ Stops(Dequeuer) /\ Dequeuer \notin spent
      /\ UNCHANGED <<NowNum, TargetNum, slot, localVars, offered, accepted>>
      /\ clean' \in BOOLEAN
  BY DEF Send, Starts, queueVars
<1>2. sent' \in Seq(Msgs \cup {Zero})
  <2>1. PICK m \in Msgs \cup {Zero} : sent' = Append(sent, m)
    BY DEF Send, TypeOK
  <2> QED
    BY <2>1 DEF TypeOK
<1>3. /\ NowNum' \in Slots /\ TargetNum' \in Nat /\ TargetNum' <= TargetNum
      /\ NowNum' <= NowNum /\ NowNum' <= TargetNum'
  BY <1>1, TypeFacts DEF TypeOK, OvertakeInv
<1>4. "sleep" \in DequeuePcs
  BY DEF DequeuePcs
<1> HIDE DEF BoundsInv
<1> QED
  BY <1>1, <1>2, <1>3, <1>4, DequeueBounds

(* No step of any thread breaks the bounds. *)
LEMMA StepBounds == BoundsInv /\ [Next]_vars => BoundsInv'
<1> SUFFICES ASSUME BoundsInv, [Next]_vars PROVE BoundsInv'
  OBVIOUS
<1>1. ASSUME NEW p \in Producers, ReadNum(p) \/ Write(p) \/ Load(p) \/ Store(p)
      PROVE  BoundsInv'
  BY <1>1, ReadNumBounds, WriteBounds, LoadBounds, StoreBounds
<1>2. CASE Dequeue
  BY <1>2, CheckBounds, ResetNowBounds, ResetTargetBounds, PickBounds, SendBounds DEF Dequeue
<1>3. CASE UNCHANGED vars
  BY <1>3 DEF vars, queueVars, localVars, histVars, BoundsInv, TypeOK, SpentInv,
       LimitInv, OvertakeInv, OfferInv, Blocked
<1> QED
  BY <1>1, <1>2, <1>3 DEF Next

(* BoundsInv is an invariant of the send queue, however operations overlap. *)
THEOREM BoundsInvariant == Spec => []BoundsInv
  BY InitBounds, StepBounds, PTL DEF Spec

(* The counters, the indices and the records of the queue keep their       *)
(* types: however the producers of Radio_Encoder.c overlap, no index goes  *)
(* further past the arrays than there are producers.                       *)
THEOREM RadioQueueTypeOK == Spec => []TypeOK
<1>1. BoundsInv => TypeOK
  BY DEF BoundsInv
<1> QED
  BY <1>1, BoundsInvariant, PTL

(* NowNum never passes TargetNum, the case rf_433_Dequeue does not handle. *)
THEOREM NowNeverOvertakes == Spec => []NeverOvertaken
<1>1. BoundsInv => NeverOvertaken
  BY DEF BoundsInv, OvertakeInv, NeverOvertaken
<1> QED
  BY <1>1, BoundsInvariant, PTL

=============================================================================
