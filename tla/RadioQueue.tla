----------------------------- MODULE RadioQueue -----------------------------
(***************************************************************************)
(* The send queue of one radio (src/radio/Radio_Encoder.c; the code for    *)
(* the 433 and the 4068 radio is the same).  Several threads enqueue and   *)
(* one thread dequeues, with no lock: Queue.TargetNum is the last slot in  *)
(* use, Queue.NowNum the last slot taken, slot 0 is never used and both    *)
(* counters go back to 0 when the dequeue thread finds them equal.         *)
(*                                                                         *)
(* Scheduling is RT-Thread's: a thread advances only when no thread of     *)
(* higher priority (a smaller number) is in the middle of an operation;    *)
(* threads of one priority alternate.  The build is not optimised, so each *)
(* read and write of the counters is a step of its own.                    *)
(*                                                                         *)
(* The arrays of the record have Cap elements, 0 .. Cap - 1, but the limit *)
(* admits index Cap.  What is written there lies in bytes the queue does   *)
(* not use and, for Data, in the object behind the record: it may read     *)
(* back changed.                                                           *)
(***************************************************************************)
EXTENDS Naturals, Sequences, FiniteSets

CONSTANTS
    Enqueuers,  \* the threads that call rf_433_Enqueue
    Urgents,    \* the threads that call rf_433_Urgent_Enqueue (heart.c)
    Prio,       \* the priority of each thread and of the dequeue thread
    Dequeuer,   \* the dequeue thread
    Cap,        \* the limit of TargetNum and the array length (100 in the code)
    MaxMsgs     \* bound on the messages offered to the queue

Producers == Enqueuers \cup Urgents
Threads == Producers \cup {Dequeuer}

ASSUME QueueAssumption ==
    /\ IsFiniteSet(Producers)
    /\ Dequeuer \notin Producers
    /\ Enqueuers \cap Urgents = {}
    /\ Prio \in [Threads -> Nat]
    /\ Urgents \cup Enqueuers # {}
    /\ Cap \in Nat \ {0} /\ MaxMsgs \in Nat

Msgs == 1..MaxMsgs
Zero == 0           \* a slot that was never written
(* Each producer may have passed the check of the limit before any of them *)
(* has moved TargetNum: no index ever goes further than this.              *)
LastSlot == Cap + Cardinality(Producers) - 1
Slots == 0..LastSlot

VARIABLES
    NowNum, TargetNum, slot,   \* the Radio_Queue record
    pc,          \* where each thread is
    msg,         \* the message each producer is enqueueing
    NumTemp,     \* the local NumTemp of each producer
    load,        \* the value of TargetNum that TargetNum++ has read
    spent,       \* the threads that may not run again before all are idle
    offered,     \* messages offered so far (bound)
    clean,       \* history: no operations overlapped, no index past the arrays
    accepted,    \* history: messages reported as enqueued
    sent         \* history: the messages sent, in order

queueVars == <<NowNum, TargetNum, slot>>
localVars == <<msg, NumTemp, load>>
histVars == <<clean, accepted, sent>>
vars == <<queueVars, pc, localVars, spent, offered, histVars>>

ProducerPcs == {"idle", "write", "load", "store"}
DequeuePcs == {"sleep", "delay", "check", "reset_now", "reset_target", "pick"}

TypeOK ==
    /\ NowNum \in Slots /\ TargetNum \in Slots
    /\ slot \in [Slots -> Msgs \cup {Zero}]
    /\ pc \in [Threads -> ProducerPcs \cup DequeuePcs]
    /\ \A p \in Producers : pc[p] \in ProducerPcs
    /\ pc[Dequeuer] \in DequeuePcs
    /\ msg \in [Producers -> Msgs \cup {Zero}]
    /\ NumTemp \in [Producers -> 0..Cap]
    /\ load \in [Producers -> Slots]
    /\ spent \subseteq Threads
    /\ offered \in 0..MaxMsgs
    /\ clean \in BOOLEAN /\ accepted \subseteq Msgs
    /\ sent \in Seq(Msgs \cup {Zero})

Init ==
    /\ NowNum = 0 /\ TargetNum = 0
    /\ slot = [i \in Slots |-> Zero]
    /\ pc = [t \in Threads |-> IF t = Dequeuer THEN "sleep" ELSE "idle"]
    /\ msg = [p \in Producers |-> Zero]
    /\ NumTemp = [p \in Producers |-> 0]
    /\ load = [p \in Producers |-> 0]
    /\ spent = {} /\ offered = 0
    /\ clean = TRUE /\ accepted = {} /\ sent = << >>

-----------------------------------------------------------------------------
(* The scheduler.                                                          *)

Blocked(t) == pc[t] \in {"idle", "sleep", "delay"}

OthersBlocked(t) == \A u \in Threads \ {t} : Blocked(u)

(* No thread of higher priority is in the middle of an operation. *)
Runs(t) == \A u \in Threads : Prio[u] < Prio[t] => Blocked(u)

(* Thread t becomes ready, to use slot index.  A thread runs at most once  *)
(* while others are in the middle of an operation: its runs are at least   *)
(* 50 ms apart, and an operation takes microseconds once the threads that  *)
(* preempt it block.                                                       *)
Starts(t, index) ==
    /\ Blocked(t) /\ Runs(t) /\ t \notin spent
    /\ clean' = (clean /\ OthersBlocked(t) /\ index < Cap)

(* Thread t blocks again. *)
Stops(t) == spent' = IF OthersBlocked(t) THEN {} ELSE spent \cup {t}

Goto(t, label) == pc' = [pc EXCEPT ![t] = label]

-----------------------------------------------------------------------------
(* rf_433_Enqueue and rf_433_Urgent_Enqueue.                               *)

(* Mutant of ReadNum: the limit is not checked. *)
ReadNumUnlimited(p) ==
    /\ offered < MaxMsgs
    /\ Starts(p, TargetNum + 1)
    /\ offered' = offered + 1
    /\ msg' = [msg EXCEPT ![p] = offered + 1]
    /\ NumTemp' = [NumTemp EXCEPT ![p] = TargetNum + 1]
    /\ Goto(p, "write")
    /\ UNCHANGED <<queueVars, load, spent, accepted, sent>>

(* NumTemp = TargetNum; a full queue refuses the message. *)
ReadNum(p) ==
    /\ offered < MaxMsgs
    /\ Starts(p, TargetNum + 1)
    /\ offered' = offered + 1
    /\ IF TargetNum < Cap
       THEN /\ msg' = [msg EXCEPT ![p] = offered + 1]
            /\ NumTemp' = [NumTemp EXCEPT ![p] = TargetNum + 1]
            /\ Goto(p, "write")
            /\ UNCHANGED spent
       ELSE /\ Stops(p)
            /\ UNCHANGED <<pc, msg, NumTemp>>
    /\ UNCHANGED <<queueVars, load, accepted, sent>>

(* The message goes to slot NumTemp ... *)
WriteLast(p) == slot' = [slot EXCEPT ![NumTemp[p]] = msg[p]]

(* Mutant of WriteNext: the slots are not shifted. *)
WriteNextUnshifted(p) == slot' = [slot EXCEPT ![NowNum + 1] = msg[p]]

(* ... or, if it is urgent, right after the slot taken last: the slots     *)
(* that wait are shifted up by one.                                        *)
WriteNext(p) ==
    slot' = [i \in Slots |->
                IF i = NowNum + 1 THEN msg[p]
                ELSE IF i \in NowNum + 2 .. NumTemp[p] THEN slot[i - 1]
                ELSE slot[i]]

Write(p) ==
    /\ pc[p] = "write" /\ Runs(p)
    /\ IF p \in Urgents THEN WriteNext(p) ELSE WriteLast(p)
    /\ Goto(p, "load")
    /\ UNCHANGED <<NowNum, TargetNum, localVars, spent, offered, histVars>>

(* TargetNum++ : the load ... *)
Load(p) ==
    /\ pc[p] = "load" /\ Runs(p)
    /\ load' = [load EXCEPT ![p] = TargetNum]
    /\ Goto(p, "store")
    /\ UNCHANGED <<queueVars, msg, NumTemp, spent, offered, histVars>>

(* ... and the store, after which success is logged. *)
Store(p) ==
    /\ pc[p] = "store" /\ Runs(p)
    /\ TargetNum' = load[p] + 1
    /\ accepted' = accepted \cup {msg[p]}
    /\ Goto(p, "idle")
    /\ Stops(p)
    /\ msg' = [msg EXCEPT ![p] = Zero]
    /\ NumTemp' = [NumTemp EXCEPT ![p] = 0]
    /\ load' = [load EXCEPT ![p] = 0]
    /\ UNCHANGED <<NowNum, slot, offered, clean, sent>>

-----------------------------------------------------------------------------
(* rf_433_Dequeue.                                                         *)

(* Mutant of Check: the last slot is not taken. *)
CheckOffByOne ==
    /\ pc[Dequeuer] = "sleep" /\ Starts(Dequeuer, NowNum)
    /\ Goto(Dequeuer, IF NowNum + 1 >= TargetNum THEN "reset_now" ELSE "pick")
    /\ UNCHANGED <<queueVars, localVars, spent, offered, accepted, sent>>

(* Mutant of Check: the counters go back only at the end of the arrays. *)
CheckResetsAtCap ==
    /\ pc[Dequeuer] = "sleep" /\ Starts(Dequeuer, NowNum)
    /\ IF NowNum < Cap /\ NowNum >= TargetNum
       THEN Stops(Dequeuer) /\ UNCHANGED pc
       ELSE /\ Goto(Dequeuer, IF NowNum >= Cap THEN "reset_now" ELSE "pick")
            /\ UNCHANGED spent
    /\ UNCHANGED <<queueVars, localVars, offered, accepted, sent>>

(* The 150 ms are over; the two counters are compared. *)
Check ==
    /\ pc[Dequeuer] = "sleep" /\ Starts(Dequeuer, NowNum)
    /\ IF NowNum > TargetNum
       THEN Stops(Dequeuer) /\ UNCHANGED pc
       ELSE /\ Goto(Dequeuer, IF NowNum = TargetNum THEN "reset_now" ELSE "pick")
            /\ UNCHANGED spent
    /\ UNCHANGED <<queueVars, localVars, offered, accepted, sent>>

(* Mutant of ResetNow: TargetNum is cleared first. *)
ResetNowLast ==
    /\ pc[Dequeuer] = "reset_now" /\ Runs(Dequeuer)
    /\ TargetNum' = 0
    /\ Goto(Dequeuer, "reset_target")
    /\ UNCHANGED <<NowNum, slot, localVars, spent, offered, histVars>>

ResetNow ==
    /\ pc[Dequeuer] = "reset_now" /\ Runs(Dequeuer)
    /\ NowNum' = 0
    /\ Goto(Dequeuer, "reset_target")
    /\ UNCHANGED <<TargetNum, slot, localVars, spent, offered, histVars>>

ResetTarget ==
    /\ pc[Dequeuer] = "reset_target" /\ Runs(Dequeuer)
    /\ TargetNum' = 0
    /\ Goto(Dequeuer, "sleep")
    /\ Stops(Dequeuer)
    /\ UNCHANGED <<NowNum, slot, localVars, offered, histVars>>

(* NowNum++, then the delay before the message is sent. *)
Pick ==
    /\ pc[Dequeuer] = "pick" /\ Runs(Dequeuer)
    /\ NowNum' = NowNum + 1
    /\ Goto(Dequeuer, "delay")
    /\ Stops(Dequeuer)
    /\ UNCHANGED <<TargetNum, slot, localVars, offered, clean, accepted, sent>>

(* rf_433_send of the slot that NowNum points at now; Zero stands for a    *)
(* message that reads back changed.                                        *)
Send ==
    /\ pc[Dequeuer] = "delay" /\ Starts(Dequeuer, NowNum)
    /\ \E m \in {slot[NowNum]} \cup (IF NowNum < Cap THEN {} ELSE {Zero}) :
           sent' = Append(sent, m)
    /\ Goto(Dequeuer, "sleep")
    /\ Stops(Dequeuer)
    /\ UNCHANGED <<queueVars, localVars, offered, accepted>>

Dequeue == Check \/ ResetNow \/ ResetTarget \/ Pick \/ Send

Next ==
    \/ \E p \in Producers : ReadNum(p) \/ Write(p) \/ Load(p) \/ Store(p)
    \/ Dequeue

(* An operation that has begun goes on, and a delay ends. *)
Fairness ==
    /\ WF_vars(Dequeue)
    /\ \A p \in Producers : WF_vars(Write(p) \/ Load(p) \/ Store(p))

Spec == Init /\ [][Next]_vars
FairSpec == Spec /\ Fairness

-----------------------------------------------------------------------------
(* Properties.                                                             *)

AllBlocked == \A t \in Threads : Blocked(t)

(* The messages in the slots from first to last. *)
Held(first, last) == [i \in 1 .. (last + 1 - first) |-> slot[first + i - 1]]

(* The slots that hold the messages that wait: after NowNum up to          *)
(* TargetNum, one further up while TargetNum is yet to be moved for an     *)
(* urgent message, none in the middle of the reset.                        *)
Pending ==
    IF ~clean \/ pc[Dequeuer] = "reset_target" THEN << >>
    ELSE IF \E p \in Urgents : pc[p] \in {"load", "store"}
         THEN Held(NowNum + 2, TargetNum + 1)
         ELSE Held(NowNum + 1, TargetNum)

InHand == IF clean /\ pc[Dequeuer] = "delay" THEN slot[NowNum] ELSE Zero

Abs == INSTANCE AbsQueue WITH
    Size <- Cap, None <- Zero, pending <- Pending, hand <- InHand, broken <- ~clean

(* As long as operations neither overlapped nor left the arrays, counters  *)
(* and slots behave like a queue: rf_433_Enqueue puts a message last,      *)
(* rf_433_Urgent_Enqueue first, rf_433_Dequeue takes the first one and     *)
(* sends that very message after its delay, whatever is shifted meanwhile; *)
(* the reset of the counters changes nothing.  So every accepted message   *)
(* is sent at most once, in order, and nothing else is sent.               *)
IsQueue ==
    /\ Abs!Spec
    /\ [][\A p \in Producers : Store(p) /\ clean =>
            IF p \in Urgents THEN Abs!UrgentEnqueue(msg[p]) ELSE Abs!Enqueue(msg[p])]_vars

(* Whatever overlaps, the dequeue thread never falls into the case that    *)
(* rf_433_Dequeue does not handle, NowNum past TargetNum, in which the     *)
(* queue would stand still until TargetNum has caught up.                  *)
NeverOvertaken == NowNum <= TargetNum

(* Whatever overlaps, the counters go back to 0 once no more messages are  *)
(* offered: the slots never run out for good.                              *)
EventuallyReset ==
    (offered = MaxMsgs) ~> (NowNum = 0 /\ TargetNum = 0)

(* If operations never overlap nor leave the arrays every accepted message *)
(* is sent.                                                                *)
AcceptedIsSent ==
    []clean => \A m \in Msgs :
        m \in accepted ~> \E i \in 1..Len(sent) : sent[i] = m

(* Radio_Encoder.c:64 reports "GatewayDataEnqueue Success" and :89         *)
(* "GatewayDataUrgentEnqueue Success": a message that was reported so is   *)
(* in the queue until it is sent (looked at while no call is under way).   *)
AcceptedIsKept ==
    AllBlocked => \A m \in accepted :
        \/ \E i \in 1..Len(sent) : sent[i] = m
        \/ pc[Dequeuer] = "delay" /\ slot[NowNum] = m
        \/ \E i \in NowNum + 1 .. TargetNum : slot[i] = m

=============================================================================
