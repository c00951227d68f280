------------------------------ MODULE SegProofs ------------------------------
(***************************************************************************)
(* Proofs about module Seg, for every pair of limits: the counters stay in *)
(* their ranges, and neither output is decided on by a radio that has not  *)
(* earned it, however the unlocked increments overlap.                     *)
(***************************************************************************)
EXTENDS Seg, TLAPS

(* The reporter is between the test of alive_count[r] and the write. *)
Counting(c, r) == fpc[c] \in {"read", "write"} /\ fradio[c] = r

(* n failed rounds have been exceeded, or the history is at its cap. *)
Covered(n, r) == n < fails[r] \/ fails[r] = FailLimit

(* The count is one that the weak messages since the last strong one       *)
(* account for; the increment that is on its way has its message already.  *)
WeakInv ==
    \A r \in Radios :
        /\ rssi_count[r] <= weak[r]
        /\ rpc[r] = "write" => rtemp[r] < weak[r]

(* A reporter that is past the test finds room, or it finds the limit and  *)
(* is then alone: the other one cannot pass the test any more.             *)
LimitInv ==
    \A c \in Reporters : \A r \in Radios :
        /\ fpc[c] = "read" /\ fradio[c] = r /\ alive_count[r] >= FailLimit
             => /\ alive_count[r] = FailLimit
                /\ \A d \in Reporters \ {c} : ~Counting(d, r)
        /\ fpc[c] = "write" /\ fradio[c] = r /\ ftemp[c] = FailLimit
             => /\ alive_count[r] = FailLimit
                /\ \A d \in Reporters \ {c} : ~Counting(d, r)

(* Every increment that is done has a failed round of its own. *)
DoneInv ==
    \A r \in Radios : alive_count[r] <= fails[r] \/ fails[r] = FailLimit

(* So has the one that a reporter is about to make. *)
OwnInv ==
    \A c \in Reporters : \A r \in Radios :
        /\ fpc[c] = "read" /\ fradio[c] = r => Covered(alive_count[r], r)
        /\ fpc[c] = "write" /\ fradio[c] = r => Covered(ftemp[c], r)

(* And two reporters at the same counter have a round each, as long as one *)
(* of them still has to read it.                                           *)
BothInv ==
    \A c \in Reporters : \A d \in Reporters \ {c} : \A r \in Radios :
        fpc[d] = "read" /\ fradio[d] = r =>
            /\ fpc[c] = "read" /\ fradio[c] = r => Covered(alive_count[r] + 1, r)
            /\ fpc[c] = "write" /\ fradio[c] = r => Covered(ftemp[c] + 1, r)

SegInv == TypeOK /\ WeakInv /\ LimitInv /\ DoneInv /\ OwnInv /\ BothInv

-----------------------------------------------------------------------------
(* The counters and threads start at rest: the invariant holds. *)
LEMMA InitInv == Init => SegInv
<1> SUFFICES ASSUME Init PROVE SegInv
  OBVIOUS
<1> USE LimitsAssumption DEF Init, Zero
<1>1. TypeOK
  BY DEF TypeOK, Radios, Reporters, R433, R4068
<1>2. WeakInv
  BY DEF WeakInv
<1>3. LimitInv
  BY DEF LimitInv
<1>4. DoneInv
  BY DEF DoneInv
<1>5. OwnInv
  BY DEF OwnInv
<1>6. BothInv
  BY DEF BothInv
<1> QED
  BY <1>1, <1>2, <1>3, <1>4, <1>5, <1>6 DEF SegInv

(* A strong message keeps the invariant. *)
LEMMA StrongMessageInv ==
    ASSUME NEW r \in Radios, SegInv, StrongMessage(r)
    PROVE  SegInv'
<1> USE LimitsAssumption DEF SegInv, TypeOK, StrongMessage, radioVars, failVars, segVars
<1>1. TypeOK'
  OBVIOUS
<1>2. WeakInv'
  BY DEF WeakInv
<1>3. LimitInv'
  BY DEF LimitInv, Counting, ReportersIdle
<1>4. DoneInv'
  BY DEF DoneInv, OwnInv, Covered
<1>5. OwnInv'
  BY DEF DoneInv, OwnInv, BothInv, Covered, ReportersIdle
<1>6. BothInv'
  BY DEF DoneInv, OwnInv, BothInv, Covered, ReportersIdle
<1> QED
  BY <1>1, <1>2, <1>3, <1>4, <1>5, <1>6

(* A weak message keeps it: its increment has a message of its own. *)
LEMMA WeakMessageInv ==
    ASSUME NEW r \in Radios, SegInv, WeakMessage(r)
    PROVE  SegInv'
<1> USE LimitsAssumption DEF SegInv, TypeOK, WeakMessage, Capped, radioVars, failVars, segVars
<1>1. TypeOK'
  BY DEF WeakInv
<1>2. WeakInv'
  BY DEF WeakInv
<1>3. LimitInv'
  BY DEF LimitInv, Counting, ReportersIdle
<1>4. DoneInv'
  BY DEF DoneInv, OwnInv, Covered
<1>5. OwnInv'
  BY DEF DoneInv, OwnInv, BothInv, Covered, ReportersIdle
<1>6. BothInv'
  BY DEF DoneInv, OwnInv, BothInv, Covered, ReportersIdle
<1> QED
  BY <1>1, <1>2, <1>3, <1>4, <1>5, <1>6

(* The write of a weak message's increment keeps it. *)
LEMMA CountWriteInv ==
    ASSUME NEW r \in Radios, SegInv, CountWrite(r)
    PROVE  SegInv'
<1> USE LimitsAssumption DEF SegInv, TypeOK, CountWrite, radioVars, failVars, segVars
<1>1. TypeOK'
  OBVIOUS
<1>2. WeakInv'
  BY DEF WeakInv
<1>3. LimitInv'
  BY DEF LimitInv, Counting, ReportersIdle
<1>4. DoneInv'
  BY DEF DoneInv, OwnInv, Covered
<1>5. OwnInv'
  BY DEF DoneInv, OwnInv, BothInv, Covered, ReportersIdle
<1>6. BothInv'
  BY DEF DoneInv, OwnInv, BothInv, Covered, ReportersIdle
<1> QED
  BY <1>1, <1>2, <1>3, <1>4, <1>5, <1>6

(* The end of an outage keeps it: no reporter is under way. *)
LEMMA AliveResumeInv ==
    ASSUME NEW r \in Radios, SegInv, AliveResume(r)
    PROVE  SegInv'
<1> USE LimitsAssumption DEF SegInv, TypeOK, AliveResume, radioVars, failVars, segVars
<1>1. TypeOK'
  OBVIOUS
<1>2. WeakInv'
  BY DEF WeakInv
<1>3. LimitInv'
  BY DEF LimitInv, Counting, ReportersIdle
<1>4. DoneInv'
  BY DEF DoneInv, OwnInv, Covered
<1>5. OwnInv'
  BY DEF DoneInv, OwnInv, BothInv, Covered, ReportersIdle
<1>6. BothInv'
  BY DEF DoneInv, OwnInv, BothInv, Covered, ReportersIdle
<1> QED
  BY <1>1, <1>2, <1>3, <1>4, <1>5, <1>6

(* A reporter's test keeps it. *)
LEMMA FailInv ==
    ASSUME NEW c \in Reporters, NEW r \in Radios, SegInv, Fail(c, r)
    PROVE  SegInv'
<1> USE LimitsAssumption DEF SegInv, TypeOK, Fail, Capped, radioVars, failVars, segVars
<1>1. TypeOK'
  OBVIOUS
<1>2. WeakInv'
  BY DEF WeakInv
<1>3. LimitInv'
  BY DEF LimitInv, Counting, ReportersIdle
<1>4. DoneInv'
  BY DEF DoneInv, OwnInv, Covered
<1>5. OwnInv'
  BY DEF DoneInv, OwnInv, BothInv, Covered, ReportersIdle
<1>6. BothInv'
  BY DEF DoneInv, OwnInv, BothInv, Covered, ReportersIdle
<1> QED
  BY <1>1, <1>2, <1>3, <1>4, <1>5, <1>6

(* A reporter's read keeps it: at the limit the other one is not under way. *)
LEMMA FailReadInv ==
    ASSUME NEW c \in Reporters, SegInv, FailRead(c)
    PROVE  SegInv'
<1> USE LimitsAssumption DEF SegInv, TypeOK, FailRead, radioVars, failVars, segVars
<1>1. TypeOK'
  BY DEF LimitInv
<1>2. WeakInv'
  BY DEF WeakInv
<1>3. LimitInv'
  BY DEF LimitInv, Counting, ReportersIdle
<1>4. DoneInv'
  BY DEF DoneInv, OwnInv, Covered
<1>5. OwnInv'
  BY DEF DoneInv, OwnInv, BothInv, Covered, ReportersIdle
<1>6. BothInv'
  BY DEF DoneInv, OwnInv, BothInv, Covered, ReportersIdle
<1> QED
  BY <1>1, <1>2, <1>3, <1>4, <1>5, <1>6

(* A reporter's write keeps it, also when it overwrites a larger count. *)
LEMMA FailWriteInv ==
    ASSUME NEW c \in Reporters, SegInv, FailWrite(c)
    PROVE  SegInv'
<1> USE LimitsAssumption DEF SegInv, TypeOK, FailWrite, radioVars, failVars, segVars
<1>1. TypeOK'
  OBVIOUS
<1>2. WeakInv'
  BY DEF WeakInv
<1>3. LimitInv'
  BY DEF LimitInv, Counting, Reporters
<1>4. DoneInv'
  BY DEF DoneInv, OwnInv, Covered
<1>5. OwnInv'
  BY DEF OwnInv, BothInv, Covered
<1>6. BothInv'
  BY DEF BothInv, Reporters
<1> QED
  BY <1>1, <1>2, <1>3, <1>4, <1>5, <1>6

(* Clearing the weak messages after a failed round keeps it. *)
LEMMA FailClearInv ==
    ASSUME NEW c \in Reporters, SegInv, FailClear(c)
    PROVE  SegInv'
<1> USE LimitsAssumption DEF SegInv, TypeOK, FailClear, radioVars, failVars, segVars
<1>1. TypeOK'
  BY DEF Radios, R433
<1>2. WeakInv'
  BY DEF WeakInv
<1>3. LimitInv'
  BY DEF LimitInv, Counting, ReportersIdle
<1>4. DoneInv'
  BY DEF DoneInv, OwnInv, Covered
<1>5. OwnInv'
  BY DEF DoneInv, OwnInv, BothInv, Covered, ReportersIdle
<1>6. BothInv'
  BY DEF DoneInv, OwnInv, BothInv, Covered, ReportersIdle
<1> QED
  BY <1>1, <1>2, <1>3, <1>4, <1>5, <1>6

(* A pass over the outputs only reads the counters. *)
LEMMA SegThreadInv ==
    ASSUME SegInv, SegThread
    PROVE  SegInv'
<1> USE LimitsAssumption DEF SegInv, TypeOK, SegThread, seg1_control, seg2_control, Level, radioVars, failVars, segVars
<1>1. TypeOK'
  OBVIOUS
<1>2. WeakInv'
  BY DEF WeakInv
<1>3. LimitInv'
  BY DEF LimitInv, Counting, ReportersIdle
<1>4. DoneInv'
  BY DEF DoneInv, OwnInv, Covered
<1>5. OwnInv'
  BY DEF DoneInv, OwnInv, BothInv, Covered, ReportersIdle
<1>6. BothInv'
  BY DEF DoneInv, OwnInv, BothInv, Covered, ReportersIdle
<1> QED
  BY <1>1, <1>2, <1>3, <1>4, <1>5, <1>6

(* No step of any thread breaks the invariant. *)
LEMMA StepInv == SegInv /\ [Next]_vars => SegInv'
<1> SUFFICES ASSUME SegInv, [Next]_vars PROVE SegInv'
  OBVIOUS
<1>1. ASSUME NEW r \in Radios, Message(r) PROVE SegInv'
  BY <1>1, StrongMessageInv, WeakMessageInv DEF Message
<1>2. ASSUME NEW r \in Radios, RoundFails(r) PROVE SegInv'
  BY <1>2, FailInv DEF RoundFails
<1>3. ASSUME NEW r \in Radios, RadioThread(r) PROVE SegInv'
  BY <1>3, CountWriteInv, AliveResumeInv DEF RadioThread
<1>4. ASSUME NEW c \in Reporters, Reporter(c) PROVE SegInv'
  BY <1>4, FailReadInv, FailWriteInv, FailClearInv DEF Reporter
<1>5. CASE SegThread
  BY <1>5, SegThreadInv
<1>6. CASE UNCHANGED vars
  BY <1>6 DEF vars, radioVars, failVars, segVars, SegInv, TypeOK, WeakInv,
       LimitInv, DoneInv, OwnInv, BothInv, Counting, Covered
<1> QED
  BY <1>1, <1>2, <1>3, <1>4, <1>5, <1>6 DEF Next

-----------------------------------------------------------------------------
(* SegInv is an invariant of the alarm outputs for all limits. *)
THEOREM SegInvariant == Spec => []SegInv
  BY InitInv, StepInv, PTL DEF Spec

(* The counters of seg.c stay in their ranges.  alive_count is tested and  *)
(* incremented without a lock by two threads and yet never goes more than  *)
(* one beyond its limit.                                                   *)
THEOREM SegTypeOK == Spec => []TypeOK
<1>1. SegInv => TypeOK
  BY DEF SegInv
<1> QED
  BY <1>1, SegInvariant, PTL

(* However the calls of alive_count_increase overlap, only a radio that    *)
(* has failed FailLimit times since its last message reaches the limit     *)
(* that raises output 2.                                                   *)
THEOREM OutagesAreEarned == Spec => []OutageEarned
<1>1. SegInv => OutageEarned
  BY LimitsAssumption DEF SegInv, TypeOK, DoneInv, OutageEarned
<1> QED
  BY <1>1, SegInvariant, PTL

(* Only a radio whose last WeakLimit messages were all weak reaches the    *)
(* count that raises output 1.                                             *)
THEOREM WeakWarningsAreEarned == Spec => []WeakEarned
<1>1. SegInv => WeakEarned
  BY LimitsAssumption DEF SegInv, TypeOK, WeakInv, WeakEarned
<1> QED
  BY <1>1, SegInvariant, PTL

=============================================================================
