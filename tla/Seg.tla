-------------------------------- MODULE Seg ---------------------------------
(***************************************************************************)
(* The alarm outputs (src/applications/seg.c): for each radio a counter of *)
(* weak messages and one of failed rounds, and two outputs that a thread   *)
(* of priority 10 derives from them.  The counters are written by the two  *)
(* radio threads (8, src/radio/Radio_Decoder.c) and by the two supervising *)
(* threads (7, src/applications/heart.c), without a lock.  Read and write  *)
(* of a counter are separate steps; a thread advances only if no thread    *)
(* of higher priority is in the middle of its work, and the two threads of *)
(* priority 7 take turns at any point (round robin).                       *)
(***************************************************************************)
EXTENDS Naturals

CONSTANTS WeakLimit,    \* weak messages that raise output 1 (5 in the code)
          FailLimit     \* failed rounds that raise output 2 (2 in the code)

ASSUME LimitsAssumption == WeakLimit \in Nat \ {0} /\ FailLimit \in Nat \ {0}

(* rf_select of heart.c: 0 is the 4068 radio, 1 the 433 radio. *)
R4068 == 0
R433  == 1
Radios == {R4068, R433}

Reporters == {"heart", "button"}

VARIABLES
    rssi_count, alive_count,    \* of each radio
    seg1_level, seg2_level,
    rpc, rtemp,                 \* where each radio thread is, the count it has read
    fpc, fradio, ftemp,         \* the same of the reporters, and the radio that failed
    spc,                        \* where the thread of the outputs is
    weak, fails                 \* history: weak messages since the last strong one,
                                \* failed rounds since the last message (capped)

radioVars == <<rpc, rtemp>>
failVars == <<fpc, fradio, ftemp>>
segVars == <<seg1_level, seg2_level, spc>>
vars == <<rssi_count, alive_count, radioVars, failVars, segVars, weak, fails>>

Capped(n, limit) == IF n < limit THEN n + 1 ELSE n

(* A reporter that has passed the test of alive_count may find that the    *)
(* other one has raised it to the limit: it then goes one beyond.          *)
TypeOK ==
    /\ rssi_count \in [Radios -> 0..WeakLimit]
    /\ alive_count \in [Radios -> 0..FailLimit + 1]
    /\ seg1_level \in {0, 1} /\ seg2_level \in {0, 1}
    /\ rpc \in [Radios -> {"idle", "write", "resume"}]
    /\ rtemp \in [Radios -> 0..WeakLimit - 1]
    /\ fpc \in [Reporters -> {"idle", "read", "write", "clear"}]
    /\ fradio \in [Reporters -> Radios] /\ ftemp \in [Reporters -> 0..FailLimit]
    /\ spc \in {"seg1", "seg2"}
    /\ weak \in [Radios -> 0..WeakLimit] /\ fails \in [Radios -> 0..FailLimit]

Zero == [r \in Radios |-> 0]

Init ==
    /\ rssi_count = Zero /\ alive_count = Zero
    /\ seg1_level = 0 /\ seg2_level = 0
    /\ rpc = [r \in Radios |-> "idle"] /\ rtemp = Zero
    /\ fpc = [c \in Reporters |-> "idle"] /\ fradio = [c \in Reporters |-> R433]
    /\ ftemp = [c \in Reporters |-> 0]
    /\ spc = "seg1"
    /\ weak = Zero /\ fails = Zero

ReportersIdle == \A c \in Reporters : fpc[c] = "idle"
RadiosIdle == \A r \in Radios : rpc[r] = "idle"

-----------------------------------------------------------------------------
(* The radio threads: rf433_rssi_level_select, rf4068_rssi_level_select.   *)

(* Mutant of StrongMessage: the weak messages are not forgotten. *)
StrongMessageKeeps(r) ==
    /\ rpc[r] = "idle" /\ ReportersIdle
    /\ weak' = [weak EXCEPT ![r] = 0]
    /\ rpc' = [rpc EXCEPT ![r] = "resume"]
    /\ UNCHANGED <<rssi_count, alive_count, rtemp, failVars, segVars, fails>>

(* Levels 3 to 5: rf433_rssi_count_resume. *)
StrongMessage(r) ==
    /\ rpc[r] = "idle" /\ ReportersIdle
    /\ rssi_count' = [rssi_count EXCEPT ![r] = 0]
    /\ weak' = [weak EXCEPT ![r] = 0]
    /\ rpc' = [rpc EXCEPT ![r] = "resume"]
    /\ UNCHANGED <<alive_count, rtemp, failVars, segVars, fails>>

(* Level 2: rf433_rssi_count_increase, up to the read of the counter.      *)
(* Nothing but its clearing may come between test and read, which then     *)
(* gives the count that follows from a test after the clearing.            *)
WeakMessage(r) ==
    /\ rpc[r] = "idle" /\ ReportersIdle
    /\ weak' = [weak EXCEPT ![r] = Capped(@, WeakLimit)]
    /\ IF rssi_count[r] < WeakLimit
       THEN /\ rtemp' = [rtemp EXCEPT ![r] = rssi_count[r]]
            /\ rpc' = [rpc EXCEPT ![r] = "write"]
       ELSE /\ rpc' = [rpc EXCEPT ![r] = "resume"]
            /\ UNCHANGED rtemp
    /\ UNCHANGED <<rssi_count, alive_count, failVars, segVars, fails>>

(* The write of rf433_rssi_count++. *)
CountWrite(r) ==
    /\ rpc[r] = "write" /\ ReportersIdle
    /\ rssi_count' = [rssi_count EXCEPT ![r] = rtemp[r] + 1]
    /\ rtemp' = [rtemp EXCEPT ![r] = 0]
    /\ rpc' = [rpc EXCEPT ![r] = "resume"]
    /\ UNCHANGED <<alive_count, failVars, segVars, weak, fails>>

(* Mutant of AliveResume: only a strong message ends an outage. *)
AliveResumeStrong(r) ==
    /\ rpc[r] = "resume" /\ ReportersIdle
    /\ alive_count' = [alive_count EXCEPT ![r] = IF weak[r] = 0 THEN 0 ELSE @]
    /\ fails' = [fails EXCEPT ![r] = 0]
    /\ rpc' = [rpc EXCEPT ![r] = "idle"]
    /\ UNCHANGED <<rssi_count, rtemp, failVars, segVars, weak>>

(* rf433_alive_count_resume, for every level. *)
AliveResume(r) ==
    /\ rpc[r] = "resume" /\ ReportersIdle
    /\ alive_count' = [alive_count EXCEPT ![r] = 0]
    /\ fails' = [fails EXCEPT ![r] = 0]
    /\ rpc' = [rpc EXCEPT ![r] = "idle"]
    /\ UNCHANGED <<rssi_count, rtemp, failVars, segVars, weak>>

RadioThread(r) == CountWrite(r) \/ AliveResume(r)

-----------------------------------------------------------------------------
(* alive_count_increase of a failed round, by the heart thread or by the   *)
(* button test.                                                            *)

(* Mutant of Fail: the counter is not limited. *)
FailUnlimited(c, r) ==
    /\ fpc[c] = "idle"
    /\ fradio' = [fradio EXCEPT ![c] = r]
    /\ fails' = [fails EXCEPT ![r] = Capped(@, FailLimit)]
    /\ fpc' = [fpc EXCEPT ![c] = "read"]
    /\ UNCHANGED <<rssi_count, alive_count, radioVars, ftemp, segVars, weak>>

Fail(c, r) ==
    /\ fpc[c] = "idle"
    /\ fradio' = [fradio EXCEPT ![c] = r]
    /\ fails' = [fails EXCEPT ![r] = Capped(@, FailLimit)]
    /\ fpc' = [fpc EXCEPT ![c] = IF alive_count[r] < FailLimit THEN "read" ELSE "clear"]
    /\ UNCHANGED <<rssi_count, alive_count, radioVars, ftemp, segVars, weak>>

FailRead(c) ==
    /\ fpc[c] = "read"
    /\ ftemp' = [ftemp EXCEPT ![c] = alive_count[fradio[c]]]
    /\ fpc' = [fpc EXCEPT ![c] = "write"]
    /\ UNCHANGED <<rssi_count, alive_count, radioVars, fradio, segVars, weak, fails>>

FailWrite(c) ==
    /\ fpc[c] = "write"
    /\ alive_count' = [alive_count EXCEPT ![fradio[c]] = ftemp[c] + 1]
    /\ ftemp' = [ftemp EXCEPT ![c] = 0]
    /\ fpc' = [fpc EXCEPT ![c] = "clear"]
    /\ UNCHANGED <<rssi_count, radioVars, fradio, segVars, weak, fails>>

(* rf433_rssi_count = 0 *)
FailClear(c) ==
    /\ fpc[c] = "clear"
    /\ rssi_count' = [rssi_count EXCEPT ![fradio[c]] = 0]
    /\ fpc' = [fpc EXCEPT ![c] = "idle"]
    /\ fradio' = [fradio EXCEPT ![c] = R433]
    /\ UNCHANGED <<alive_count, radioVars, ftemp, segVars, weak, fails>>

Reporter(c) == FailRead(c) \/ FailWrite(c) \/ FailClear(c)

-----------------------------------------------------------------------------
(* seg_callback.                                                           *)

Level(condition) == IF condition THEN 1 ELSE 0

SegMayRun == ReportersIdle /\ RadiosIdle

(* The two halves of a pass.  The level decided on is written at once: a   *)
(* counter that changes in between is seen 500 ms later.                   *)
seg1_control ==
    /\ spc = "seg1" /\ SegMayRun
    /\ seg1_level' = Level(\E r \in Radios : rssi_count[r] > WeakLimit - 1)
    /\ spc' = "seg2"
    /\ UNCHANGED <<rssi_count, alive_count, radioVars, failVars, seg2_level, weak, fails>>

(* Mutant of seg2_control: both radios must be out. *)
seg2_control_both ==
    /\ spc = "seg2" /\ SegMayRun
    /\ seg2_level' = Level(\A r \in Radios : alive_count[r] > FailLimit - 1)
    /\ spc' = "seg1"
    /\ UNCHANGED <<rssi_count, alive_count, radioVars, failVars, seg1_level, weak, fails>>

seg2_control ==
    /\ spc = "seg2" /\ SegMayRun
    /\ seg2_level' = Level(\E r \in Radios : alive_count[r] > FailLimit - 1)
    /\ spc' = "seg1"
    /\ UNCHANGED <<rssi_count, alive_count, radioVars, failVars, seg1_level, weak, fails>>

SegThread == seg1_control \/ seg2_control

Message(r) == StrongMessage(r) \/ WeakMessage(r)
RoundFails(r) == \E c \in Reporters : Fail(c, r)

Next ==
    \/ \E r \in Radios : Message(r) \/ RoundFails(r) \/ RadioThread(r)
    \/ \E c \in Reporters : Reporter(c)
    \/ SegThread

Spec == Init /\ [][Next]_vars

(* Messages and failed rounds are seconds apart and the calls take         *)
(* microseconds: every call ends, again and again none is under way, and   *)
(* then the thread of the outputs may run.                                 *)
Fairness == []<>SegMayRun /\ SF_vars(SegThread)

FairSpec == Spec /\ Fairness

-----------------------------------------------------------------------------
(* Properties.                                                             *)

(* However the calls overlap, output 2 is decided on only by a radio that  *)
(* has failed FailLimit times since its last message.                      *)
OutageEarned == \A r \in Radios : alive_count[r] >= FailLimit => fails[r] = FailLimit

(* Output 1 is decided on only by a radio whose last WeakLimit messages    *)
(* were all weak.                                                          *)
WeakEarned == \A r \in Radios : rssi_count[r] = WeakLimit => weak[r] = WeakLimit

FallsSilent(r) == <>[][~Message(r)]_vars
KeepsFailing(r) == []<><<RoundFails(r)>>_vars
KeepsTalking(r) == []<><<Message(r)>>_vars
StopsFailing(r) == <>[][~RoundFails(r)]_vars

(* A single radio that stays out raises output 2, though overlapping       *)
(* increments may be lost; and if both stay out the warning of weak        *)
(* messages, output 1, gives way to it.                                    *)
OutageShown ==
    /\ (\E r \in Radios : FallsSilent(r) /\ KeepsFailing(r)) => <>[](seg2_level = 1)
    /\ (\A r \in Radios : FallsSilent(r) /\ KeepsFailing(r)) => <>[](seg1_level = 0)

(* Output 2 goes off when messages of any strength come back.              *)
OutageEnds ==
    (\A r \in Radios : StopsFailing(r) /\ KeepsTalking(r)) => <>[](seg2_level = 0)

=============================================================================
