------------------------------- MODULE Heart --------------------------------
(***************************************************************************)
(* Link supervision of the SPSI master (src/applications/heart.c): the     *)
(* heart thread, the button-test thread and their two timers, with the     *)
(* part of the receive path (src/radio/Radio_Decoder.c) that they wait     *)
(* for.  Both threads share the rf_info records of the two radios and      *)
(* rf_now, the radio in use; rf_lock is meant to keep the button test from *)
(* moving rf_now while a heartbeat is awaiting its answer.                 *)
(*                                                                         *)
(* Granularity.  Both threads have priority 7 and share the processor in   *)
(* slices of 10 ticks, so a test, a load, a store and an operation on      *)
(* rf_lock of what they share are steps of their own: an increment and     *)
(* rf_now = !rf_now are a load into a register and a later store.  Stores  *)
(* that follow one another (Refresh, rf_offline after its test and         *)
(* retry = 0) are one step: nothing below the two threads runs between     *)
(* them (BothBlocked), no test of the other thread reads two of the fields *)
(* they set, and stores of both leave what one call after the other does.  *)
(* Time is abstracted: an armed timer or a delay may end at any moment, so *)
(* every relative speed is covered, with the exceptions of ConnectTick,    *)
(* HeartTick and spent, which say why.  LEDs, the valve, the segment       *)
(* counters and the log records are outputs that this code never reads     *)
(* back; they belong to other modules.                                     *)
(***************************************************************************)
EXTENDS Naturals, RfLink

CONSTANT MaxPending     \* bound on the clicks waiting in button_sem

ASSUME PendingAssumption == MaxPending \in Nat

Commands == {0, 1, 2}   \* heartbeat, button test, manual control
Final == 3              \* the value of retry at which a failure is final
Dead == 4               \* no case of either switch(retry) matches it

VARIABLES
    rf_now,         \* the radio in use
    retry,          \* rf_info.retry
    received,       \* rf_info.received
    testreceived,   \* rf_info.testreceived
    connect_on,     \* connect_timer is running
    connect_sem,
    heart_armed,    \* heart_timer is running
    heart_sem,
    heart_mode,
    hpc,            \* where the heart thread is
    htemp,          \* info_temp of the heart thread
    hreg,           \* value it has loaded and not yet stored
    button_sem,
    bpc,            \* where the button-test thread is
    binfo,          \* info_temp of the button-test thread
    bcase,          \* the value switch(info_temp->retry) was entered with
    breg,           \* value it has loaded and not yet stored
    owner, hold,    \* rf_lock: owner thread and recursion count
    spent           \* the thread that has blocked while the other is ready

radioVars == <<rf_now, retry, received, testreceived>>
connectVars == <<connect_on, connect_sem>>
heartVars == <<heart_armed, heart_sem, heart_mode, hpc, htemp, hreg>>
buttonVars == <<button_sem, bpc, binfo, bcase, breg>>
lockVars == <<owner, hold>>
vars == <<linkVars, radioVars, connectVars, heartVars, buttonVars, lockVars, spent>>

(* A thread is blocked at a rest, writes to flash (File_Output) at a log   *)
(* place and is ready to run at every other place.                         *)
HeartRests == {"idle", "conn_wait"}
HeartLogs == {"conn_log", "ok", "final"}
HeartReady == {"cturn", "cturned", "ask", "asked", "lock", "miss", "count",
               "turn", "turned", "flip", "test", "off", "unlock"}
HeartPcs == HeartRests \cup HeartLogs \cup HeartReady

ButtonRests == {"take", "wait"}
ButtonLogs == {"ok", "final"}
ButtonReady == {"top", "ask", "switch", "count", "try", "flip", "flipped", "free",
                "flipoff", "flippedoff", "freeoff", "test", "off"}
ButtonPcs == ButtonRests \cup ButtonLogs \cup ButtonReady

Modes == {"send", "check", "randtime_7", "randtime_8"}

TypeOK ==
    /\ LinkTypeOK
    /\ rf_now \in Radios
    /\ retry \in [Radios -> Nat]
    /\ received \in [Radios -> BOOLEAN]
    /\ testreceived \in [Radios -> BOOLEAN]
    /\ connect_on \in BOOLEAN /\ connect_sem \in Nat
    /\ heart_armed \in BOOLEAN /\ heart_sem \in Nat
    /\ heart_mode \in Modes /\ hpc \in HeartPcs /\ htemp \in Radios
    /\ button_sem \in 0..MaxPending
    /\ bpc \in ButtonPcs /\ binfo \in Radios /\ bcase \in 0..Final
    /\ hreg \in Nat /\ (hpc \in {"asked", "turned", "cturned", "flip"} => hreg \in Radios)
    /\ breg \in Nat /\ (bpc \in {"ask", "flipped", "flippedoff"} => breg \in Radios)
    /\ owner \in {"none", "heart", "button"} /\ hold \in Nat
    /\ spent \in {"none", "heart", "button"}

(* heart_init: everything else is zero-initialised static data, so the     *)
(* 4068 radio is selected and heart_mode is send.                          *)
Init ==
    /\ LinkInit
    /\ rf_now = R4068
    /\ retry = [r \in Radios |-> 0]
    /\ received = [r \in Radios |-> FALSE]
    /\ testreceived = [r \in Radios |-> FALSE]
    /\ connect_on = TRUE /\ connect_sem = 0
    /\ heart_armed = FALSE /\ heart_sem = 0
    /\ heart_mode = "send" /\ hpc = "idle" /\ htemp = R4068 /\ hreg = 0
    /\ button_sem = 0
    /\ bpc = "take" /\ binfo = R4068 /\ bcase = 0 /\ breg = 0
    /\ owner = "none" /\ hold = 0
    /\ spent = "none"

-----------------------------------------------------------------------------
(* The scheduler.                                                          *)

(* With a click waiting the test thread does not block at its semaphore. *)
ButtonRuns == bpc \in ButtonReady \/ (bpc = "take" /\ button_sem > 0)

(* What a step of a thread leaves in spent.  A thread that blocks, for     *)
(* 100 ms at least, while the other is ready is not back before the other  *)
(* has blocked as well: the stretches in between are far shorter.  A       *)
(* thread that is woken while the other is ready may well overtake it.     *)
HeartSpends ==
    IF hpc' \in HeartReady THEN spent
    ELSE IF hpc' \in HeartRests /\ ButtonRuns THEN "heart" ELSE "none"

ButtonSpends ==
    IF ButtonRuns' THEN spent
    ELSE IF bpc' \in ButtonRests /\ hpc \in HeartReady THEN "button" ELSE "none"

(* Threads of lower priority run while both are blocked. *)
BothBlocked == hpc \notin HeartReady /\ ~ButtonRuns

-----------------------------------------------------------------------------
(* Operations shared by the two threads.                                   *)

Other(r) == 1 - r

One(b) == IF b THEN 1 ELSE 0

(* rt_mutex_trytake(rf_lock) by thread t would succeed. *)
CanTake(t) == owner \in {"none", t}

Take(t) ==
    /\ owner' = t
    /\ hold' = hold + 1

(* Mutant of Release: no owner check. *)
ReleaseUnowned(t) ==
    /\ hold' = hold - 1
    /\ owner' = IF hold = 1 THEN "none" ELSE owner

(* rt_mutex_release(rf_lock) by thread t; refused unless t is the owner. *)
Release(t) ==
    IF owner # t THEN UNCHANGED lockVars
    ELSE /\ hold' = hold - 1
         /\ owner' = IF hold = 1 THEN "none" ELSE owner

(* Mutant of heart_request: the flag is not cleared. *)
heart_request_stale(r) == rf_now' = r /\ UNCHANGED received

(* heart_request / button_request: select the radio and clear the flag     *)
(* that the answer will set; the command goes to the send queue.           *)
heart_request(r) ==
    /\ rf_now' = r
    /\ received' = [received EXCEPT ![r] = FALSE]

button_request(r) ==
    /\ rf_now' = r
    /\ testreceived' = [testreceived EXCEPT ![r] = FALSE]

(* An exchange on r succeeded: radio_refresh up to its rf_now = !rf_now,   *)
(* and the same assignments of the button test.                            *)
Refresh(r) ==
    /\ retry' = [retry EXCEPT ![r] = 0]
    /\ LinkRefresh(r)

(* Mutant of rf_offline: the startup flag is not consulted. *)
rf_offline_always(r, was) ==
    /\ alive' = [alive EXCEPT ![r] = FALSE]
    /\ startup' = [startup EXCEPT ![r] = TRUE]
    /\ rf_event' = rf_event \cup {OfflineOf(r)}

(* rf_offline after its test of alive, which has found was: report r to    *)
(* the warning thread unless it is known dead.                             *)
rf_offline(r, was) ==
    CASE was        -> /\ alive' = [alive EXCEPT ![r] = FALSE]
                       /\ rf_event' = rf_event \cup {OfflineOf(r)}
                       /\ UNCHANGED startup
      [] ~was /\ ~startup[r]
                    -> /\ startup' = [startup EXCEPT ![r] = TRUE]
                       /\ rf_event' = rf_event \cup {OfflineOf(r)}
                       /\ UNCHANGED alive
      [] OTHER      -> UNCHANGED linkVars

(* The final attempt failed. *)
GiveUp(r, was) ==
    /\ rf_offline(r, was)
    /\ retry' = [retry EXCEPT ![r] = 0]

(* retry++ of one failed attempt before the final one: the store of the    *)
(* value n that was loaded before.                                         *)
StoreCount(r, n) == retry' = [retry EXCEPT ![r] = n + 1]

-----------------------------------------------------------------------------
(* Timers.                                                                 *)

(* connect_timer_callback.  The period (5000 ms) is longer than one pass   *)
(* of the heart thread through its connect branch (2000 ms), so the thread *)
(* is back at its semaphores and the previous tick has been taken.         *)
ConnectTick ==
    /\ connect_on /\ hpc = "idle" /\ connect_sem = 0
    /\ connect_sem' = 1
    /\ UNCHANGED <<linkVars, radioVars, connect_on, heartVars, buttonVars, lockVars, spent>>

(* The button test is in an attempt on the radio of the heartbeat, whose   *)
(* counter the third miss of the heart thread took past Final.             *)
Overtaken ==
    /\ binfo = htemp /\ retry[htemp] = Dead
    /\ bpc \in {"wait", "final", "flipoff", "flippedoff", "freeoff", "test", "off"}

(* heart_timer_callback; the timer is one-shot, set to 100 ms at least,    *)
(* and the thread that started it is back at its semaphores.  An attempt   *)
(* of the test (2000 ms and a log record) that began before the third miss *)
(* was counted is over when the next heartbeat is judged, 1000 ms, a       *)
(* random wait and 2000 ms later.                                          *)
HeartTick ==
    /\ heart_armed /\ hpc = "idle"
    /\ heart_mode = "check" => ~Overtaken
    /\ heart_armed' = FALSE
    /\ heart_sem' = heart_sem + 1
    /\ UNCHANGED <<linkVars, radioVars, connectVars, heart_mode, hpc, htemp, hreg,
                   buttonVars, lockVars, spent>>

-----------------------------------------------------------------------------
(* heart_callback, the connect branch.                                     *)

HConnect ==
    /\ hpc = "idle" /\ connect_sem > 0
    /\ connect_sem' = connect_sem - 1
    /\ heart_request(R433)
    /\ hpc' = "conn_wait"
    /\ UNCHANGED <<linkVars, retry, testreceived, connect_on, heart_armed,
                   heart_sem, heart_mode, htemp, hreg, buttonVars, lockVars>>

(* The 2000 ms are over: File_Output if the peer answered. *)
HConnectWake ==
    /\ hpc = "conn_wait"
    /\ hpc' = IF received[R433] THEN "conn_log" ELSE "idle"
    /\ UNCHANGED <<linkVars, radioVars, connectVars, heart_armed, heart_sem,
                   heart_mode, htemp, hreg, buttonVars, lockVars>>

HConnected ==
    /\ hpc = "conn_log"
    /\ connect_on' = FALSE
    /\ Refresh(R433)
    /\ hpc' = "cturn"
    /\ UNCHANGED <<rf_now, received, testreceived, connect_sem, heart_armed,
                   heart_sem, heart_mode, htemp, hreg, buttonVars, lockVars>>

-----------------------------------------------------------------------------
(* heart_callback, the heartbeat branch: one pass per heart_sem.           *)

Beat(mode) ==
    /\ hpc = "idle" /\ heart_sem > 0 /\ heart_mode = mode

(* Case send: info_temp is chosen ... *)
HSend ==
    /\ Beat("send")
    /\ heart_sem' = heart_sem - 1
    /\ htemp' = rf_now
    /\ hpc' = "ask"
    /\ UNCHANGED <<linkVars, radioVars, connectVars, heart_armed, heart_mode, hreg,
                   buttonVars, lockVars>>

(* ... rf_now is loaded again as the argument of heart_request ... *)
HAsk ==
    /\ hpc = "ask"
    /\ hreg' = rf_now
    /\ hpc' = "asked"
    /\ UNCHANGED <<linkVars, radioVars, connectVars, heart_armed, heart_sem,
                   heart_mode, htemp, buttonVars, lockVars>>

(* ... which stores it back. *)
HAsked ==
    /\ hpc = "asked"
    /\ heart_request(hreg)
    /\ hreg' = 0
    /\ heart_armed' = TRUE
    /\ heart_mode' = "check"
    /\ hpc' = "lock"
    /\ UNCHANGED <<linkVars, retry, testreceived, connectVars, heart_sem, htemp,
                   buttonVars, lockVars>>

(* rt_mutex_trytake after the request; its result is ignored. *)
HLock ==
    /\ hpc = "lock"
    /\ IF CanTake("heart") THEN Take("heart") ELSE UNCHANGED lockVars
    /\ hpc' = "idle"
    /\ UNCHANGED <<linkVars, radioVars, connectVars, heart_armed, heart_sem,
                   heart_mode, htemp, hreg, buttonVars>>

(* Case check.  Answer received on attempt 1 to 3: File_Output, then HOk. *)
HAnswered ==
    /\ Beat("check") /\ retry[htemp] < Final /\ received[htemp]
    /\ heart_sem' = heart_sem - 1
    /\ heart_mode' = "send"
    /\ hpc' = "ok"
    /\ UNCHANGED <<linkVars, radioVars, connectVars, heart_armed, htemp, hreg,
                   buttonVars, lockVars>>

(* A success is accounted for: after HAnswered, or on attempt 4. *)
HOk ==
    /\ hpc = "ok" \/ (hpc = "final" /\ received[htemp])
    /\ Refresh(htemp)
    /\ hpc' = "turn"
    /\ UNCHANGED <<rf_now, received, testreceived, connectVars, heart_armed,
                   heart_sem, heart_mode, htemp, hreg, buttonVars, lockVars>>

(* rf_now = !rf_now of radio_refresh: the load ... *)
HTurn ==
    /\ hpc \in {"turn", "cturn"}
    /\ hreg' = rf_now
    /\ hpc' = IF hpc = "turn" THEN "turned" ELSE "cturned"
    /\ UNCHANGED <<linkVars, radioVars, connectVars, heart_armed, heart_sem,
                   heart_mode, htemp, buttonVars, lockVars>>

(* ... and the store; the next heartbeat is scheduled. *)
HTurned ==
    /\ hpc \in {"turned", "cturned"}
    /\ rf_now' = Other(hreg)
    /\ hreg' = 0
    /\ heart_armed' = TRUE
    /\ heart_mode' = "send"
    /\ hpc' = IF hpc = "turned" THEN "unlock" ELSE "idle"
    /\ UNCHANGED <<linkVars, retry, received, testreceived, connectVars, heart_sem,
                   htemp, buttonVars, lockVars>>

(* Mutant of HMissed: the last attempt is counted like the third. *)
HMissedLast ==
    /\ Beat("check") /\ retry[htemp] <= Final /\ ~received[htemp]
    /\ heart_sem' = heart_sem - 1
    /\ heart_mode' = IF retry[htemp] < Final - 1 THEN "randtime_7" ELSE "randtime_8"
    /\ hpc' = "miss"
    /\ UNCHANGED <<linkVars, radioVars, connectVars, heart_armed, htemp, hreg,
                   buttonVars, lockVars>>

(* No answer on attempt 1 to 3. *)
HMissed ==
    /\ Beat("check") /\ retry[htemp] < Final /\ ~received[htemp]
    /\ heart_sem' = heart_sem - 1
    /\ heart_mode' = IF retry[htemp] < Final - 1 THEN "randtime_7" ELSE "randtime_8"
    /\ hpc' = "miss"
    /\ UNCHANGED <<linkVars, radioVars, connectVars, heart_armed, htemp, hreg,
                   buttonVars, lockVars>>

(* retry++: the load ... *)
HCount ==
    /\ hpc = "miss"
    /\ hreg' = retry[htemp]
    /\ hpc' = "count"
    /\ UNCHANGED <<linkVars, radioVars, connectVars, heart_armed, heart_sem,
                   heart_mode, htemp, buttonVars, lockVars>>

(* Mutant of HCounted: after attempt 3 the thread signals itself as well. *)
HCountedSignals ==
    /\ hpc = "count"
    /\ StoreCount(htemp, hreg)
    /\ hreg' = 0
    /\ heart_sem' = heart_sem + 1
    /\ heart_armed' = (heart_mode = "randtime_8")
    /\ hpc' = "unlock"
    /\ UNCHANGED <<linkVars, rf_now, received, testreceived, connectVars,
                   heart_mode, htemp, buttonVars, lockVars>>

(* Mutant of HCounted: the switch is left without the release. *)
HCountedKeepsLock ==
    /\ hpc = "count"
    /\ StoreCount(htemp, hreg)
    /\ hreg' = 0
    /\ IF heart_mode = "randtime_7"
       THEN heart_sem' = heart_sem + 1 /\ UNCHANGED heart_armed
       ELSE heart_armed' = TRUE /\ UNCHANGED heart_sem
    /\ hpc' = "idle"
    /\ UNCHANGED <<linkVars, rf_now, received, testreceived, connectVars,
                   heart_mode, htemp, buttonVars, lockVars>>

(* ... and the store.  After attempts 1 and 2 the thread signals itself,   *)
(* after attempt 3 it waits one more second.                               *)
HCounted ==
    /\ hpc = "count"
    /\ StoreCount(htemp, hreg)
    /\ hreg' = 0
    /\ IF heart_mode = "randtime_7"
       THEN heart_sem' = heart_sem + 1 /\ UNCHANGED heart_armed
       ELSE heart_armed' = TRUE /\ UNCHANGED heart_sem
    /\ hpc' = "unlock"
    /\ UNCHANGED <<linkVars, rf_now, received, testreceived, connectVars,
                   heart_mode, htemp, buttonVars, lockVars>>

(* Attempt 4 is logged first (File_Output) and judged afterwards. *)
HFinal ==
    /\ Beat("check") /\ retry[htemp] = Final
    /\ heart_sem' = heart_sem - 1
    /\ hpc' = "final"
    /\ UNCHANGED <<linkVars, radioVars, connectVars, heart_armed, heart_mode,
                   htemp, hreg, buttonVars, lockVars>>

(* The failure is counted against rf_now; rf_now = !rf_now: the load ... *)
HFinalFail ==
    /\ hpc = "final" /\ ~received[htemp]
    /\ hreg' = rf_now
    /\ hpc' = "flip"
    /\ UNCHANGED <<linkVars, radioVars, connectVars, heart_armed, heart_sem,
                   heart_mode, htemp, buttonVars, lockVars>>

(* Mutant of HFlip: the other radio is not selected. *)
HFlipStays ==
    /\ hpc = "flip"
    /\ hreg' = 0
    /\ hpc' = "test"
    /\ UNCHANGED <<linkVars, radioVars, connectVars, heart_armed, heart_sem,
                   heart_mode, htemp, buttonVars, lockVars>>

(* ... and the store. *)
HFlip ==
    /\ hpc = "flip"
    /\ rf_now' = Other(hreg)
    /\ hreg' = 0
    /\ hpc' = "test"
    /\ UNCHANGED <<linkVars, retry, received, testreceived, connectVars,
                   heart_armed, heart_sem, heart_mode, htemp, buttonVars, lockVars>>

(* rf_offline: the test of alive ... *)
HTest ==
    /\ hpc = "test"
    /\ hreg' = One(alive[htemp])
    /\ hpc' = "off"
    /\ UNCHANGED <<linkVars, radioVars, connectVars, heart_armed, heart_sem,
                   heart_mode, htemp, buttonVars, lockVars>>

(* ... and the rest; the other radio is asked at once. *)
HOff ==
    /\ hpc = "off"
    /\ GiveUp(htemp, hreg = 1)
    /\ hreg' = 0
    /\ heart_sem' = heart_sem + 1
    /\ heart_mode' = "send"
    /\ hpc' = "unlock"
    /\ UNCHANGED <<rf_now, received, testreceived, connectVars, heart_armed,
                   htemp, buttonVars, lockVars>>

(* retry is beyond every case of the switch: nothing but the release. *)
HNoCase ==
    /\ Beat("check") /\ retry[htemp] > Final
    /\ heart_sem' = heart_sem - 1
    /\ hpc' = "unlock"
    /\ UNCHANGED <<linkVars, radioVars, connectVars, heart_armed, heart_mode,
                   htemp, hreg, buttonVars, lockVars>>

(* The end of case check. *)
HUnlock ==
    /\ hpc = "unlock"
    /\ Release("heart")
    /\ hpc' = "idle"
    /\ UNCHANGED <<linkVars, radioVars, connectVars, heart_armed, heart_sem,
                   heart_mode, htemp, hreg, buttonVars>>

HRand ==
    /\ Beat("randtime_7") \/ Beat("randtime_8")
    /\ heart_sem' = heart_sem - 1
    /\ heart_mode' = "send"
    /\ heart_armed' = TRUE
    /\ UNCHANGED <<linkVars, radioVars, connectVars, hpc, htemp, hreg, buttonVars, lockVars>>

HeartStep ==
    \/ HConnect \/ HConnectWake \/ HConnected
    \/ HSend \/ HAsk \/ HAsked \/ HLock
    \/ HAnswered \/ HOk \/ HTurn \/ HTurned
    \/ HMissed \/ HCount \/ HCounted
    \/ HFinal \/ HFinalFail \/ HFlip \/ HTest \/ HOff
    \/ HNoCase \/ HUnlock \/ HRand

HeartThread ==
    /\ spent # "heart"
    /\ HeartStep
    /\ spent' = HeartSpends

-----------------------------------------------------------------------------
(* buttontest_callback.                                                    *)

(* The top of the loop: the record is selected before the wait for the     *)
(* click, and again after 100 ms without one ...                           *)
BSelect ==
    /\ bpc = "top" \/ (bpc = "take" /\ button_sem = 0)
    /\ binfo' = rf_now
    /\ bpc' = "take"
    /\ UNCHANGED <<linkVars, radioVars, connectVars, heartVars, button_sem, bcase,
                   breg, lockVars>>

(* ... and the radio that is asked after it: rf_now is loaded as the       *)
(* argument of button_request ...                                          *)
BTake ==
    /\ bpc = "take" /\ button_sem > 0
    /\ button_sem' = button_sem - 1
    /\ breg' = rf_now
    /\ bpc' = "ask"
    /\ UNCHANGED <<linkVars, radioVars, connectVars, heartVars, binfo, bcase, lockVars>>

(* ... which stores it back, without rf_lock. *)
BAsk ==
    /\ bpc = "ask"
    /\ button_request(breg)
    /\ breg' = 0
    /\ bpc' = "switch"
    /\ UNCHANGED <<linkVars, retry, received, connectVars, heartVars, button_sem,
                   binfo, bcase, lockVars>>

(* Mutant of BSwitch: a default case, handled like case 3. *)
BSwitchDefault ==
    /\ bpc = "switch"
    /\ bcase' = IF retry[binfo] <= Final THEN retry[binfo] ELSE Final
    /\ bpc' = "wait"
    /\ UNCHANGED <<linkVars, radioVars, connectVars, heartVars, button_sem,
                   binfo, breg, lockVars>>

(* switch(info_temp->retry): a value beyond the cases is not judged. *)
BSwitch ==
    /\ bpc = "switch"
    /\ IF retry[binfo] <= Final
       THEN bcase' = retry[binfo] /\ bpc' = "wait"
       ELSE bpc' = "top" /\ UNCHANGED bcase
    /\ UNCHANGED <<linkVars, radioVars, connectVars, heartVars, button_sem,
                   binfo, breg, lockVars>>

(* The 2000 ms are over.  Attempts 1 to 3 log only a success, attempt 4    *)
(* logs (File_Output) before it is judged.                                 *)
BWake ==
    /\ bpc = "wait" /\ (bcase = Final \/ testreceived[binfo])
    /\ bpc' = IF bcase = Final THEN "final" ELSE "ok"
    /\ bcase' = 0
    /\ UNCHANGED <<linkVars, radioVars, connectVars, heartVars,
                   button_sem, binfo, breg, lockVars>>

(* A failed attempt before the last; retry++: the load ... *)
BMissed ==
    /\ bpc = "wait" /\ bcase # Final /\ ~testreceived[binfo]
    /\ breg' = retry[binfo]
    /\ bcase' = 0
    /\ bpc' = "count"
    /\ UNCHANGED <<linkVars, radioVars, connectVars, heartVars, button_sem, binfo,
                   lockVars>>

(* ... and the store. *)
BCounted ==
    /\ bpc = "count"
    /\ StoreCount(binfo, breg)
    /\ breg' = 0
    /\ bpc' = "top"
    /\ UNCHANGED <<linkVars, rf_now, received, testreceived, connectVars,
                   heartVars, button_sem, binfo, bcase, lockVars>>

BOk ==
    /\ bpc = "ok" \/ (bpc = "final" /\ testreceived[binfo])
    /\ Refresh(binfo)
    /\ bpc' = "try"
    /\ UNCHANGED <<rf_now, received, testreceived, connectVars, heartVars,
                   button_sem, binfo, bcase, breg, lockVars>>

(* rt_mutex_trytake(rf_lock) before the switch of rf_now. *)
BTry ==
    /\ bpc = "try"
    /\ IF CanTake("button")
       THEN Take("button") /\ bpc' = "flip"
       ELSE UNCHANGED lockVars /\ bpc' = "top"
    /\ UNCHANGED <<linkVars, radioVars, connectVars, heartVars,
                   button_sem, binfo, bcase, breg>>

(* The final attempt failed, which is counted against rf_now: the radio is *)
(* switched in the same way before it is given up.                         *)
BFinalFail ==
    /\ bpc = "final" /\ ~testreceived[binfo]
    /\ IF CanTake("button")
       THEN Take("button") /\ bpc' = "flipoff"
       ELSE UNCHANGED lockVars /\ bpc' = "test"
    /\ UNCHANGED <<linkVars, radioVars, connectVars, heartVars,
                   button_sem, binfo, bcase, breg>>

(* rf_now = !rf_now under rf_lock: the load, the store and the release. *)
BFlip ==
    /\ bpc \in {"flip", "flipoff"}
    /\ breg' = rf_now
    /\ bpc' = IF bpc = "flip" THEN "flipped" ELSE "flippedoff"
    /\ UNCHANGED <<linkVars, radioVars, connectVars, heartVars, button_sem, binfo,
                   bcase, lockVars>>

BFlipped ==
    /\ bpc \in {"flipped", "flippedoff"}
    /\ rf_now' = Other(breg)
    /\ breg' = 0
    /\ bpc' = IF bpc = "flipped" THEN "free" ELSE "freeoff"
    /\ UNCHANGED <<linkVars, retry, received, testreceived, connectVars, heartVars,
                   button_sem, binfo, bcase, lockVars>>

BFree ==
    /\ bpc \in {"free", "freeoff"}
    /\ Release("button")
    /\ bpc' = IF bpc = "free" THEN "top" ELSE "test"
    /\ UNCHANGED <<linkVars, radioVars, connectVars, heartVars, button_sem, binfo,
                   bcase, breg>>

(* rf_offline, as in HTest and HOff. *)
BTest ==
    /\ bpc = "test"
    /\ breg' = One(alive[binfo])
    /\ bpc' = "off"
    /\ UNCHANGED <<linkVars, radioVars, connectVars, heartVars, button_sem, binfo,
                   bcase, lockVars>>

BOff ==
    /\ bpc = "off"
    /\ GiveUp(binfo, breg = 1)
    /\ breg' = 0
    /\ bpc' = "top"
    /\ UNCHANGED <<rf_now, received, testreceived, connectVars, heartVars,
                   button_sem, binfo, bcase, lockVars>>

ButtonStep ==
    \/ BSelect \/ BTake \/ BAsk \/ BSwitch \/ BWake
    \/ BMissed \/ BCounted \/ BOk \/ BTry \/ BFinalFail
    \/ BFlip \/ BFlipped \/ BFree \/ BTest \/ BOff

ButtonThread ==
    /\ spent # "button"
    /\ ButtonStep
    /\ spent' = ButtonSpends

-----------------------------------------------------------------------------
(* The environment: the button, the peer and the warning thread.           *)

(* test_single_callback -> heart_single *)
Click ==
    /\ BothBlocked /\ button_sem < MaxPending
    /\ button_sem' = button_sem + 1
    /\ UNCHANGED <<linkVars, radioVars, connectVars, heartVars, bpc, binfo,
                   bcase, breg, lockVars, spent>>

(* Solve_433 / Solve_4068 for a message with command c.  The peer is not   *)
(* part of the program: any message may arrive on any radio at any moment, *)
(* an answer may be late, repeated, on its own (command 2) or never come.  *)
Solve(r, c) ==
    /\ BothBlocked
    /\ LinkOnline(r)
    /\ received' = [received EXCEPT ![r] = TRUE]
    /\ testreceived' = [testreceived EXCEPT ![r] = @ \/ c = 1]
    /\ UNCHANGED <<rf_now, retry, connectVars, heartVars, buttonVars, lockVars, spent>>

(* rt_event_recv of the warning thread, with RT_EVENT_FLAG_CLEAR. *)
WarnRecv ==
    /\ BothBlocked
    /\ LinkRecv
    /\ UNCHANGED <<radioVars, connectVars, heartVars, buttonVars, lockVars, spent>>

Next ==
    \/ ConnectTick \/ HeartTick
    \/ HeartThread \/ ButtonThread
    \/ Click \/ WarnRecv
    \/ \E r \in Radios, c \in Commands : Solve(r, c)

(* The timer thread and the two threads run whenever they can: they have   *)
(* the highest priorities of the program (4 and 7).  Nothing is assumed of *)
(* the peer, the button or the warning thread.                             *)
Fairness ==
    /\ WF_vars(ConnectTick)
    /\ WF_vars(HeartTick)
    /\ WF_vars(HeartThread)
    /\ WF_vars(ButtonThread)

Spec == Init /\ [][Next]_vars
FairSpec == Spec /\ Fairness

-----------------------------------------------------------------------------
(* Properties.                                                             *)

(* The heart thread is in the middle of a beat that it has taken and not   *)
(* yet replaced by a timer or a semaphore release.                         *)
InBeat == hpc \in {"cturn", "cturned", "ask", "asked", "ok", "final", "miss",
                   "count", "turn", "turned", "flip", "test", "off"}

(* The supervision has stopped: the heart thread waits for an answer that  *)
(* no case of switch(retry) judges, and nothing will wake it.              *)
Stalled ==
    /\ heart_mode = "check" /\ hpc \in {"idle", "unlock"}
    /\ ~heart_armed /\ heart_sem = 0
    /\ retry[htemp] = Dead

(* Once connected there is exactly one beat to come: one armed heart_timer *)
(* or one heart_sem or one beat in progress, never two (a doubled          *)
(* heartbeat) and none only when Stalled.                                  *)
OneBeatPending ==
    IF connect_on
    THEN ~heart_armed /\ heart_sem = 0 /\ ~InBeat
    ELSE \/ heart_armed  /\ heart_sem = 0 /\ ~InBeat
         \/ ~heart_armed /\ heart_sem = 1 /\ ~InBeat
         \/ ~heart_armed /\ heart_sem = 0 /\ InBeat
         \/ Stalled

(* rf_lock is never leaked and never taken twice: the heart thread owns it *)
(* only between the send and the judgement of a heartbeat, the button test *)
(* only around its switch of rf_now.  A leak would freeze rf_now for every *)
(* later button test, because a failed trytake skips the switch.           *)
LockOnlyInExchange ==
    /\ owner = "heart" => /\ hold = 1
                          /\ \/ hpc = "idle" /\ heart_mode = "check"
                             \/ hpc \in {"ok", "final", "miss", "count", "turn",
                                         "turned", "flip", "test", "off", "unlock"}
    /\ owner = "button" <=> bpc \in {"flip", "flipped", "free",
                                     "flipoff", "flippedoff", "freeoff"}
    /\ owner = "button" => hold = 1
    /\ owner = "none" => hold = 0

(* The two threads count the failures of a radio in one counter, each with *)
(* a test, a load and a store that the other may get between.  It exceeds  *)
(* Final by at most one.                                                   *)
RetryBounded ==
    \A r \in Radios : retry[r] <= Dead

(* What the code of the two phases relies on: until the connection is made *)
(* there is no heartbeat, afterwards connect_timer is silent, a radio that *)
(* is alive has been classified, and one that a thread has found alive and *)
(* the other has given up since is still reported: the warning thread has  *)
(* not run in between.                                                     *)
PhaseInv ==
    /\ IF connect_on
       THEN /\ heart_mode = "send" /\ owner # "heart"
            /\ hpc \in {"idle", "conn_wait", "conn_log"}
       ELSE /\ connect_sem = 0
            /\ hpc \notin {"conn_wait", "conn_log"}
    /\ hpc \in {"conn_wait", "conn_log"} => connect_sem = 0
    /\ connect_sem <= 1
    /\ hpc = "lock" => heart_mode = "check" /\ heart_armed /\ owner # "heart"
    /\ hpc \in {"ok", "ask", "asked", "cturn", "cturned"} => heart_mode = "send"
    /\ hpc \in {"final", "flip", "test", "off"} => heart_mode = "check"
    /\ hpc \in {"turn", "turned"} => heart_mode \in {"send", "check"}
    /\ hpc \in {"miss", "count"} => heart_mode \in {"randtime_7", "randtime_8"}
    /\ hpc = "unlock" /\ heart_mode = "check" => Stalled
    /\ spent = "heart"  => hpc \in HeartRests /\ ButtonRuns
    /\ spent = "button" => bpc \in ButtonRests /\ hpc \in HeartReady
    /\ \A r \in Radios : alive[r] => startup[r]
    /\ hpc = "off" /\ hreg = 1 => alive[htemp] \/ OfflineOf(htemp) \in rf_event
    /\ bpc = "off" /\ breg = 1 => alive[binfo] \/ OfflineOf(binfo) \in rf_event

(* A thread has found retry[r] below Final and is going to count, or, the  *)
(* button test, to reset it.                                               *)
HeartCounts(r) ==
    hpc \in {"miss", "count"} /\ htemp = r
ButtonCounts(r) ==
    (bpc \in {"count", "ok"} \/ (bpc = "wait" /\ bcase # Final)) /\ binfo = r

(* Why RetryBounded holds.  A counter has room for every thread that is    *)
(* going to count, and so has the value a thread has loaded, although the  *)
(* other may have stored in between: a thread that has counted blocks      *)
(* before it is judged again.                                              *)
CountInv ==
    /\ \A r \in Radios :
           retry[r] + One(HeartCounts(r)) + One(ButtonCounts(r)) <= Dead
    /\ hpc = "count" => hreg + 1 + One(ButtonCounts(htemp)) <= Dead
    /\ bpc = "count" => breg + 1 + One(HeartCounts(binfo)) <= Dead
    /\ (hpc = "miss" /\ retry[htemp] = Final) \/ (hpc = "count" /\ hreg = Final)
          => \/ spent = "button"
             \/ retry[htemp] = Final /\ bpc \in {"top", "take", "ask", "switch"}
    /\ bpc = "count" /\ hpc = "idle" /\ spent # "heart" => breg = retry[binfo]

(* A heartbeat is not judged while it is Overtaken. *)
JudgedAlone ==
    heart_mode = "check" /\ ~heart_armed /\ hpc \in {"idle", "unlock"}
        => ~Overtaken

(* The inductive invariant of Spec. *)
HeartInv ==
    /\ TypeOK
    /\ PhaseInv
    /\ OneBeatPending
    /\ LockOnlyInExchange
    /\ CountInv
    /\ JudgedAlone

(* A stalled supervision stays stalled: neither a late answer nor a later  *)
(* click brings the heart thread back, because the button test does not    *)
(* judge a radio whose counter is past Final either.                       *)
StallIsPermanent == [][Stalled => Stalled']_vars

(* No message of the peer arrives on r any more. *)
PeerSilent(r) ==
    <>[][~ \E c \in Commands : Solve(r, c)]_vars

(* A radio whose peer has fallen silent is eventually held to be dead and  *)
(* stays so: however the answers before were lost or late, the retries     *)
(* come to an end.                                                         *)
SilentPeerGoesOffline ==
    \A r \in Radios : PeerSilent(r) => <>[](~alive[r])

(* Once connected, each radio is selected again and again: a dead radio    *)
(* does not keep the other one from being supervised.                      *)
EachRadioSupervised ==
    \A r \in Radios : []<>(~connect_on => rf_now = r)

(* heart.c:331 says that mode check is the check of the answer             *)
(* ("应答检查"): every heartbeat that waits for its answer is judged.      *)
EveryHeartbeatJudged == (heart_mode = "check") ~> (heart_mode # "check")

(* heart.c:200-275 report the result of a test, and heart.c:339-395 that   *)
(* of a heartbeat, as that of the radio of info_temp ("radio_%d first      *)
(* heart success").  The test is sent on it, and if the last attempt fails *)
(* the failure is counted against it; the answer to a heartbeat is         *)
(* recorded, its failure counted, as that of this radio, since rf_lock is  *)
(* held from the request to the judgement.                                 *)
JudgesRadioAsked ==
    [][/\ BAsk => binfo = breg
       /\ BFinalFail => binfo = rf_now
       /\ HAnswered \/ HFinalFail => htemp = rf_now]_vars

=============================================================================
