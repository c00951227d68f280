-------------------------------- MODULE Warn --------------------------------
(***************************************************************************)
(* The warning thread (src/applications/warn.c) with the buzzer and the    *)
(* signal bars of src/applications/led.c.  It takes the events that link   *)
(* supervision raises (module RfLink, whose steps are those of Heart) and  *)
(* reacts to the first of them in the order of its else-if chain; the      *)
(* others of the same set are lost.  It has the lowest priority (12), so   *)
(* supervision and the radio threads may run between any two of its steps. *)
(*                                                                         *)
(* Bars and buzzer are represented by the mode they were last started in;  *)
(* the lamps that psi_led_lost and psi_led_resume switch are in Panel.     *)
(***************************************************************************)
EXTENDS Naturals, RfLink

CONSTANTS
    Levels,     \* the signal levels that occur: 2 is weak, 3 stands for 3 to 5
    Manual      \* the radios on which the peer sends manual control (command 2)

ASSUME LevelsAssumption == Levels \subseteq {2, 3} /\ Levels # {}
ASSUME ManualAssumption == Manual \subseteq Radios

NoLevel == 0        \* rssi_level before the first message, a bar never started
LostLevel == 1      \* led_rf433_start(1)
Silent == 0         \* beep_mode after beep_stop
Weak == 1           \* one beep every 10 s
OneLost == 2        \* two beeps every 5 s
AllLost == 3        \* three beeps every 5 s
Held == 4           \* five beeps, once: the long press

VARIABLES
    rssi_level,     \* rf_info.rssi_level of each radio
    bar,            \* what the signal bar of each radio shows
    Psi_Lost,       \* psi.c: the status lamps show that the link is lost
    beep_mode,
    wpc,            \* where the warning thread is
    event,          \* the event it reacts to, <<kind, radio>>
    wmode,          \* the mode the buzzer will be started in
    solving,        \* radios whose thread is writing a message to the log
    holding,        \* the button was held: the device is about to reboot
    heard,          \* history: dead radios with a message since they failed
    unshown         \* history: the other dead radios whose bar need not be red

panelVars == <<rssi_level, bar, Psi_Lost, beep_mode>>
warnVars == <<wpc, event, wmode>>
historyVars == <<heard, unshown>>
vars == <<linkVars, panelVars, warnVars, solving, holding, historyVars>>

NoEvent == <<"none", R433>>
WarnPcs == {"idle", "decide", "resume", "lost", "beep", "online"}

TypeOK ==
    /\ LinkTypeOK
    /\ rssi_level \in [Radios -> Levels \cup {NoLevel}]
    /\ bar \in [Radios -> Levels \cup {NoLevel, LostLevel}]
    /\ Psi_Lost \in BOOLEAN
    /\ beep_mode \in {Silent, Weak, OneLost, AllLost, Held}
    /\ wpc \in WarnPcs /\ event \in Events \cup {NoEvent}
    /\ wmode \in {Silent, OneLost, AllLost}
    /\ solving \subseteq Radios /\ holding \in BOOLEAN
    /\ heard \subseteq Radios /\ unshown \subseteq Radios

Init ==
    /\ LinkInit
    /\ rssi_level = [r \in Radios |-> NoLevel]
    /\ bar = [r \in Radios |-> NoLevel]
    /\ Psi_Lost = FALSE /\ beep_mode = Silent
    /\ wpc = "idle" /\ event = NoEvent /\ wmode = Silent
    /\ solving = {} /\ holding = FALSE
    /\ heard = {} /\ unshown = {}

Other(r) == 1 - r
Dead(r) == startup[r] /\ ~alive[r]

(* led_rf433_start / led_rf4068_start *)
ShowBar(r, l) == bar' = [bar EXCEPT ![r] = l]

-----------------------------------------------------------------------------
(* Supervision and the radio threads.                                      *)

Refresh(r) ==
    /\ LinkRefresh(r)
    /\ heard' = heard \ {r} /\ unshown' = unshown \ {r}
    /\ UNCHANGED <<panelVars, warnVars, solving, holding>>

Offline(r) ==
    /\ LinkOffline(r)
    /\ heard' = heard \ {r}
    /\ unshown' = IF r \in solving THEN unshown \cup {r} ELSE unshown \ {r}
    /\ UNCHANGED <<panelVars, warnVars, solving, holding>>

(* Solve_433 / Solve_4068 for a message of signal level l.  Manual control *)
(* (command 2) is written to the log before the bar is started: the thread *)
(* of the radio blocks, and every other thread may run.                    *)
Message(r, l, manual) ==
    /\ r \notin solving /\ (manual => r \in Manual)
    /\ LinkOnline(r)
    /\ rssi_level' = [rssi_level EXCEPT ![r] = l]
    /\ IF manual THEN solving' = solving \cup {r} /\ UNCHANGED bar
       ELSE ShowBar(r, l) /\ UNCHANGED solving
    /\ heard' = IF Dead(r) THEN heard \cup {r} ELSE heard
    /\ unshown' = unshown \ {r}
    /\ UNCHANGED <<Psi_Lost, beep_mode, warnVars, holding>>

(* rf_write has returned. *)
Solved(r) ==
    /\ r \in solving
    /\ solving' = solving \ {r}
    /\ ShowBar(r, rssi_level[r])
    /\ UNCHANGED <<linkVars, rssi_level, Psi_Lost, beep_mode, warnVars, holding,
                   historyVars>>

-----------------------------------------------------------------------------
(* warn_callback.                                                          *)

Goto(label) == wpc' = label

(* Mutant of First: Online before Offline. *)
FirstOnline(e) ==
    IF OnlineOf(R433) \in e THEN OnlineOf(R433)
    ELSE IF OnlineOf(R4068) \in e THEN OnlineOf(R4068)
    ELSE IF OfflineOf(R433) \in e THEN OfflineOf(R433)
    ELSE OfflineOf(R4068)

(* The else-if chain: the event of the set e that is handled. *)
First(e) ==
    IF OfflineOf(R433) \in e THEN OfflineOf(R433)
    ELSE IF OfflineOf(R4068) \in e THEN OfflineOf(R4068)
    ELSE IF OnlineOf(R433) \in e THEN OnlineOf(R433)
    ELSE OnlineOf(R4068)

(* The dead radios whose Offline event is taken and not handled. *)
Dropped ==
    {r \in Radios \ heard : Dead(r) /\ OfflineOf(r) \in rf_event
                             /\ First(rf_event) # OfflineOf(r)}

(* Mutant of Recv: the bar of the failed radio is left alone. *)
RecvKeepsBar ==
    /\ wpc = "idle" /\ LinkRecv
    /\ event' = First(rf_event)
    /\ unshown' = unshown \cup Dropped
    /\ Goto(IF event'[1] = "Offline" THEN "decide" ELSE "resume")
    /\ UNCHANGED <<panelVars, wmode, solving, holding, heard>>

(* rt_event_recv; for an Offline event led_rf433_start(1). *)
Recv ==
    /\ wpc = "idle" /\ LinkRecv
    /\ event' = First(rf_event)
    /\ IF event'[1] = "Offline" THEN ShowBar(event'[2], LostLevel) ELSE UNCHANGED bar
    /\ unshown' = unshown \cup Dropped
    /\ Goto(IF event'[1] = "Offline" THEN "decide" ELSE "resume")
    /\ UNCHANGED <<rssi_level, Psi_Lost, beep_mode, wmode, solving, holding, heard>>

(* Mutant of Decide: a mode that beep_start does not know. *)
DecideNoMode ==
    /\ wpc = "decide"
    /\ IF alive[Other(event[2])]
       THEN Goto("resume") /\ wmode' = OneLost
       ELSE Goto("lost") /\ wmode' = 5
    /\ UNCHANGED <<linkVars, panelVars, event, solving, holding, historyVars>>

(* Offline: is the other radio alive? *)
Decide ==
    /\ wpc = "decide"
    /\ IF alive[Other(event[2])]
       THEN Goto("resume") /\ wmode' = OneLost
       ELSE Goto("lost") /\ wmode' = AllLost
    /\ UNCHANGED <<linkVars, panelVars, event, solving, holding, historyVars>>

(* Mutant of Resume: only the failure of one radio resumes the panel. *)
ResumeOfflineOnly ==
    /\ wpc = "resume"
    /\ Psi_Lost' = (Psi_Lost /\ event[1] = "Online")
    /\ Goto(IF event[1] = "Offline" THEN "beep" ELSE "online")
    /\ UNCHANGED <<linkVars, rssi_level, bar, beep_mode, event, wmode, solving, holding,
                   historyVars>>

(* psi_led_resume *)
Resume ==
    /\ wpc = "resume"
    /\ Psi_Lost' = FALSE
    /\ Goto(IF event[1] = "Offline" THEN "beep" ELSE "online")
    /\ UNCHANGED <<linkVars, rssi_level, bar, beep_mode, event, wmode, solving, holding,
                   historyVars>>

(* psi_led_lost *)
Lost ==
    /\ wpc = "lost"
    /\ Psi_Lost' = TRUE
    /\ Goto("beep")
    /\ UNCHANGED <<linkVars, rssi_level, bar, beep_mode, event, wmode, solving, holding,
                   historyVars>>

(* beep_start: a mode that is sounding already is not started again. *)
beep_start(select) == beep_mode' = select

(* Mutant of beep_calc: two good levels do not stop the buzzer. *)
beep_calc_never_stops ==
    beep_mode' = IF \E r \in Radios : rssi_level[r] = 2 THEN Weak ELSE beep_mode

beep_calc ==
    beep_mode' = IF \E r \in Radios : rssi_level[r] = 2 THEN Weak
                 ELSE IF \A r \in Radios : rssi_level[r] > 2 THEN Silent
                 ELSE beep_mode

Done ==
    /\ Goto("idle")
    /\ event' = NoEvent /\ wmode' = Silent
    /\ UNCHANGED <<linkVars, rssi_level, bar, Psi_Lost, solving, holding, historyVars>>

(* Offline: the buzzer, in the mode decided on before. *)
Beep ==
    /\ wpc = "beep"
    /\ beep_start(wmode)
    /\ Done

(* Mutant of Online: the other radio is not looked at. *)
OnlineIgnoresOther ==
    /\ wpc = "online"
    /\ beep_calc
    /\ Done

(* Online: the buzzer depends on the other radio. *)
Online ==
    LET other == Other(event[2]) IN
    /\ wpc = "online"
    /\ \/ alive[other] /\ beep_calc
       \/ ~alive[other] /\ startup[other] /\ beep_start(OneLost)
       \/ ~alive[other] /\ ~startup[other] /\ UNCHANGED beep_mode
    /\ Done

-----------------------------------------------------------------------------
(* test_hold_callback: the buzzer, three seconds, and the device restarts. *)

Hold ==
    /\ ~holding
    /\ beep_start(Held)
    /\ holding' = TRUE
    /\ UNCHANGED <<linkVars, rssi_level, bar, Psi_Lost, warnVars, solving, historyVars>>

Reboot ==
    /\ holding
    /\ alive' = [r \in Radios |-> FALSE]
    /\ startup' = [r \in Radios |-> FALSE]
    /\ rf_event' = {}
    /\ rssi_level' = [r \in Radios |-> NoLevel]
    /\ bar' = [r \in Radios |-> NoLevel]
    /\ Psi_Lost' = FALSE /\ beep_mode' = Silent
    /\ wpc' = "idle" /\ event' = NoEvent /\ wmode' = Silent
    /\ solving' = {} /\ holding' = FALSE
    /\ heard' = {} /\ unshown' = {}

-----------------------------------------------------------------------------
WarnThread == Recv \/ Decide \/ Resume \/ Lost \/ Beep \/ Online

Next ==
    \/ WarnThread \/ Hold \/ Reboot
    \/ \E r \in Radios :
        \/ Refresh(r) \/ Offline(r) \/ Solved(r)
        \/ \E l \in Levels, manual \in BOOLEAN : Message(r, l, manual)

Spec == Init /\ [][Next]_vars

(* The thread polls every 100 ms; nothing above it runs for ever, and a    *)
(* record gets written.                                                    *)
FairSpec ==
    /\ Spec /\ WF_vars(WarnThread) /\ WF_vars(Reboot)
    /\ \A r \in Radios : WF_vars(Solved(r))

-----------------------------------------------------------------------------
(* Properties.                                                             *)

(* The warning thread has caught up with supervision, and the long press   *)
(* has not taken the buzzer over.                                          *)
CaughtUp == ~holding /\ wpc = "idle" /\ rf_event = {}

(* Two radios that fail together, in whatever order their events are taken *)
(* and merged, are shown as a lost link with the alarm of a lost link, as  *)
(* long as no message has come since.                                      *)
AllDeadIsShown ==
    CaughtUp /\ heard = {} /\ (\A r \in Radios : Dead(r))
        => Psi_Lost /\ beep_mode = AllLost

(* A dead radio is never covered up by messages on the other one: the      *)
(* buzzer sounds the alarm of a lost radio.                                *)
DeadIsAudible ==
    CaughtUp /\ (\E r \in Radios \ heard : Dead(r))
        => beep_mode \in {OneLost, AllLost}

(* A dead radio's bar is red, with two exceptions: its Offline event was   *)
(* merged with that of the other radio and never handled, or a message of  *)
(* manual control was still being logged when the radio failed, whose bar  *)
(* is started afterwards.                                                  *)
DeadRadioIsRed ==
    CaughtUp => \A r \in Radios \ (heard \cup unshown) : Dead(r) => bar[r] = LostLevel

NoMoreFailures == <>[][\A r \in Radios : ~Offline(r)]_vars

(* Messages of radio r keep coming: the thread takes its Online event      *)
(* again and again, and each message sets it.                              *)
KeepsTalking(r) == []<>(OnlineOf(r) \in rf_event)

(* The link is not shown as lost for ever when messages keep coming, even  *)
(* though an Online event may be lost in a merge.                          *)
PanelRecovers ==
    NoMoreFailures /\ (\E r \in Radios : KeepsTalking(r)) => <>[]~Psi_Lost

(* When both radios stay alive, their messages are strong and the button   *)
(* is left alone the buzzer falls silent.                                  *)
AlarmCeases ==
    /\ NoMoreFailures /\ <>[]~holding
    /\ \A r \in Radios : KeepsTalking(r) /\ <>[](alive[r] /\ rssi_level[r] > 2)
    => <>[](beep_mode = Silent)

=============================================================================
