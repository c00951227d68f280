------------------------------- MODULE Panel --------------------------------
(***************************************************************************)
(* The pressure switch and the two status lamps (src/applications/psi.c    *)
(* with the lamp functions of src/applications/led.c): the detection of    *)
(* the switch by interrupt, psi thread (priority 11) and psi_timer (4),    *)
(* the valve status that the radio threads (8) write, and psi_led_lost and *)
(* psi_led_resume, which the warning thread (12, module Warn) may call at  *)
(* any moment.  Nothing is locked.  A handler is split into steps between  *)
(* a test of the shared status and the lamp calls that rest on it; a       *)
(* thread advances only when no thread of higher priority is in the middle *)
(* of its work.  psi_led_lost is one step: once Psi_Lost is set the other  *)
(* handlers leave the lamps alone.  The messages of psi_upload are those   *)
(* of module Heart.                                                        *)
(*                                                                         *)
(* A LED that is started is dark for a while and then lit for good;        *)
(* agile_led_off darkens a LED that is lit but does not end the start of   *)
(* one that is not, only agile_led_stop does (package agile_led).          *)
(***************************************************************************)
EXTENDS Naturals

CONSTANT Limit      \* Psi_Counter must exceed it (4 in the code)

ASSUME LimitAssumption == Limit \in Nat

VARIABLES
    PSI_Status, Valve_Status, Psi_Lost, Psi_Counter,
    psi_sem,
    irq,            \* the interrupt of pin AC is enabled
    psi_timer,      \* psi_timer is running
    transmitter,    \* LED7: the pair of a red and a green LED
    receiver,       \* LED8
    ppc,            \* where the psi thread is
    wpc,            \* where the warning thread is in psi_led_resume
    wtest,          \* the value of PSI_Status that psi_led_resume has tested
    clean           \* history: no handlers overlapped, no LED was darkened
                    \* before it was lit

detectVars == <<Psi_Counter, psi_sem, irq, ppc>>
statusVars == <<PSI_Status, Psi_Lost>>
resumeVars == <<wpc, wtest>>
vars == <<statusVars, Valve_Status, detectVars, psi_timer, transmitter, receiver,
          resumeVars, clean>>

Colours == {"R", "G"}
Lamps == [Colours -> {"dark", "rising", "lit"}]

TypeOK ==
    /\ PSI_Status \in {0, 1} /\ Valve_Status \in 0..2 /\ Psi_Lost \in BOOLEAN
    /\ Psi_Counter \in 0..Limit
    /\ psi_sem \in 0..2
    /\ irq \in BOOLEAN /\ psi_timer \in BOOLEAN
    /\ transmitter \in Lamps /\ receiver \in Lamps
    /\ ppc \in {"idle", "open", "lamp", "arm", "enable"}
    /\ wpc \in {"idle", "lamp", "valve", "call", "on", "off"} /\ wtest \in {0, 1}
    /\ clean \in BOOLEAN

-----------------------------------------------------------------------------
(* The lamps: led.c.                                                       *)

Off(led) == IF led = "lit" THEN "dark" ELSE led

ShowOn(lamp)   == [R |-> Off(lamp.R), G |-> "rising"]
ShowOff        == [R |-> "rising", G |-> "rising"]
ShowLost(lamp) == [R |-> "rising", G |-> Off(lamp.G)]
ShowNothing    == [R |-> "dark", G |-> "dark"]

(* receiver_blink ends with the LEDs lit. *)
Blink(lamp, valve) == IF valve = 1 THEN [lamp EXCEPT !.G = "rising"] ELSE ShowOff

(* led_Init has called psi_led_init. *)
Init ==
    /\ PSI_Status = 0 /\ Valve_Status = 2 /\ Psi_Lost = FALSE
    /\ Psi_Counter = 0 /\ psi_sem = 0 /\ irq = TRUE /\ psi_timer = FALSE
    /\ transmitter = ShowOff /\ receiver = ShowNothing
    /\ ppc = "idle" /\ wpc = "idle" /\ wtest = 0
    /\ clean = TRUE

(* Nobody else is in the middle of a handler (others), and none of the     *)
(* LEDs that the step darkens is being started (leds: their states).       *)
Cleanly(others, leds) ==
    clean' = (clean /\ others /\ "rising" \notin leds)

WarnIdle == wpc = "idle"
PsiIdle == ppc = "idle"

-----------------------------------------------------------------------------
(* Detection of the switch.                                                *)

(* Mutant of Edge: the interrupt stays enabled. *)
EdgeKeepsIrq ==
    /\ irq
    /\ psi_sem' = psi_sem + 1
    /\ UNCHANGED <<statusVars, Valve_Status, Psi_Counter, irq, ppc, psi_timer, transmitter,
                   receiver, resumeVars, clean>>

(* psi_pin_callback *)
Edge ==
    /\ irq
    /\ psi_sem' = psi_sem + 1
    /\ irq' = FALSE
    /\ UNCHANGED <<statusVars, Valve_Status, Psi_Counter, ppc, psi_timer, transmitter,
                   receiver, resumeVars, clean>>

(* psi_thread_callback: a pulse within 100 ms, or none. *)
Poll ==
    /\ ppc = "idle"
    /\ IF psi_sem > 0
       THEN /\ psi_sem' = psi_sem - 1
            /\ Psi_Counter' = IF Psi_Counter + 1 > Limit THEN 0 ELSE Psi_Counter + 1
            /\ ppc' = IF Psi_Counter + 1 > Limit THEN "open" ELSE "enable"
       ELSE /\ Psi_Counter' = 0
            /\ ppc' = "enable"
            /\ UNCHANGED psi_sem
    /\ UNCHANGED <<statusVars, Valve_Status, irq, psi_timer, transmitter, receiver,
                   resumeVars, clean>>

(* psi_open: the guard and the status ... *)
Open ==
    /\ ppc = "open"
    /\ IF PSI_Status = 0 /\ ~Psi_Lost
       THEN PSI_Status' = 1 /\ ppc' = "lamp"
       ELSE ppc' = "arm" /\ UNCHANGED PSI_Status
    /\ UNCHANGED <<Psi_Lost, Valve_Status, Psi_Counter, psi_sem, irq, psi_timer,
                   transmitter, receiver, resumeVars, clean>>

(* ... and the lamp. *)
OpenLamp ==
    /\ ppc = "lamp"
    /\ transmitter' = ShowOn(transmitter)
    /\ ppc' = "arm"
    /\ Cleanly(WarnIdle, {transmitter.R})
    /\ UNCHANGED <<statusVars, Valve_Status, Psi_Counter, psi_sem, irq, psi_timer,
                   receiver, resumeVars>>

(* Mutant of Arm: the timer is not started. *)
ArmMissing ==
    /\ ppc = "arm"
    /\ ppc' = "enable"
    /\ UNCHANGED <<statusVars, Valve_Status, Psi_Counter, psi_sem, irq, psi_timer,
                   transmitter, receiver, resumeVars, clean>>

(* rt_timer_start, also of a timer that is running. *)
Arm ==
    /\ ppc = "arm"
    /\ psi_timer' = TRUE
    /\ ppc' = "enable"
    /\ UNCHANGED <<statusVars, Valve_Status, Psi_Counter, psi_sem, irq,
                   transmitter, receiver, resumeVars, clean>>

(* rt_pin_irq_enable, then the 200 ms. *)
Enable ==
    /\ ppc = "enable"
    /\ irq' = TRUE
    /\ ppc' = "idle"
    /\ UNCHANGED <<statusVars, Valve_Status, Psi_Counter, psi_sem, psi_timer,
                   transmitter, receiver, resumeVars, clean>>

PsiThread == Poll \/ Open \/ OpenLamp \/ Arm \/ Enable

(* psi_timer_callback: psi_close in the timer thread. *)
TimerClose ==
    /\ psi_timer
    /\ psi_timer' = FALSE
    /\ IF PSI_Status = 1 /\ ~Psi_Lost
       THEN /\ PSI_Status' = 0 /\ transmitter' = ShowOff
            /\ Cleanly(WarnIdle /\ PsiIdle, {})
       ELSE UNCHANGED <<PSI_Status, transmitter, clean>>
    /\ UNCHANGED <<Psi_Lost, Valve_Status, detectVars, receiver, resumeVars>>

-----------------------------------------------------------------------------
(* The radio threads and the button test.                                  *)

(* Mutant of valve_control: the status changes and the lamp does not. *)
valve_control_stale(lamp, v) ==
    /\ receiver' = lamp
    /\ Valve_Status' = v

(* valve_open / valve_close on top of what the lamp shows. *)
valve_control(lamp, v) ==
    /\ receiver' = IF Valve_Status = v \/ Psi_Lost THEN lamp
                   ELSE IF v = 1 THEN ShowOn(lamp) ELSE ShowOff
    /\ Valve_Status' = v

(* A message with command 1 (blinks) or another one. *)
Message(blinks, v) ==
    /\ valve_control(IF blinks THEN Blink(receiver, v) ELSE receiver, v)
    /\ Cleanly(WarnIdle, {receiver.R})
    /\ UNCHANGED <<statusVars, detectVars, psi_timer, transmitter, resumeVars>>

(* receiver_close at the start of a button test. *)
receiver_close ==
    /\ receiver' = ShowNothing
    /\ UNCHANGED <<statusVars, Valve_Status, detectVars, psi_timer, transmitter,
                   resumeVars, clean>>

-----------------------------------------------------------------------------
(* The warning thread.                                                     *)

psi_led_lost ==
    /\ PsiIdle /\ WarnIdle /\ ~Psi_Lost
    /\ Psi_Lost' = TRUE
    /\ transmitter' = ShowLost(transmitter)
    /\ receiver' = ShowLost(receiver)
    /\ Cleanly(TRUE, {transmitter.G, receiver.G})
    /\ UNCHANGED <<PSI_Status, Valve_Status, detectVars, psi_timer, resumeVars>>

(* psi_led_resume: Psi_Lost is cleared and PSI_Status tested ... *)
Resume ==
    /\ PsiIdle /\ WarnIdle /\ Psi_Lost
    /\ Psi_Lost' = FALSE
    /\ wtest' = PSI_Status
    /\ wpc' = "lamp"
    /\ UNCHANGED <<PSI_Status, Valve_Status, detectVars, psi_timer, transmitter,
                   receiver, clean>>

(* Mutant of ResumeLamp: the lamp is left as it is. *)
ResumeLampMissing ==
    /\ wpc = "lamp" /\ PsiIdle
    /\ Cleanly(TRUE, {transmitter.R})
    /\ wpc' = "valve"
    /\ UNCHANGED <<statusVars, Valve_Status, detectVars, psi_timer, transmitter,
                   receiver, wtest>>

(* ... psi_led_init switches the lamp ... *)
ResumeLamp ==
    /\ wpc = "lamp" /\ PsiIdle
    /\ IF wtest = 1
       THEN transmitter' = ShowOn(transmitter) /\ Cleanly(TRUE, {transmitter.R})
       ELSE transmitter' = ShowOff /\ UNCHANGED clean
    /\ wpc' = "valve"
    /\ UNCHANGED <<statusVars, Valve_Status, detectVars, psi_timer, receiver, wtest>>

(* ... valve_led_init the other one, and PSI_Status is tested again ... *)
ResumeValve ==
    /\ wpc = "valve" /\ PsiIdle
    /\ IF Valve_Status # 0
       THEN receiver' = ShowOn(receiver) /\ Cleanly(TRUE, {receiver.R})
       ELSE receiver' = ShowOff /\ UNCHANGED clean
    /\ wtest' = PSI_Status
    /\ wpc' = "call"
    /\ UNCHANGED <<statusVars, Valve_Status, detectVars, psi_timer, transmitter>>

(* ... for psi_open or psi_close, which do nothing unless the status has   *)
(* changed since the test.                                                 *)
ResumeCall ==
    /\ wpc = "call" /\ PsiIdle
    /\ IF wtest # PSI_Status /\ ~Psi_Lost
       THEN PSI_Status' = wtest /\ wpc' = IF wtest = 1 THEN "on" ELSE "off"
       ELSE wpc' = "idle" /\ UNCHANGED PSI_Status
    /\ UNCHANGED <<Psi_Lost, Valve_Status, detectVars, psi_timer, transmitter,
                   receiver, wtest, clean>>

ResumeCallLamp ==
    /\ wpc \in {"on", "off"} /\ PsiIdle
    /\ transmitter' = IF wpc = "on" THEN ShowOn(transmitter) ELSE ShowOff
    /\ wpc' = "idle"
    /\ UNCHANGED <<statusVars, Valve_Status, detectVars, psi_timer, receiver, wtest, clean>>

WarnThread ==
    Resume \/ ResumeLamp \/ ResumeValve \/ ResumeCall \/ ResumeCallLamp

(* The start of the LEDs of a lamp ends. *)
Lit(lamp) == [c \in Colours |-> IF lamp[c] = "rising" THEN "lit" ELSE lamp[c]]

Settle ==
    /\ \/ transmitter' = Lit(transmitter) /\ UNCHANGED receiver
       \/ receiver' = Lit(receiver) /\ UNCHANGED transmitter
    /\ UNCHANGED <<statusVars, Valve_Status, detectVars, psi_timer, resumeVars, clean>>

Next ==
    \/ Edge \/ PsiThread \/ TimerClose
    \/ \E v \in {0, 1}, blinks \in BOOLEAN : Message(blinks, v)
    \/ receiver_close
    \/ psi_led_lost \/ WarnThread
    \/ Settle

(* The psi thread polls and the timer thread fires. *)
Fairness == WF_vars(PsiThread) /\ WF_vars(TimerClose) /\ WF_vars(WarnThread)

Spec == Init /\ [][Next]_vars
FairSpec == Spec /\ Fairness

-----------------------------------------------------------------------------
(* Properties.                                                             *)

LitSet(lamp) == {c \in Colours : lamp[c] # "dark"}

Quiet == WarnIdle /\ PsiIdle /\ clean

(* As long as handlers do not overlap and a LED is not darkened while it   *)
(* is being started, the transmitter lamp shows the status of the switch,  *)
(* or the lost link, through any sequence of losses and recoveries.        *)
LampFollowsStatus ==
    Quiet => LitSet(transmitter) = IF Psi_Lost THEN {"R"}
                                   ELSE IF PSI_Status = 1 THEN {"G"} ELSE Colours

(* Under the same conditions the receiver lamp never shows a valve         *)
(* position other than the current one, also if the position has changed   *)
(* while the link was lost.                                                *)
ReceiverNeverWrong ==
    Quiet /\ ~Psi_Lost =>
        /\ LitSet(receiver) = {"G"} => Valve_Status # 0
        /\ LitSet(receiver) = Colours => Valve_Status = 0
        /\ LitSet(receiver) # {"R"}

NoMorePulses == <>[][~Edge]_vars

(* When the pulses end the switch is eventually reported closed, provided  *)
(* the link is never lost.                                                 *)
OpenEnds == []~Psi_Lost /\ NoMorePulses => <>[](PSI_Status = 0)

(* psi.c:46 "Detect psi is close": when the pulses end that is detected.   *)
CloseDetected == NoMorePulses /\ <>[]~Psi_Lost => <>[](PSI_Status = 0)

=============================================================================
