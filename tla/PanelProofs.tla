----------------------------- MODULE PanelProofs -----------------------------
(***************************************************************************)
(* Proofs about module Panel, for every Limit: the semaphore of the        *)
(* pressure switch does not grow, and the two lamps show what they should  *)
(* whenever no handlers have overlapped.                                   *)
(***************************************************************************)
EXTENDS Panel, TLAPS

(* An interrupt is worth one pulse until the psi thread has enabled it     *)
(* again, and the psi thread takes one pulse before it does so.            *)
SemInv ==
    psi_sem <= (IF PsiIdle THEN 1 ELSE 0) + (IF irq THEN 0 ELSE 1)

(* What the transmitter lamp is to show. *)
Shown == IF Psi_Lost THEN {"R"} ELSE IF PSI_Status = 1 THEN {"G"} ELSE Colours

(* The transmitter lamp is right except where a handler is about to set    *)
(* it; a handler that is has the status right.                             *)
TransmitterInv ==
    clean =>
        /\ wpc \notin {"on", "off"}
        /\ wpc # "idle" => ~Psi_Lost
        /\ ppc = "lamp" /\ WarnIdle => PSI_Status = 1 /\ ~Psi_Lost
        /\ ppc # "lamp" =>
             /\ wpc \in {"lamp", "call"} => wtest = PSI_Status
             /\ wpc # "lamp" => LitSet(transmitter) = Shown

(* The receiver lamp does not contradict the position of the valve, ...    *)
Agrees ==
    /\ LitSet(receiver) = {"G"} => Valve_Status # 0
    /\ LitSet(receiver) = Colours => Valve_Status = 0
    /\ LitSet(receiver) # {"R"}

(* ... except while psi_led_resume has yet to set it. *)
ReceiverInv == clean /\ ~Psi_Lost /\ wpc \in {"idle", "call"} => Agrees

PanelInv == TypeOK /\ SemInv /\ TransmitterInv /\ ReceiverInv

-----------------------------------------------------------------------------
(* The functions of led.c yield lamps. *)
LEMMA LampTypes ==
    /\ ShowOff \in Lamps /\ ShowNothing \in Lamps
    /\ \A l \in Lamps :
         /\ ShowOn(l) \in Lamps /\ ShowLost(l) \in Lamps /\ Lit(l) \in Lamps
         /\ \A v \in {0, 1} : Blink(l, v) \in Lamps
<1> USE DEF Lamps, Colours
<1>1. ShowOff \in Lamps /\ ShowNothing \in Lamps
  BY DEF ShowOff, ShowNothing
<1>2. ASSUME NEW l \in Lamps
      PROVE  /\ ShowOn(l) \in Lamps /\ ShowLost(l) \in Lamps /\ Lit(l) \in Lamps
             /\ \A v \in {0, 1} : Blink(l, v) \in Lamps
  <2>1. /\ l["R"] \in {"dark", "rising", "lit"} /\ l["G"] \in {"dark", "rising", "lit"}
    OBVIOUS
  <2>2. Off(l["R"]) \in {"dark", "rising", "lit"} /\ Off(l["G"]) \in {"dark", "rising", "lit"}
    BY <2>1 DEF Off
  <2>3. ShowOn(l) \in Lamps /\ ShowLost(l) \in Lamps
    BY <2>2 DEF ShowOn, ShowLost
  <2>4. Lit(l) \in Lamps
    BY DEF Lit
  <2>5. ASSUME NEW v \in {0, 1} PROVE Blink(l, v) \in Lamps
    BY <1>1 DEF Blink
  <2> QED
    BY <2>3, <2>4, <2>5
<1> QED
  BY <1>1, <1>2

(* What a lamp shows after each of them, provided that no LED is darkened  *)
(* before it is lit.                                                       *)
LEMMA LampShows ==
    /\ LitSet(ShowOff) = Colours /\ LitSet(ShowNothing) = {}
    /\ \A l \in Lamps :
         /\ l.R # "rising" => LitSet(ShowOn(l)) = {"G"}
         /\ l.G # "rising" => LitSet(ShowLost(l)) = {"R"}
         /\ LitSet(Lit(l)) = LitSet(l)
         /\ LitSet(Blink(l, 1)) = LitSet(l) \cup {"G"} /\ Blink(l, 1).R = l.R
         /\ LitSet(Blink(l, 0)) = Colours
<1> USE DEF Lamps, Colours, LitSet
<1>1. LitSet(ShowOff) = Colours /\ LitSet(ShowNothing) = {}
  BY DEF ShowOff, ShowNothing
<1>2. ASSUME NEW l \in Lamps
      PROVE  /\ l.R # "rising" => LitSet(ShowOn(l)) = {"G"}
             /\ l.G # "rising" => LitSet(ShowLost(l)) = {"R"}
             /\ LitSet(Lit(l)) = LitSet(l)
             /\ LitSet(Blink(l, 1)) = LitSet(l) \cup {"G"} /\ Blink(l, 1).R = l.R
             /\ LitSet(Blink(l, 0)) = Colours
  <2>1. l.R # "rising" => LitSet(ShowOn(l)) = {"G"}
    BY DEF ShowOn, Off
  <2>2. l.G # "rising" => LitSet(ShowLost(l)) = {"R"}
    BY DEF ShowLost, Off
  <2>3. LitSet(Lit(l)) = LitSet(l)
    BY DEF Lit
  <2>4. LitSet(Blink(l, 1)) = LitSet(l) \cup {"G"} /\ Blink(l, 1).R = l.R
    BY DEF Blink
  <2>5. LitSet(Blink(l, 0)) = Colours
    BY <1>1 DEF Blink
  <2> QED
    BY <2>1, <2>2, <2>3, <2>4, <2>5
<1> QED
  BY <1>1, <1>2

(* The sets of colours that the properties distinguish. *)
LEMMA ColourFacts ==
    /\ {"G"} # Colours /\ {"R"} # Colours /\ {} # Colours
    /\ {"R"} # {"G"} /\ {} # {"G"} /\ {} # {"R"}
    /\ \A l : LitSet(l) # Colours /\ LitSet(l) # {"R"} => LitSet(l) \cup {"G"} = {"G"}
  BY DEF Colours, LitSet

(* psi_init and led_Init establish the invariant. *)
LEMMA InitInv == Init => PanelInv
<1> SUFFICES ASSUME Init PROVE PanelInv
  OBVIOUS
<1> USE DEF Init
<1>1. TypeOK
  <2>1. transmitter \in Lamps /\ receiver \in Lamps
    BY LampTypes
  <2>2. Psi_Counter \in 0..Limit /\ psi_sem \in 0..2
    BY LimitAssumption
  <2>3. Psi_Lost \in BOOLEAN /\ irq \in BOOLEAN /\ psi_timer \in BOOLEAN /\ clean \in BOOLEAN
    OBVIOUS
  <2> QED
    BY <2>1, <2>2, <2>3 DEF TypeOK
<1>2. SemInv
  BY DEF SemInv, PsiIdle
<1>3. TransmitterInv
  BY LampShows DEF TransmitterInv, Shown
<1>4. ReceiverInv
  BY LampShows, ColourFacts DEF ReceiverInv, Agrees
<1> QED
  BY <1>1, <1>2, <1>3, <1>4 DEF PanelInv

(* The interrupt keeps the invariant: it is disabled by its pulse. *)
LEMMA EdgeInv ==
    ASSUME PanelInv, Edge
    PROVE  PanelInv'
<1> USE LimitAssumption, LampTypes DEF PanelInv, TypeOK, Edge, statusVars, detectVars, resumeVars
<1>1. TypeOK'
  <2>1. psi_sem' \in 0..2
    BY DEF SemInv
  <2> QED
    BY <2>1
<1>2. SemInv'
  BY DEF SemInv, PsiIdle
<1>3. TransmitterInv'
  BY LampShows DEF TransmitterInv, Shown, WarnIdle, PsiIdle
<1>4. ReceiverInv'
  BY LampShows, ColourFacts DEF ReceiverInv, Agrees, TransmitterInv, WarnIdle
<1> QED
  BY <1>1, <1>2, <1>3, <1>4

(* A poll of the semaphore keeps it. *)
LEMMA PollInv ==
    ASSUME PanelInv, Poll
    PROVE  PanelInv'
<1> USE LimitAssumption, LampTypes DEF PanelInv, TypeOK, Poll, statusVars, detectVars, resumeVars
<1>1. TypeOK'
  BY DEF SemInv, PsiIdle
<1>2. SemInv'
  BY DEF SemInv, PsiIdle
<1>3. TransmitterInv'
  BY LampShows DEF TransmitterInv, Shown, WarnIdle, PsiIdle
<1>4. ReceiverInv'
  BY LampShows, ColourFacts DEF ReceiverInv, Agrees, TransmitterInv, WarnIdle
<1> QED
  BY <1>1, <1>2, <1>3, <1>4

(* The first half of psi_open keeps it. *)
LEMMA OpenInv ==
    ASSUME PanelInv, Open
    PROVE  PanelInv'
<1> USE LimitAssumption, LampTypes DEF PanelInv, TypeOK, Open, statusVars, detectVars, resumeVars
<1>1. TypeOK'
  BY DEF SemInv, PsiIdle
<1>2. SemInv'
  BY DEF SemInv, PsiIdle
<1>3. TransmitterInv'
  BY LampShows DEF TransmitterInv, Shown, WarnIdle, PsiIdle
<1>4. ReceiverInv'
  BY LampShows, ColourFacts DEF ReceiverInv, Agrees, TransmitterInv, WarnIdle
<1> QED
  BY <1>1, <1>2, <1>3, <1>4

(* The second half keeps it: the status is still the one it was set to. *)
LEMMA OpenLampInv ==
    ASSUME PanelInv, OpenLamp
    PROVE  PanelInv'
<1> USE LimitAssumption, LampTypes DEF PanelInv, TypeOK, OpenLamp, statusVars, detectVars, resumeVars, Cleanly
<1>1. TypeOK'
  BY DEF SemInv, PsiIdle
<1>2. SemInv'
  BY DEF SemInv, PsiIdle
<1>3. TransmitterInv'
  BY LampShows DEF TransmitterInv, Shown, WarnIdle, PsiIdle
<1>4. ReceiverInv'
  BY LampShows, ColourFacts DEF ReceiverInv, Agrees, TransmitterInv, WarnIdle
<1> QED
  BY <1>1, <1>2, <1>3, <1>4

(* The start of the timer keeps it. *)
LEMMA ArmInv ==
    ASSUME PanelInv, Arm
    PROVE  PanelInv'
<1> USE LimitAssumption, LampTypes DEF PanelInv, TypeOK, Arm, statusVars, detectVars, resumeVars
<1>1. TypeOK'
  BY DEF SemInv, PsiIdle
<1>2. SemInv'
  BY DEF SemInv, PsiIdle
<1>3. TransmitterInv'
  BY LampShows DEF TransmitterInv, Shown, WarnIdle, PsiIdle
<1>4. ReceiverInv'
  BY LampShows, ColourFacts DEF ReceiverInv, Agrees, TransmitterInv, WarnIdle
<1> QED
  BY <1>1, <1>2, <1>3, <1>4

(* Enabling the interrupt keeps it. *)
LEMMA EnableInv ==
    ASSUME PanelInv, Enable
    PROVE  PanelInv'
<1> USE LimitAssumption, LampTypes DEF PanelInv, TypeOK, Enable, statusVars, detectVars, resumeVars
<1>1. TypeOK'
  BY DEF SemInv, PsiIdle
<1>2. SemInv'
  BY DEF SemInv, PsiIdle
<1>3. TransmitterInv'
  BY LampShows DEF TransmitterInv, Shown, WarnIdle, PsiIdle
<1>4. ReceiverInv'
  BY LampShows, ColourFacts DEF ReceiverInv, Agrees, TransmitterInv, WarnIdle
<1> QED
  BY <1>1, <1>2, <1>3, <1>4

(* psi_close in the timer thread keeps it. *)
LEMMA TimerCloseInv ==
    ASSUME PanelInv, TimerClose
    PROVE  PanelInv'
<1> USE LimitAssumption, LampTypes DEF PanelInv, TypeOK, TimerClose, statusVars, detectVars, resumeVars, Cleanly
<1>1. TypeOK'
  BY DEF SemInv, PsiIdle
<1>2. SemInv'
  BY DEF SemInv, PsiIdle
<1>3. TransmitterInv'
  <2>1. CASE PSI_Status = 1 /\ ~Psi_Lost
    <3>1. /\ clean' => WarnIdle /\ PsiIdle
          /\ PSI_Status' = 0 /\ LitSet(transmitter') = Colours
      BY <2>1, LampShows
    <3> QED
      BY <2>1, <3>1 DEF TransmitterInv, Shown, WarnIdle, PsiIdle
  <2>2. CASE ~(PSI_Status = 1 /\ ~Psi_Lost)
    BY <2>2 DEF TransmitterInv, Shown, WarnIdle
  <2> QED
    BY <2>1, <2>2
<1>4. ReceiverInv'
  BY LampShows, ColourFacts DEF ReceiverInv, Agrees, TransmitterInv, WarnIdle
<1> QED
  BY <1>1, <1>2, <1>3, <1>4

(* A message keeps it. *)
LEMMA MessageInv ==
    ASSUME NEW blinks \in BOOLEAN, NEW v \in {0, 1}, PanelInv, Message(blinks, v)
    PROVE  PanelInv'
<1> USE LimitAssumption, LampTypes DEF PanelInv, TypeOK, Message, statusVars, detectVars, resumeVars, Cleanly, valve_control
<1>1. TypeOK'
  BY DEF SemInv, PsiIdle
<1>2. SemInv'
  BY DEF SemInv, PsiIdle
<1>3. TransmitterInv'
  BY LampShows DEF TransmitterInv, Shown, WarnIdle, PsiIdle
<1>4. ReceiverInv'
  <2> SUFFICES ASSUME clean', ~Psi_Lost' PROVE Agrees'
    BY DEF ReceiverInv
  <2> DEFINE lamp == IF blinks THEN Blink(receiver, v) ELSE receiver
  <2>1. Agrees /\ receiver.R # "rising" /\ ~Psi_Lost
    BY DEF ReceiverInv, WarnIdle
  <2>2. Valve_Status' = v /\ lamp \in Lamps
    OBVIOUS
  <2>3. CASE Valve_Status = v /\ ~blinks
    BY <2>1, <2>3 DEF Agrees
  <2>4. CASE Valve_Status = v /\ blinks /\ v = 1
    <3>1. receiver' = Blink(receiver, 1)
      BY <2>4
    <3>2. LitSet(receiver') = LitSet(receiver) \cup {"G"}
      BY <3>1, LampShows
    <3>3. LitSet(receiver') = {"G"}
      BY <2>1, <2>4, <3>2, ColourFacts DEF Agrees
    <3> QED
      BY <2>2, <2>4, <3>3, ColourFacts DEF Agrees
  <2>5. CASE Valve_Status # v /\ v = 1
    <3>1. lamp.R # "rising"
      BY <2>1, <2>5, LampShows
    <3>2. LitSet(receiver') = {"G"}
      BY <2>1, <2>2, <2>5, <3>1, LampShows
    <3> QED
      BY <2>2, <2>5, <3>2, ColourFacts DEF Agrees
  <2>6. CASE v = 0 /\ (Valve_Status # v \/ blinks)
    <3>1. receiver' = ShowOff \/ receiver' = Blink(receiver, 0)
      BY <2>1, <2>6
    <3>2. receiver \in Lamps
      OBVIOUS
    <3>3. LitSet(receiver') = Colours
      BY ONLY <3>1, <3>2, LampShows
    <3> QED
      BY <2>2, <2>6, <3>3, ColourFacts DEF Agrees
  <2> QED
    BY <2>3, <2>4, <2>5, <2>6
<1> QED
  BY <1>1, <1>2, <1>3, <1>4

(* The start of a button test keeps it. *)
LEMMA ReceiverCloseInv ==
    ASSUME PanelInv, receiver_close
    PROVE  PanelInv'
<1> USE LimitAssumption, LampTypes DEF PanelInv, TypeOK, receiver_close, statusVars, detectVars, resumeVars
<1>1. TypeOK'
  BY DEF SemInv, PsiIdle
<1>2. SemInv'
  BY DEF SemInv, PsiIdle
<1>3. TransmitterInv'
  BY LampShows DEF TransmitterInv, Shown, WarnIdle, PsiIdle
<1>4. ReceiverInv'
  BY LampShows, ColourFacts DEF ReceiverInv, Agrees, TransmitterInv, WarnIdle
<1> QED
  BY <1>1, <1>2, <1>3, <1>4

(* psi_led_lost keeps it. *)
LEMMA LedLostInv ==
    ASSUME PanelInv, psi_led_lost
    PROVE  PanelInv'
<1> USE LimitAssumption, LampTypes DEF PanelInv, TypeOK, psi_led_lost, statusVars, detectVars, resumeVars, Cleanly
<1>1. TypeOK'
  BY DEF SemInv, PsiIdle
<1>2. SemInv'
  BY DEF SemInv, PsiIdle
<1>3. TransmitterInv'
  BY LampShows DEF TransmitterInv, Shown, WarnIdle, PsiIdle
<1>4. ReceiverInv'
  BY LampShows, ColourFacts DEF ReceiverInv, Agrees, TransmitterInv, WarnIdle
<1> QED
  BY <1>1, <1>2, <1>3, <1>4

(* The steps of psi_led_resume keep it: the test of the status, ... *)
LEMMA ResumeInv ==
    ASSUME PanelInv, Resume
    PROVE  PanelInv'
<1> USE LimitAssumption, LampTypes DEF PanelInv, TypeOK, Resume, statusVars, detectVars, resumeVars
<1>1. TypeOK'
  BY DEF SemInv, PsiIdle
<1>2. SemInv'
  BY DEF SemInv, PsiIdle
<1>3. TransmitterInv'
  BY LampShows DEF TransmitterInv, Shown, WarnIdle, PsiIdle
<1>4. ReceiverInv'
  BY LampShows, ColourFacts DEF ReceiverInv, Agrees, TransmitterInv, WarnIdle
<1> QED
  BY <1>1, <1>2, <1>3, <1>4

(* ... the lamp, ... *)
LEMMA ResumeLampInv ==
    ASSUME PanelInv, ResumeLamp
    PROVE  PanelInv'
<1> USE LimitAssumption, LampTypes DEF PanelInv, TypeOK, ResumeLamp, statusVars, detectVars, resumeVars, Cleanly
<1>1. TypeOK'
  BY DEF SemInv, PsiIdle
<1>2. SemInv'
  BY DEF SemInv, PsiIdle
<1>3. TransmitterInv'
  BY LampShows DEF TransmitterInv, Shown, WarnIdle, PsiIdle
<1>4. ReceiverInv'
  BY LampShows, ColourFacts DEF ReceiverInv, Agrees, TransmitterInv, WarnIdle
<1> QED
  BY <1>1, <1>2, <1>3, <1>4

(* ... the receiver lamp and the second test, ... *)
LEMMA ResumeValveInv ==
    ASSUME PanelInv, ResumeValve
    PROVE  PanelInv'
<1> USE LimitAssumption, LampTypes DEF PanelInv, TypeOK, ResumeValve, statusVars, detectVars, resumeVars, Cleanly
<1>1. TypeOK'
  BY DEF SemInv, PsiIdle
<1>2. SemInv'
  BY DEF SemInv, PsiIdle
<1>3. TransmitterInv'
  BY LampShows DEF TransmitterInv, Shown, WarnIdle, PsiIdle
<1>4. ReceiverInv'
  BY LampShows, ColourFacts DEF ReceiverInv, Agrees, TransmitterInv, WarnIdle
<1> QED
  BY <1>1, <1>2, <1>3, <1>4

(* ... and the call that rests on it, which finds the status unchanged ... *)
LEMMA ResumeCallInv ==
    ASSUME PanelInv, ResumeCall
    PROVE  PanelInv'
<1> USE LimitAssumption, LampTypes DEF PanelInv, TypeOK, ResumeCall, statusVars, detectVars, resumeVars
<1>1. TypeOK'
  BY DEF SemInv, PsiIdle
<1>2. SemInv'
  BY DEF SemInv, PsiIdle
<1>3. TransmitterInv'
  BY LampShows DEF TransmitterInv, Shown, WarnIdle, PsiIdle
<1>4. ReceiverInv'
  BY LampShows, ColourFacts DEF ReceiverInv, Agrees, TransmitterInv, WarnIdle
<1> QED
  BY <1>1, <1>2, <1>3, <1>4

(* ... unless handlers have overlapped. *)
LEMMA ResumeCallLampInv ==
    ASSUME PanelInv, ResumeCallLamp
    PROVE  PanelInv'
<1> USE LimitAssumption, LampTypes DEF PanelInv, TypeOK, ResumeCallLamp, statusVars, detectVars, resumeVars
<1>1. TypeOK'
  BY DEF SemInv, PsiIdle
<1>2. SemInv'
  BY DEF SemInv, PsiIdle
<1>3. TransmitterInv'
  BY LampShows DEF TransmitterInv, Shown, WarnIdle, PsiIdle
<1>4. ReceiverInv'
  BY LampShows, ColourFacts DEF ReceiverInv, Agrees, TransmitterInv, WarnIdle
<1> QED
  BY <1>1, <1>2, <1>3, <1>4

(* The LEDs that come on keep it. *)
LEMMA SettleInv ==
    ASSUME PanelInv, Settle
    PROVE  PanelInv'
<1> USE LimitAssumption, LampTypes DEF PanelInv, TypeOK, Settle, statusVars, detectVars, resumeVars
<1>1. TypeOK'
  BY DEF SemInv, PsiIdle
<1>2. SemInv'
  BY DEF SemInv, PsiIdle
<1>3. TransmitterInv'
  BY LampShows DEF TransmitterInv, Shown, WarnIdle, PsiIdle
<1>4. ReceiverInv'
  BY LampShows, ColourFacts DEF ReceiverInv, Agrees, TransmitterInv, WarnIdle
<1> QED
  BY <1>1, <1>2, <1>3, <1>4

(* No step breaks the invariant. *)
LEMMA StepInv == PanelInv /\ [Next]_vars => PanelInv'
<1> SUFFICES ASSUME PanelInv, [Next]_vars PROVE PanelInv'
  OBVIOUS
<1>1. CASE PsiThread
  BY <1>1, PollInv, OpenInv, OpenLampInv, ArmInv, EnableInv DEF PsiThread
<1>2. CASE Edge \/ TimerClose \/ receiver_close \/ psi_led_lost \/ Settle
  BY <1>2, EdgeInv, TimerCloseInv, ReceiverCloseInv, LedLostInv, SettleInv
<1>3. ASSUME NEW v \in {0, 1}, NEW blinks \in BOOLEAN, Message(blinks, v)
      PROVE  PanelInv'
  BY <1>3, MessageInv
<1>4. CASE WarnThread
  BY <1>4, ResumeInv, ResumeLampInv, ResumeValveInv, ResumeCallInv, ResumeCallLampInv
  DEF WarnThread
<1>5. CASE UNCHANGED vars
  BY <1>5 DEF vars, statusVars, detectVars, resumeVars, PanelInv, TypeOK, SemInv,
       TransmitterInv, ReceiverInv, Shown, Agrees, WarnIdle, PsiIdle
<1> QED
  BY <1>1, <1>2, <1>3, <1>4, <1>5 DEF Next

-----------------------------------------------------------------------------
(* PanelInv is an invariant of the panel. *)
THEOREM PanelInvariant == Spec => []PanelInv
  BY InitInv, StepInv, PTL DEF Spec

(* The variables keep their types; in particular psi_sem, which the        *)
(* interrupt releases and the psi thread takes, never exceeds two.         *)
THEOREM PanelTypeOK == Spec => []TypeOK
<1>1. PanelInv => TypeOK
  BY DEF PanelInv
<1> QED
  BY <1>1, PanelInvariant, PTL

(* The transmitter lamp follows PSI_Status and Psi_Lost through any        *)
(* sequence of handlers that do not overlap.                               *)
THEOREM LampFollows == Spec => []LampFollowsStatus
<1>1. PanelInv => LampFollowsStatus
  BY DEF PanelInv, TransmitterInv, Shown, LampFollowsStatus, Quiet, WarnIdle, PsiIdle
<1> QED
  BY <1>1, PanelInvariant, PTL

(* The receiver lamp never contradicts the valve under the same condition. *)
THEOREM ReceiverRight == Spec => []ReceiverNeverWrong
<1>1. PanelInv => ReceiverNeverWrong
  BY DEF PanelInv, ReceiverInv, Agrees, ReceiverNeverWrong, Quiet, WarnIdle
<1> QED
  BY <1>1, PanelInvariant, PTL

=============================================================================
