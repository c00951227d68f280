----------------------------- MODULE WarnProofs ------------------------------
(***************************************************************************)
(* Proofs about module Warn, for every non-empty set of signal levels: the *)
(* three promises that warn.c keeps although events of one set are lost.   *)
(***************************************************************************)
EXTENDS Warn, TLAPS

(* What the thread reacts to, and the mode it has decided on. *)
PlaceInv ==
    /\ wpc # "idle" => event \in Events
    /\ wpc \in {"decide", "lost", "beep"} => event[1] = "Offline"
    /\ wpc = "online" => event[1] = "Online"
    /\ wpc = "lost" => wmode = AllLost
    /\ wpc = "beep" => wmode \in {OneLost, AllLost}
    /\ wpc = "resume" /\ event[1] = "Offline" => wmode = OneLost

(* A message of a dead radio that waits or is being reacted to counts as   *)
(* heard, or the failure of the radio, which came later, waits too.        *)
OnlineInv ==
    \A r \in Radios :
        Dead(r) /\ (OnlineOf(r) \in rf_event \/ event = OnlineOf(r))
            => r \in heard \/ OfflineOf(r) \in rf_event

(* Radio r has died, no message has come since and the thread has taken    *)
(* the event of its death.                                                 *)
KnownDead(r) == Dead(r) /\ r \notin heard /\ OfflineOf(r) \notin rf_event

(* The thread, or the buzzer already, knows a dead radio. *)
AudibleInv ==
    wpc = "idle" /\ (\E r \in Radios : KnownDead(r))
        => holding \/ beep_mode \in {OneLost, AllLost}

(* So it does two dead radios: it is on the way to show the lost link, or  *)
(* shows it.                                                               *)
ShownInv ==
    (\A r \in Radios : KnownDead(r)) =>
        /\ wpc \in {"decide", "lost", "beep", "idle"}
        /\ wpc = "beep" => Psi_Lost /\ wmode = AllLost
        /\ wpc = "idle" => Psi_Lost /\ (holding \/ beep_mode = AllLost)

(* The bar of a dead radio is red unless its event was dropped or a        *)
(* message was being logged when it failed; no other message of it is      *)
(* being logged unless it has been heard since.                            *)
RedInv ==
    /\ \A r \in Radios \ unshown : KnownDead(r) => bar[r] = LostLevel
    /\ \A r \in Radios \ (heard \cup unshown) : Dead(r) => r \notin solving

WarnInv == TypeOK /\ PlaceInv /\ OnlineInv /\ AudibleInv /\ ShownInv /\ RedInv

-----------------------------------------------------------------------------
(* The bits of rf_event differ, and each names its kind and its radio. *)
LEMMA EventFacts ==
    /\ R433 \in Radios /\ R4068 \in Radios
    /\ \A r \in Radios :
         /\ OfflineOf(r) \in Events /\ OnlineOf(r) \in Events
         /\ OfflineOf(r)[1] = "Offline" /\ OfflineOf(r)[2] = r
         /\ OnlineOf(r)[1] = "Online" /\ OnlineOf(r)[2] = r
    /\ \A e \in Events :
         /\ e[2] \in Radios
         /\ \/ e[1] = "Offline" /\ e = OfflineOf(e[2])
            \/ e[1] = "Online" /\ e = OnlineOf(e[2])
    /\ NoEvent[1] = "none"
<1>1. R433 \in Radios /\ R4068 \in Radios
  BY DEF Radios
<1>2. ASSUME NEW r \in Radios
      PROVE  /\ OfflineOf(r) \in Events /\ OnlineOf(r) \in Events
             /\ OfflineOf(r)[1] = "Offline" /\ OfflineOf(r)[2] = r
             /\ OnlineOf(r)[1] = "Online" /\ OnlineOf(r)[2] = r
  BY DEF Events, OfflineOf, OnlineOf
<1>3. ASSUME NEW e \in Events
      PROVE  /\ e[2] \in Radios
             /\ \/ e[1] = "Offline" /\ e = OfflineOf(e[2])
                \/ e[1] = "Online" /\ e = OnlineOf(e[2])
  BY DEF Events, OfflineOf, OnlineOf
<1>4. NoEvent[1] = "none"
  BY DEF NoEvent
<1> QED
  BY <1>1, <1>2, <1>3, <1>4

(* The else-if chain picks an event of the set; it picks a message only if *)
(* no failure waits, and it passes over a failure only for the other one.  *)
LEMMA FirstFacts ==
    ASSUME NEW e \in SUBSET Events, e # {}
    PROVE  /\ First(e) \in e
           /\ First(e)[1] = "Online" => \A r \in Radios : OfflineOf(r) \notin e
           /\ \A r \in Radios : OfflineOf(r) \in e =>
                \/ First(e) = OfflineOf(r)
                \/ {OfflineOf(q) : q \in Radios} \subseteq e
<1>1. First(e) \in e
  BY DEF First, Events, Radios
<1>2. First(e)[1] = "Online" => \A r \in Radios : OfflineOf(r) \notin e
  BY EventFacts DEF First, Radios
<1>3. ASSUME NEW r \in Radios, OfflineOf(r) \in e, First(e) # OfflineOf(r)
      PROVE  {OfflineOf(q) : q \in Radios} \subseteq e
  BY <1>3 DEF First, Radios
<1> QED
  BY <1>1, <1>2, <1>3

(* The other radio of a radio is a radio, and there is no third one. *)
LEMMA OtherFacts ==
    \A r \in Radios : /\ Other(r) \in Radios /\ Other(r) # r
                       /\ \A q \in Radios : q = r \/ q = Other(r)
  BY DEF Radios, R433, R4068, Other

(* Power-up establishes the invariant. *)
LEMMA InitInv == Init => WarnInv
<1> SUFFICES ASSUME Init PROVE WarnInv
  OBVIOUS
<1> USE EventFacts DEF Init, LinkInit
<1>1. TypeOK
  BY DEF TypeOK, LinkTypeOK, WarnPcs
<1>2. PlaceInv
  BY DEF PlaceInv
<1>3. OnlineInv
  BY DEF OnlineInv, Dead
<1>4. AudibleInv /\ ShownInv /\ RedInv
  BY DEF AudibleInv, ShownInv, RedInv, KnownDead, Dead
<1> QED
  BY <1>1, <1>2, <1>3, <1>4 DEF WarnInv

(* An exchange that succeeds keeps the invariant. *)
LEMMA RefreshInv ==
    ASSUME NEW r \in Radios, WarnInv, Refresh(r)
    PROVE  WarnInv'
<1> USE EventFacts, OtherFacts
    DEF WarnInv, TypeOK, LinkTypeOK, Refresh, LinkRefresh, panelVars, warnVars, historyVars
<1>1. TypeOK'
  BY DEF WarnPcs
<1>2. PlaceInv'
  BY DEF PlaceInv
<1>3. OnlineInv'
  BY DEF OnlineInv, PlaceInv, Dead
<1>4. AudibleInv'
  BY DEF AudibleInv, PlaceInv, OnlineInv, KnownDead, Dead
<1>5. ShownInv'
  BY DEF ShownInv, PlaceInv, OnlineInv, KnownDead, Dead
<1>6. RedInv'
  BY DEF RedInv, KnownDead, Dead
<1> QED
  BY <1>1, <1>2, <1>3, <1>4, <1>5, <1>6

(* A failure keeps it: its event waits. *)
LEMMA OfflineInv ==
    ASSUME NEW r \in Radios, WarnInv, Offline(r)
    PROVE  WarnInv'
<1> USE EventFacts, OtherFacts
    DEF WarnInv, TypeOK, LinkTypeOK, Offline, LinkOffline, panelVars, warnVars, historyVars
<1>1. TypeOK'
  BY DEF WarnPcs
<1>2. PlaceInv'
  BY DEF PlaceInv
<1>3. OnlineInv'
  BY DEF OnlineInv, PlaceInv, Dead
<1>4. AudibleInv'
  BY DEF AudibleInv, PlaceInv, OnlineInv, KnownDead, Dead
<1>5. ShownInv'
  BY DEF ShownInv, PlaceInv, OnlineInv, KnownDead, Dead
<1>6. RedInv'
  BY DEF RedInv, KnownDead, Dead
<1> QED
  BY <1>1, <1>2, <1>3, <1>4, <1>5, <1>6

(* A message keeps it: its radio has been heard. *)
LEMMA MessageInv ==
    ASSUME NEW r \in Radios, NEW l \in Levels, NEW manual \in BOOLEAN,
           WarnInv, Message(r, l, manual)
    PROVE  WarnInv'
<1> USE EventFacts, OtherFacts
    DEF WarnInv, TypeOK, LinkTypeOK, Message, LinkOnline, ShowBar, warnVars, historyVars
<1>1. TypeOK'
  BY DEF WarnPcs
<1>2. PlaceInv'
  BY DEF PlaceInv
<1>3. OnlineInv'
  BY DEF OnlineInv, PlaceInv, Dead
<1>4. AudibleInv'
  BY DEF AudibleInv, PlaceInv, OnlineInv, KnownDead, Dead
<1>5. ShownInv'
  BY DEF ShownInv, PlaceInv, OnlineInv, KnownDead, Dead
<1>6. RedInv'
  BY DEF RedInv, KnownDead, Dead
<1> QED
  BY <1>1, <1>2, <1>3, <1>4, <1>5, <1>6

(* The end of a message of manual control keeps it: the bar it starts is   *)
(* that of a radio that has been heard or has failed meanwhile.            *)
LEMMA SolvedInv ==
    ASSUME NEW r \in Radios, WarnInv, Solved(r)
    PROVE  WarnInv'
<1> USE EventFacts, OtherFacts
    DEF WarnInv, TypeOK, LinkTypeOK, Solved, ShowBar, linkVars, warnVars, historyVars
<1>1. TypeOK'
  BY DEF WarnPcs
<1>2. PlaceInv'
  BY DEF PlaceInv
<1>3. OnlineInv'
  BY DEF OnlineInv, Dead
<1>4. AudibleInv'
  BY DEF AudibleInv, KnownDead, Dead
<1>5. ShownInv'
  BY DEF ShownInv, KnownDead, Dead
<1>6. RedInv'
  BY DEF RedInv, KnownDead, Dead
<1> QED
  BY <1>1, <1>2, <1>3, <1>4, <1>5, <1>6

(* Taking the event set keeps it, although only one event is handled. *)
LEMMA RecvInv ==
    ASSUME WarnInv, Recv
    PROVE  WarnInv'
<1> USE EventFacts DEF WarnInv, TypeOK, LinkTypeOK
<1>1. /\ wpc = "idle" /\ rf_event' = {}
      /\ event' = First(rf_event) /\ event' \in rf_event /\ event' \in Events
      /\ UNCHANGED <<alive, startup, rssi_level, Psi_Lost, beep_mode, wmode, solving, holding,
                     heard>>
      /\ unshown' = unshown \cup Dropped
  BY FirstFacts DEF Recv, LinkRecv
<1>2. CASE event'[1] = "Offline"
  <2>1. /\ wpc' = "decide"
        /\ bar' = [bar EXCEPT ![event'[2]] = LostLevel]
    BY <1>2 DEF Recv, ShowBar, Goto
  <2>2. TypeOK'
    BY <1>1, <2>1 DEF WarnPcs, Dropped
  <2>3. PlaceInv'
    BY <1>1, <1>2, <2>1 DEF PlaceInv
  <2>4. OnlineInv'
    BY <1>1, <1>2 DEF OnlineInv
  <2>5. AudibleInv' /\ ShownInv'
    BY <2>1 DEF AudibleInv, ShownInv
  <2>6. RedInv'
    <3> SUFFICES ASSUME NEW r \in Radios \ (unshown \cup Dropped), KnownDead(r)'
                 PROVE  bar'[r] = LostLevel
      BY <1>1 DEF RedInv, Dead
    <3>1. CASE OfflineOf(r) \in rf_event
      <4>1. event' = OfflineOf(r)
        BY <1>1, <3>1 DEF Dropped, KnownDead, Dead
      <4> QED
        BY <2>1, <4>1
    <3>2. CASE OfflineOf(r) \notin rf_event
      BY <1>1, <2>1, <3>2 DEF RedInv, KnownDead, Dead
    <3> QED
      BY <3>1, <3>2
  <2> QED
    BY <2>2, <2>3, <2>4, <2>5, <2>6
<1>3. CASE event'[1] = "Online"
  <2>1. wpc' = "resume" /\ bar' = bar
    BY <1>3 DEF Recv, Goto
  <2>2. \A r \in Radios : OfflineOf(r) \notin rf_event
    BY <1>1, <1>3, FirstFacts
  <2>3. unshown' = unshown
    BY <1>1, <2>2 DEF Dropped
  <2>4. TypeOK'
    BY <1>1, <2>1, <2>3 DEF WarnPcs
  <2>5. PlaceInv'
    BY <1>1, <1>3, <2>1 DEF PlaceInv
  <2>6. OnlineInv'
    BY <1>1, <2>2 DEF OnlineInv, Dead
  <2>7. AudibleInv' /\ RedInv'
    BY <1>1, <2>1, <2>2, <2>3 DEF AudibleInv, RedInv, KnownDead, Dead
  <2>8. ShownInv'
    BY <1>1, <1>3, <2>2 DEF ShownInv, OnlineInv, KnownDead, Dead
  <2> QED
    BY <2>4, <2>5, <2>6, <2>7, <2>8
<1> QED
  BY <1>1, <1>2, <1>3

(* The decision keeps it. *)
LEMMA DecideInv ==
    ASSUME WarnInv, Decide
    PROVE  WarnInv'
<1> USE EventFacts, OtherFacts
    DEF WarnInv, TypeOK, LinkTypeOK, Decide, Goto, linkVars, panelVars, historyVars
<1>1. TypeOK'
  BY DEF WarnPcs
<1>2. PlaceInv'
  BY DEF PlaceInv
<1>3. OnlineInv'
  BY DEF OnlineInv, PlaceInv, Dead
<1>4. AudibleInv'
  BY DEF AudibleInv, PlaceInv, OnlineInv, KnownDead, Dead
<1>5. ShownInv'
  BY DEF ShownInv, PlaceInv, OnlineInv, KnownDead, Dead
<1>6. RedInv'
  BY DEF RedInv, KnownDead, Dead
<1> QED
  BY <1>1, <1>2, <1>3, <1>4, <1>5, <1>6

(* psi_led_resume keeps it. *)
LEMMA ResumeInv ==
    ASSUME WarnInv, Resume
    PROVE  WarnInv'
<1> USE EventFacts, OtherFacts
    DEF WarnInv, TypeOK, LinkTypeOK, Resume, Goto, linkVars, historyVars
<1>1. TypeOK'
  BY DEF WarnPcs
<1>2. PlaceInv'
  BY DEF PlaceInv
<1>3. OnlineInv'
  BY DEF OnlineInv, PlaceInv, Dead
<1>4. AudibleInv'
  BY DEF AudibleInv, PlaceInv, OnlineInv, KnownDead, Dead
<1>5. ShownInv'
  BY DEF ShownInv, PlaceInv, OnlineInv, KnownDead, Dead
<1>6. RedInv'
  BY DEF RedInv, KnownDead, Dead
<1> QED
  BY <1>1, <1>2, <1>3, <1>4, <1>5, <1>6

(* psi_led_lost keeps it. *)
LEMMA LostInv ==
    ASSUME WarnInv, Lost
    PROVE  WarnInv'
<1> USE EventFacts, OtherFacts
    DEF WarnInv, TypeOK, LinkTypeOK, Lost, Goto, linkVars, historyVars
<1>1. TypeOK'
  BY DEF WarnPcs
<1>2. PlaceInv'
  BY DEF PlaceInv
<1>3. OnlineInv'
  BY DEF OnlineInv, PlaceInv, Dead
<1>4. AudibleInv'
  BY DEF AudibleInv, PlaceInv, OnlineInv, KnownDead, Dead
<1>5. ShownInv'
  BY DEF ShownInv, PlaceInv, OnlineInv, KnownDead, Dead
<1>6. RedInv'
  BY DEF RedInv, KnownDead, Dead
<1> QED
  BY <1>1, <1>2, <1>3, <1>4, <1>5, <1>6

(* The buzzer of a failure keeps it. *)
LEMMA BeepInv ==
    ASSUME WarnInv, Beep
    PROVE  WarnInv'
<1> USE EventFacts, OtherFacts
    DEF WarnInv, TypeOK, LinkTypeOK, Beep, Goto, linkVars, Done, historyVars, beep_start
<1>1. TypeOK'
  BY DEF WarnPcs
<1>2. PlaceInv'
  BY DEF PlaceInv
<1>3. OnlineInv'
  BY DEF OnlineInv, PlaceInv, Dead
<1>4. AudibleInv'
  BY DEF AudibleInv, PlaceInv, OnlineInv, KnownDead, Dead
<1>5. ShownInv'
  BY DEF ShownInv, PlaceInv, OnlineInv, KnownDead, Dead
<1>6. RedInv'
  BY DEF RedInv, KnownDead, Dead
<1> QED
  BY <1>1, <1>2, <1>3, <1>4, <1>5, <1>6

(* The buzzer of a message keeps it: a dead other radio stays audible. *)
LEMMA OnlineStepInv ==
    ASSUME WarnInv, Online
    PROVE  WarnInv'
<1> USE EventFacts, OtherFacts
    DEF WarnInv, TypeOK, LinkTypeOK, Online, Goto, linkVars, Done, historyVars, beep_start, beep_calc
<1>1. TypeOK'
  BY DEF WarnPcs
<1>2. PlaceInv'
  BY DEF PlaceInv
<1>3. OnlineInv'
  BY DEF OnlineInv, PlaceInv, Dead
<1>4. AudibleInv'
  BY DEF AudibleInv, PlaceInv, OnlineInv, KnownDead, Dead
<1>5. ShownInv'
  BY DEF ShownInv, PlaceInv, OnlineInv, KnownDead, Dead
<1>6. RedInv'
  BY DEF RedInv, KnownDead, Dead
<1> QED
  BY <1>1, <1>2, <1>3, <1>4, <1>5, <1>6

(* The long press keeps it. *)
LEMMA HoldInv ==
    ASSUME WarnInv, Hold
    PROVE  WarnInv'
<1> USE EventFacts, OtherFacts
    DEF WarnInv, TypeOK, LinkTypeOK, Hold, linkVars, warnVars, historyVars, beep_start
<1>1. TypeOK'
  BY DEF WarnPcs
<1>2. PlaceInv'
  BY DEF PlaceInv
<1>3. OnlineInv'
  BY DEF OnlineInv, PlaceInv, Dead
<1>4. AudibleInv'
  BY DEF AudibleInv, PlaceInv, OnlineInv, KnownDead, Dead
<1>5. ShownInv'
  BY DEF ShownInv, PlaceInv, OnlineInv, KnownDead, Dead
<1>6. RedInv'
  BY DEF RedInv, KnownDead, Dead
<1> QED
  BY <1>1, <1>2, <1>3, <1>4, <1>5, <1>6

(* The reboot keeps it. *)
LEMMA RebootInv ==
    ASSUME WarnInv, Reboot
    PROVE  WarnInv'
<1> USE EventFacts, OtherFacts
    DEF WarnInv, TypeOK, LinkTypeOK, Reboot
<1>1. TypeOK'
  BY DEF WarnPcs
<1>2. PlaceInv'
  BY DEF PlaceInv
<1>3. OnlineInv'
  BY DEF OnlineInv, PlaceInv, Dead
<1>4. AudibleInv'
  BY DEF AudibleInv, PlaceInv, OnlineInv, KnownDead, Dead
<1>5. ShownInv'
  BY DEF ShownInv, PlaceInv, OnlineInv, KnownDead, Dead
<1>6. RedInv'
  BY DEF RedInv, KnownDead, Dead
<1> QED
  BY <1>1, <1>2, <1>3, <1>4, <1>5, <1>6

(* No step breaks the invariant. *)
LEMMA StepInv == WarnInv /\ [Next]_vars => WarnInv'
<1> SUFFICES ASSUME WarnInv, [Next]_vars PROVE WarnInv'
  OBVIOUS
<1>1. CASE WarnThread
  BY <1>1, RecvInv, DecideInv, ResumeInv, LostInv, BeepInv, OnlineStepInv
  DEF WarnThread
<1>2. CASE Hold
  BY <1>2, HoldInv
<1>3. CASE Reboot
  BY <1>3, RebootInv
<1>4. ASSUME NEW r \in Radios, Refresh(r) PROVE WarnInv'
  BY <1>4, RefreshInv
<1>5. ASSUME NEW r \in Radios, Offline(r) PROVE WarnInv'
  BY <1>5, OfflineInv
<1>6. ASSUME NEW r \in Radios, NEW l \in Levels, NEW manual \in BOOLEAN,
             Message(r, l, manual)
      PROVE  WarnInv'
  BY <1>6, MessageInv
<1>7. ASSUME NEW r \in Radios, Solved(r) PROVE WarnInv'
  BY <1>7, SolvedInv
<1>8. CASE UNCHANGED vars
  BY <1>8 DEF vars, linkVars, panelVars, warnVars, historyVars, WarnInv, TypeOK, LinkTypeOK,
       PlaceInv, OnlineInv, AudibleInv, ShownInv, RedInv, KnownDead, Dead
<1> QED
  BY <1>1, <1>2, <1>3, <1>4, <1>5, <1>6, <1>7, <1>8 DEF Next

-----------------------------------------------------------------------------
(* WarnInv is an invariant of the warning thread. *)
THEOREM WarnInvariant == Spec => []WarnInv
  BY InitInv, StepInv, PTL DEF Spec

(* The variables of the warning thread, the bars and the buzzer keep their *)
(* types: beep_start is only given modes that it knows.                    *)
THEOREM WarnTypeOK == Spec => []TypeOK
<1>1. WarnInv => TypeOK
  BY DEF WarnInv
<1> QED
  BY <1>1, WarnInvariant, PTL

(* Two radios that are dead end up shown and sounded as a lost link, in    *)
(* whatever order warn.c took and merged their events.                     *)
THEOREM AllDeadAreShown == Spec => []AllDeadIsShown
<1>1. WarnInv => AllDeadIsShown
  BY DEF WarnInv, ShownInv, KnownDead, AllDeadIsShown, CaughtUp
<1> QED
  BY <1>1, WarnInvariant, PTL

(* Messages on one radio never silence the alarm of the dead other one. *)
THEOREM DeadAreAudible == Spec => []DeadIsAudible
<1>1. WarnInv => DeadIsAudible
  BY DEF WarnInv, AudibleInv, KnownDead, DeadIsAudible, CaughtUp
<1> QED
  BY <1>1, WarnInvariant, PTL

(* The bar of a dead radio is red unless the event of its death was merged *)
(* with that of the other radio, or Solve_433 was writing a message to the *)
(* log when the radio failed.                                              *)
THEOREM DeadRadiosAreRed == Spec => []DeadRadioIsRed
<1>1. WarnInv => DeadRadioIsRed
  BY DEF WarnInv, RedInv, KnownDead, DeadRadioIsRed, CaughtUp
<1> QED
  BY <1>1, WarnInvariant, PTL

=============================================================================
