----------------------------- MODULE HeartProofs -----------------------------
(***************************************************************************)
(* Proofs about module Heart, for every bound on the pending clicks: the   *)
(* inductive invariant HeartInv, the safety properties that follow from    *)
(* it, that a stall is permanent, and that Heart implements RfLink.        *)
(***************************************************************************)
EXTENDS Heart, TLAPS

(* The two radios are radios, and so is the other one of each. *)
LEMMA RadioFacts ==
    /\ R4068 \in Radios /\ R433 \in Radios
    /\ \A r \in Radios : r \in Nat /\ Other(r) \in Radios
  BY DEF Radios, R4068, R433, Other

(* The bits that supervision sets are bits of rf_event. *)
LEMMA EventFacts ==
    \A r \in Radios : OfflineOf(r) \in Events /\ OnlineOf(r) \in Events
  BY DEF Events

(* rf_offline keeps the types of the link variables and leaves no radio    *)
(* alive that has not been classified.                                     *)
LEMMA OfflineType ==
    ASSUME NEW r \in Radios, NEW was \in BOOLEAN, LinkTypeOK, rf_offline(r, was)
    PROVE  /\ LinkTypeOK'
           /\ (\A q \in Radios : alive[q] => startup[q])
                => (\A q \in Radios : alive'[q] => startup'[q])
           /\ \A q \in Radios : alive[q] \/ OfflineOf(q) \in rf_event
                                => alive'[q] \/ OfflineOf(q) \in rf_event'
<1>1. CASE was
  <2>1. /\ alive' = [alive EXCEPT ![r] = FALSE]
        /\ rf_event' = rf_event \cup {OfflineOf(r)}
        /\ startup' = startup
    BY <1>1 DEF rf_offline
  <2> QED
    BY <2>1, EventFacts DEF LinkTypeOK
<1>2. CASE ~was /\ ~startup[r]
  <2>1. /\ startup' = [startup EXCEPT ![r] = TRUE]
        /\ rf_event' = rf_event \cup {OfflineOf(r)}
        /\ alive' = alive
    BY <1>2 DEF rf_offline
  <2> QED
    BY <2>1, EventFacts DEF LinkTypeOK
<1>3. CASE ~was /\ startup[r]
  BY <1>3 DEF LinkTypeOK, rf_offline, linkVars
<1> QED
  BY <1>1, <1>2, <1>3

(* heart_init establishes the inductive invariant. *)
LEMMA InitInv == Init => HeartInv
<1> SUFFICES ASSUME Init PROVE HeartInv
  OBVIOUS
<1> USE DEF Init, LinkInit
<1>1. TypeOK
  <2>1. LinkTypeOK
    BY DEF LinkTypeOK
  <2>2. /\ retry \in [Radios -> Nat]
        /\ received \in [Radios -> BOOLEAN]
        /\ testreceived \in [Radios -> BOOLEAN]
    OBVIOUS
  <2>3. rf_now \in Radios /\ htemp \in Radios /\ binfo \in Radios
    BY RadioFacts
  <2>4. connect_on \in BOOLEAN /\ heart_armed \in BOOLEAN
    OBVIOUS
  <2>5. /\ connect_sem \in Nat /\ heart_sem \in Nat /\ hold \in Nat
        /\ hreg \in Nat /\ breg \in Nat
        /\ button_sem \in 0..MaxPending /\ bcase \in 0..Final
    BY PendingAssumption DEF Final
  <2> QED
    BY <2>1, <2>2, <2>3, <2>4, <2>5
    DEF TypeOK, HeartPcs, HeartRests, ButtonPcs, ButtonRests, Modes
<1>2. PhaseInv
  BY DEF PhaseInv
<1>3. OneBeatPending
  BY DEF OneBeatPending, InBeat
<1>4. LockOnlyInExchange
  BY DEF LockOnlyInExchange
<1>5. CountInv
  BY DEF CountInv, HeartCounts, ButtonCounts, One, Dead
<1>6. JudgedAlone
  BY DEF JudgedAlone
<1> QED
  BY <1>1, <1>2, <1>3, <1>4, <1>5, <1>6 DEF HeartInv

-----------------------------------------------------------------------------
(* Every step of the two threads, the timers and the environment keeps the *)
(* inductive invariant.                                                    *)

(* The steps of heart_callback. *)
LEMMA HeartThreadInv == HeartInv /\ HeartThread => HeartInv'
<1> SUFFICES ASSUME HeartInv, HeartThread PROVE HeartInv'
  OBVIOUS
<1> USE RadioFacts, EventFacts, PendingAssumption
    DEF HeartInv, linkVars, radioVars, connectVars, heartVars, buttonVars, lockVars
<1> /\ spent # "heart"
    /\ hpc' \in HeartReady => spent' = spent
    /\ hpc' \notin HeartReady /\ hpc' \in HeartRests /\ ButtonRuns => spent' = "heart"
    /\ hpc' \notin HeartReady /\ ~(hpc' \in HeartRests /\ ButtonRuns) => spent' = "none"
  BY DEF HeartThread, HeartSpends, ButtonRuns
<1>1. CASE HConnect
  <2> USE <1>1 DEF HConnect, heart_request
  <2>1. TypeOK'
    BY DEF TypeOK, LinkTypeOK, HeartPcs, HeartRests, HeartLogs, HeartReady,
        Modes
  <2>2. PhaseInv'
    BY DEF TypeOK, LinkTypeOK, PhaseInv, HeartRests, HeartReady, ButtonRests,
        ButtonReady, ButtonRuns
  <2>3. OneBeatPending'
    BY DEF PhaseInv, OneBeatPending, InBeat, Stalled
  <2>4. LockOnlyInExchange'
    BY DEF PhaseInv, LockOnlyInExchange
  <2>5. CountInv'
    BY DEF CountInv, HeartCounts, ButtonCounts, One
  <2>6. JudgedAlone'
    BY DEF JudgedAlone, Overtaken
  <2> QED
    BY <2>1, <2>2, <2>3, <2>4, <2>5, <2>6
<1>2. CASE HConnectWake
  <2> USE <1>2 DEF HConnectWake
  <2>1. TypeOK'
    BY DEF TypeOK, LinkTypeOK, HeartPcs, HeartRests, HeartLogs, HeartReady,
        Modes
  <2>2. PhaseInv'
    BY DEF PhaseInv, HeartRests, HeartReady, ButtonRests, ButtonReady,
        ButtonRuns
  <2>3. OneBeatPending'
    BY DEF OneBeatPending, InBeat, Stalled
  <2>4. LockOnlyInExchange'
    BY DEF LockOnlyInExchange
  <2>5. CountInv'
    BY DEF TypeOK, PhaseInv, CountInv, HeartCounts, ButtonCounts, One,
        HeartRests, HeartReady, ButtonRests, ButtonReady, ButtonRuns, Final,
        Dead
  <2>6. JudgedAlone'
    BY DEF PhaseInv, JudgedAlone, Overtaken
  <2> QED
    BY <2>1, <2>2, <2>3, <2>4, <2>5, <2>6
<1>3. CASE HConnected
  <2> USE <1>3 DEF HConnected, Refresh, LinkRefresh
  <2>1. TypeOK'
    BY DEF TypeOK, LinkTypeOK, HeartPcs, HeartRests, HeartLogs, HeartReady,
        Modes
  <2>2. PhaseInv'
    BY DEF TypeOK, LinkTypeOK, PhaseInv, HeartRests, HeartReady, ButtonRests,
        ButtonReady, ButtonRuns
  <2>3. OneBeatPending'
    BY DEF PhaseInv, OneBeatPending, InBeat, Stalled
  <2>4. LockOnlyInExchange'
    BY DEF LockOnlyInExchange
  <2>5. CountInv'
    BY DEF TypeOK, CountInv, HeartCounts, ButtonCounts, One, Final, Dead
  <2>6. JudgedAlone'
    BY DEF JudgedAlone, Overtaken
  <2> QED
    BY <2>1, <2>2, <2>3, <2>4, <2>5, <2>6
<1>4. CASE HSend
  <2> USE <1>4 DEF HSend, Beat
  <2>1. TypeOK'
    BY DEF TypeOK, LinkTypeOK, HeartPcs, HeartRests, HeartLogs, HeartReady,
        Modes
  <2>2. PhaseInv'
    BY DEF TypeOK, LinkTypeOK, PhaseInv, OneBeatPending, InBeat, Stalled,
        HeartRests, HeartReady, ButtonRests, ButtonReady, ButtonRuns
  <2>3. OneBeatPending'
    BY DEF OneBeatPending, InBeat, Stalled
  <2>4. LockOnlyInExchange'
    BY DEF LockOnlyInExchange
  <2>5. CountInv'
    BY DEF CountInv, HeartCounts, ButtonCounts, One
  <2>6. JudgedAlone'
    BY DEF JudgedAlone, Overtaken
  <2> QED
    BY <2>1, <2>2, <2>3, <2>4, <2>5, <2>6
<1>5. CASE HAsk
  <2> USE <1>5 DEF HAsk
  <2>1. TypeOK'
    BY DEF TypeOK, LinkTypeOK, HeartPcs, HeartRests, HeartLogs, HeartReady,
        Modes
  <2>2. PhaseInv'
    BY DEF PhaseInv, HeartRests, HeartReady, ButtonRests, ButtonReady,
        ButtonRuns
  <2>3. OneBeatPending'
    BY DEF OneBeatPending, InBeat, Stalled
  <2>4. LockOnlyInExchange'
    BY DEF LockOnlyInExchange
  <2>5. CountInv'
    BY DEF CountInv, HeartCounts, ButtonCounts, One
  <2>6. JudgedAlone'
    BY DEF JudgedAlone, Overtaken
  <2> QED
    BY <2>1, <2>2, <2>3, <2>4, <2>5, <2>6
<1>6. CASE HAsked
  <2> USE <1>6 DEF HAsked, heart_request
  <2>1. TypeOK'
    BY DEF TypeOK, LinkTypeOK, HeartPcs, HeartRests, HeartLogs, HeartReady,
        Modes
  <2>2. PhaseInv'
    BY DEF TypeOK, LinkTypeOK, PhaseInv, OneBeatPending, InBeat, Stalled,
        LockOnlyInExchange, HeartRests, HeartReady, ButtonRests, ButtonReady,
        ButtonRuns
  <2>3. OneBeatPending'
    BY DEF OneBeatPending, InBeat, Stalled
  <2>4. LockOnlyInExchange'
    BY DEF LockOnlyInExchange
  <2>5. CountInv'
    BY DEF CountInv, HeartCounts, ButtonCounts, One
  <2>6. JudgedAlone'
    BY DEF JudgedAlone, Overtaken
  <2> QED
    BY <2>1, <2>2, <2>3, <2>4, <2>5, <2>6
<1>7. CASE HLock
  <2> USE <1>7 DEF HLock, Take, CanTake
  <2>1. TypeOK'
    BY DEF TypeOK, LinkTypeOK, HeartPcs, HeartRests, HeartLogs, HeartReady,
        Modes
  <2>2. PhaseInv'
    BY DEF PhaseInv, HeartRests, HeartReady, ButtonRests, ButtonReady,
        ButtonRuns
  <2>3. OneBeatPending'
    BY DEF OneBeatPending, InBeat, Stalled
  <2>4. LockOnlyInExchange'
    BY DEF PhaseInv, LockOnlyInExchange
  <2>5. CountInv'
    BY DEF TypeOK, PhaseInv, CountInv, HeartCounts, ButtonCounts, One,
        HeartRests, HeartReady, ButtonRests, ButtonReady, ButtonRuns, Final,
        Dead
  <2>6. JudgedAlone'
    BY DEF PhaseInv, JudgedAlone, Overtaken
  <2> QED
    BY <2>1, <2>2, <2>3, <2>4, <2>5, <2>6
<1>8. CASE HAnswered
  <2> USE <1>8 DEF HAnswered, Beat
  <2>1. TypeOK'
    BY DEF TypeOK, LinkTypeOK, HeartPcs, HeartRests, HeartLogs, HeartReady,
        Modes
  <2>2. PhaseInv'
    BY DEF PhaseInv, HeartRests, HeartReady, ButtonRests, ButtonReady,
        ButtonRuns
  <2>3. OneBeatPending'
    BY DEF OneBeatPending, InBeat, Stalled
  <2>4. LockOnlyInExchange'
    BY DEF LockOnlyInExchange
  <2>5. CountInv'
    BY DEF CountInv, HeartCounts, ButtonCounts, One
  <2>6. JudgedAlone'
    BY DEF JudgedAlone, Overtaken
  <2> QED
    BY <2>1, <2>2, <2>3, <2>4, <2>5, <2>6
<1>9. CASE HOk
  <2> USE <1>9 DEF HOk, Refresh, LinkRefresh
  <2>1. TypeOK'
    BY DEF TypeOK, LinkTypeOK, HeartPcs, HeartRests, HeartLogs, HeartReady,
        Modes
  <2>2. PhaseInv'
    BY DEF TypeOK, LinkTypeOK, PhaseInv, HeartRests, HeartReady, ButtonRests,
        ButtonReady, ButtonRuns
  <2>3. OneBeatPending'
    BY DEF OneBeatPending, InBeat, Stalled
  <2>4. LockOnlyInExchange'
    BY DEF LockOnlyInExchange
  <2>5. CountInv'
    BY DEF TypeOK, CountInv, HeartCounts, ButtonCounts, One, Final, Dead
  <2>6. JudgedAlone'
    BY DEF JudgedAlone, Overtaken
  <2> QED
    BY <2>1, <2>2, <2>3, <2>4, <2>5, <2>6
<1>10. CASE HTurn
  <2> USE <1>10 DEF HTurn
  <2>1. TypeOK'
    BY DEF TypeOK, LinkTypeOK, HeartPcs, HeartRests, HeartLogs, HeartReady,
        Modes
  <2>2. PhaseInv'
    BY DEF PhaseInv, HeartRests, HeartReady, ButtonRests, ButtonReady,
        ButtonRuns
  <2>3. OneBeatPending'
    BY DEF OneBeatPending, InBeat, Stalled
  <2>4. LockOnlyInExchange'
    BY DEF LockOnlyInExchange
  <2>5. CountInv'
    BY DEF CountInv, HeartCounts, ButtonCounts, One
  <2>6. JudgedAlone'
    BY DEF JudgedAlone, Overtaken
  <2> QED
    BY <2>1, <2>2, <2>3, <2>4, <2>5, <2>6
<1>11. CASE HTurned
  <2> USE <1>11 DEF HTurned
  <2>1. TypeOK'
    BY DEF TypeOK, LinkTypeOK, HeartPcs, HeartRests, HeartLogs, HeartReady,
        Modes
  <2>2. PhaseInv'
    BY DEF PhaseInv, HeartRests, HeartReady, ButtonRests, ButtonReady,
        ButtonRuns
  <2>3. OneBeatPending'
    BY DEF OneBeatPending, InBeat, Stalled
  <2>4. LockOnlyInExchange'
    BY DEF LockOnlyInExchange
  <2>5. CountInv'
    BY DEF TypeOK, PhaseInv, CountInv, HeartCounts, ButtonCounts, One,
        HeartRests, HeartReady, ButtonRests, ButtonReady, ButtonRuns, Final,
        Dead
  <2>6. JudgedAlone'
    BY DEF JudgedAlone, Overtaken
  <2> QED
    BY <2>1, <2>2, <2>3, <2>4, <2>5, <2>6
<1>12. CASE HMissed
  <2> USE <1>12 DEF HMissed, Beat
  <2>1. TypeOK'
    BY DEF TypeOK, LinkTypeOK, HeartPcs, HeartRests, HeartLogs, HeartReady,
        Modes
  <2>2. PhaseInv'
    BY DEF PhaseInv, HeartRests, HeartReady, ButtonRests, ButtonReady,
        ButtonRuns
  <2>3. OneBeatPending'
    BY DEF OneBeatPending, InBeat, Stalled
  <2>4. LockOnlyInExchange'
    BY DEF LockOnlyInExchange
  <2>5. CountInv'
    BY DEF TypeOK, CountInv, HeartCounts, ButtonCounts, One, Final, Dead
  <2>6. JudgedAlone'
    BY DEF JudgedAlone, Overtaken
  <2> QED
    BY <2>1, <2>2, <2>3, <2>4, <2>5, <2>6
<1>13. CASE HCount
  <2> USE <1>13 DEF HCount
  <2>1. TypeOK'
    BY DEF TypeOK, LinkTypeOK, HeartPcs, HeartRests, HeartLogs, HeartReady,
        Modes
  <2>2. PhaseInv'
    BY DEF PhaseInv, HeartRests, HeartReady, ButtonRests, ButtonReady,
        ButtonRuns
  <2>3. OneBeatPending'
    BY DEF OneBeatPending, InBeat, Stalled
  <2>4. LockOnlyInExchange'
    BY DEF LockOnlyInExchange
  <2>5. CountInv'
    BY DEF TypeOK, PhaseInv, CountInv, HeartCounts, ButtonCounts, One,
        HeartRests, HeartReady, ButtonRests, ButtonReady, ButtonRuns, Final,
        Dead
  <2>6. JudgedAlone'
    BY DEF JudgedAlone, Overtaken
  <2> QED
    BY <2>1, <2>2, <2>3, <2>4, <2>5, <2>6
<1>14. CASE HCounted
  <2> USE <1>14 DEF HCounted, StoreCount
  <2>1. TypeOK'
    <3>1. heart_sem' \in Nat
      BY DEF TypeOK
    <3>2. heart_armed' \in BOOLEAN
      BY DEF TypeOK
    <3>3. retry' \in [Radios -> Nat]
      BY DEF TypeOK
    <3> QED
      BY <3>1, <3>2, <3>3 DEF TypeOK, LinkTypeOK, HeartPcs, HeartReady
  <2>2. PhaseInv'
    BY DEF PhaseInv, HeartRests, HeartReady, ButtonRests, ButtonReady,
        ButtonRuns
  <2>3. OneBeatPending'
    BY DEF OneBeatPending, InBeat, Stalled
  <2>4. LockOnlyInExchange'
    BY DEF LockOnlyInExchange
  <2>5. CountInv'
    BY DEF TypeOK, CountInv, HeartCounts, ButtonCounts, One, Final, Dead
  <2>6. JudgedAlone'
    BY DEF JudgedAlone, Overtaken
  <2> QED
    BY <2>1, <2>2, <2>3, <2>4, <2>5, <2>6
<1>15. CASE HFinal
  <2> USE <1>15 DEF HFinal, Beat
  <2>1. TypeOK'
    BY DEF TypeOK, LinkTypeOK, HeartPcs, HeartRests, HeartLogs, HeartReady,
        Modes
  <2>2. PhaseInv'
    BY DEF PhaseInv, HeartRests, HeartReady, ButtonRests, ButtonReady,
        ButtonRuns
  <2>3. OneBeatPending'
    BY DEF OneBeatPending, InBeat, Stalled
  <2>4. LockOnlyInExchange'
    BY DEF LockOnlyInExchange
  <2>5. CountInv'
    BY DEF CountInv, HeartCounts, ButtonCounts, One
  <2>6. JudgedAlone'
    BY DEF JudgedAlone, Overtaken
  <2> QED
    BY <2>1, <2>2, <2>3, <2>4, <2>5, <2>6
<1>16. CASE HFinalFail
  <2> USE <1>16 DEF HFinalFail
  <2>1. TypeOK'
    BY DEF TypeOK, LinkTypeOK, HeartPcs, HeartRests, HeartLogs, HeartReady,
        Modes
  <2>2. PhaseInv'
    BY DEF PhaseInv, HeartRests, HeartReady, ButtonRests, ButtonReady,
        ButtonRuns
  <2>3. OneBeatPending'
    BY DEF OneBeatPending, InBeat, Stalled
  <2>4. LockOnlyInExchange'
    BY DEF LockOnlyInExchange
  <2>5. CountInv'
    BY DEF CountInv, HeartCounts, ButtonCounts, One
  <2>6. JudgedAlone'
    BY DEF JudgedAlone, Overtaken
  <2> QED
    BY <2>1, <2>2, <2>3, <2>4, <2>5, <2>6
<1>17. CASE HFlip
  <2> USE <1>17 DEF HFlip
  <2>1. TypeOK'
    BY DEF TypeOK, LinkTypeOK, HeartPcs, HeartRests, HeartLogs, HeartReady,
        Modes
  <2>2. PhaseInv'
    BY DEF PhaseInv, HeartRests, HeartReady, ButtonRests, ButtonReady,
        ButtonRuns
  <2>3. OneBeatPending'
    BY DEF OneBeatPending, InBeat, Stalled
  <2>4. LockOnlyInExchange'
    BY DEF LockOnlyInExchange
  <2>5. CountInv'
    BY DEF CountInv, HeartCounts, ButtonCounts, One
  <2>6. JudgedAlone'
    BY DEF JudgedAlone, Overtaken
  <2> QED
    BY <2>1, <2>2, <2>3, <2>4, <2>5, <2>6
<1>18. CASE HTest
  <2> USE <1>18 DEF HTest, One
  <2>1. TypeOK'
    BY DEF TypeOK, LinkTypeOK, HeartPcs, HeartRests, HeartLogs, HeartReady,
        Modes
  <2>2. PhaseInv'
    BY DEF PhaseInv, HeartRests, HeartReady, ButtonRests, ButtonReady,
        ButtonRuns
  <2>3. OneBeatPending'
    BY DEF OneBeatPending, InBeat, Stalled
  <2>4. LockOnlyInExchange'
    BY DEF LockOnlyInExchange
  <2>5. CountInv'
    BY DEF CountInv, HeartCounts, ButtonCounts, One
  <2>6. JudgedAlone'
    BY DEF JudgedAlone, Overtaken
  <2> QED
    BY <2>1, <2>2, <2>3, <2>4, <2>5, <2>6
<1>19. CASE HOff
  <2> USE <1>19 DEF HOff, GiveUp
  <2>0. /\ LinkTypeOK'
        /\ \A q \in Radios : alive'[q] => startup'[q]
        /\ \A q \in Radios : alive[q] \/ OfflineOf(q) \in rf_event
                             => alive'[q] \/ OfflineOf(q) \in rf_event'
    BY OfflineType, (hreg = 1) \in BOOLEAN, htemp \in Radios DEF TypeOK, PhaseInv
  <2>1. TypeOK'
    BY <2>0 DEF TypeOK, HeartPcs, HeartRests, HeartLogs, HeartReady, Modes
  <2>2. PhaseInv'
    BY <2>0 DEF TypeOK, PhaseInv, OneBeatPending, InBeat, Stalled, HeartRests,
             HeartReady, ButtonRests, ButtonReady, ButtonRuns
  <2>3. OneBeatPending'
    BY DEF OneBeatPending, InBeat, Stalled
  <2>4. LockOnlyInExchange'
    BY DEF LockOnlyInExchange
  <2>5. CountInv'
    BY DEF TypeOK, CountInv, HeartCounts, ButtonCounts, One, Final, Dead
  <2>6. JudgedAlone'
    BY DEF JudgedAlone, Overtaken
  <2> QED
    BY <2>1, <2>2, <2>3, <2>4, <2>5, <2>6
<1>20. CASE HNoCase
  <2> USE <1>20 DEF HNoCase, Beat
  <2>1. TypeOK'
    BY DEF TypeOK, LinkTypeOK, HeartPcs, HeartRests, HeartLogs, HeartReady,
        Modes
  <2>2. PhaseInv'
    BY DEF TypeOK, LinkTypeOK, PhaseInv, OneBeatPending, InBeat, Stalled,
        CountInv, HeartCounts, ButtonCounts, One, JudgedAlone, Overtaken,
        HeartRests, HeartReady, ButtonRests, ButtonReady, ButtonRuns, Final,
        Dead
  <2>3. OneBeatPending'
    BY DEF TypeOK, PhaseInv, OneBeatPending, InBeat, Stalled, CountInv,
        HeartCounts, ButtonCounts, One, JudgedAlone, Overtaken, Final, Dead
  <2>4. LockOnlyInExchange'
    BY DEF LockOnlyInExchange
  <2>5. CountInv'
    BY DEF CountInv, HeartCounts, ButtonCounts, One
  <2>6. JudgedAlone'
    BY DEF JudgedAlone, Overtaken
  <2> QED
    BY <2>1, <2>2, <2>3, <2>4, <2>5, <2>6
<1>21. CASE HUnlock
  <2> USE <1>21 DEF HUnlock, Release
  <2>1. TypeOK'
    BY DEF TypeOK, LinkTypeOK, HeartPcs, HeartRests, HeartLogs, HeartReady,
        Modes, PhaseInv, LockOnlyInExchange, CountInv, Dead, Final
  <2>2. PhaseInv'
    BY DEF PhaseInv, HeartRests, HeartReady, ButtonRests, ButtonReady,
        ButtonRuns
  <2>3. OneBeatPending'
    BY DEF OneBeatPending, InBeat, Stalled
  <2>4. LockOnlyInExchange'
    BY DEF LockOnlyInExchange
  <2>5. CountInv'
    BY DEF TypeOK, PhaseInv, CountInv, HeartCounts, ButtonCounts, One,
        HeartRests, HeartReady, ButtonRests, ButtonReady, ButtonRuns, Final,
        Dead
  <2>6. JudgedAlone'
    BY DEF JudgedAlone, Overtaken
  <2> QED
    BY <2>1, <2>2, <2>3, <2>4, <2>5, <2>6
<1>22. CASE HRand
  <2> USE <1>22 DEF HRand, Beat
  <2>1. TypeOK'
    BY DEF TypeOK, LinkTypeOK, HeartPcs, HeartRests, HeartLogs, HeartReady,
        Modes
  <2>2. PhaseInv'
    BY DEF PhaseInv, HeartRests, HeartReady, ButtonRests, ButtonReady,
        ButtonRuns
  <2>3. OneBeatPending'
    BY DEF OneBeatPending, InBeat, Stalled
  <2>4. LockOnlyInExchange'
    BY DEF LockOnlyInExchange
  <2>5. CountInv'
    BY DEF CountInv, HeartCounts, ButtonCounts, One
  <2>6. JudgedAlone'
    BY DEF JudgedAlone, Overtaken
  <2> QED
    BY <2>1, <2>2, <2>3, <2>4, <2>5, <2>6
<1> QED
  BY <1>1, <1>2, <1>3, <1>4, <1>5, <1>6, <1>7, <1>8, <1>9, <1>10, <1>11, <1>12,
     <1>13, <1>14, <1>15, <1>16, <1>17, <1>18, <1>19, <1>20, <1>21, <1>22
  DEF HeartThread, HeartStep

(* The steps of buttontest_callback. *)
LEMMA ButtonThreadInv == HeartInv /\ ButtonThread => HeartInv'
<1> SUFFICES ASSUME HeartInv, ButtonThread PROVE HeartInv'
  OBVIOUS
<1> USE RadioFacts, EventFacts, PendingAssumption
    DEF HeartInv, linkVars, radioVars, connectVars, heartVars, buttonVars, lockVars
<1> /\ spent # "button"
    /\ ButtonRuns' => spent' = spent
    /\ ~ButtonRuns' /\ bpc' \in ButtonRests /\ hpc \in HeartReady => spent' = "button"
    /\ ~ButtonRuns' /\ ~(bpc' \in ButtonRests /\ hpc \in HeartReady) => spent' = "none"
  BY DEF ButtonThread, ButtonSpends, ButtonRuns
<1>1. CASE BSelect
  <2> USE <1>1 DEF BSelect
  <2>1. TypeOK'
    BY DEF TypeOK, LinkTypeOK, ButtonPcs, ButtonRests, ButtonLogs, ButtonReady,
        Final
  <2>2. PhaseInv'
    BY DEF TypeOK, LinkTypeOK, PhaseInv, OneBeatPending, InBeat, Stalled,
        HeartRests, HeartReady, ButtonRests, ButtonReady, ButtonRuns
  <2>3. OneBeatPending'
    BY DEF OneBeatPending, InBeat, Stalled
  <2>4. LockOnlyInExchange'
    BY DEF LockOnlyInExchange
  <2>5. CountInv'
    BY DEF CountInv, HeartCounts, ButtonCounts, One
  <2>6. JudgedAlone'
    BY DEF JudgedAlone, Overtaken
  <2> QED
    BY <2>1, <2>2, <2>3, <2>4, <2>5, <2>6
<1>2. CASE BTake
  <2> USE <1>2 DEF BTake
  <2>1. TypeOK'
    BY DEF TypeOK, LinkTypeOK, ButtonPcs, ButtonRests, ButtonLogs, ButtonReady,
        Final
  <2>2. PhaseInv'
    BY DEF TypeOK, LinkTypeOK, PhaseInv, OneBeatPending, InBeat, Stalled,
        HeartRests, HeartReady, ButtonRests, ButtonReady, ButtonRuns
  <2>3. OneBeatPending'
    BY DEF OneBeatPending, InBeat, Stalled
  <2>4. LockOnlyInExchange'
    BY DEF LockOnlyInExchange
  <2>5. CountInv'
    BY DEF CountInv, HeartCounts, ButtonCounts, One
  <2>6. JudgedAlone'
    BY DEF JudgedAlone, Overtaken
  <2> QED
    BY <2>1, <2>2, <2>3, <2>4, <2>5, <2>6
<1>3. CASE BAsk
  <2> USE <1>3 DEF BAsk, button_request
  <2>1. TypeOK'
    BY DEF TypeOK, LinkTypeOK, ButtonPcs, ButtonRests, ButtonLogs, ButtonReady,
        Final
  <2>2. PhaseInv'
    BY DEF TypeOK, LinkTypeOK, PhaseInv, OneBeatPending, InBeat, Stalled,
        HeartRests, HeartReady, ButtonRests, ButtonReady, ButtonRuns
  <2>3. OneBeatPending'
    BY DEF OneBeatPending, InBeat, Stalled
  <2>4. LockOnlyInExchange'
    BY DEF LockOnlyInExchange
  <2>5. CountInv'
    BY DEF CountInv, HeartCounts, ButtonCounts, One
  <2>6. JudgedAlone'
    BY DEF JudgedAlone, Overtaken
  <2> QED
    BY <2>1, <2>2, <2>3, <2>4, <2>5, <2>6
<1>4. CASE BSwitch
  <2> USE <1>4 DEF BSwitch
  <2>1. TypeOK'
    BY DEF TypeOK, LinkTypeOK, ButtonPcs, ButtonRests, ButtonLogs, ButtonReady,
        Final
  <2>2. PhaseInv'
    BY DEF TypeOK, LinkTypeOK, PhaseInv, OneBeatPending, InBeat, Stalled,
        HeartRests, HeartReady, ButtonRests, ButtonReady, ButtonRuns
  <2>3. OneBeatPending'
    BY DEF OneBeatPending, InBeat, Stalled
  <2>4. LockOnlyInExchange'
    BY DEF LockOnlyInExchange
  <2>5. CountInv'
    BY DEF TypeOK, PhaseInv, CountInv, HeartCounts, ButtonCounts, One,
        HeartRests, HeartReady, ButtonRests, ButtonReady, ButtonRuns, Final,
        Dead
  <2>6. JudgedAlone'
    BY DEF TypeOK, JudgedAlone, Overtaken, Final, Dead
  <2> QED
    BY <2>1, <2>2, <2>3, <2>4, <2>5, <2>6
<1>5. CASE BWake
  <2> USE <1>5 DEF BWake
  <2>1. TypeOK'
    BY DEF TypeOK, LinkTypeOK, ButtonPcs, ButtonRests, ButtonLogs, ButtonReady,
        Final
  <2>2. PhaseInv'
    BY DEF TypeOK, LinkTypeOK, PhaseInv, OneBeatPending, InBeat, Stalled,
        HeartRests, HeartReady, ButtonRests, ButtonReady, ButtonRuns
  <2>3. OneBeatPending'
    BY DEF OneBeatPending, InBeat, Stalled
  <2>4. LockOnlyInExchange'
    BY DEF LockOnlyInExchange
  <2>5. CountInv'
    BY DEF CountInv, HeartCounts, ButtonCounts, One
  <2>6. JudgedAlone'
    BY DEF JudgedAlone, Overtaken
  <2> QED
    BY <2>1, <2>2, <2>3, <2>4, <2>5, <2>6
<1>6. CASE BMissed
  <2> USE <1>6 DEF BMissed
  <2>1. TypeOK'
    BY DEF TypeOK, LinkTypeOK, ButtonPcs, ButtonRests, ButtonLogs, ButtonReady,
        Final
  <2>2. PhaseInv'
    BY DEF TypeOK, LinkTypeOK, PhaseInv, OneBeatPending, InBeat, Stalled,
        HeartRests, HeartReady, ButtonRests, ButtonReady, ButtonRuns
  <2>3. OneBeatPending'
    BY DEF OneBeatPending, InBeat, Stalled
  <2>4. LockOnlyInExchange'
    BY DEF LockOnlyInExchange
  <2>5. CountInv'
    BY DEF TypeOK, CountInv, HeartCounts, ButtonCounts, One, Final, Dead
  <2>6. JudgedAlone'
    BY DEF JudgedAlone, Overtaken
  <2> QED
    BY <2>1, <2>2, <2>3, <2>4, <2>5, <2>6
<1>7. CASE BCounted
  <2> USE <1>7 DEF BCounted, StoreCount
  <2>1. TypeOK'
    BY DEF TypeOK, LinkTypeOK, ButtonPcs, ButtonRests, ButtonLogs, ButtonReady,
        Final
  <2>2. PhaseInv'
    BY DEF TypeOK, LinkTypeOK, PhaseInv, OneBeatPending, InBeat, Stalled,
        CountInv, HeartCounts, ButtonCounts, One, JudgedAlone, Overtaken,
        HeartRests, HeartReady, ButtonRests, ButtonReady, ButtonRuns, Final,
        Dead
  <2>3. OneBeatPending'
    BY DEF TypeOK, PhaseInv, OneBeatPending, InBeat, Stalled, CountInv,
        HeartCounts, ButtonCounts, One, JudgedAlone, Overtaken, Final, Dead
  <2>4. LockOnlyInExchange'
    BY DEF LockOnlyInExchange
  <2>5. CountInv'
    BY DEF TypeOK, CountInv, HeartCounts, ButtonCounts, One, Final, Dead
  <2>6. JudgedAlone'
    BY DEF JudgedAlone, Overtaken
  <2> QED
    BY <2>1, <2>2, <2>3, <2>4, <2>5, <2>6
<1>8. CASE BOk
  <2> USE <1>8 DEF BOk, Refresh, LinkRefresh
  <2>1. TypeOK'
    BY DEF TypeOK, LinkTypeOK, ButtonPcs, ButtonRests, ButtonLogs, ButtonReady,
        Final
  <2>2. PhaseInv'
    BY DEF TypeOK, LinkTypeOK, PhaseInv, OneBeatPending, InBeat, Stalled,
        CountInv, HeartCounts, ButtonCounts, One, JudgedAlone, Overtaken,
        HeartRests, HeartReady, ButtonRests, ButtonReady, ButtonRuns, Final,
        Dead
  <2>3. OneBeatPending'
    BY DEF TypeOK, PhaseInv, OneBeatPending, InBeat, Stalled, CountInv,
        HeartCounts, ButtonCounts, One, JudgedAlone, Overtaken, Final, Dead
  <2>4. LockOnlyInExchange'
    BY DEF LockOnlyInExchange
  <2>5. CountInv'
    BY DEF TypeOK, CountInv, HeartCounts, ButtonCounts, One, Final, Dead
  <2>6. JudgedAlone'
    BY DEF JudgedAlone, Overtaken
  <2> QED
    BY <2>1, <2>2, <2>3, <2>4, <2>5, <2>6
<1>9. CASE BTry
  <2> USE <1>9 DEF BTry, Take, CanTake
  <2>1. TypeOK'
    BY DEF TypeOK, LinkTypeOK, ButtonPcs, ButtonRests, ButtonLogs, ButtonReady,
        Final
  <2>2. PhaseInv'
    BY DEF TypeOK, LinkTypeOK, PhaseInv, OneBeatPending, InBeat, Stalled,
        HeartRests, HeartReady, ButtonRests, ButtonReady, ButtonRuns
  <2>3. OneBeatPending'
    BY DEF OneBeatPending, InBeat, Stalled
  <2>4. LockOnlyInExchange'
    BY DEF LockOnlyInExchange
  <2>5. CountInv'
    BY DEF CountInv, HeartCounts, ButtonCounts, One
  <2>6. JudgedAlone'
    BY DEF JudgedAlone, Overtaken
  <2> QED
    BY <2>1, <2>2, <2>3, <2>4, <2>5, <2>6
<1>10. CASE BFinalFail
  <2> USE <1>10 DEF BFinalFail, Take, CanTake
  <2>1. TypeOK'
    BY DEF TypeOK, LinkTypeOK, ButtonPcs, ButtonRests, ButtonLogs, ButtonReady,
        Final
  <2>2. PhaseInv'
    BY DEF TypeOK, LinkTypeOK, PhaseInv, OneBeatPending, InBeat, Stalled,
        HeartRests, HeartReady, ButtonRests, ButtonReady, ButtonRuns
  <2>3. OneBeatPending'
    BY DEF OneBeatPending, InBeat, Stalled
  <2>4. LockOnlyInExchange'
    BY DEF LockOnlyInExchange
  <2>5. CountInv'
    BY DEF CountInv, HeartCounts, ButtonCounts, One
  <2>6. JudgedAlone'
    BY DEF JudgedAlone, Overtaken
  <2> QED
    BY <2>1, <2>2, <2>3, <2>4, <2>5, <2>6
<1>11. CASE BFlip
  <2> USE <1>11 DEF BFlip
  <2>1. TypeOK'
    BY DEF TypeOK, LinkTypeOK, ButtonPcs, ButtonRests, ButtonLogs, ButtonReady,
        Final
  <2>2. PhaseInv'
    BY DEF TypeOK, LinkTypeOK, PhaseInv, OneBeatPending, InBeat, Stalled,
        HeartRests, HeartReady, ButtonRests, ButtonReady, ButtonRuns
  <2>3. OneBeatPending'
    BY DEF OneBeatPending, InBeat, Stalled
  <2>4. LockOnlyInExchange'
    BY DEF LockOnlyInExchange
  <2>5. CountInv'
    BY DEF CountInv, HeartCounts, ButtonCounts, One
  <2>6. JudgedAlone'
    BY DEF JudgedAlone, Overtaken
  <2> QED
    BY <2>1, <2>2, <2>3, <2>4, <2>5, <2>6
<1>12. CASE BFlipped
  <2> USE <1>12 DEF BFlipped
  <2>1. TypeOK'
    BY DEF TypeOK, LinkTypeOK, ButtonPcs, ButtonRests, ButtonLogs, ButtonReady,
        Final
  <2>2. PhaseInv'
    BY DEF TypeOK, LinkTypeOK, PhaseInv, OneBeatPending, InBeat, Stalled,
        HeartRests, HeartReady, ButtonRests, ButtonReady, ButtonRuns
  <2>3. OneBeatPending'
    BY DEF OneBeatPending, InBeat, Stalled
  <2>4. LockOnlyInExchange'
    BY DEF LockOnlyInExchange
  <2>5. CountInv'
    BY DEF CountInv, HeartCounts, ButtonCounts, One
  <2>6. JudgedAlone'
    BY DEF JudgedAlone, Overtaken
  <2> QED
    BY <2>1, <2>2, <2>3, <2>4, <2>5, <2>6
<1>13. CASE BFree
  <2> USE <1>13 DEF BFree, Release
  <2>1. TypeOK'
    BY DEF TypeOK, LinkTypeOK, ButtonPcs, ButtonRests, ButtonLogs, ButtonReady,
        Final, PhaseInv, LockOnlyInExchange, CountInv, Dead
  <2>2. PhaseInv'
    BY DEF TypeOK, LinkTypeOK, PhaseInv, OneBeatPending, InBeat, Stalled,
        HeartRests, HeartReady, ButtonRests, ButtonReady, ButtonRuns
  <2>3. OneBeatPending'
    BY DEF OneBeatPending, InBeat, Stalled
  <2>4. LockOnlyInExchange'
    BY DEF LockOnlyInExchange
  <2>5. CountInv'
    BY DEF CountInv, HeartCounts, ButtonCounts, One
  <2>6. JudgedAlone'
    BY DEF JudgedAlone, Overtaken
  <2> QED
    BY <2>1, <2>2, <2>3, <2>4, <2>5, <2>6
<1>14. CASE BTest
  <2> USE <1>14 DEF BTest, One
  <2>1. TypeOK'
    BY DEF TypeOK, LinkTypeOK, ButtonPcs, ButtonRests, ButtonLogs, ButtonReady,
        Final
  <2>2. PhaseInv'
    BY DEF TypeOK, LinkTypeOK, PhaseInv, OneBeatPending, InBeat, Stalled,
        HeartRests, HeartReady, ButtonRests, ButtonReady, ButtonRuns
  <2>3. OneBeatPending'
    BY DEF OneBeatPending, InBeat, Stalled
  <2>4. LockOnlyInExchange'
    BY DEF LockOnlyInExchange
  <2>5. CountInv'
    BY DEF CountInv, HeartCounts, ButtonCounts, One
  <2>6. JudgedAlone'
    BY DEF JudgedAlone, Overtaken
  <2> QED
    BY <2>1, <2>2, <2>3, <2>4, <2>5, <2>6
<1>15. CASE BOff
  <2> USE <1>15 DEF BOff, GiveUp
  <2>0. /\ LinkTypeOK'
        /\ \A q \in Radios : alive'[q] => startup'[q]
        /\ \A q \in Radios : alive[q] \/ OfflineOf(q) \in rf_event
                             => alive'[q] \/ OfflineOf(q) \in rf_event'
    BY OfflineType, (breg = 1) \in BOOLEAN, binfo \in Radios DEF TypeOK, PhaseInv
  <2>1. TypeOK'
    BY <2>0 DEF TypeOK, ButtonPcs, ButtonRests, ButtonLogs, ButtonReady, Final
  <2>2. PhaseInv'
    BY <2>0 DEF TypeOK, PhaseInv, OneBeatPending, InBeat, Stalled, CountInv,
             HeartCounts, ButtonCounts, One, JudgedAlone, Overtaken,
             HeartRests, HeartReady, ButtonRests, ButtonReady, ButtonRuns,
             Final, Dead
  <2>3. OneBeatPending'
    BY DEF TypeOK, PhaseInv, OneBeatPending, InBeat, Stalled, CountInv,
        HeartCounts, ButtonCounts, One, JudgedAlone, Overtaken, Final, Dead
  <2>4. LockOnlyInExchange'
    BY DEF LockOnlyInExchange
  <2>5. CountInv'
    BY DEF TypeOK, CountInv, HeartCounts, ButtonCounts, One, Final, Dead
  <2>6. JudgedAlone'
    BY DEF JudgedAlone, Overtaken
  <2> QED
    BY <2>1, <2>2, <2>3, <2>4, <2>5, <2>6
<1> QED
  BY <1>1, <1>2, <1>3, <1>4, <1>5, <1>6, <1>7, <1>8, <1>9, <1>10, <1>11, <1>12,
     <1>13, <1>14, <1>15
  DEF ButtonThread, ButtonStep

(* All steps. *)
LEMMA StepInv == HeartInv /\ [Next]_vars => HeartInv'
<1> SUFFICES ASSUME HeartInv, [Next]_vars PROVE HeartInv'
  OBVIOUS
<1> USE RadioFacts, EventFacts, PendingAssumption
    DEF HeartInv, linkVars, radioVars, connectVars, heartVars, buttonVars, lockVars
<1>1. CASE ConnectTick
  <2> USE <1>1 DEF ConnectTick
  <2>1. TypeOK'
    BY DEF TypeOK, LinkTypeOK
  <2>2. PhaseInv'
    BY DEF PhaseInv, HeartRests, HeartReady, ButtonRests, ButtonReady,
        ButtonRuns
  <2>3. OneBeatPending'
    BY DEF OneBeatPending, InBeat, Stalled
  <2>4. LockOnlyInExchange'
    BY DEF LockOnlyInExchange
  <2>5. CountInv'
    BY DEF CountInv, HeartCounts, ButtonCounts, One
  <2>6. JudgedAlone'
    BY DEF JudgedAlone, Overtaken
  <2> QED
    BY <2>1, <2>2, <2>3, <2>4, <2>5, <2>6
<1>2. CASE HeartTick
  <2> USE <1>2 DEF HeartTick
  <2>1. TypeOK'
    <3>1. heart_sem' \in Nat
      BY DEF TypeOK
    <3>2. heart_armed' \in BOOLEAN
      BY DEF TypeOK
    <3> QED
      BY <3>1, <3>2 DEF TypeOK, LinkTypeOK
  <2>2. PhaseInv'
    BY DEF PhaseInv, HeartRests, HeartReady, ButtonRests, ButtonReady,
        ButtonRuns
  <2>3. OneBeatPending'
    BY DEF OneBeatPending, InBeat, Stalled
  <2>4. LockOnlyInExchange'
    BY DEF LockOnlyInExchange
  <2>5. CountInv'
    BY DEF CountInv, HeartCounts, ButtonCounts, One
  <2>6. JudgedAlone'
    BY DEF JudgedAlone, Overtaken
  <2> QED
    BY <2>1, <2>2, <2>3, <2>4, <2>5, <2>6
<1>3. CASE HeartThread
  BY <1>3, HeartThreadInv
<1>4. CASE ButtonThread
  BY <1>4, ButtonThreadInv
<1>5. CASE Click
  <2> USE <1>5 DEF Click, BothBlocked
  <2>1. TypeOK'
    BY DEF TypeOK, LinkTypeOK
  <2>2. PhaseInv'
    BY DEF PhaseInv, HeartRests, HeartReady, ButtonRests, ButtonReady,
        ButtonRuns
  <2>3. OneBeatPending'
    BY DEF OneBeatPending, InBeat, Stalled
  <2>4. LockOnlyInExchange'
    BY DEF LockOnlyInExchange
  <2>5. CountInv'
    BY DEF CountInv, HeartCounts, ButtonCounts, One
  <2>6. JudgedAlone'
    BY DEF JudgedAlone, Overtaken
  <2> QED
    BY <2>1, <2>2, <2>3, <2>4, <2>5, <2>6
<1>6. CASE WarnRecv
  <2> USE <1>6 DEF WarnRecv, LinkRecv, BothBlocked
  <2>1. TypeOK'
    BY DEF TypeOK, LinkTypeOK
  <2>2. PhaseInv'
    BY DEF TypeOK, LinkTypeOK, PhaseInv, OneBeatPending, InBeat, Stalled,
        HeartRests, HeartReady, ButtonRests, ButtonReady, ButtonRuns
  <2>3. OneBeatPending'
    BY DEF OneBeatPending, InBeat, Stalled
  <2>4. LockOnlyInExchange'
    BY DEF LockOnlyInExchange
  <2>5. CountInv'
    BY DEF CountInv, HeartCounts, ButtonCounts, One
  <2>6. JudgedAlone'
    BY DEF JudgedAlone, Overtaken
  <2> QED
    BY <2>1, <2>2, <2>3, <2>4, <2>5, <2>6
<1>7. CASE \E r \in Radios, c \in Commands : Solve(r, c)
  <2> PICK r \in Radios, c \in Commands : Solve(r, c)
    BY <1>7
  <2> USE DEF Solve, LinkOnline
  <2>1. TypeOK'
    BY DEF TypeOK, LinkTypeOK
  <2>2. PhaseInv'
    BY DEF TypeOK, LinkTypeOK, PhaseInv, OneBeatPending, InBeat, Stalled,
        HeartRests, HeartReady, ButtonRests, ButtonReady, ButtonRuns
  <2>3. OneBeatPending'
    BY DEF OneBeatPending, InBeat, Stalled
  <2>4. LockOnlyInExchange'
    BY DEF LockOnlyInExchange
  <2>5. CountInv'
    BY DEF CountInv, HeartCounts, ButtonCounts, One
  <2>6. JudgedAlone'
    BY DEF JudgedAlone, Overtaken
  <2> QED
    BY <2>1, <2>2, <2>3, <2>4, <2>5, <2>6
<1>8. CASE UNCHANGED vars
  BY <1>8 DEF vars, TypeOK, LinkTypeOK, PhaseInv, OneBeatPending, LockOnlyInExchange,
     CountInv, JudgedAlone, Overtaken, HeartCounts, ButtonCounts, InBeat, Stalled,
     ButtonRuns
<1> QED
  BY <1>1, <1>2, <1>3, <1>4, <1>5, <1>6, <1>7, <1>8 DEF Next

(* HeartInv holds of every reachable state: the argument of all the safety *)
(* theorems below.                                                         *)
THEOREM Invariance == Spec => []HeartInv
<1>1. Init => HeartInv
  BY InitInv
<1>2. HeartInv /\ [Next]_vars => HeartInv'
  BY StepInv
<1> QED
  BY <1>1, <1>2, PTL DEF Spec

(* Type correctness of heart.c's state: no semaphore count and no recursion *)
(* count of rf_lock is ever negative.                                       *)
THEOREM TypeCorrect == Spec => []TypeOK
<1>1. HeartInv => TypeOK
  BY DEF HeartInv
<1> QED
  BY <1>1, Invariance, PTL

(* heart_callback never has two beats to come, and none only when stalled. *)
THEOREM BeatsNeverDouble == Spec => []OneBeatPending
<1>1. HeartInv => OneBeatPending
  BY DEF HeartInv
<1> QED
  BY <1>1, Invariance, PTL

(* rf_lock is neither leaked nor taken twice, on any path of the switch    *)
(* statements of heart_callback and buttontest_callback.                   *)
THEOREM LockNeverLeaks == Spec => []LockOnlyInExchange
<1>1. HeartInv => LockOnlyInExchange
  BY DEF HeartInv
<1> QED
  BY <1>1, Invariance, PTL

(* The failure counter that heart_callback and buttontest_callback share   *)
(* exceeds Final by at most one, however their retry++ interleave.         *)
THEOREM RetryNeverRunsAway == Spec => []RetryBounded
<1>1. HeartInv => RetryBounded
  BY DEF HeartInv, TypeOK, CountInv, RetryBounded, One, Dead
<1> QED
  BY <1>1, Invariance, PTL

-----------------------------------------------------------------------------
(* The stall.                                                              *)

(* No step takes a stalled supervision out of its stall. *)
LEMMA StallStep == HeartInv /\ [Next]_vars /\ Stalled => Stalled'
<1> SUFFICES ASSUME HeartInv, [Next]_vars, Stalled PROVE Stalled'
  OBVIOUS
<1> USE DEF Stalled, radioVars, heartVars
<1>1. ~connect_on /\ connect_sem = 0
  BY DEF HeartInv, PhaseInv
<1>2. /\ htemp \in Radios /\ binfo \in Radios
      /\ retry \in [Radios -> Nat] /\ bcase \in 0..Final
  BY DEF HeartInv, TypeOK
<1>3. ~ButtonCounts(htemp)
  BY <1>2 DEF HeartInv, CountInv, One, Dead
<1>4. ~Overtaken
  BY DEF HeartInv, JudgedAlone
<1>5. bpc \in {"wait", "count", "ok", "final", "test", "off"} => binfo # htemp
  BY <1>2, <1>3, <1>4 DEF ButtonCounts, Overtaken
<1>6. CASE ConnectTick \/ HeartTick
  BY <1>1, <1>6 DEF ConnectTick, HeartTick
<1>7. CASE HeartThread
  BY <1>1, <1>7 DEF HeartThread, HeartStep, Beat,
                HConnect, HConnectWake, HConnected, HSend, HAsk, HAsked, HLock,
                HAnswered, HOk, HTurn, HTurned, HMissed, HCount, HCounted,
                HFinal, HFinalFail, HFlip, HTest, HOff, HNoCase, HUnlock, HRand
<1>8. CASE ButtonThread
  <2>1. CASE BCounted \/ BOk \/ BOff
    BY <1>2, <1>5, <2>1 DEF BCounted, BOk, BOff, StoreCount, Refresh, GiveUp
  <2>2. CASE \/ BSelect \/ BTake \/ BAsk \/ BSwitch \/ BWake \/ BMissed \/ BTry
             \/ BFinalFail \/ BFlip \/ BFlipped \/ BFree \/ BTest
    BY <2>2 DEF BSelect, BTake, BAsk, BSwitch, BWake, BMissed, BTry, BFinalFail,
                BFlip, BFlipped, BFree, BTest
  <2> QED
    BY <1>8, <2>1, <2>2 DEF ButtonThread, ButtonStep
<1>9. CASE Click \/ WarnRecv \/ \E r \in Radios, c \in Commands : Solve(r, c)
  BY <1>9 DEF Click, WarnRecv, Solve
<1>10. CASE UNCHANGED vars
  BY <1>10 DEF vars
<1> QED
  BY <1>6, <1>7, <1>8, <1>9, <1>10 DEF Next

(* A stalled heart_callback never runs again, whatever the peer sends and  *)
(* however often the button is pressed.                                    *)
THEOREM StallNeverEnds == Spec => StallIsPermanent
<1>1. HeartInv /\ [Next]_vars => [Stalled => Stalled']_vars
  BY StallStep
<1> QED
  BY <1>1, Invariance, PTL DEF Spec, StallIsPermanent

-----------------------------------------------------------------------------
(* Heart implements RfLink.                                                *)

(* rf_offline reports a radio at most once between two refreshes, although *)
(* the other thread may have given it up since the test of alive.          *)
LEMMA OfflineLink ==
    ASSUME NEW r \in Radios, NEW was \in BOOLEAN, LinkTypeOK, rf_offline(r, was),
           alive[r] => startup[r], was => alive[r] \/ OfflineOf(r) \in rf_event
    PROVE  LinkOffline(r) \/ UNCHANGED linkVars
<1>1. CASE was /\ alive[r]
  BY <1>1 DEF LinkTypeOK, rf_offline, LinkOffline
<1>2. CASE was /\ ~alive[r]
  BY <1>2 DEF LinkTypeOK, rf_offline, linkVars
<1>3. CASE ~was /\ ~startup[r]
  BY <1>3 DEF LinkTypeOK, rf_offline, LinkOffline
<1>4. CASE ~was /\ startup[r]
  BY <1>4 DEF rf_offline
<1> QED
  BY <1>1, <1>2, <1>3, <1>4

(* Each step of Heart is a step of the link contract or leaves it alone.   *)
LEMMA LinkStep == HeartInv /\ [Next]_vars => [LinkNext]_linkVars
<1> SUFFICES ASSUME HeartInv, [Next]_vars PROVE [LinkNext]_linkVars
  OBVIOUS
<1>1. /\ LinkTypeOK /\ htemp \in Radios /\ binfo \in Radios
      /\ \A r \in Radios : alive[r] => startup[r]
  BY DEF HeartInv, TypeOK, PhaseInv
<1>2. CASE HConnected \/ HOk \/ BOk
  BY <1>1, <1>2, RadioFacts
  DEF HConnected, HOk, BOk, Refresh, LinkNext
<1>3. CASE HOff
  BY <1>1, <1>3, OfflineLink DEF HOff, GiveUp, LinkNext, HeartInv, PhaseInv
<1>4. CASE BOff
  BY <1>1, <1>4, OfflineLink DEF BOff, GiveUp, LinkNext, HeartInv, PhaseInv
<1>5. CASE WarnRecv \/ \E r \in Radios, c \in Commands : Solve(r, c)
  BY <1>5 DEF WarnRecv, Solve, LinkNext
<1>6. CASE ConnectTick \/ HeartTick \/ HConnect \/ HConnectWake \/ HSend \/
           HAsk \/ HAsked \/ HLock \/ HAnswered \/ HTurn \/ HTurned \/
           HMissed \/ HCount \/ HCounted \/ HFinal \/ HFinalFail \/ HFlip \/
           HTest \/ HNoCase \/ HUnlock \/ HRand \/ BSelect \/ BTake \/ BAsk \/
           BSwitch \/ BWake \/ BMissed \/ BCounted \/ BTry \/ BFinalFail \/
           BFlip \/ BFlipped \/ BFree \/ BTest \/ Click
  BY <1>6 DEF ConnectTick, HeartTick, HConnect, HConnectWake, HSend, HAsk,
              HAsked, HLock, HAnswered, HTurn, HTurned, HMissed, HCount,
              HCounted, HFinal, HFinalFail, HFlip, HTest, HNoCase, HUnlock,
              HRand, BSelect, BTake, BAsk, BSwitch, BWake, BMissed, BCounted,
              BTry, BFinalFail, BFlip, BFlipped, BFree, BTest, Click
<1>7. CASE UNCHANGED vars
  BY <1>7 DEF vars
<1> QED
  BY <1>2, <1>3, <1>4, <1>5, <1>6, <1>7 DEF Next, HeartThread, HeartStep, ButtonThread,
                                            ButtonStep

(* The supervision of heart.c implements the contract the warning thread   *)
(* relies on: an offline event is raised exactly when a live radio dies or *)
(* an unclassified one is first found dead.                                *)
THEOREM HeartImplementsLink == Spec => LinkSpec
<1>1. Init => LinkInit
  BY DEF Init
<1>2. HeartInv /\ [Next]_vars => [LinkNext]_linkVars
  BY LinkStep
<1> QED
  BY <1>1, <1>2, Invariance, PTL DEF Spec, LinkSpec

=============================================================================
