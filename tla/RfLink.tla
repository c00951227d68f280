------------------------------- MODULE RfLink -------------------------------
(***************************************************************************)
(* What link supervision (heart.c with the receive path of                 *)
(* Radio_Decoder.c) promises to the warning thread (warn.c): for each      *)
(* radio the flags alive and startup of its rf_info, and the event set     *)
(* rf_event, whose bits are raised by supervision and cleared together by  *)
(* rt_event_recv.  How the flags are arrived at (retries, timers, the      *)
(* button test, the lock) is the business of module Heart, which           *)
(* implements this specification.                                          *)
(***************************************************************************)

(* rf_select of heart.c: 0 is the 4068 radio, 1 the 433 radio. *)
R4068 == 0
R433  == 1
Radios == {R4068, R433}

(* The four bits of rf_event (warn.h). *)
OfflineOf(r) == <<"Offline", r>>
OnlineOf(r)  == <<"Online", r>>
Events == {OfflineOf(r) : r \in Radios} \cup {OnlineOf(r) : r \in Radios}

VARIABLES
    alive,     \* rf_info.alive of each radio
    startup,   \* rf_info.startup: has the radio ever been classified
    rf_event   \* the bits set in rf_event

linkVars == <<alive, startup, rf_event>>

LinkTypeOK ==
    /\ alive \in [Radios -> BOOLEAN]
    /\ startup \in [Radios -> BOOLEAN]
    /\ rf_event \in SUBSET Events

LinkInit ==
    /\ alive = [r \in Radios |-> FALSE]
    /\ startup = [r \in Radios |-> FALSE]
    /\ rf_event = {}

(* An exchange on radio r succeeded. *)
LinkRefresh(r) ==
    /\ alive' = [alive EXCEPT ![r] = TRUE]
    /\ startup' = [startup EXCEPT ![r] = TRUE]
    /\ UNCHANGED rf_event

(* Radio r is given up: a live radio dies, or a radio that has never been  *)
(* classified is found dead for the first time.  Only then is the warning  *)
(* thread told.                                                            *)
LinkOffline(r) ==
    /\ alive[r] \/ ~startup[r]
    /\ alive' = [alive EXCEPT ![r] = FALSE]
    /\ startup' = [startup EXCEPT ![r] = TRUE]
    /\ rf_event' = rf_event \cup {OfflineOf(r)}

(* A message of the peer arrives on radio r. *)
LinkOnline(r) ==
    /\ rf_event' = rf_event \cup {OnlineOf(r)}
    /\ UNCHANGED <<alive, startup>>

(* The warning thread takes the whole event set. *)
LinkRecv ==
    /\ rf_event # {}
    /\ rf_event' = {}
    /\ UNCHANGED <<alive, startup>>

LinkNext ==
    \/ \E r \in Radios : LinkRefresh(r) \/ LinkOffline(r) \/ LinkOnline(r)
    \/ LinkRecv

LinkSpec == LinkInit /\ [][LinkNext]_linkVars

=============================================================================
