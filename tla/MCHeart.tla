------------------------------- MODULE MCHeart -------------------------------
(* The view of the safety run of module Heart: what the run need not tell   *)
(* apart of two states.                                                     *)
(*                                                                          *)
(* Symmetry.  Once the connection is made nothing tells the two radios      *)
(* apart (rf_now = !rf_now, and the properties name no radio), so a state   *)
(* is seen with the radio in use first.  Radios are numbers, which a        *)
(* SYMMETRY set cannot permute.                                             *)
(*                                                                          *)
(* Dead values.  info_temp of a thread is not seen between its last use and *)
(* its next assignment.                                                     *)
(*                                                                          *)
(* Events.  rf_event is written by supervision and read by the warning      *)
(* thread only: no guard of another action depends on it.  It is seen only  *)
(* while a radio is being given up, and then only whether an Offline bit is *)
(* waiting, so that a bit that is raised wrongly is not hidden by one that  *)
(* is set already; which radio a waiting bit is of is not told apart here,  *)
(* but in the proof that Heart implements LinkSpec.                         *)
EXTENDS Heart

(* The radio seen as x, and what radio x is seen as. *)
Seen(x) == IF connect_on \/ rf_now = R4068 THEN x ELSE Other(x)

Both(f) == <<f[Seen(R4068)], f[Seen(R433)]>>

(* The value of info_temp may still be used. *)
HeartUsesInfo ==
    \/ hpc \in {"ask", "asked", "lock", "ok", "miss", "count", "final", "flip", "test", "off"}
    \/ hpc \in {"idle", "unlock"} /\ heart_mode = "check"

ButtonUsesInfo ==
    bpc \in {"take", "ask", "switch", "wait", "ok", "final", "count",
             "flipoff", "flippedoff", "freeoff", "test", "off"}

HeartView ==
    <<heart_armed, heart_sem, heart_mode, hpc,
      IF HeartUsesInfo THEN Seen(htemp) ELSE R4068,
      IF hpc \in {"asked", "turned", "cturned", "flip"} THEN Seen(hreg) ELSE hreg>>

ButtonView ==
    <<button_sem, bpc, bcase,
      IF ButtonUsesInfo THEN Seen(binfo) ELSE R4068,
      IF bpc \in {"ask", "flipped", "flippedoff"} THEN Seen(breg) ELSE breg>>

(* The last attempt of a thread is being judged. *)
GivingUp ==
    \/ hpc \in {"final", "flip", "test", "off"}
    \/ bpc \in {"final", "flipoff", "flippedoff", "freeoff", "test", "off"}

SeenFromRadioInUse ==
    <<Seen(rf_now), Both(alive), Both(startup), Both(retry), Both(received),
      Both(testreceived), connectVars, HeartView, ButtonView, lockVars, spent,
      GivingUp /\ \E r \in Radios : OfflineOf(r) \in rf_event>>
=============================================================================
