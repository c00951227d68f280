---------------------------- MODULE MCRadioQueue ----------------------------
(* Priorities for the model-checking runs of RadioQueue: heart and          *)
(* buttontest (7) above the dequeue thread (9), psi_thread (11) below it.   *)
EXTENDS RadioQueue

MCPrio == [t \in Threads |->
    CASE t \in {"heart", "button"} -> 7
      [] t = "dequeue"             -> 9
      [] t = "psi"                 -> 11]
=============================================================================
