------------------------------- MODULE MCPanel ------------------------------
(* Module Panel for model checking.                                         *)
EXTENDS Panel
=============================================================================
