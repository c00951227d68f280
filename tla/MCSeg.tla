------------------------------- MODULE MCSeg --------------------------------
(* Module Seg for model checking.                                           *)
EXTENDS Seg
=============================================================================
