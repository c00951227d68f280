------------------------------- MODULE MCWarn -------------------------------
(* Module Warn for model checking.                                          *)
EXTENDS Warn
=============================================================================
