----------------------------- MODULE MCFileLog ------------------------------
(* Constants for the model-checking runs of module FileLog.                 *)
EXTENDS FileLog
=============================================================================
