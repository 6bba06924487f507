-------------------------- MODULE MCFullRunInSession --------------------------
(* Full runs in the middle of debugging, on the trace of MCDebuggerManager. *)
EXTENDS MCDebuggerManager, FullRunInSession
==============================================================================
