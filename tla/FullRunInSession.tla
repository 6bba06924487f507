--------------------------- MODULE FullRunInSession ---------------------------
(***************************************************************************)
(* Full runs in the middle of debugging.  requestFullRun moves the cursor  *)
(* that the debugger stands on, on the main thread, while the debugger     *)
(* thread goes on polling.  The action is AST_ENABLE_ALWAYS: a full run    *)
(* may begin in any state of IDA in which the main thread is free.  What   *)
(* FullRun shows of its loops is all that is needed of them here: the      *)
(* cursor may be anywhere on the trace until it is put back, in the end.   *)
(***************************************************************************)
EXTENDS SessionRefinement

VARIABLES
    fullRun,   \* is the main thread in requestFullRun?
    old        \* where the cursor was before

runVars == <<fullRun, old>>
allVars == <<vars, runVars>>

InitWithRun ==
    /\ Init
    /\ fullRun = FALSE
    /\ old = NoPosition

requestFullRun ==
    /\ uiCall = "idle"
    /\ ~fullRun
    /\ m_cursor # NoPosition
    /\ fullRun' = TRUE
    /\ old' = m_cursor
    /\ UNCHANGED vars

(* SetPosition and ReplayForward in the loops. *)
CursorRuns ==
    /\ fullRun
    /\ m_cursor' \in Position
    /\ UNCHANGED <<m_events, m_isForward, requests, watchpoints, process, uiCall, runVars>>

(* Mutant: a run that is left early leaves the cursor where it is. *)
Restore_Forgotten ==
    /\ fullRun
    /\ m_cursor' \in {m_cursor, SetPosition(old)}
    /\ fullRun' = FALSE
    /\ old' = NoPosition
    /\ UNCHANGED <<m_events, m_isForward, requests, watchpoints, process, uiCall>>

Restore ==
    /\ fullRun
    /\ m_cursor' = SetPosition(old)
    /\ fullRun' = FALSE
    /\ old' = NoPosition
    /\ UNCHANGED <<m_events, m_isForward, requests, watchpoints, process, uiCall>>

DebuggerThread == (onGetDebugEvent \/ onResume) /\ UNCHANGED runVars

NextWithRun ==
    \/ DebuggerThread
    \/ ~fullRun /\ MainThreadAction /\ UNCHANGED runVars
    \/ requestFullRun
    \/ CursorRuns
    \/ Restore

(* The fairness of the manager, and that of FullRun: it ends. *)
SpecWithRun ==
    /\ InitWithRun
    /\ [][NextWithRun]_allVars
    /\ WF_allVars(onGetDebugEvent /\ UNCHANGED runVars)
    /\ WF_allVars(onResume /\ UNCHANGED runVars)
    /\ WF_allVars(~fullRun /\ SwitchBack /\ UNCHANGED runVars)
    /\ WF_allVars(Restore)
------------------------------------------------------------------------------
(* Where the debugger stands: where it will be found after a full run. *)
standing == IF ~alive THEN NoPosition ELSE IF fullRun THEN old ELSE m_cursor

Unseen == INSTANCE DebugSession WITH pos <- standing

(* "Simulate a full run": for the debugged process it does not happen.     *)
(* With full runs begun anywhere between IDA's polls and resumes, and left *)
(* early or not, IDA is shown the same sessions as without: the debugger   *)
(* neither stops nor resumes at a position the full run has passed.  And   *)
(* where IDA suspends on nothing but stops, and no session starts behind   *)
(* the remains of another, it comes to show every process that stays       *)
(* where it is.                                                            *)
FullRunIsUnseen == Unseen!FairSpec
==============================================================================
