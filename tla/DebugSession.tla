----------------------------- MODULE DebugSession -----------------------------
(***************************************************************************)
(* What IDA is promised, whatever the debugger manager does to keep it: a  *)
(* process that stands at one position of the trace, with the threads, the *)
(* modules and the active thread of that position.  It starts at the first *)
(* position, moves to other ones, shows where it stands, and ends.  There  *)
(* is no queue, no pending request and no earlier session here.            *)
(***************************************************************************)
EXTENDS Integers

CONSTANTS
    Position, FirstPosition, NoPosition,
    ThreadsAt, ModulesAt, ActiveThread,   \* the trace
    NoThread,
    Targets,            \* the modules that stay once they are loaded
    SimulatedModules    \* the modules a process starts with besides those of the trace

VARIABLES
    alive,              \* there is a process, and it has not been told to end
    pos,                \* where it stands
    threads, modules,   \* those of the process
    thread,             \* the one it has stopped in
    shown               \* does IDA show the process as it is?

vars == <<alive, pos, threads, modules, thread, shown>>

NoProcess ==
    /\ alive = FALSE
    /\ pos = NoPosition
    /\ threads = {}
    /\ modules = {}
    /\ thread = NoThread
    /\ shown = FALSE

Init == NoProcess

(* The process stands at p; a module that stays is kept wherever it goes. *)
StandAt(p, staying) ==
    /\ alive' = TRUE
    /\ pos' = p
    /\ threads' = ThreadsAt[p]
    /\ modules' = ModulesAt[p] \cup staying
    /\ thread' = ActiveThread[p]
    /\ shown' = FALSE

Start ==
    /\ ~alive
    /\ StandAt(FirstPosition, SimulatedModules)

Move ==
    /\ alive
    /\ \E p \in Position : StandAt(p, modules \cap Targets)

Show ==
    /\ alive
    /\ ~shown
    /\ shown' = TRUE
    /\ UNCHANGED <<alive, pos, threads, modules, thread>>

Exit ==
    /\ alive
    /\ NoProcess'

Next == Start \/ Move \/ Show \/ Exit

Spec == Init /\ [][Next]_vars

(* Wherever the process goes, IDA comes to show it. *)
FairSpec == Spec /\ WF_vars(Show)
==============================================================================
