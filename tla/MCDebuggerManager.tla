-------------------------- MODULE MCDebuggerManager --------------------------
(***************************************************************************)
(* A trace for TLC.  Four positions, {0, 0} and {0, 1} lying before the    *)
(* first one.  Threads and modules appear and disappear between any two    *)
(* neighbours: the first thread exits, a thread returns, the database's    *)
(* module is loaded, unloaded and loaded again.  Position 4 executes the   *)
(* instruction of position 2 again.                                        *)
(***************************************************************************)
EXTENDS SessionRefinement

CONSTANTS t1, t2, t3, exe, dll, lib, a1, a2, a3

MCThreads == {t1, t2, t3}
MCModules == {exe, dll, lib}
MCAddresses == {a1, a2, a3}

At(p2, p3, p4, p5) ==
    [p \in Position |-> CASE p = 2 -> p2 [] p = 3 -> p3 [] p = 4 -> p4 [] OTHER -> p5]

MCThreadsAt == At({t1, t3}, {t1, t2}, {t2}, {t2, t3})
MCActiveThread == At(t1, t2, t2, t3)
MCModulesAt == At({exe, lib}, {exe, dll}, {exe, lib}, {exe, dll, lib})
MCProgramCounter == At(a1, a2, a1, a3)

Exec(a) == {[addr |-> a, flags |-> "EXEC"]}
MCHitsAt == At(Exec(a1), Exec(a2), Exec(a1), Exec(a3))

DllTarget == {dll}
ExeTarget == {exe}

OnStops == StopEvents
OnStopsAndModules == StopEvents \cup {"PROCESS_STARTED", "LIB_LOADED"}
NoBptTypes == {}
ExecOnly == {"BPT_DEFAULT"}
==============================================================================
