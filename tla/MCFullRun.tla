------------------------------ MODULE MCFullRun ------------------------------
(***************************************************************************)
(* Every trace of NThreads threads over four positions, replayed two steps *)
(* at a time, with a breakpoint on the third position or none.  A function *)
(* that is called and returns, and is called where another one returns.    *)
(***************************************************************************)
EXTENDS TracedRun

CONSTANTS t1, exe, a1, f

MCThreads == {t1}
MCModules == {exe}
MCAddresses == {a1}
MCThreadsAt == [p \in Position |-> {t1}]
MCModulesAt == [p \in Position |-> {exe}]
MCActiveThread == [p \in Position |-> t1]
MCProgramCounter == [p \in Position |-> a1]
MCHitsAt == [p \in Position |-> IF p = FirstPosition + 2 THEN {[addr |-> a1, flags |-> "EXEC"]} ELSE {}]

MCFunctions == {f}
MCInvocations ==
    {[func |-> f, pos |-> 3, is_return |-> FALSE],
     [func |-> NoFunction, pos |-> 3, is_return |-> TRUE],
     [func |-> f, pos |-> 4, is_return |-> TRUE]}
==============================================================================
