----------------------------- MODULE TTDReplay -----------------------------
(***************************************************************************)
(* The trace and the cursor of TTDReplay.dll, as the plugin uses them      *)
(* through ttd-bindings (the submodule is not in the repository: every     *)
(* definition here is external).                                           *)
(*                                                                         *)
(* A trace is a finite line of positions.  A position {Major, Minor} is    *)
(* a number that keeps the order of positions; NoPosition is {0, 0}.       *)
(* At each position the trace knows its live threads, its loaded modules,  *)
(* the active thread, its program counter and the memory accesses made     *)
(* there.  A watchpoint is an address with an access kind, and a replay    *)
(* stops at the first position that makes an access some watchpoint        *)
(* covers.                                                                 *)
(***************************************************************************)
EXTENDS Integers, FiniteSets, FiniteSetsExt

CONSTANTS
    FirstPosition, LastPosition,  \* ReplayEngine::GetFirstPosition and GetLastPosition
    Threads, Modules,             \* thread ids and ReplayEngine::GetModuleList
    MainThread, MainModule,       \* index 0 of the lists at the first position
    ThreadsAt, ModulesAt,         \* [Position -> SUBSET Threads], [Position -> SUBSET Modules]
    ActiveThread,                 \* [Position -> Threads], Cursor::GetThreadInfo
    Addresses, ProgramCounter,    \* [Position -> Addresses], Cursor::GetProgramCounter
    HitsAt                        \* [Position -> SUBSET Watchpoint], the watchpoints a position triggers

Position == FirstPosition .. LastPosition

NoPosition == 0

BpFlags == {"READ", "WRITE", "EXEC", "READ|WRITE"}

Watchpoint == [addr : Addresses, flags : BpFlags]

(***************************************************************************)
(* A trace the engine can have recorded.  {0, 0} is before the first       *)
(* position of a trace, and the cursor lists the active thread and the     *)
(* executable of the process first when it stands on the first position.   *)
(***************************************************************************)
ASSUME PositionAssumption ==
    /\ FirstPosition \in Nat \ {0}
    /\ LastPosition \in Nat
    /\ FirstPosition <= LastPosition

ASSUME TraceAssumption ==
    /\ IsFiniteSet(Threads)
    /\ IsFiniteSet(Modules)
    /\ ThreadsAt \in [Position -> SUBSET Threads]
    /\ ModulesAt \in [Position -> SUBSET Modules]
    /\ ActiveThread \in [Position -> Threads]
    /\ ProgramCounter \in [Position -> Addresses]
    /\ HitsAt \in [Position -> SUBSET Watchpoint]
    /\ \A p \in Position : ActiveThread[p] \in ThreadsAt[p]

ASSUME IndexZeroAssumption ==
    /\ MainThread = ActiveThread[FirstPosition]
    /\ MainModule \in ModulesAt[FirstPosition]

----------------------------------------------------------------------------
(* Cursor::SetPosition: a position outside the trace is brought back to it. *)
SetPosition(p) ==
    IF p < FirstPosition THEN FirstPosition
    ELSE IF p > LastPosition THEN LastPosition ELSE p

(* Does position p make an access that one of the watchpoints covers? *)
Touched(p, watchpoints) == HitsAt[p] \cap watchpoints # {}

(***************************************************************************)
(* The positions where a replay from p to a limit may stop: the limit, the *)
(* last of the requested steps, or a touched watchpoint beyond p.  -1      *)
(* steps (a size_t) is as many as it takes.                                *)
(***************************************************************************)
StopsForward(p, last, steps, watchpoints) ==
    {q \in p .. last :
        \/ q = last
        \/ q = p + steps /\ steps > 0
        \/ q > p /\ Touched(q, watchpoints)}

StopsBackward(p, first, steps, watchpoints) ==
    {q \in first .. p :
        \/ q = first
        \/ q = p - steps /\ steps > 0
        \/ q < p /\ Touched(q, watchpoints)}

(* Cursor::ReplayForward: where the cursor is afterwards. *)
ReplayForward(p, last, steps, watchpoints) ==
    Min(StopsForward(p, last, steps, watchpoints))

(* Cursor::ReplayBackward *)
ReplayBackward(p, first, steps, watchpoints) ==
    Max(StopsBackward(p, first, steps, watchpoints))
============================================================================
