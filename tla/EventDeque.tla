----------------------------- MODULE EventDeque -----------------------------
(***************************************************************************)
(* The debug events the plugin hands to IDA and the queue that holds them  *)
(* (ttddbg_event_deque.cc).  An event keeps the fields IDA acts on: its    *)
(* kind, the thread, the address and the module.  The process id (one      *)
(* fake process), the base, size and rebase_to of a module and the         *)
(* "handled" bit are the same for every event of a kind.                   *)
(***************************************************************************)
EXTENDS Integers, Sequences

CONSTANTS
    NoThread,    \* the tid of an event that sets none
    NoModule,    \* an event without modinfo
    BADADDR

EventIds == {"PROCESS_STARTED", "PROCESS_EXITED", "THREAD_STARTED",
             "THREAD_EXITED", "LIB_LOADED", "LIB_UNLOADED",
             "BREAKPOINT", "STEP"}

----------------------------------------------------------------------------
(* The queue.  Each operation holds m_safeQueue from its first to its last *)
(* line.                                                                   *)
pushEvent(queue, e) == Append(queue, e)

isEmpty(queue) == queue = << >>

frontEvent(queue) == Head(queue)      \* what popEvent returns
popEvent(queue) == Tail(queue)        \* what popEvent leaves

(* A for_each that pushes one event per element. *)
pushEvents(queue, events) == queue \o events

----------------------------------------------------------------------------
(* The event each add...Event function builds. *)
Event(eid, tid, ea, module) ==
    [eid |-> eid, tid |-> tid, ea |-> ea, module |-> module]

ProcessStartEvent(tid, module) == Event("PROCESS_STARTED", tid, BADADDR, module)
ThreadStartEvent(tid) == Event("THREAD_STARTED", tid, BADADDR, NoModule)
ThreadExitEvent(tid) == Event("THREAD_EXITED", tid, BADADDR, NoModule)
BreakPointEvent(tid, bpk) == Event("BREAKPOINT", tid, bpk, NoModule)
LibLoadEvent(module) == Event("LIB_LOADED", NoThread, BADADDR, module)
LibUnloadEvent(module) == Event("LIB_UNLOADED", NoThread, BADADDR, module)
ProcessExitEvent == Event("PROCESS_EXITED", NoThread, BADADDR, NoModule)
StepEvent(tid) == Event("STEP", tid, BADADDR, NoModule)
============================================================================
