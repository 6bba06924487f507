--------------------------- MODULE DebuggerManager ---------------------------
(***************************************************************************)
(* The debugger manager (ttddbg_debugger_manager.cc), the actions of the   *)
(* user interface that call it (ttddbg_action.cc) and the part of IDA that *)
(* drives it.                                                              *)
(*                                                                         *)
(* Two threads of IDA are involved (DBG_FLAG_DEBTHREAD).  The main thread  *)
(* runs the user's actions; the debugger thread polls onGetDebugEvent      *)
(* while the process runs and calls onResume to leave a suspension.        *)
(* continue_process() blocks the main thread until onResume has run, and   *)
(* does nothing when the process is not suspended.                         *)
(***************************************************************************)
EXTENDS TTDReplay, EventDeque, Functions

CONSTANTS
    Targets,        \* the modules isTargetModule accepts, for the input file of the database
    SuspendOn,      \* the events IDA suspends on: BREAKPOINT, STEP and the user's options
    BptTypes,       \* the types of the breakpoints the user sets
    MaxBptRequest,  \* bound: breakpoints in one onUpdateBpts
    MaxBacklog      \* bound: events left in the queue when a process starts

StopEvents == {"BREAKPOINT", "STEP"}

(* Mutant: resume_modes also declares DBG_RESMOD_STEP_OVER. *)
DeclaredResumeModes_Over == {"RESMOD_INTO", "RESMOD_OVER"}

(* What IDA may pass to onSetResumeMode: the modes the debugger declares. *)
DeclaredResumeModes == {"RESMOD_INTO"}

IdaBptTypes == {"BPT_WRITE", "BPT_READ", "BPT_RDWR", "BPT_EXEC", "BPT_DEFAULT"}

Bpt == [ea : Addresses, type : BptTypes]

NoEvent == ProcessExitEvent   \* the last event when no process runs

ASSUME IdaAssumption ==
    /\ Targets \subseteq Modules
    /\ StopEvents \subseteq SuspendOn
    /\ SuspendOn \subseteq EventIds \ {"PROCESS_EXITED"}
    /\ BptTypes \subseteq IdaBptTypes
    /\ MaxBptRequest \in Nat
    /\ MaxBacklog \in Nat

VARIABLES
    m_events, m_isForward, m_resumeMode, m_nextPosition, m_backwardsSingleStep,
    m_cursor,       \* its position; NoPosition before the first onStartProcess
    watchpoints,    \* the memory watchpoints of m_cursor
    dbgState,       \* IDA: "noProcess", "running", "handling" (an event it does not
                    \* suspend on) or "suspended"
    dbgEvent,       \* IDA: the last event it was given
    exiting,        \* IDA: onExitProcess was called for this process
    ida,            \* IDA: the threads and modules it knows, the breakpoints it set
    uiCall          \* main thread: "idle"; inside continue_process for "resume"
                    \* or "backward"; or before the second switchWay

requests == <<m_resumeMode, m_nextPosition, m_backwardsSingleStep>>
replay == <<m_cursor, watchpoints>>
process == <<dbgState, dbgEvent, exiting, ida>>
vars == <<m_events, m_isForward, requests, replay, process, uiCall>>

View == [threads : SUBSET Threads, modules : SUBSET Modules, bpts : SUBSET Bpt]

NoView == [threads |-> {}, modules |-> {}, bpts |-> {}]
------------------------------------------------------------------------------
(* What onResume and onStartProcess append to the queue. *)

(* A set or a list of the replay engine, walked in some order. *)
Listings(S) == Bijection(1 .. Cardinality(S), S)

ThreadStarts(list) == [i \in DOMAIN list |-> ThreadStartEvent(list[i])]
ThreadExits(list) == [i \in DOMAIN list |-> ThreadExitEvent(list[i])]
LibLoads(list) == [i \in DOMAIN list |-> LibLoadEvent(list[i])]
LibUnloads(list) == [i \in DOMAIN list |-> LibUnloadEvent(list[i])]

isTargetModule(module) == module \in Targets

(* Threads exit, threads start, modules are unloaded, modules are loaded. *)
Differences(exited, started, unloaded, loaded) ==
    {ThreadExits(e) \o ThreadStarts(s) \o LibUnloads(u) \o LibLoads(l) :
        e \in Listings(exited), s \in Listings(started),
        u \in Listings(unloaded), l \in Listings(loaded)}

(* Mutant: the exited threads are computed but never queued. *)
applyDifferences_NoExits(threadBefore, threadAfter, moduleBefore, moduleAfter) ==
    Differences({}, threadAfter \ threadBefore,
                {m \in moduleBefore \ moduleAfter : ~isTargetModule(m)},
                moduleAfter \ moduleBefore)

(* Mutant: the target module is unloaded like any other. *)
applyDifferences_Target(threadBefore, threadAfter, moduleBefore, moduleAfter) ==
    Differences(threadBefore \ threadAfter, threadAfter \ threadBefore,
                moduleBefore \ moduleAfter, moduleAfter \ moduleBefore)

(* applyDifferences: a module is unloaded unless it is the target. *)
applyDifferences(threadBefore, threadAfter, moduleBefore, moduleAfter) ==
    Differences(threadBefore \ threadAfter, threadAfter \ threadBefore,
                {m \in moduleBefore \ moduleAfter : ~isTargetModule(m)},
                moduleAfter \ moduleBefore)

(* Both applyCursor functions, once the replay has told where the cursor goes. *)
applyCursor(to) ==
    applyDifferences(ThreadsAt[m_cursor], ThreadsAt[to], ModulesAt[m_cursor], ModulesAt[to])

(* Mutant: the stop is queued in front of the differences. *)
MoveTo_StopFirst(to, stop) ==
    /\ m_cursor' = to
    /\ \E differences \in applyCursor(to) :
           m_events' = pushEvents(pushEvent(m_events, stop), differences)
    /\ UNCHANGED watchpoints

(* The cursor moves to a position, then the stop there is announced. *)
MoveTo(to, stop) ==
    /\ m_cursor' = to
    /\ \E differences \in applyCursor(to) :
           m_events' = pushEvent(pushEvents(m_events, differences), stop)
    /\ UNCHANGED watchpoints

(* Mutant: the thread and the address are swapped. *)
BreakPointAt_Swapped(p) == BreakPointEvent(ProgramCounter[p], ActiveThread[p])

BreakPointAt(p) == BreakPointEvent(ActiveThread[p], ProgramCounter[p])

Replay(steps) ==
    IF m_isForward THEN ReplayForward(m_cursor, LastPosition, steps, watchpoints)
    ELSE ReplayBackward(m_cursor, FirstPosition, steps, watchpoints)

(* Mutant: the first stop is not queued. *)
SessionEvents_NoStop(simulated, threads, modules) ==
    {<<ProcessStartEvent(ActiveThread[FirstPosition], MainModule)>>
        \o LibLoads(s) \o ThreadStarts(t) \o LibLoads(m) :
            s \in Listings(simulated), t \in Listings(threads), m \in Listings(modules)}

(* The process, the modules that simulate it, its other threads and modules, *)
(* and the first stop.                                                       *)
SessionEvents(simulated, threads, modules) ==
    {<<ProcessStartEvent(ActiveThread[FirstPosition], MainModule)>>
        \o LibLoads(s) \o ThreadStarts(t) \o LibLoads(m) \o <<BreakPointAt(FirstPosition)>> :
            s \in Listings(simulated), t \in Listings(threads), m \in Listings(modules)}

SimulatedModules == IF isTargetModule(MainModule) THEN {} ELSE Targets

(* Mutant: the loop over the cursor's threads starts at index 0. *)
SessionStart_MainThread ==
    SessionEvents(SimulatedModules, ThreadsAt[FirstPosition],
                  ModulesAt[FirstPosition] \ {MainModule})

(* What onStartProcess queues, the cursor being on the first position.  The *)
(* target is loaded first if it is not the executable.                      *)
SessionStart ==
    SessionEvents(SimulatedModules, ThreadsAt[FirstPosition] \ {MainThread},
                  ModulesAt[FirstPosition] \ {MainModule})
------------------------------------------------------------------------------
Init ==
    /\ m_events = << >>
    /\ m_isForward = TRUE
    /\ m_resumeMode = "RESMOD_NONE"
    /\ m_nextPosition = NoPosition
    /\ m_backwardsSingleStep = FALSE
    /\ m_cursor = NoPosition
    /\ watchpoints = {}
    /\ dbgState = "noProcess"
    /\ dbgEvent = NoEvent
    /\ exiting = FALSE
    /\ ida = NoView
    /\ uiCall = "idle"

(* Mutant: the cursor of the previous session is kept where it is. *)
onStartProcess_OldCursor ==
    /\ dbgState = "noProcess"
    /\ uiCall = "idle"
    /\ Len(m_events) <= MaxBacklog
    /\ m_isForward' = TRUE
    /\ m_resumeMode' = "RESMOD_NONE"
    /\ m_cursor' = IF m_cursor = NoPosition THEN FirstPosition ELSE m_cursor
    /\ watchpoints' = {}
    /\ \E events \in SessionStart : m_events' = pushEvents(m_events, events)
    /\ dbgState' = "running"
    /\ UNCHANGED <<m_nextPosition, m_backwardsSingleStep, dbgEvent, exiting, ida, uiCall>>

(* The user starts the process: the trace is opened, the cursor is new.    *)
(* Neither the queue nor the pending requests are reset.                   *)
onStartProcess ==
    /\ dbgState = "noProcess"
    /\ uiCall = "idle"
    /\ Len(m_events) <= MaxBacklog
    /\ m_isForward' = TRUE
    /\ m_resumeMode' = "RESMOD_NONE"
    /\ m_cursor' = SetPosition(FirstPosition)
    /\ watchpoints' = {}
    /\ \E events \in SessionStart : m_events' = pushEvents(m_events, events)
    /\ dbgState' = "running"
    /\ UNCHANGED <<m_nextPosition, m_backwardsSingleStep, dbgEvent, exiting, ida, uiCall>>

(* DRC_NOFILE and DRC_FAILED: only the direction has been set. *)
onStartProcessFails ==
    /\ dbgState = "noProcess"
    /\ uiCall = "idle"
    /\ m_isForward' = TRUE
    /\ UNCHANGED <<m_events, requests, replay, process, uiCall>>
------------------------------------------------------------------------------
(* IDA's own bookkeeping of an event. *)
IdaAfter(view, e) ==
    CASE e.eid = "PROCESS_STARTED" ->
           [view EXCEPT !.threads = {e.tid}, !.modules = {e.module}]
      [] e.eid = "PROCESS_EXITED" -> NoView
      [] e.eid = "THREAD_STARTED" -> [view EXCEPT !.threads = @ \cup {e.tid}]
      [] e.eid = "THREAD_EXITED" -> [view EXCEPT !.threads = @ \ {e.tid}]
      [] e.eid = "LIB_LOADED" -> [view EXCEPT !.modules = @ \cup {e.module}]
      [] e.eid = "LIB_UNLOADED" -> [view EXCEPT !.modules = @ \ {e.module}]
      [] OTHER -> view

(* Where an event leaves IDA.  Once the process is exiting, IDA may also   *)
(* pass a stop over.                                                       *)
StatesAfter(e) ==
    IF e.eid = "PROCESS_EXITED" THEN {"noProcess"}
    ELSE IF e.eid \notin SuspendOn THEN {"handling"}
    ELSE IF exiting THEN {"suspended", "handling"} ELSE {"suspended"}

(* The debugger thread polls; GDE_NO_EVENT changes nothing. *)
onGetDebugEvent ==
    /\ dbgState = "running"
    /\ ~isEmpty(m_events)
    /\ dbgEvent' = frontEvent(m_events)
    /\ m_events' = popEvent(m_events)
    /\ ida' = IdaAfter(ida, frontEvent(m_events))
    /\ dbgState' \in StatesAfter(frontEvent(m_events))
    /\ exiting' = (exiting /\ frontEvent(m_events).eid # "PROCESS_EXITED")
    /\ UNCHANGED <<m_isForward, requests, replay, uiCall>>
------------------------------------------------------------------------------
(* onResume is called for the last event, either by IDA for an event it    *)
(* does not suspend on, or because the main thread is in continue_process. *)
InContinueProcess == uiCall \in {"resume", "backward"}

IdaResumes ==
    /\ \/ /\ dbgState = "handling"
          /\ UNCHANGED uiCall
       \/ /\ dbgState = "suspended"
          /\ InContinueProcess
          /\ uiCall' = IF uiCall = "backward" THEN "switchBack" ELSE "idle"
    /\ dbgState' = "running"
    /\ UNCHANGED <<dbgEvent, exiting, ida>>

(* Any other event: nothing is done, every request stays. *)
ResumeOtherEvent ==
    /\ IdaResumes
    /\ dbgEvent.eid \notin StopEvents
    /\ UNCHANGED <<m_events, m_isForward, requests, replay>>

(* Mutant: the breakpoint event is built before the cursor moves. *)
ResumeAtNextPosition_EarlyStop ==
    /\ IdaResumes
    /\ dbgEvent.eid \in StopEvents
    /\ m_nextPosition # NoPosition
    /\ MoveTo(SetPosition(m_nextPosition), BreakPointAt(m_cursor))
    /\ m_nextPosition' = NoPosition
    /\ UNCHANGED <<m_isForward, m_resumeMode, m_backwardsSingleStep>>

ResumeAtNextPosition ==
    /\ IdaResumes
    /\ dbgEvent.eid \in StopEvents
    /\ m_nextPosition # NoPosition
    /\ MoveTo(SetPosition(m_nextPosition), BreakPointAt(SetPosition(m_nextPosition)))
    /\ m_nextPosition' = NoPosition
    /\ UNCHANGED <<m_isForward, m_resumeMode, m_backwardsSingleStep>>

(* Mutant: old_isForward is not put back. *)
ResumeBackwardsSingleStep_StaysBackward ==
    /\ IdaResumes
    /\ dbgEvent.eid \in StopEvents
    /\ m_nextPosition = NoPosition
    /\ m_backwardsSingleStep
    /\ LET to == ReplayBackward(m_cursor, FirstPosition, 1, watchpoints)
       IN  MoveTo(to, BreakPointAt(to))
    /\ m_isForward' = FALSE
    /\ m_backwardsSingleStep' = FALSE
    /\ UNCHANGED <<m_resumeMode, m_nextPosition>>

(* The direction is forced backwards for one step, then put back. *)
ResumeBackwardsSingleStep ==
    /\ IdaResumes
    /\ dbgEvent.eid \in StopEvents
    /\ m_nextPosition = NoPosition
    /\ m_backwardsSingleStep
    /\ LET to == ReplayBackward(m_cursor, FirstPosition, 1, watchpoints)
       IN  MoveTo(to, BreakPointAt(to))
    /\ m_backwardsSingleStep' = FALSE
    /\ UNCHANGED <<m_isForward, m_resumeMode, m_nextPosition>>

(* The switch on m_resumeMode, reached when no request is pending.  Its    *)
(* default queues no event: only an undeclared mode would take it.         *)
ResumeByMode ==
    /\ IdaResumes
    /\ dbgEvent.eid \in StopEvents
    /\ m_nextPosition = NoPosition
    /\ ~m_backwardsSingleStep
    /\ CASE m_resumeMode = "RESMOD_NONE" -> MoveTo(Replay(-1), BreakPointAt(Replay(-1)))
         [] m_resumeMode = "RESMOD_INTO" -> MoveTo(Replay(1), StepEvent(ActiveThread[Replay(1)]))
         [] OTHER -> UNCHANGED <<m_events, replay>>
    /\ m_resumeMode' = "RESMOD_NONE"
    /\ UNCHANGED <<m_isForward, m_nextPosition, m_backwardsSingleStep>>

onResume ==
    \/ ResumeOtherEvent
    \/ ResumeAtNextPosition
    \/ ResumeBackwardsSingleStep
    \/ ResumeByMode
------------------------------------------------------------------------------
(* The main thread.  continue_process() waits for onResume when the process *)
(* is suspended and returns at once otherwise.                              *)
continue_process(call, otherwise) ==
    uiCall' = IF dbgState = "suspended" THEN call ELSE otherwise

(* IDA's own commands, available in a suspended process: Continue (F9), *)
(* and Step into (F7), which first calls onSetResumeMode.               *)
Continue ==
    /\ uiCall = "idle"
    /\ dbgState = "suspended"
    /\ continue_process("resume", "idle")
    /\ UNCHANGED <<m_events, m_isForward, requests, replay, process>>

onSetResumeMode ==
    /\ uiCall = "idle"
    /\ dbgState = "suspended"
    /\ m_resumeMode' \in DeclaredResumeModes
    /\ continue_process("resume", "idle")
    /\ UNCHANGED <<m_events, m_isForward, m_nextPosition, m_backwardsSingleStep, replay, process>>

(* The plugin's actions are AST_ENABLE_ALWAYS: they run in every state. *)

(* switchWay(); continue_process(); switchWay() *)
BackwardStateRequest ==
    /\ uiCall = "idle"
    /\ m_isForward' = ~m_isForward
    /\ continue_process("backward", "switchBack")
    /\ UNCHANGED <<m_events, requests, replay, process>>

SwitchBack ==
    /\ uiCall = "switchBack"
    /\ m_isForward' = ~m_isForward
    /\ uiCall' = "idle"
    /\ UNCHANGED <<m_events, requests, replay, process>>

BackwardSingleStepRequest ==
    /\ uiCall = "idle"
    /\ m_backwardsSingleStep' = TRUE
    /\ continue_process("resume", "idle")
    /\ UNCHANGED <<m_events, m_isForward, m_resumeMode, m_nextPosition, replay, process>>

(* gotoPosition takes any position the user types, get_ea of the timeline *)
(* and the choosers a position of the trace: setNextPosition, then        *)
(* continue_process.                                                      *)
gotoPosition ==
    /\ uiCall = "idle"
    /\ m_nextPosition' \in NoPosition .. LastPosition + 1
    /\ continue_process("resume", "idle")
    /\ UNCHANGED <<m_events, m_isForward, m_resumeMode, m_backwardsSingleStep, replay, process>>

(* The user terminates the process.  A suspended process is let go, with   *)
(* or without a call to onResume.                                          *)
onExitProcess ==
    /\ uiCall = "idle"
    /\ dbgState # "noProcess"
    /\ ~exiting
    /\ m_events' = pushEvent(m_events, ProcessExitEvent)
    /\ exiting' = TRUE
    /\ dbgState' \in IF dbgState = "suspended" THEN {"running", "handling"} ELSE {dbgState}
    /\ UNCHANGED <<m_isForward, requests, replay, dbgEvent, ida, uiCall>>
------------------------------------------------------------------------------
from_idabptype(type) ==
    CASE type = "BPT_WRITE" -> "WRITE"
      [] type = "BPT_READ" -> "READ"
      [] type = "BPT_RDWR" -> "READ|WRITE"
      [] OTHER -> "EXEC"

(* Mutant: the last breakpoint of a request is left out. *)
WatchpointsOf_OffByOne(bpts, first, last) ==
    {[addr |-> bpts[i].ea, flags |-> from_idabptype(bpts[1].type)] : i \in first .. last - 1}

(* The watchpoints made from bpts[first] to bpts[last].  bpts->type is the *)
(* type of the first element, whichever the element.                       *)
WatchpointsOf(bpts, first, last) ==
    {[addr |-> bpts[i].ea, flags |-> from_idabptype(bpts[1].type)] : i \in first .. last}

(* IDA hands over nadd new breakpoints followed by ndel deleted ones, and  *)
(* takes both as done.  The second loop goes on from the first one's i and *)
(* stops at ndel.                                                          *)
onUpdateBpts ==
    /\ uiCall = "idle"
    /\ dbgState = "suspended"
    /\ \E nadd, ndel \in 0 .. MaxBptRequest :
        /\ nadd + ndel \in 1 .. MaxBptRequest
        /\ \E bpts \in Injection(1 .. nadd + ndel, Bpt) :
            LET new == {bpts[i] : i \in 1 .. nadd}
                deleted == {bpts[i] : i \in nadd + 1 .. nadd + ndel}
            IN  /\ new \cap ida.bpts = {}
                /\ deleted \subseteq ida.bpts
                /\ watchpoints' = (watchpoints \cup WatchpointsOf(bpts, 1, nadd))
                                     \ WatchpointsOf(bpts, nadd + 1, ndel)
                /\ ida' = [ida EXCEPT !.bpts = (@ \cup new) \ deleted]
    /\ UNCHANGED <<m_events, m_isForward, requests, m_cursor, dbgState, dbgEvent, exiting, uiCall>>
------------------------------------------------------------------------------
MainThreadAction ==
    \/ onStartProcess
    \/ onStartProcessFails
    \/ Continue
    \/ onSetResumeMode
    \/ BackwardStateRequest
    \/ SwitchBack
    \/ BackwardSingleStepRequest
    \/ gotoPosition
    \/ onExitProcess
    \/ onUpdateBpts

Next ==
    \/ onGetDebugEvent
    \/ onResume
    \/ MainThreadAction

Spec == Init /\ [][Next]_vars

(* IDA's debugger thread keeps polling and resuming, and an action of the  *)
(* main thread that has begun is finished.  The user need not do anything. *)
Fairness ==
    /\ WF_vars(onGetDebugEvent)
    /\ WF_vars(onResume)
    /\ WF_vars(SwitchBack)

FairSpec == Spec /\ Fairness
------------------------------------------------------------------------------
DebugEvent ==
    {e \in [eid : EventIds, tid : Threads \cup {NoThread},
            ea : Addresses \cup {BADADDR}, module : Modules \cup {NoModule}] :
        /\ e.eid \in {"PROCESS_STARTED", "THREAD_STARTED", "THREAD_EXITED"} \cup StopEvents
               => e.tid \in Threads
        /\ e.eid \in {"PROCESS_STARTED", "LIB_LOADED", "LIB_UNLOADED"} => e.module \in Modules
        /\ e.eid = "BREAKPOINT" => e.ea \in Addresses}

(* Every variable keeps its type, an event has the thread, the module and  *)
(* the address that its kind needs, and the cursor is null (NoPosition)    *)
(* only while no process has ever been started.                            *)
TypeOK ==
    /\ m_events \in Seq(DebugEvent)
    /\ m_isForward \in BOOLEAN
    /\ m_resumeMode \in {"RESMOD_NONE"} \cup DeclaredResumeModes
    /\ m_nextPosition \in NoPosition .. LastPosition + 1
    /\ m_backwardsSingleStep \in BOOLEAN
    /\ m_cursor \in Position \cup {NoPosition}
    /\ m_cursor = NoPosition => dbgState = "noProcess"
    /\ watchpoints \subseteq Watchpoint
    /\ dbgState \in {"noProcess", "running", "handling", "suspended"}
    /\ dbgEvent \in DebugEvent
    /\ exiting \in BOOLEAN
    /\ ida \in View
    /\ uiCall \in {"idle", "resume", "backward", "switchBack"}

StopQueued ==
    \E i \in DOMAIN m_events : m_events[i].eid \in StopEvents \cup {"PROCESS_EXITED"}

(* IDA never waits for nothing: while the process runs, the queue holds an *)
(* event that will suspend or end it, or the event being resumed is a stop *)
(* and onResume will queue the next one.  Every path through onResume has  *)
(* to announce its stop for that.                                          *)
RunningHasStop ==
    dbgState # "noProcess" =>
        \/ StopQueued
        \/ dbgState \in {"suspended", "handling"} /\ dbgEvent.eid \in StopEvents

AtStop ==
    /\ dbgState = "suspended"
    /\ dbgEvent.eid \in StopEvents
    /\ isEmpty(m_events)

(* When IDA is suspended and has seen every event, the threads it shows    *)
(* are those of the trace at the cursor, and so are the modules except     *)
(* that a target module, once loaded, stays: the differences queued over   *)
(* any number of moves, in both directions and across sessions, add up.    *)
IdaMirrorsTrace ==
    AtStop =>
        /\ ida.threads = ThreadsAt[m_cursor]
        /\ ModulesAt[m_cursor] \subseteq ida.modules
        /\ ida.modules \ ModulesAt[m_cursor] \subseteq Targets

(* The stop IDA shows is the stop of the cursor: its thread is the active  *)
(* thread there, a thread IDA knows, and a breakpoint is at the program    *)
(* counter, so that what IDA reads at a stop belongs to it.                *)
StopShowsCursor ==
    AtStop =>
        /\ dbgEvent.tid = ActiveThread[m_cursor]
        /\ dbgEvent.tid \in ida.threads
        /\ dbgEvent.eid = "BREAKPOINT" => dbgEvent.ea = ProgramCounter[m_cursor]

(* "The main symbol must not be unload": at every stop IDA knows a module  *)
(* of the database's input file, also where the trace has not loaded it    *)
(* yet or has unloaded it.                                                 *)
TargetStaysLoaded ==
    AtStop /\ Targets # {} => ida.modules \cap Targets # {}

(* Threads and modules come and go in order: IDA is told of the exit of a  *)
(* thread it knows and of the start of one it does not, a stop is of a     *)
(* known thread, an unloaded module is a known one, and the process starts *)
(* first.                                                                  *)
EventInOrder(view, e) ==
    CASE e.eid = "PROCESS_STARTED" -> view.threads = {} /\ view.modules = {}
      [] e.eid = "THREAD_STARTED" -> e.tid \notin view.threads /\ view.modules # {}
      [] e.eid \in {"THREAD_EXITED", "BREAKPOINT", "STEP"} -> e.tid \in view.threads
      [] e.eid = "LIB_UNLOADED" -> e.module \in view.modules \ Targets
      [] OTHER -> TRUE

EventsInOrder ==
    [][onGetDebugEvent => EventInOrder(ida, dbgEvent')]_vars

(* A resume without a pending request goes the way the user asked for:     *)
(* Continue and Step never move back in time, Continue backwards never     *)
(* moves forward, whatever was switched by earlier actions.                *)
ResumeKeepsDirection ==
    [][ResumeByMode /\ dbgState = "suspended" =>
          IF uiCall = "backward" THEN m_cursor' <= m_cursor ELSE m_cursor' >= m_cursor]_vars

(* A resume, in whatever direction and mode, does not run past a           *)
(* breakpoint IDA has set: no position strictly between the old and the    *)
(* new one triggers it.                                                    *)
Between(p, q) == {r \in Position : (p < r /\ r < q) \/ (q < r /\ r < p)}

NoBreakpointSkipped ==
    [][ResumeByMode \/ ResumeBackwardsSingleStep =>
          \A p \in Between(m_cursor, m_cursor') :
              ~Touched(p, {[addr |-> b.ea, flags |-> from_idabptype(b.type)] : b \in ida.bpts})]_vars

(* A process that runs is suspended again or ends: the queue is drained in *)
(* order and holds a stop.                                                 *)
EveryRunStops ==
    dbgState \in {"running", "handling"} ~> dbgState \in {"suspended", "noProcess"}
------------------------------------------------------------------------------
(* What the documentation of the code says and the code does not do. *)

(* debugger_manager.hh:97, the next action is the backwards single step, *)
(* "Then, set to false": after a resume at a stop the flag is down.      *)
BackwardsSingleStepIsNext ==
    [][onResume /\ dbgEvent.eid \in StopEvents => ~m_backwardsSingleStep']_vars

(* debugger_manager.hh:239, onUpdateBpts informs of "new and deleted"     *)
(* breakpoints: a deleted breakpoint is no longer watched.                *)
DeletedBreakpointsUnwatched ==
    \A w \in watchpoints : \E b \in ida.bpts :
        w = [addr |-> b.ea, flags |-> from_idabptype(b.type)]
==============================================================================
