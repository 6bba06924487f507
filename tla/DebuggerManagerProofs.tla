------------------------- MODULE DebuggerManagerProofs -------------------------
(***************************************************************************)
(* Proofs about the debugger manager, for every trace, every set of target *)
(* modules and breakpoints and every choice of the events IDA suspends on. *)
(***************************************************************************)
EXTENDS DebuggerManager, TTDReplayProofs, FiniteSetTheorems, SequenceTheorems

------------------------------------------------------------------------------
(* The events and the sequences of events the manager queues. *)

LEMMA EventTypes ==
    /\ \A tid \in Threads, module \in Modules :
           ProcessStartEvent(tid, module) \in DebugEvent
    /\ \A tid \in Threads :
           /\ ThreadStartEvent(tid) \in DebugEvent
           /\ ThreadExitEvent(tid) \in DebugEvent
           /\ StepEvent(tid) \in DebugEvent
    /\ \A tid \in Threads, ea \in Addresses : BreakPointEvent(tid, ea) \in DebugEvent
    /\ \A module \in Modules :
           /\ LibLoadEvent(module) \in DebugEvent
           /\ LibUnloadEvent(module) \in DebugEvent
    /\ ProcessExitEvent \in DebugEvent
BY DEF DebugEvent, EventIds, StopEvents, Event, ProcessStartEvent, ThreadStartEvent, ThreadExitEvent,
       StepEvent, BreakPointEvent, LibLoadEvent, LibUnloadEvent, ProcessExitEvent

LEMMA EventKinds ==
    /\ \A tid, ea : BreakPointEvent(tid, ea).eid = "BREAKPOINT"
    /\ \A tid : StepEvent(tid).eid = "STEP"
    /\ ProcessExitEvent.eid = "PROCESS_EXITED"
BY DEF Event, BreakPointEvent, StepEvent, ProcessExitEvent

(* The stop at a position of the trace. *)
LEMMA BreakPointAtType ==
    ASSUME NEW p \in Position
    PROVE  /\ BreakPointAt(p) \in DebugEvent
           /\ BreakPointAt(p).eid \in StopEvents
           /\ StepEvent(ActiveThread[p]) \in DebugEvent
           /\ StepEvent(ActiveThread[p]).eid \in StopEvents
<1>1. ActiveThread[p] \in Threads /\ ProgramCounter[p] \in Addresses
  BY TraceAssumption
<1> QED
  BY <1>1, EventTypes, EventKinds DEF BreakPointAt, StopEvents

LEMMA ListingType ==
    ASSUME NEW S, IsFiniteSet(S), NEW list \in Listings(S)
    PROVE  \E n \in Nat : list \in [1 .. n -> S]
<1>1. Cardinality(S) \in Nat
  BY FS_CardinalityType
<1> QED
  BY <1>1 DEF Listings, Bijection, Injection, Surjection

LEMMA ThreadListingTypes ==
    ASSUME NEW S \in SUBSET Threads, NEW list \in Listings(S)
    PROVE  /\ ThreadStarts(list) \in Seq(DebugEvent)
           /\ ThreadExits(list) \in Seq(DebugEvent)
<1>1. IsFiniteSet(S)
  BY TraceAssumption, FS_Subset
<1>2. PICK n \in Nat : list \in [1 .. n -> S]
  BY <1>1, ListingType
<1>3. \A i \in 1 .. n : list[i] \in Threads
  BY <1>2
<1>4. ThreadStarts(list) \in [1 .. n -> DebugEvent]
  BY <1>2, <1>3, EventTypes DEF ThreadStarts
<1>5. ThreadExits(list) \in [1 .. n -> DebugEvent]
  BY <1>2, <1>3, EventTypes DEF ThreadExits
<1> QED
  BY <1>4, <1>5, SeqDef

LEMMA ModuleListingTypes ==
    ASSUME NEW S \in SUBSET Modules, NEW list \in Listings(S)
    PROVE  /\ LibLoads(list) \in Seq(DebugEvent)
           /\ LibUnloads(list) \in Seq(DebugEvent)
<1>1. IsFiniteSet(S)
  BY TraceAssumption, FS_Subset
<1>2. PICK n \in Nat : list \in [1 .. n -> S]
  BY <1>1, ListingType
<1>3. \A i \in 1 .. n : list[i] \in Modules
  BY <1>2
<1>4. LibLoads(list) \in [1 .. n -> DebugEvent]
  BY <1>2, <1>3, EventTypes DEF LibLoads
<1>5. LibUnloads(list) \in [1 .. n -> DebugEvent]
  BY <1>2, <1>3, EventTypes DEF LibUnloads
<1> QED
  BY <1>4, <1>5, SeqDef

LEMMA DifferencesType ==
    ASSUME NEW exited \in SUBSET Threads, NEW started \in SUBSET Threads,
           NEW unloaded \in SUBSET Modules, NEW loaded \in SUBSET Modules,
           NEW events \in Differences(exited, started, unloaded, loaded)
    PROVE  events \in Seq(DebugEvent)
<1>1. PICK e \in Listings(exited), s \in Listings(started),
           u \in Listings(unloaded), l \in Listings(loaded) :
        events = ThreadExits(e) \o ThreadStarts(s) \o LibUnloads(u) \o LibLoads(l)
  BY DEF Differences
<1>2. ThreadExits(e) \in Seq(DebugEvent) /\ ThreadStarts(s) \in Seq(DebugEvent)
  BY ThreadListingTypes
<1>3. LibUnloads(u) \in Seq(DebugEvent) /\ LibLoads(l) \in Seq(DebugEvent)
  BY ModuleListingTypes
<1> QED
  BY <1>1, <1>2, <1>3, ConcatProperties

LEMMA applyDifferencesType ==
    ASSUME NEW from \in Position, NEW to \in Position,
           NEW events \in applyDifferences(ThreadsAt[from], ThreadsAt[to],
                                           ModulesAt[from], ModulesAt[to])
    PROVE  events \in Seq(DebugEvent)
<1> DEFINE exited == ThreadsAt[from] \ ThreadsAt[to]
           started == ThreadsAt[to] \ ThreadsAt[from]
           unloaded == {m \in ModulesAt[from] \ ModulesAt[to] : ~isTargetModule(m)}
           loaded == ModulesAt[to] \ ModulesAt[from]
<1>1. /\ exited \in SUBSET Threads /\ started \in SUBSET Threads
      /\ unloaded \in SUBSET Modules /\ loaded \in SUBSET Modules
  BY TraceAssumption
<1>2. events \in Differences(exited, started, unloaded, loaded)
  BY Zenon DEF applyDifferences
<1> HIDE DEF exited, started, unloaded, loaded
<1> QED
  BY <1>1, <1>2, DifferencesType

(* Whatever a new session queues ends with its first stop. *)
LEMMA SessionEventsType ==
    ASSUME NEW simulated \in SUBSET Modules, NEW threads \in SUBSET Threads,
           NEW modules \in SUBSET Modules,
           NEW events \in SessionEvents(simulated, threads, modules)
    PROVE  \E start \in Seq(DebugEvent) :
               events = start \o <<BreakPointAt(FirstPosition)>>
<1> DEFINE Process == ProcessStartEvent(ActiveThread[FirstPosition], MainModule)
<1>1. PICK s \in Listings(simulated), t \in Listings(threads), m \in Listings(modules) :
        events = <<Process>> \o LibLoads(s) \o ThreadStarts(t) \o LibLoads(m)
                     \o <<BreakPointAt(FirstPosition)>>
  BY DEF SessionEvents
<1>2. Process \in DebugEvent
  <2>1. ActiveThread[FirstPosition] \in Threads /\ MainModule \in Modules
    BY TraceAssumption, IndexZeroAssumption, PositionsAreNaturals
  <2> QED
    BY <2>1, EventTypes
<1>3. /\ <<Process>> \in Seq(DebugEvent)
      /\ LibLoads(s) \in Seq(DebugEvent)
      /\ ThreadStarts(t) \in Seq(DebugEvent)
      /\ LibLoads(m) \in Seq(DebugEvent)
  BY <1>2, ThreadListingTypes, ModuleListingTypes
<1> QED
  BY <1>1, <1>3, ConcatProperties

LEMMA SessionStartType ==
    ASSUME NEW events \in SessionStart
    PROVE  \E start \in Seq(DebugEvent) :
               events = start \o <<BreakPointAt(FirstPosition)>>
<1> DEFINE threads == ThreadsAt[FirstPosition] \ {MainThread}
           modules == ModulesAt[FirstPosition] \ {MainModule}
<1>1. /\ SimulatedModules \in SUBSET Modules
      /\ threads \in SUBSET Threads /\ modules \in SUBSET Modules
  BY TraceAssumption, IdaAssumption, PositionsAreNaturals DEF SimulatedModules
<1>2. events \in SessionEvents(SimulatedModules, threads, modules)
  BY Zenon DEF SessionStart
<1> HIDE DEF threads, modules
<1> QED
  BY <1>1, <1>2, SessionEventsType
------------------------------------------------------------------------------
(* The queue. *)

Stops == {e \in DebugEvent : e.eid \in StopEvents \cup {"PROCESS_EXITED"}}

(* A stop that is pushed is in the queue. *)
LEMMA PushedStop ==
    ASSUME NEW queue \in Seq(DebugEvent), NEW e \in Stops
    PROVE  LET pushed == pushEvent(queue, e)
           IN  /\ pushed \in Seq(DebugEvent)
               /\ \E i \in DOMAIN pushed : pushed[i].eid \in StopEvents \cup {"PROCESS_EXITED"}
<1>1. /\ pushEvent(queue, e) \in Seq(DebugEvent)
      /\ Len(pushEvent(queue, e)) = Len(queue) + 1
      /\ pushEvent(queue, e)[Len(queue) + 1] = e
  BY AppendProperties DEF Stops, pushEvent
<1>2. Len(queue) + 1 \in DOMAIN pushEvent(queue, e)
  BY <1>1, LenProperties
<1> QED
  BY <1>1, <1>2 DEF Stops

(* What is in front of a stop can be popped. *)
LEMMA PoppedStop ==
    ASSUME NEW queue \in Seq(DebugEvent), ~isEmpty(queue),
           NEW i \in DOMAIN queue, queue[i] # frontEvent(queue)
    PROVE  \E j \in DOMAIN popEvent(queue) : popEvent(queue)[j] = queue[i]
<1>1. queue # << >>
  BY DEF isEmpty
<1>2. /\ Len(queue) \in Nat
      /\ i \in 1 .. Len(queue)
      /\ Tail(queue) \in Seq(DebugEvent)
      /\ Len(Tail(queue)) = Len(queue) - 1
      /\ \A j \in 1 .. Len(Tail(queue)) : Tail(queue)[j] = queue[j + 1]
  BY <1>1, HeadTailProperties, LenProperties
<1>3. i # 1
  BY DEF frontEvent
<1>4. i - 1 \in 1 .. Len(Tail(queue)) /\ Tail(queue)[i - 1] = queue[i]
  BY <1>2, <1>3
<1>5. DOMAIN Tail(queue) = 1 .. Len(Tail(queue))
  BY <1>2, LenProperties
<1> QED
  BY <1>4, <1>5 DEF popEvent

(* A move of the cursor leaves it on the trace and queues events, the last *)
(* of which is the stop.                                                   *)
LEMMA MoveToStops ==
    ASSUME m_events \in Seq(DebugEvent), m_cursor \in Position,
           NEW to \in Position, NEW stop \in Stops, MoveTo(to, stop)
    PROVE  /\ m_cursor' \in Position
           /\ m_events' \in Seq(DebugEvent)
           /\ StopQueued'
           /\ UNCHANGED watchpoints
<1>1. PICK differences \in applyCursor(to) :
        m_events' = pushEvent(pushEvents(m_events, differences), stop)
  BY DEF MoveTo
<1>2. differences \in Seq(DebugEvent)
  BY <1>1, applyDifferencesType DEF applyCursor
<1>3. pushEvents(m_events, differences) \in Seq(DebugEvent)
  BY <1>2, ConcatProperties DEF pushEvents
<1> QED
  BY <1>1, <1>3, PushedStop DEF MoveTo, StopQueued

LEMMA StopsAtPositions ==
    ASSUME NEW p \in Position
    PROVE  BreakPointAt(p) \in Stops /\ StepEvent(ActiveThread[p]) \in Stops
BY BreakPointAtType DEF Stops

(* Where the replays of onResume go. *)
LEMMA ReplayType ==
    ASSUME m_cursor \in Position
    PROVE  /\ Replay(-1) \in Position
           /\ Replay(1) \in Position
           /\ ReplayBackward(m_cursor, FirstPosition, 1, watchpoints) \in Position
<1>1. m_cursor <= LastPosition /\ FirstPosition <= m_cursor
  BY PositionAssumption DEF Position
<1> QED
  BY <1>1, ReplayForwardStops, ReplayBackwardStops, PositionsAreNaturals DEF Replay
------------------------------------------------------------------------------
(* Type correctness. *)

LEMMA IdaAfterType ==
    ASSUME NEW view \in View, NEW e \in DebugEvent
    PROVE  IdaAfter(view, e) \in View
<1>1. e.eid \in EventIds
  BY DEF DebugEvent
<1>2. e.eid \in {"PROCESS_STARTED", "THREAD_STARTED"} => e.tid \in Threads
  BY DEF DebugEvent
<1>3. e.eid \in {"PROCESS_STARTED", "LIB_LOADED"} => e.module \in Modules
  BY DEF DebugEvent
<1>4. CASE e.eid = "PROCESS_STARTED"
  BY <1>2, <1>3, <1>4 DEF IdaAfter, View
<1>5. CASE e.eid = "PROCESS_EXITED"
  BY <1>5 DEF IdaAfter, View, NoView
<1>6. CASE e.eid = "THREAD_STARTED"
  BY <1>2, <1>6 DEF IdaAfter, View
<1>7. CASE e.eid = "THREAD_EXITED"
  BY <1>7 DEF IdaAfter, View
<1>8. CASE e.eid = "LIB_LOADED"
  BY <1>3, <1>8 DEF IdaAfter, View
<1>9. CASE e.eid = "LIB_UNLOADED"
  BY <1>9 DEF IdaAfter, View
<1>10. CASE e.eid \in {"BREAKPOINT", "STEP"}
  BY <1>10 DEF IdaAfter
<1> QED
  BY <1>1, <1>4, <1>5, <1>6, <1>7, <1>8, <1>9, <1>10 DEF EventIds

LEMMA WatchpointsOfType ==
    ASSUME NEW n \in Nat \ {0}, NEW bpts \in [1 .. n -> Bpt],
           NEW first \in Nat \ {0}, NEW last \in 0 .. n
    PROVE  WatchpointsOf(bpts, first, last) \subseteq Watchpoint
<1>1. \A i \in first .. last : bpts[i] \in Bpt
  OBVIOUS
<1>2. from_idabptype(bpts[1].type) \in BpFlags
  BY DEF from_idabptype, BpFlags
<1> QED
  BY <1>1, <1>2 DEF WatchpointsOf, Watchpoint, Bpt

(* The cursor is on the trace whenever there is a process. *)
LEMMA CursorOnTrace == TypeOK /\ dbgState # "noProcess" => m_cursor \in Position
BY DEF TypeOK

LEMMA onStartProcessType == TypeOK /\ onStartProcess => TypeOK'
<1> SUFFICES ASSUME TypeOK, onStartProcess PROVE TypeOK'
  OBVIOUS
<1>1. m_events' \in Seq(DebugEvent)
  <2>1. PICK events \in SessionStart : m_events' = pushEvents(m_events, events)
    BY DEF onStartProcess
  <2>2. PICK start \in Seq(DebugEvent) : events = start \o <<BreakPointAt(FirstPosition)>>
    BY SessionStartType
  <2>3. <<BreakPointAt(FirstPosition)>> \in Seq(DebugEvent)
    BY BreakPointAtType, PositionsAreNaturals
  <2>4. events \in Seq(DebugEvent)
    BY <2>2, <2>3, ConcatProperties
  <2> QED
    BY <2>1, <2>4, ConcatProperties DEF pushEvents, TypeOK
<1>2. m_cursor' \in Position
  BY SetPositionType, PositionsAreNaturals DEF onStartProcess
<1> QED
  BY <1>1, <1>2, PositionsAreNaturals DEF onStartProcess, TypeOK, Watchpoint

LEMMA onGetDebugEventType == TypeOK /\ onGetDebugEvent => TypeOK'
<1> SUFFICES ASSUME TypeOK, onGetDebugEvent PROVE TypeOK'
  OBVIOUS
<1>1. frontEvent(m_events) \in DebugEvent /\ popEvent(m_events) \in Seq(DebugEvent)
  BY HeadTailProperties DEF onGetDebugEvent, TypeOK, isEmpty, frontEvent, popEvent
<1>2. ida' \in View
  BY <1>1, IdaAfterType DEF onGetDebugEvent, TypeOK
<1>3. dbgState' \in {"noProcess", "handling", "suspended"}
  BY DEF onGetDebugEvent, StatesAfter
<1>4. m_cursor # NoPosition
  BY DEF onGetDebugEvent, TypeOK
<1> QED
  BY <1>1, <1>2, <1>3, <1>4 DEF onGetDebugEvent, TypeOK, requests, replay

(* A resume at a stop moves the cursor along the trace and queues a stop.   *)
LEMMA ResumeMoves ==
    ASSUME TypeOK, onResume, dbgEvent.eid \in StopEvents
    PROVE  /\ m_cursor' \in Position
           /\ m_events' \in Seq(DebugEvent)
           /\ StopQueued'
           /\ UNCHANGED <<watchpoints, m_isForward>>
           /\ m_resumeMode' \in {m_resumeMode, "RESMOD_NONE"}
           /\ m_nextPosition' \in {m_nextPosition, NoPosition}
           /\ m_backwardsSingleStep' \in {m_backwardsSingleStep, FALSE}
<1>1. m_cursor \in Position /\ m_events \in Seq(DebugEvent)
  BY CursorOnTrace DEF TypeOK, onResume, IdaResumes, ResumeOtherEvent, ResumeAtNextPosition,
        ResumeBackwardsSingleStep, ResumeByMode
<1>2. CASE ResumeAtNextPosition
  <2>1. SetPosition(m_nextPosition) \in Position
    BY SetPositionType, PositionAssumption DEF TypeOK, NoPosition
  <2> QED
    BY <1>1, <1>2, <2>1, MoveToStops, StopsAtPositions DEF ResumeAtNextPosition
<1>3. CASE ResumeBackwardsSingleStep
  <2> DEFINE to == ReplayBackward(m_cursor, FirstPosition, 1, watchpoints)
  <2>1. to \in Position
    BY <1>1, ReplayType
  <2>2. MoveTo(to, BreakPointAt(to))
    BY <1>3 DEF ResumeBackwardsSingleStep
  <2> HIDE DEF to
  <2> QED
    BY <1>1, <1>3, <2>1, <2>2, MoveToStops, StopsAtPositions DEF ResumeBackwardsSingleStep
<1>4. CASE ResumeByMode
  <2>1. m_resumeMode \in {"RESMOD_NONE", "RESMOD_INTO"}
    BY DEF TypeOK, DeclaredResumeModes
  <2>2. PICK to \in Position, stop \in Stops : MoveTo(to, stop)
    BY <1>1, <1>4, <2>1, ReplayType, StopsAtPositions DEF ResumeByMode
  <2> QED
    BY <1>1, <1>4, <2>2, MoveToStops DEF ResumeByMode
<1> QED
  BY <1>2, <1>3, <1>4 DEF onResume, ResumeOtherEvent

LEMMA onResumeType == TypeOK /\ onResume => TypeOK'
<1> SUFFICES ASSUME TypeOK, onResume PROVE TypeOK'
  OBVIOUS
<1>1. /\ IdaResumes
      /\ m_cursor \in Position
  BY CursorOnTrace DEF onResume, IdaResumes, ResumeOtherEvent, ResumeAtNextPosition,
        ResumeBackwardsSingleStep, ResumeByMode
<1>2. /\ dbgState' = "running"
      /\ UNCHANGED <<dbgEvent, exiting, ida>>
      /\ uiCall' \in {uiCall, "switchBack", "idle"}
  BY <1>1 DEF IdaResumes
<1>3. CASE dbgEvent.eid \in StopEvents
  <2>1. /\ m_events' \in Seq(DebugEvent)
        /\ m_isForward' \in BOOLEAN
        /\ m_resumeMode' \in {"RESMOD_NONE"} \cup DeclaredResumeModes
        /\ m_backwardsSingleStep' \in BOOLEAN
        /\ watchpoints' \subseteq Watchpoint
    BY <1>3, ResumeMoves DEF TypeOK
  <2>2. m_nextPosition' \in NoPosition .. LastPosition + 1
    <3>1. m_nextPosition' \in {m_nextPosition, NoPosition}
      BY <1>3, ResumeMoves
    <3>2. m_nextPosition \in NoPosition .. LastPosition + 1
      BY DEF TypeOK
    <3>3. NoPosition \in NoPosition .. LastPosition + 1
      BY PositionAssumption DEF NoPosition
    <3> QED
      BY <3>1, <3>2, <3>3
  <2>3. m_cursor' \in Position /\ m_cursor' # NoPosition
    BY <1>3, ResumeMoves, PositionsAreNaturals
  <2>4. /\ dbgState' \in {"noProcess", "running", "handling", "suspended"}
        /\ dbgEvent' \in DebugEvent
        /\ exiting' \in BOOLEAN
        /\ ida' \in View
        /\ uiCall' \in {"idle", "resume", "backward", "switchBack"}
    BY <1>2 DEF TypeOK
  <2> QED
    BY <2>1, <2>2, <2>3, <2>4 DEF TypeOK
<1>4. CASE dbgEvent.eid \notin StopEvents
  <2>1. UNCHANGED <<m_events, m_isForward, requests, replay>>
    BY <1>4 DEF onResume, ResumeOtherEvent, ResumeAtNextPosition,
          ResumeBackwardsSingleStep, ResumeByMode
  <2> QED
    BY <1>1, <1>2, <2>1, PositionsAreNaturals DEF TypeOK, requests, replay
<1> QED
  BY <1>3, <1>4

LEMMA MainThreadActionType == TypeOK /\ MainThreadAction => TypeOK'
<1> SUFFICES ASSUME TypeOK, MainThreadAction PROVE TypeOK'
  OBVIOUS
<1>1. CASE onStartProcess
  BY <1>1, onStartProcessType
<1>2. CASE onStartProcessFails
  BY <1>2 DEF onStartProcessFails, TypeOK, requests, replay, process
<1>3. CASE Continue
  BY <1>3 DEF Continue, continue_process, TypeOK, requests, replay, process
<1>4. CASE onSetResumeMode
  BY <1>4 DEF onSetResumeMode, continue_process, TypeOK, requests, replay, process
<1>5. CASE BackwardStateRequest
  BY <1>5 DEF BackwardStateRequest, continue_process, TypeOK, requests, replay, process
<1>6. CASE SwitchBack
  BY <1>6 DEF SwitchBack, TypeOK, requests, replay, process
<1>7. CASE BackwardSingleStepRequest
  BY <1>7 DEF BackwardSingleStepRequest, continue_process, TypeOK, requests, replay, process
<1>8. CASE gotoPosition
  BY <1>8 DEF gotoPosition, continue_process, TypeOK, requests, replay, process
<1>9. CASE onExitProcess
  <2>1. m_events' \in Seq(DebugEvent)
    BY <1>9, EventTypes, AppendProperties DEF onExitProcess, pushEvent, TypeOK
  <2>2. dbgState' \in {"running", "handling", "suspended"}
    BY <1>9 DEF onExitProcess, TypeOK
  <2>3. m_cursor # NoPosition
    BY <1>9 DEF onExitProcess, TypeOK
  <2> QED
    BY <1>9, <2>1, <2>2, <2>3 DEF onExitProcess, TypeOK, requests, replay
<1>10. CASE onUpdateBpts
  <2> DEFINE Changes(nadd, ndel, bpts) ==
          /\ watchpoints' = (watchpoints \cup WatchpointsOf(bpts, 1, nadd))
                                \ WatchpointsOf(bpts, nadd + 1, ndel)
          /\ ida' = [ida EXCEPT !.bpts =
                         (@ \cup {bpts[i] : i \in 1 .. nadd})
                             \ {bpts[i] : i \in nadd + 1 .. nadd + ndel}]
  <2>0. PICK nadd \in 0 .. MaxBptRequest, ndel \in 0 .. MaxBptRequest :
          /\ nadd + ndel \in 1 .. MaxBptRequest
          /\ \E bpts \in Injection(1 .. nadd + ndel, Bpt) : Changes(nadd, ndel, bpts)
    BY <1>10 DEF onUpdateBpts
  <2>1. PICK bpts \in Injection(1 .. nadd + ndel, Bpt) : Changes(nadd, ndel, bpts)
    BY <2>0
  <2>2. bpts \in [1 .. nadd + ndel -> Bpt]
    BY DEF Injection
  <2>3. nadd + ndel \in Nat \ {0} /\ nadd \in 0 .. nadd + ndel
    BY <2>0, IdaAssumption
  <2>4. WatchpointsOf(bpts, 1, nadd) \subseteq Watchpoint
    BY <2>2, <2>3, WatchpointsOfType
  <2>5. watchpoints' \subseteq Watchpoint
    BY <2>1, <2>4 DEF TypeOK
  <2>6. {bpts[i] : i \in 1 .. nadd} \subseteq Bpt
    BY <2>2, <2>3
  <2>7. ida' \in View
    BY <2>1, <2>6 DEF TypeOK, View
  <2> QED
    BY <1>10, <2>5, <2>7 DEF onUpdateBpts, TypeOK, requests
<1> QED
  BY <1>1, <1>2, <1>3, <1>4, <1>5, <1>6, <1>7, <1>8, <1>9, <1>10 DEF MainThreadAction

LEMMA InitialType == Init => TypeOK
<1>1. NoEvent \in DebugEvent
  BY EventTypes DEF NoEvent
<1>2. NoView \in View
  BY DEF NoView, View
<1>3. NoPosition \in NoPosition .. LastPosition + 1
  BY PositionAssumption DEF NoPosition
<1>4. << >> \in Seq(DebugEvent)
  OBVIOUS
<1>5. {} \subseteq Watchpoint
  OBVIOUS
<1> QED
  BY <1>1, <1>2, <1>3, <1>4, <1>5 DEF Init, TypeOK

LEMMA TypeStep == TypeOK /\ [Next]_vars => TypeOK'
<1>1. TypeOK /\ UNCHANGED vars => TypeOK'
  BY DEF TypeOK, vars, requests, replay, process
<1> QED
  BY <1>1, onGetDebugEventType, onResumeType, MainThreadActionType DEF Next

(* Every reachable state has the types of TypeOK; in particular the cursor  *)
(* never leaves the trace while a process exists, and no event is queued    *)
(* without the thread, module or address its kind needs.                    *)
THEOREM TypeCorrect == Spec => []TypeOK
BY InitialType, TypeStep, PTL DEF Spec
------------------------------------------------------------------------------
(* IDA never waits for nothing. *)

StopsOrEnds == StopEvents \cup {"PROCESS_EXITED"}

(* The events that are not popped stay; the one that is popped is a stop,   *)
(* or an exit, which ends the process, or leaves the stop in the queue.     *)
LEMMA PolledStop ==
    ASSUME TypeOK, StopQueued, onGetDebugEvent
    PROVE  \/ StopQueued'
           \/ dbgEvent'.eid \in StopsOrEnds
<1>1. PICK i \in DOMAIN m_events : m_events[i].eid \in StopsOrEnds
  BY DEF StopQueued, StopsOrEnds
<1>2. CASE m_events[i] = frontEvent(m_events)
  BY <1>1, <1>2 DEF onGetDebugEvent
<1>3. CASE m_events[i] # frontEvent(m_events)
  <2>1. \E j \in DOMAIN m_events' : m_events'[j] = m_events[i]
    BY <1>3, PoppedStop DEF TypeOK, onGetDebugEvent
  <2> QED
    BY <1>1, <2>1 DEF StopQueued, StopsOrEnds
<1> QED
  BY <1>2, <1>3

LEMMA onGetDebugEventKeepsStop ==
    TypeOK /\ RunningHasStop /\ onGetDebugEvent => RunningHasStop'
<1> SUFFICES ASSUME TypeOK, RunningHasStop, onGetDebugEvent, dbgState' # "noProcess",
                    ~StopQueued'
             PROVE  dbgState' \in {"suspended", "handling"} /\ dbgEvent'.eid \in StopEvents
  BY DEF RunningHasStop
<1>1. StopQueued
  BY DEF RunningHasStop, onGetDebugEvent
<1>2. dbgEvent'.eid \in StopsOrEnds
  BY <1>1, PolledStop
<1>3. dbgEvent'.eid # "PROCESS_EXITED"
  BY DEF onGetDebugEvent, StatesAfter
<1>4. dbgState' \in {"suspended", "handling"}
  BY <1>3 DEF onGetDebugEvent, StatesAfter
<1> QED
  BY <1>2, <1>3, <1>4 DEF StopsOrEnds

(* Every path through onResume for a stop queues the next stop; for any     *)
(* other event the stop that was queued is still there.                     *)
LEMMA onResumeKeepsStop ==
    TypeOK /\ RunningHasStop /\ onResume => RunningHasStop'
<1> SUFFICES ASSUME TypeOK, RunningHasStop, onResume PROVE StopQueued'
  BY DEF RunningHasStop
<1>1. CASE dbgEvent.eid \in StopEvents
  BY <1>1, ResumeMoves
<1>2. CASE dbgEvent.eid \notin StopEvents
  <2>1. dbgState \in {"handling", "suspended"} /\ UNCHANGED m_events
    BY <1>2 DEF onResume, IdaResumes, ResumeOtherEvent, ResumeAtNextPosition,
          ResumeBackwardsSingleStep, ResumeByMode
  <2> QED
    BY <1>2, <2>1 DEF RunningHasStop, StopQueued
<1> QED
  BY <1>1, <1>2

LEMMA MainThreadActionKeepsStop ==
    TypeOK /\ RunningHasStop /\ MainThreadAction => RunningHasStop'
<1> SUFFICES ASSUME TypeOK, RunningHasStop, MainThreadAction PROVE RunningHasStop'
  OBVIOUS
<1>1. CASE onStartProcess
  <2>1. PICK events \in SessionStart : m_events' = pushEvents(m_events, events)
    BY <1>1 DEF onStartProcess
  <2>2. PICK start \in Seq(DebugEvent) : events = start \o <<BreakPointAt(FirstPosition)>>
    BY SessionStartType
  <2> DEFINE stop == BreakPointAt(FirstPosition)
  <2>3. stop \in Stops
    BY StopsAtPositions, PositionsAreNaturals
  <2>4. stop \in DebugEvent /\ m_events \in Seq(DebugEvent)
    BY <2>3 DEF Stops, TypeOK
  <2> HIDE DEF stop
  <2>5. m_events \o start \in Seq(DebugEvent)
    BY <2>4, ConcatProperties
  <2>6. m_events' = pushEvent(m_events \o start, stop)
    <3>1. m_events' = m_events \o (start \o <<stop>>)
      BY <2>1, <2>2 DEF pushEvents, stop
    <3>2. <<stop>> \in Seq(DebugEvent)
      BY <2>4
    <3>3. m_events \o (start \o <<stop>>) = (m_events \o start) \o <<stop>>
      BY <2>4, <3>2, ConcatAssociative
    <3> QED
      BY <2>4, <2>5, <3>1, <3>3, AppendIsConcat DEF pushEvent
  <2>7. StopQueued'
    BY <2>3, <2>5, <2>6, PushedStop DEF StopQueued
  <2> QED
    BY <2>7 DEF RunningHasStop
<1>2. CASE onExitProcess
  <2>1. ProcessExitEvent \in Stops
    BY EventTypes, EventKinds DEF Stops
  <2>2. StopQueued'
    BY <1>2, <2>1, PushedStop DEF onExitProcess, TypeOK, StopQueued
  <2> QED
    BY <2>2 DEF RunningHasStop
<1>3. CASE onStartProcessFails \/ Continue \/ onSetResumeMode \/ BackwardStateRequest
           \/ SwitchBack \/ BackwardSingleStepRequest \/ gotoPosition \/ onUpdateBpts
  <2>1. UNCHANGED <<m_events, dbgState, dbgEvent>>
    BY <1>3 DEF onStartProcessFails, Continue, onSetResumeMode, BackwardStateRequest,
          SwitchBack, BackwardSingleStepRequest, gotoPosition, onUpdateBpts, process
  <2> QED
    BY <2>1 DEF RunningHasStop, StopQueued
<1> QED
  BY <1>1, <1>2, <1>3 DEF MainThreadAction

LEMMA InitialStop == Init => RunningHasStop
BY DEF Init, RunningHasStop

LEMMA StopStep == TypeOK /\ RunningHasStop /\ [Next]_vars => RunningHasStop'
<1>1. RunningHasStop /\ UNCHANGED vars => RunningHasStop'
  BY DEF RunningHasStop, StopQueued, vars, process
<1> QED
  BY <1>1, onGetDebugEventKeepsStop, onResumeKeepsStop, MainThreadActionKeepsStop DEF Next

(* IDA never waits for a stop that nobody will queue, however the user's    *)
(* actions, the sessions and the leftovers of earlier sessions interleave.  *)
THEOREM StopIsQueued == Spec => []RunningHasStop
BY InitialStop, StopStep, TypeCorrect, PTL DEF Spec
------------------------------------------------------------------------------
(* No resume goes the wrong way. *)

(* The direction is reversed only between the two switchWay of an action.   *)
DirectionInv == m_isForward = (uiCall \in {"idle", "resume"})

LEMMA DirectionStep == TypeOK /\ DirectionInv /\ [Next]_vars => DirectionInv'
<1> SUFFICES ASSUME TypeOK, DirectionInv, [Next]_vars PROVE DirectionInv'
  OBVIOUS
<1>1. CASE UNCHANGED vars
  BY <1>1 DEF DirectionInv, vars
<1>2. CASE onGetDebugEvent
  BY <1>2 DEF DirectionInv, onGetDebugEvent
<1>3. CASE onResume
  <2>1. UNCHANGED m_isForward /\ IdaResumes
    BY <1>3 DEF onResume, ResumeOtherEvent, ResumeAtNextPosition, ResumeBackwardsSingleStep,
          ResumeByMode
  <2>2. \/ UNCHANGED uiCall
        \/ uiCall = "backward" /\ uiCall' = "switchBack"
        \/ uiCall = "resume" /\ uiCall' = "idle"
    BY <2>1 DEF IdaResumes, InContinueProcess
  <2> QED
    BY <2>1, <2>2 DEF DirectionInv
<1>4. CASE onStartProcess \/ onStartProcessFails
  BY <1>4 DEF DirectionInv, onStartProcess, onStartProcessFails
<1>5. CASE Continue \/ onSetResumeMode \/ BackwardSingleStepRequest \/ gotoPosition
  BY <1>5 DEF DirectionInv, Continue, onSetResumeMode, BackwardSingleStepRequest, gotoPosition,
        continue_process
<1>6. CASE BackwardStateRequest \/ SwitchBack
  <2>1. m_isForward' = ~m_isForward
    BY <1>6 DEF BackwardStateRequest, SwitchBack
  <2>2. \/ uiCall = "idle" /\ uiCall' \in {"backward", "switchBack"}
        \/ uiCall = "switchBack" /\ uiCall' = "idle"
    BY <1>6 DEF BackwardStateRequest, SwitchBack, continue_process
  <2>3. (uiCall' \in {"idle", "resume"}) = ~(uiCall \in {"idle", "resume"})
    BY <2>2
  <2> QED
    BY <2>1, <2>3, Zenon DEF DirectionInv
<1>7. CASE onExitProcess \/ onUpdateBpts
  BY <1>7 DEF DirectionInv, onExitProcess, onUpdateBpts
<1> QED
  BY <1>1, <1>2, <1>3, <1>4, <1>5, <1>6, <1>7 DEF Next, MainThreadAction

LEMMA ReplayDirection ==
    ASSUME m_cursor \in Position, m_isForward \in BOOLEAN, NEW steps \in Int
    PROVE  IF m_isForward THEN Replay(steps) >= m_cursor ELSE Replay(steps) <= m_cursor
<1>1. m_cursor <= LastPosition /\ FirstPosition <= m_cursor
  BY PositionAssumption DEF Position
<1>2. CASE m_isForward
  <2>1. m_cursor <= ReplayForward(m_cursor, LastPosition, steps, watchpoints)
    BY <1>1, ReplayForwardStops, PositionsAreNaturals
  <2>2. Replay(steps) \in Nat
    BY <1>1, <1>2, ReplayForwardStops, PositionsAreNaturals DEF Replay
  <2> QED
    BY <1>2, <2>1, <2>2, PositionsAreNaturals DEF Replay
<1>3. CASE ~m_isForward
  BY <1>1, <1>3, ReplayBackwardStops, PositionsAreNaturals DEF Replay
<1> QED
  BY <1>2, <1>3

DirectionOfResume ==
    ResumeByMode /\ dbgState = "suspended" =>
        IF uiCall = "backward" THEN m_cursor' <= m_cursor ELSE m_cursor' >= m_cursor

LEMMA ResumeGoesTheWay == TypeOK /\ DirectionInv => DirectionOfResume
<1> SUFFICES ASSUME TypeOK, DirectionInv, ResumeByMode, dbgState = "suspended"
             PROVE  IF uiCall = "backward" THEN m_cursor' <= m_cursor
                    ELSE m_cursor' >= m_cursor
  BY DEF DirectionOfResume
<1>1. uiCall \in {"resume", "backward"}
  BY DEF ResumeByMode, IdaResumes, InContinueProcess
<1>2. m_cursor \in Position /\ m_isForward \in BOOLEAN
  BY CursorOnTrace DEF TypeOK
<1>3. m_resumeMode \in {"RESMOD_NONE", "RESMOD_INTO"}
  BY DEF TypeOK, DeclaredResumeModes
<1>4. m_cursor' = Replay(-1) \/ m_cursor' = Replay(1)
  BY <1>3 DEF ResumeByMode, MoveTo
<1>5. IF m_isForward THEN m_cursor' >= m_cursor ELSE m_cursor' <= m_cursor
  BY <1>2, <1>4, ReplayDirection
<1> QED
  BY <1>1, <1>5 DEF DirectionInv

LEMMA InitialDirection == Init => DirectionInv
BY DEF Init, DirectionInv

(* Continue and Step never go back in time and Continue backwards never     *)
(* goes forward, however often and in whatever state of IDA the user has    *)
(* asked for it before: each pair of switchWay is closed before the next    *)
(* action or session begins.                                                *)
THEOREM DirectionKept == Spec => ResumeKeepsDirection
BY InitialDirection, ResumeGoesTheWay, DirectionStep, TypeCorrect, PTL
   DEF Spec, ResumeKeepsDirection, DirectionOfResume
------------------------------------------------------------------------------
(* No resume runs past a breakpoint. *)

WatchpointOf(b) == [addr |-> b.ea, flags |-> from_idabptype(b.type)]

(* Every breakpoint IDA shows is watched, and a process starts with none.  *)
BreakpointsWatched ==
    /\ \A b \in ida.bpts : WatchpointOf(b) \in watchpoints
    /\ dbgState = "noProcess" => ida.bpts = {}

(* If breakpoints are all of one type, the type of a request's first        *)
(* element is that of all, and the removal loop, which stops early, removes *)
(* the watchpoints of deleted breakpoints only.                             *)
LEMMA RequestWatched ==
    ASSUME \A s, t \in BptTypes : s = t,
           TypeOK, BreakpointsWatched, onUpdateBpts
    PROVE  BreakpointsWatched'
<1> PICK nadd, ndel \in 0 .. MaxBptRequest :
        /\ nadd + ndel \in 1 .. MaxBptRequest
        /\ \E bpts \in Injection(1 .. nadd + ndel, Bpt) :
            LET new == {bpts[i] : i \in 1 .. nadd}
                deleted == {bpts[i] : i \in nadd + 1 .. nadd + ndel}
            IN  /\ new \cap ida.bpts = {}
                /\ deleted \subseteq ida.bpts
                /\ watchpoints' = (watchpoints \cup WatchpointsOf(bpts, 1, nadd))
                                     \ WatchpointsOf(bpts, nadd + 1, ndel)
                /\ ida' = [ida EXCEPT !.bpts = (@ \cup new) \ deleted]
    BY DEF onUpdateBpts
<1> PICK bpts \in Injection(1 .. nadd + ndel, Bpt) :
        LET new == {bpts[i] : i \in 1 .. nadd}
            deleted == {bpts[i] : i \in nadd + 1 .. nadd + ndel}
        IN  /\ watchpoints' = (watchpoints \cup WatchpointsOf(bpts, 1, nadd))
                                 \ WatchpointsOf(bpts, nadd + 1, ndel)
            /\ ida' = [ida EXCEPT !.bpts = (@ \cup new) \ deleted]
    OBVIOUS
<1> DEFINE new == {bpts[i] : i \in 1 .. nadd}
           deleted == {bpts[i] : i \in nadd + 1 .. nadd + ndel}
<1>1. nadd \in Nat /\ ndel \in Nat /\ nadd + ndel >= 1
  BY IdaAssumption
<1>2. bpts \in [1 .. nadd + ndel -> Bpt]
  BY DEF Injection
<1>3. \A i \in 1 .. nadd + ndel : bpts[i] \in Bpt /\ bpts[i].type = bpts[1].type
  BY <1>1, <1>2 DEF Bpt
<1>4. ida'.bpts = (ida.bpts \cup new) \ deleted
  BY DEF TypeOK, View
<1>5. \A b \in new : WatchpointOf(b) \in WatchpointsOf(bpts, 1, nadd)
  BY <1>1, <1>3 DEF WatchpointsOf, WatchpointOf
<1>6. ASSUME NEW b \in (ida.bpts \cup new) \ deleted
      PROVE  WatchpointOf(b) \notin WatchpointsOf(bpts, nadd + 1, ndel)
  <2>1. b \in Bpt
    BY <1>1, <1>3 DEF TypeOK, View
  <2>2. ASSUME NEW i \in nadd + 1 .. ndel PROVE bpts[i].ea # b.ea
    <3>1. i \in nadd + 1 .. nadd + ndel /\ i \in 1 .. nadd + ndel
      BY <1>1
    <3>2. bpts[i] # b /\ bpts[i] \in Bpt
      BY <1>3, <1>6, <3>1
    <3> QED
      BY <2>1, <3>2 DEF Bpt
  <2> QED
    BY <2>2 DEF WatchpointsOf, WatchpointOf
<1>7. \A b \in ida'.bpts : WatchpointOf(b) \in watchpoints'
  <2> HIDE DEF new, deleted
  <2> QED
    BY <1>4, <1>5, <1>6 DEF BreakpointsWatched, new
<1>8. dbgState' # "noProcess"
  BY DEF onUpdateBpts
<1> QED
  BY <1>7, <1>8 DEF BreakpointsWatched, WatchpointOf

LEMMA WatchStep ==
    ASSUME \A s, t \in BptTypes : s = t
    PROVE  TypeOK /\ BreakpointsWatched /\ [Next]_vars => BreakpointsWatched'
<1> SUFFICES ASSUME TypeOK, BreakpointsWatched, [Next]_vars PROVE BreakpointsWatched'
  OBVIOUS
<1>1. CASE onUpdateBpts
  BY <1>1, RequestWatched
<1>2. CASE onStartProcess
  BY <1>2 DEF onStartProcess, BreakpointsWatched, WatchpointOf
<1>3. CASE onGetDebugEvent
  <2>1. m_events # << >> /\ m_events \in Seq(DebugEvent)
    BY <1>3 DEF onGetDebugEvent, isEmpty, TypeOK
  <2> DEFINE e == frontEvent(m_events)
  <2>2. e \in DebugEvent
    BY <2>1 DEF frontEvent
  <2>3. ida' = IdaAfter(ida, e) /\ dbgState' \in StatesAfter(e) /\ UNCHANGED watchpoints
    BY <1>3 DEF onGetDebugEvent, replay
  <2> HIDE DEF e
  <2>4. CASE e.eid = "PROCESS_EXITED"
    BY <2>3, <2>4 DEF IdaAfter, NoView, BreakpointsWatched
  <2>5. CASE e.eid # "PROCESS_EXITED"
    <3>1. ida'.bpts = ida.bpts
      BY <2>3, <2>5 DEF IdaAfter, TypeOK, View
    <3>2. dbgState' # "noProcess"
      BY <2>3, <2>5 DEF StatesAfter
    <3> QED
      BY <2>3, <3>1, <3>2 DEF BreakpointsWatched, WatchpointOf
  <2> QED
    BY <2>4, <2>5
<1>4. CASE onResume
  <2>1. UNCHANGED <<watchpoints, ida>> /\ dbgState' # "noProcess"
    BY <1>4, ResumeMoves DEF onResume, ResumeOtherEvent, ResumeAtNextPosition,
          ResumeBackwardsSingleStep, ResumeByMode, IdaResumes, replay
  <2> QED
    BY <2>1 DEF BreakpointsWatched, WatchpointOf
<1>5. CASE onStartProcessFails \/ Continue \/ onSetResumeMode \/ BackwardStateRequest
           \/ SwitchBack \/ BackwardSingleStepRequest \/ gotoPosition \/ UNCHANGED vars
  <2>1. UNCHANGED <<watchpoints, ida, dbgState>>
    BY <1>5 DEF onStartProcessFails, Continue, onSetResumeMode, BackwardStateRequest,
          SwitchBack, BackwardSingleStepRequest, gotoPosition, process, replay, vars
  <2> QED
    BY <2>1 DEF BreakpointsWatched, WatchpointOf
<1>6. CASE onExitProcess
  <2>1. UNCHANGED <<watchpoints, ida>> /\ dbgState' # "noProcess"
    BY <1>6 DEF onExitProcess, replay
  <2> QED
    BY <2>1 DEF BreakpointsWatched, WatchpointOf
<1> QED
  BY <1>1, <1>2, <1>3, <1>4, <1>5, <1>6 DEF Next, MainThreadAction

(* What a resume passes over touches no watchpoint. *)
LEMMA PassedUntouched ==
    ASSUME TypeOK, ResumeByMode \/ ResumeBackwardsSingleStep, NEW p \in Between(m_cursor, m_cursor')
    PROVE  ~Touched(p, watchpoints)
<1>1. m_cursor \in Position
  BY CursorOnTrace DEF ResumeByMode, ResumeBackwardsSingleStep, IdaResumes
<1>2. m_cursor <= LastPosition /\ FirstPosition <= m_cursor
  BY <1>1, PositionAssumption DEF Position
<1>3. \/ \E steps \in Int : m_cursor' = ReplayForward(m_cursor, LastPosition, steps, watchpoints)
      \/ \E steps \in Int : m_cursor' = ReplayBackward(m_cursor, FirstPosition, steps, watchpoints)
  <2>1. CASE ResumeByMode
    <3>1. m_resumeMode \in {"RESMOD_NONE", "RESMOD_INTO"}
      BY DEF TypeOK, DeclaredResumeModes
    <3>2. m_cursor' = Replay(-1) \/ m_cursor' = Replay(1)
      BY <2>1, <3>1 DEF ResumeByMode, MoveTo
    <3> QED
      BY <3>2 DEF Replay
  <2>2. CASE ResumeBackwardsSingleStep
    BY <2>2 DEF ResumeBackwardsSingleStep, MoveTo
  <2> QED
    BY <2>1, <2>2
<1>4. p \in Position /\ (\/ m_cursor < p /\ p < m_cursor'
                         \/ m_cursor' < p /\ p < m_cursor)
  BY DEF Between
<1>5. ASSUME NEW steps \in Int,
             m_cursor' = ReplayForward(m_cursor, LastPosition, steps, watchpoints)
      PROVE  ~Touched(p, watchpoints)
  <2>1. /\ m_cursor' \in Position
        /\ m_cursor <= m_cursor'
        /\ \A q \in Position : m_cursor < q /\ q < m_cursor' => ~Touched(q, watchpoints)
    BY <1>1, <1>2, <1>5, ReplayForwardStops, PositionsAreNaturals
  <2> QED
    BY <1>1, <1>4, <2>1, PositionsAreNaturals
<1>6. ASSUME NEW steps \in Int,
             m_cursor' = ReplayBackward(m_cursor, FirstPosition, steps, watchpoints)
      PROVE  ~Touched(p, watchpoints)
  <2>1. /\ m_cursor' \in Position
        /\ m_cursor' <= m_cursor
        /\ \A q \in Position : m_cursor' < q /\ q < m_cursor => ~Touched(q, watchpoints)
    BY <1>1, <1>2, <1>6, ReplayBackwardStops, PositionsAreNaturals
  <2> QED
    BY <1>1, <1>4, <2>1, PositionsAreNaturals
<1> QED
  BY <1>3, <1>5, <1>6

NoneSkipped ==
    ResumeByMode \/ ResumeBackwardsSingleStep =>
        \A p \in Between(m_cursor, m_cursor') :
            ~Touched(p, {[addr |-> b.ea, flags |-> from_idabptype(b.type)] : b \in ida.bpts})

LEMMA ResumeSkipsNone == TypeOK /\ BreakpointsWatched => NoneSkipped
<1> SUFFICES ASSUME TypeOK, BreakpointsWatched, ResumeByMode \/ ResumeBackwardsSingleStep,
                    NEW p \in Between(m_cursor, m_cursor')
             PROVE  ~Touched(p, {WatchpointOf(b) : b \in ida.bpts})
  BY DEF WatchpointOf, NoneSkipped
<1>1. {WatchpointOf(b) : b \in ida.bpts} \subseteq watchpoints
  BY DEF BreakpointsWatched
<1> QED
  BY <1>1, PassedUntouched DEF Touched

LEMMA InitialWatched == Init => BreakpointsWatched
BY DEF Init, NoView, BreakpointsWatched

(* If the breakpoints of the user are of one type, no resume in any         *)
(* direction or mode runs past one that IDA shows, although onUpdateBpts    *)
(* takes the type of the first for all and ends its second loop early.      *)
THEOREM BreakpointsStop ==
    ASSUME \A s, t \in BptTypes : s = t
    PROVE  Spec => NoBreakpointSkipped
<1>1. TypeOK /\ BreakpointsWatched /\ [Next]_vars => BreakpointsWatched'
  BY WatchStep
<1> QED
  BY <1>1, InitialWatched, ResumeSkipsNone, TypeCorrect, PTL
     DEF Spec, NoBreakpointSkipped, NoneSkipped
==============================================================================
