------------------------------ MODULE TracedRun ------------------------------
(***************************************************************************)
(* A full run with the function tracer: the purpose of requestFullRun.     *)
(* The main thread runs the loops of FullRun; whenever it is inside        *)
(* ReplayForward, the engine reports the calls and returns that the cursor *)
(* runs over to the recorders of FunctionTracer, and ReplayForward returns *)
(* when they have done.  The wait box keeps the user from the lists and    *)
(* IDA from refreshing the window until the run has ended.                 *)
(***************************************************************************)
EXTENDS FullRun

CONSTANTS Functions, NoFunction, InvalidBitness, Invocations, Recorders

ASSUME TracedRunAssumption ==
    Invocations \subseteq
        [func : Functions \cup {NoFunction}, pos : Nat, is_return : BOOLEAN]

VARIABLES inSession, hasCursor, m_engine, callbacks, m_traces, m_events,
          todo, recorder, window, toRead, eventNum, menu

Tracer == INSTANCE FunctionTracer
              WITH m_cursor <- hasCursor, OutsideSession <- FALSE, MaxEvents <- 0

tracerVars == <<inSession, hasCursor, m_engine, callbacks, m_traces, m_events,
                todo, recorder, window, toRead, eventNum, menu>>
tracedVars == <<vars, tracerVars>>

(* A session in which the user has traced a function and opened the window *)
(* of the events.                                                          *)
TracedInit ==
    /\ Init
    /\ inSession = TRUE
    /\ hasCursor = TRUE
    /\ m_engine = TRUE
    /\ callbacks = TRUE
    /\ m_traces \in {<<func>> : func \in Functions}
    /\ m_events = << >>
    /\ todo = {}
    /\ recorder = [r \in Recorders |-> Tracer!Idle]
    /\ window = [traces |-> Tracer!Closed, events |-> [Tracer!Closed EXCEPT !.open = TRUE]]
    /\ toRead = 0
    /\ eventNum = [entry \in {"arg", "return"} |-> 1]
    /\ menu = Tracer!NoMenu

(* The instruction at a position is executed, and its call or return       *)
(* reported, when the cursor leaves the position: not when a replay stops  *)
(* there.                                                                  *)
Executed(first, stop) == {e \in Invocations : first <= e.pos /\ e.pos < stop}

ReplayRecords ==
    /\ ReplayStep
    /\ todo' = Executed(m_cursor, m_cursor')
    /\ UNCHANGED <<inSession, hasCursor, m_engine, callbacks, m_traces, m_events,
                   recorder, window, toRead, eventNum, menu>>

(* The main thread, which waits for a replay to return. *)
FullRunStep ==
    /\ ~Tracer!Replaying
    /\ \/ (requestFullRun \/ NextThread \/ Restore) /\ UNCHANGED tracerVars
       \/ ReplayRecords

Engine ==
    /\ \E r \in Recorders :
           Tracer!callCallback(r) \/ Tracer!Push(r) \/ Tracer!Sort(r) \/ Tracer!Notify(r)
    /\ UNCHANGED vars

Refresh ==
    /\ pc = "done"
    /\ Tracer!ShowEvents \/ Tracer!ReadRow
    /\ UNCHANGED vars

TracedNext ==
    \/ FullRunStep
    \/ Engine
    \/ Refresh
    \/ Cancel /\ UNCHANGED tracerVars

TracedSpec ==
    /\ TracedInit
    /\ [][TracedNext]_tracedVars
    /\ WF_tracedVars(FullRunStep)
    /\ WF_tracedVars(Engine)
    /\ WF_tracedVars(Refresh)
------------------------------------------------------------------------------
AliveAt(p) == {t \in 1 .. NThreads : lives[t][1] <= p /\ p < lives[t][2]}

(* README.md:34, "any call to this function, and any return statement,     *)
(* will be recorded".  A run that is not cancelled records each of them    *)
(* once for every thread that is alive there, since the whole trace is     *)
(* replayed for each: although the two lists pair events of different      *)
(* threads, breakpoints cut the replays short, and two recorders push and  *)
(* sort.                                                                   *)
EveryCallRecorded ==
    pc = "done" /\ ~cancelled =>
        \A e \in Invocations :
            Tracer!isEATraced(e.func) /\ <<e.func, e.is_return>> \notin InvalidBitness
                => Tracer!Count(m_events, e) = Cardinality(AliveAt(e.pos))

(* What the user is shown of it.  The window is told of every event while  *)
(* it cannot refresh, and reads the rows one by one when the run is over,  *)
(* cancelled or not.  When it has no refresh to do it shows all that was   *)
(* recorded, in the order of the trace: no event was recorded behind its   *)
(* back, and it is marked as long as one was.                              *)
RefreshedShowsRun ==
    pc = "done" /\ ~window["events"].marked /\ toRead = 0 =>
        /\ window["events"].rows = m_events
        /\ Tracer!IsSortedByPosition(m_events)

(* The window ends up with all that was recorded, in the order of the      *)
(* trace, although it was told of every event while it could not refresh.  *)
RunIsShown ==
    <>[](/\ window["events"].rows = m_events
         /\ Tracer!IsSortedByPosition(m_events))
==============================================================================
