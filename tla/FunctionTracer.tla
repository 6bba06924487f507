---------------------------- MODULE FunctionTracer ----------------------------
(***************************************************************************)
(* The function tracer (ttddbg_tracer.cc) and its two windows              *)
(* (ttddbg_tracer_choosers.cc).                                            *)
(*                                                                         *)
(* While a replay runs, the engine calls callCallback for the calls and    *)
(* returns it runs over, from several threads: the recorders.  The main    *)
(* thread serves the windows and edits the two lists meanwhile.  A list    *)
(* is read and written under its mutex; an action here is at most one such *)
(* critical section of a recorder.                                         *)
(***************************************************************************)
EXTENDS Integers, Sequences, FiniteSets, Functions

CONSTANTS
    Functions,       \* functions of the database
    NoFunction,      \* get_func of an address that is in none
    InvalidBitness,  \* <<func, is_return>>: the calls and returns of a function whose
                     \* values recordCall and recordRet give up on
    Invocations,     \* the calls and returns of the trace
    Recorders,       \* threads of the engine that run the callback
    OutsideSession,  \* does the user trace and run the trace outside a session too?
    MaxEvents        \* bound: events recorded when a replay ends

Position == {e.pos : e \in Invocations}
FunctionInvocation == [func : Functions, pos : Position, is_return : BOOLEAN]

ASSUME TracerAssumption ==
    /\ NoFunction \notin Functions
    /\ InvalidBitness \subseteq Functions \X BOOLEAN
    /\ Invocations \subseteq
           [func : Functions \cup {NoFunction}, pos : Nat, is_return : BOOLEAN]
    /\ OutsideSession \in BOOLEAN
    /\ MaxEvents \in Nat

VARIABLES
    inSession,    \* the debugger is initialised and a process was started
    m_cursor,     \* of the debugger manager: has it been created?
    m_engine,     \* was the tracer given the engine of the trace?
    callbacks,    \* are m_cbNewTrace and m_cbNewEvent set?
    m_traces, m_events,
    todo,         \* what the replay in progress has yet to report
    recorder,     \* per recorder: where it is, and the event it records
    window,       \* per list: is it open, marked for a refresh, and the rows it shows
    toRead,       \* rows the main thread has yet to read in a refresh of the events
    eventNum,     \* per kind of copy action: the event its handlers act on, from 1
    menu          \* the popup menu that is open in the window of the events

session == <<inSession, m_cursor, m_engine, callbacks>>
lists == <<m_traces, m_events>>
recording == <<todo, recorder>>
windows == <<window, toRead>>
popup == <<eventNum, menu>>
vars == <<session, lists, recording, windows, popup>>

Idle == [pc |-> "idle", ev |-> <<>>]
Closed == [open |-> FALSE, marked |-> FALSE, rows |-> << >>]
NoMenu == [entry |-> "none", row |-> 0]

Replaying == todo # {} \/ \E r \in Recorders : recorder[r].pc # "idle"

(* The main thread is between two actions. *)
UiIdle == toRead = 0 /\ menu = NoMenu

RemoveNth(list, n) ==
    [i \in 1 .. Len(list) - 1 |-> list[IF i < n THEN i ELSE i + 1]]

isEATraced(func) == \E i \in DOMAIN m_traces : m_traces[i] = func
------------------------------------------------------------------------------
Init ==
    /\ inSession = FALSE
    /\ m_cursor = FALSE
    /\ m_engine = FALSE
    /\ callbacks = FALSE
    /\ m_traces = << >>
    /\ m_events = << >>
    /\ todo = {}
    /\ recorder = [r \in Recorders |-> Idle]
    /\ window = [w \in {"traces", "events"} |-> Closed]
    /\ toRead = 0
    /\ eventNum = [entry \in {"arg", "return"} |-> 1]
    /\ menu = NoMenu

(* onStartProcess: the tracer is told of the engine, the cursor and the *)
(* windows.                                                             *)
StartProcess ==
    /\ ~inSession /\ ~Replaying /\ UiIdle
    /\ inSession' = TRUE
    /\ m_cursor' = TRUE
    /\ m_engine' = TRUE
    /\ callbacks' = TRUE
    /\ UNCHANGED <<lists, recording, windows, popup>>

(* OnTermDebugger destroys the tracer; the next getInstance makes a new one. *)
(* The cursor stays.  IDA closes the windows of the debugging desktop.       *)
OnTermDebugger ==
    /\ inSession /\ ~Replaying /\ UiIdle
    /\ inSession' = FALSE
    /\ m_engine' = FALSE
    /\ callbacks' = FALSE
    /\ m_traces' = << >>
    /\ m_events' = << >>
    /\ window' = [w \in DOMAIN window |-> Closed]
    /\ UNCHANGED <<m_cursor, recording, toRead, popup>>
------------------------------------------------------------------------------
(* The recorders. *)

(* onResume or requestFullRun: the cursor runs over a part of the trace. *)
Replay ==
    /\ m_cursor
    /\ inSession \/ OutsideSession
    /\ ~Replaying /\ UiIdle
    /\ \E first, last \in Position :
           todo' = {e \in Invocations : first <= e.pos /\ e.pos <= last}
    /\ Len(m_events) + Cardinality(todo') <= MaxEvents
    /\ UNCHANGED <<session, lists, recorder, windows, popup>>

(* recordCall and recordRet build the event from values they read at a      *)
(* cursor of the tracer's engine, and give up, for a pointer, when they do  *)
(* not know the bitness of the function.                                    *)
recordCall(func, pos) ==
    IF <<func, FALSE>> \in InvalidBitness THEN Idle
    ELSE [pc |-> "push", ev |-> [func |-> func, pos |-> pos, is_return |-> FALSE]]

recordRet(func, pos) ==
    IF <<func, TRUE>> \in InvalidBitness THEN Idle
    ELSE [pc |-> "push", ev |-> [func |-> func, pos |-> pos, is_return |-> TRUE]]

(* Mutant: every return is recorded, traced or not. *)
callCallback_EveryReturn(r) ==
    /\ recorder[r].pc = "idle"
    /\ \E e \in todo :
        /\ todo' = todo \ {e}
        /\ recorder' = [recorder EXCEPT ![r] =
               IF e.is_return THEN recordRet(e.func, e.pos)
               ELSE IF isEATraced(e.func) THEN recordCall(e.func, e.pos) ELSE Idle]
    /\ UNCHANGED <<session, lists, windows, popup>>

(* A call or a return of a traced function is recorded. *)
callCallback(r) ==
    /\ recorder[r].pc = "idle"
    /\ \E e \in todo :
        /\ todo' = todo \ {e}
        /\ recorder' = [recorder EXCEPT ![r] =
               IF ~isEATraced(e.func) THEN Idle
               ELSE IF e.is_return THEN recordRet(e.func, e.pos) ELSE recordCall(e.func, e.pos)]
    /\ UNCHANGED <<session, lists, windows, popup>>

(* Mutant: the events are not sorted. *)
Push_Unsorted(r) ==
    /\ recorder[r].pc = "push"
    /\ m_events' = Append(m_events, recorder[r].ev)
    /\ recorder' = [recorder EXCEPT ![r].pc = "notify"]
    /\ UNCHANGED <<session, m_traces, todo, windows, popup>>

Push(r) ==
    /\ recorder[r].pc = "push"
    /\ m_events' = Append(m_events, recorder[r].ev)
    /\ recorder' = [recorder EXCEPT ![r].pc = "sort"]
    /\ UNCHANGED <<session, m_traces, todo, windows, popup>>

IsSortedByPosition(list) ==
    \A i, j \in DOMAIN list : i < j => list[i].pos <= list[j].pos

Count(list, e) == Cardinality({i \in DOMAIN list : list[i] = e})

(* std::sort by position, which orders equals as it likes. *)
sortEvents(list) ==
    {sorted \in [DOMAIN list -> Range(list)] :
        /\ IsSortedByPosition(sorted)
        /\ \A e \in Range(list) : Count(sorted, e) = Count(list, e)}

(* Sorted under a lock of its own: others may have pushed in between. *)
Sort(r) ==
    /\ recorder[r].pc = "sort"
    /\ m_events' \in sortEvents(m_events)
    /\ recorder' = [recorder EXCEPT ![r].pc = "notify"]
    /\ UNCHANGED <<session, m_traces, todo, windows, popup>>

(* refresh_chooser: an open window is marked, IDA refreshes it later. *)
Mark(w) == [window EXCEPT ![w].marked = window[w].open]

(* Mutant: recordRet does not call m_cbNewEvent. *)
Notify_CallsOnly(r) ==
    /\ recorder[r].pc = "notify"
    /\ window' = IF callbacks /\ ~recorder[r].ev.is_return THEN Mark("events") ELSE window
    /\ recorder' = [recorder EXCEPT ![r] = Idle]
    /\ UNCHANGED <<session, lists, todo, toRead, popup>>

(* m_cbNewEvent *)
Notify(r) ==
    /\ recorder[r].pc = "notify"
    /\ window' = IF callbacks THEN Mark("events") ELSE window
    /\ recorder' = [recorder EXCEPT ![r] = Idle]
    /\ UNCHANGED <<session, lists, todo, toRead, popup>>
------------------------------------------------------------------------------
(* The main thread. *)

(* The rows of a window are read: all of m_traces, which only the main      *)
(* thread writes, at once; m_events one row and one lock at a time.         *)
RereadTraces(traces) ==
    [window EXCEPT !["traces"] = [open |-> TRUE, marked |-> FALSE, rows |-> traces]]

RereadEvents(events) ==
    /\ window' = [window EXCEPT !["events"] = [open |-> TRUE, marked |-> FALSE, rows |-> << >>]]
    /\ toRead' = Len(events)

ReadRow ==
    /\ toRead > 0
    /\ window' = [window EXCEPT !["events"].rows = Append(@, m_events[Len(@) + 1])]
    /\ toRead' = toRead - 1
    /\ UNCHANGED <<session, lists, recording, popup>>

(* The window is opened, or was marked and IDA comes to refresh it. *)
ShowTraces ==
    /\ UiIdle
    /\ inSession \/ OutsideSession
    /\ ~window["traces"].open \/ window["traces"].marked
    /\ window' = RereadTraces(m_traces)
    /\ UNCHANGED <<session, lists, recording, toRead, popup>>

ShowEvents ==
    /\ UiIdle
    /\ inSession \/ OutsideSession
    /\ ~window["events"].open \/ window["events"].marked
    /\ RereadEvents(m_events)
    /\ UNCHANGED <<session, lists, recording, popup>>

(* Mutant: a traced function is not looked for. *)
traceFunction_Again ==
    /\ UiIdle
    /\ inSession \/ OutsideSession
    /\ Len(m_traces) <= Cardinality(Functions)
    /\ \E func \in Functions : m_traces' = Append(m_traces, func)
    /\ window' = IF callbacks THEN Mark("traces") ELSE window
    /\ UNCHANGED <<session, m_events, recording, toRead, popup>>

(* "Trace function" in the popup menu of a list of functions. *)
traceFunction ==
    /\ UiIdle
    /\ inSession \/ OutsideSession
    /\ \E func \in Functions :
        /\ ~isEATraced(func)
        /\ m_traces' = Append(m_traces, func)
    /\ window' = IF callbacks THEN Mark("traces") ELSE window
    /\ UNCHANGED <<session, m_events, recording, toRead, popup>>

(* The user inserts a row in the window of the traced functions: the same, *)
(* and ALL_CHANGED, also when the function was traced before.              *)
InsertTrace ==
    /\ UiIdle
    /\ window["traces"].open
    /\ \E func \in Functions :
           m_traces' = IF isEATraced(func) THEN m_traces ELSE Append(m_traces, func)
    /\ window' = RereadTraces(m_traces')
    /\ UNCHANGED <<session, m_events, recording, toRead, popup>>

(* The user deletes the n-th row: the n-th element is erased. *)
removeTrace ==
    /\ UiIdle
    /\ \E n \in DOMAIN window["traces"].rows :
        /\ n <= Len(m_traces)
        /\ m_traces' = RemoveNth(m_traces, n)
    /\ window' = RereadTraces(m_traces')
    /\ UNCHANGED <<session, m_events, recording, toRead, popup>>

(* Mutant: the window is not told that the list has changed. *)
removeEvent_NothingChanged ==
    /\ UiIdle
    /\ \E n \in DOMAIN window["events"].rows :
        /\ n <= Len(m_events)
        /\ m_events' = RemoveNth(m_events, n)
    /\ UNCHANGED <<session, m_traces, recording, windows, popup>>

removeEvent ==
    /\ UiIdle
    /\ \E n \in DOMAIN window["events"].rows :
        /\ n <= Len(m_events)
        /\ m_events' = RemoveNth(m_events, n)
    /\ RereadEvents(m_events')
    /\ UNCHANGED <<session, m_traces, recording, popup>>

(* Mutant: the handler of the return value is not told of the row. *)
ui_finish_populating_widget_popup_ArgsOnly ==
    /\ UiIdle
    /\ \E n \in DOMAIN window["events"].rows :
        /\ n <= Len(m_events)
        /\ eventNum' = [eventNum EXCEPT !["arg"] = n]
        /\ menu' = [entry |-> IF m_events[n].is_return THEN "return" ELSE "arg", row |-> n]
    /\ UNCHANGED <<session, lists, recording, windows>>

(* The popup menu of a row: all the handlers are given its number, and the *)
(* event that has the number now decides what the menu offers.             *)
ui_finish_populating_widget_popup ==
    /\ UiIdle
    /\ \E n \in DOMAIN window["events"].rows :
        /\ n <= Len(m_events)
        /\ eventNum' = [entry \in DOMAIN eventNum |-> n]
        /\ menu' = [entry |-> IF m_events[n].is_return THEN "return" ELSE "arg", row |-> n]
    /\ UNCHANGED <<session, lists, recording, windows>>

(* An entry is chosen, and copies from the event eventNum[menu.entry] to   *)
(* the clipboard of the system, or the menu is left.                       *)
activate ==
    /\ menu # NoMenu
    /\ menu' = NoMenu
    /\ UNCHANGED <<session, lists, recording, windows, eventNum>>

Next ==
    \/ StartProcess
    \/ OnTermDebugger
    \/ Replay
    \/ \E r \in Recorders : callCallback(r)
    \/ \E r \in Recorders : Push(r)
    \/ \E r \in Recorders : Sort(r)
    \/ \E r \in Recorders : Notify(r)
    \/ ReadRow
    \/ ShowTraces
    \/ ShowEvents
    \/ traceFunction
    \/ InsertTrace
    \/ removeTrace
    \/ removeEvent
    \/ ui_finish_populating_widget_popup
    \/ activate

Spec == Init /\ [][Next]_vars
------------------------------------------------------------------------------
(* The types; only functions of the database are traced or recorded. *)
TypeOK ==
    /\ inSession \in BOOLEAN
    /\ m_cursor \in BOOLEAN
    /\ m_engine \in BOOLEAN
    /\ callbacks \in BOOLEAN
    /\ m_traces \in Seq(Functions)
    /\ m_events \in Seq(FunctionInvocation)
    /\ todo \subseteq Invocations
    /\ recorder \in [Recorders ->
           {Idle} \cup [pc : {"push", "sort", "notify"}, ev : FunctionInvocation]]
    /\ window["traces"] \in [open : BOOLEAN, marked : BOOLEAN, rows : Seq(Functions)]
    /\ window["events"] \in [open : BOOLEAN, marked : BOOLEAN, rows : Seq(FunctionInvocation)]
    /\ toRead \in Nat
    /\ eventNum \in [{"arg", "return"} -> Nat \ {0}]
    /\ menu \in {NoMenu} \cup [entry : {"arg", "return"}, row : Nat \ {0}]

(* The events are in the order of the trace whenever no recorder is between *)
(* its push and its sort, whichever of them sorts last and whatever the     *)
(* user deletes in between.                                                 *)
EventsSorted ==
    (\A r \in Recorders : recorder[r].pc # "sort") => IsSortedByPosition(m_events)

(* A window that IDA has no reason to refresh shows its list, although it   *)
(* reads the rows one by one while the recorders push and sort: the         *)
(* callback comes after the sort, so a refresh that mixed two orders is not *)
(* the last one.                                                            *)
WindowsShowLists ==
    /\ window["traces"].open /\ ~window["traces"].marked => window["traces"].rows = m_traces
    /\ window["events"].open /\ ~window["events"].marked /\ toRead = 0 /\ ~Replaying
           => window["events"].rows = m_events

(* No index leaves its vector: eventAt and funcAt would throw, and erase in *)
(* removeEvent and removeTrace, which check nothing, would be undefined.    *)
(* The rows a refresh has counted, and the rows the user can act on, are    *)
(* never more than the elements there are; nor is the event of a copy       *)
(* action, as long as it is chosen from the menu it was put in.             *)
IndicesInRange ==
    /\ Len(window["events"].rows) + toRead <= Len(m_events)
    /\ Len(window["traces"].rows) <= Len(m_traces)
    /\ menu # NoMenu => eventNum[menu.entry] <= Len(m_events)

(* What the menu copies is of the row it was opened on, whichever of the    *)
(* handlers the entry belongs to and whatever they were told before.  While *)
(* a replay inserts events under the open menu, and while a window waits    *)
(* for its refresh, a number is not yet that of the row on the screen.      *)
MenuCopiesItsRow ==
    menu # NoMenu /\ ~window["events"].marked /\ ~Replaying =>
        /\ eventNum[menu.entry] = menu.row
        /\ m_events[eventNum[menu.entry]] = window["events"].rows[menu.row]
        /\ (menu.entry = "return") <=> m_events[eventNum[menu.entry]].is_return

(* A function is traced once, however often and from whichever window the   *)
(* user asks, so that one removeTrace ends its tracing.                     *)
RemovedIsUntraced ==
    [][removeTrace => \E func \in Functions :
          isEATraced(func) /\ ~isEATraced(func)']_vars
------------------------------------------------------------------------------
(* README.md:36, "ttddbg also extracts the parameters passed to the        *)
(* function as well as its return value": a recorder, which reads them at  *)
(* a cursor of the tracer's engine, has the engine of the trace.           *)
RecordsFromTheTrace ==
    \A r \in Recorders : recorder[r].pc # "idle" => m_engine
==============================================================================
