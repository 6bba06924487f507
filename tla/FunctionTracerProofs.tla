------------------------- MODULE FunctionTracerProofs -------------------------
(***************************************************************************)
(* The lists and the windows of the function tracer, for any functions,    *)
(* any trace and any number of recorders.                                  *)
(***************************************************************************)
EXTENDS FunctionTracer, SequenceTheorems, TLAPS

Windows == {"traces", "events"}
TraceWindow == [open : BOOLEAN, marked : BOOLEAN, rows : Seq(Functions)]
EventWindow == [open : BOOLEAN, marked : BOOLEAN, rows : Seq(FunctionInvocation)]

TypeInv == TypeOK /\ DOMAIN window = Windows

LEMMA InvocationTypes ==
    /\ \A e \in Invocations : e.pos \in Position /\ e.is_return \in BOOLEAN
    /\ Position \subseteq Nat
BY TracerAssumption DEF TracerAssumption, Position

(* What is traced is a function of the database, never NoFunction. *)
LEMMA TracedIsFunction ==
    ASSUME TypeOK, NEW func, isEATraced(func)
    PROVE  func \in Functions
BY DEF TypeOK, isEATraced

LEMMA RemoveNthType ==
    ASSUME NEW S, NEW list \in Seq(S), NEW n \in DOMAIN list
    PROVE  /\ RemoveNth(list, n) \in Seq(S)
           /\ Len(RemoveNth(list, n)) = Len(list) - 1
           /\ \A i \in 1 .. Len(list) - 1 :
                 RemoveNth(list, n)[i] = list[IF i < n THEN i ELSE i + 1]
<1> DEFINE g == [i \in 1 .. Len(list) - 1 |-> list[IF i < n THEN i ELSE i + 1]]
<1>1. n \in 1 .. Len(list) /\ Len(list) \in Nat /\ Len(list) - 1 \in Nat
    OBVIOUS
<1>2. \A i \in 1 .. Len(list) - 1 : (IF i < n THEN i ELSE i + 1) \in 1 .. Len(list)
    BY <1>1
<1>3. g \in [1 .. Len(list) - 1 -> S]
    BY <1>2
<1>4. g \in Seq(S) /\ Len(g) = Len(list) - 1
    BY <1>1, <1>3
<1> QED BY <1>4 DEF RemoveNth

LEMMA SortType ==
    ASSUME NEW S, NEW list \in Seq(S), NEW sorted \in sortEvents(list)
    PROVE  /\ sorted \in Seq(S)
           /\ Len(sorted) = Len(list)
           /\ IsSortedByPosition(sorted)
<1>1. sorted \in [1 .. Len(list) -> Range(list)] /\ IsSortedByPosition(sorted)
    BY DEF sortEvents
<1>2. Range(list) \subseteq S
    BY DEF Range
<1>3. sorted \in [1 .. Len(list) -> S]
    BY <1>1, <1>2
<1> QED BY <1>1, <1>3

(* A mark leaves the rows and what is open. *)
LEMMA MarkType ==
    ASSUME TypeInv, NEW w \in Windows
    PROVE  /\ DOMAIN Mark(w) = Windows
           /\ Mark(w)["traces"] \in TraceWindow
           /\ Mark(w)["events"] \in EventWindow
           /\ \A v \in Windows :
                 /\ Mark(w)[v].rows = window[v].rows
                 /\ Mark(w)[v].open = window[v].open
                 /\ v # w => Mark(w)[v] = window[v]
           /\ Mark(w)[w].marked = window[w].open
BY DEF TypeInv, TypeOK, Mark, Windows, TraceWindow, EventWindow

LEMMA RereadTracesType ==
    ASSUME TypeInv, NEW traces \in Seq(Functions)
    PROVE  /\ DOMAIN RereadTraces(traces) = Windows
           /\ RereadTraces(traces)["traces"] = [open |-> TRUE, marked |-> FALSE, rows |-> traces]
           /\ RereadTraces(traces)["events"] = window["events"]
BY DEF TypeInv, RereadTraces, Windows

(* A window nobody has opened. *)
LEMMA ClosedType ==
    /\ Closed \in TraceWindow /\ Closed \in EventWindow
    /\ DOMAIN [w \in Windows |-> Closed] = Windows
    /\ \A v \in Windows : [w \in Windows |-> Closed][v] = Closed
<1>1. << >> \in Seq(Functions) /\ << >> \in Seq(FunctionInvocation)
    OBVIOUS
<1>2. Closed \in TraceWindow /\ Closed \in EventWindow
    BY <1>1 DEF Closed, TraceWindow, EventWindow
<1> QED BY <1>2

LEMMA InitTypes == Init => TypeInv
<1> SUFFICES ASSUME Init PROVE TypeInv
    OBVIOUS
<1>1. /\ DOMAIN window = Windows
      /\ window["traces"] \in TraceWindow /\ window["events"] \in EventWindow
    BY ClosedType DEF Init, Windows
<1>2. recorder \in [Recorders ->
             {Idle} \cup [pc : {"push", "sort", "notify"}, ev : FunctionInvocation]]
    BY DEF Init
<1>3. eventNum \in [{"arg", "return"} -> Nat \ {0}]
    BY DEF Init
<1>4. m_traces \in Seq(Functions) /\ m_events \in Seq(FunctionInvocation)
    BY DEF Init
<1> QED BY <1>1, <1>2, <1>3, <1>4 DEF Init, TypeInv, TypeOK, TraceWindow, EventWindow

LEMMA NextTypes == TypeInv /\ IndicesInRange /\ [Next]_vars => TypeInv'
<1> SUFFICES ASSUME TypeInv, IndicesInRange, [Next]_vars PROVE TypeInv'
    OBVIOUS
<1>1. CASE StartProcess
    BY <1>1 DEF StartProcess, TypeInv, TypeOK, lists, recording, windows, popup
<1>2. CASE OnTermDebugger
  <2>1. /\ DOMAIN window' = Windows
        /\ window'["traces"] \in TraceWindow /\ window'["events"] \in EventWindow
      BY <1>2, ClosedType DEF OnTermDebugger, TypeInv, Windows
  <2>2. m_traces' \in Seq(Functions) /\ m_events' \in Seq(FunctionInvocation)
      BY <1>2 DEF OnTermDebugger
  <2> QED BY <1>2, <2>1, <2>2 DEF OnTermDebugger, TypeInv, TypeOK, recording, popup,
                                  TraceWindow, EventWindow
<1>3. CASE Replay
  <2>1. todo' \subseteq Invocations
      BY <1>3 DEF Replay
  <2> QED BY <1>3, <2>1 DEF Replay, TypeInv, TypeOK, session, lists, windows, popup
<1>4. ASSUME NEW r \in Recorders, callCallback(r) PROVE TypeInv'
  <2>1. PICK e \in todo :
          /\ todo' = todo \ {e}
          /\ recorder' = [recorder EXCEPT ![r] =
                 IF ~isEATraced(e.func) THEN Idle
                 ELSE IF e.is_return THEN recordRet(e.func, e.pos) ELSE recordCall(e.func, e.pos)]
      BY <1>4 DEF callCallback
  <2>2. e.pos \in Position
      BY InvocationTypes DEF TypeInv, TypeOK
  <2>3. ASSUME isEATraced(e.func)
        PROVE  /\ recordRet(e.func, e.pos) \in
                     {Idle} \cup [pc : {"push", "sort", "notify"}, ev : FunctionInvocation]
               /\ recordCall(e.func, e.pos) \in
                     {Idle} \cup [pc : {"push", "sort", "notify"}, ev : FunctionInvocation]
    <3>1. e.func \in Functions
        BY <2>3, TracedIsFunction DEF TypeInv
    <3> QED BY <2>2, <3>1 DEF recordRet, recordCall, FunctionInvocation
  <2>4. recorder' \in [Recorders ->
             {Idle} \cup [pc : {"push", "sort", "notify"}, ev : FunctionInvocation]]
      BY <2>1, <2>3 DEF TypeInv, TypeOK
  <2>5. todo' \subseteq Invocations
      BY <2>1 DEF TypeInv, TypeOK
  <2> QED BY <1>4, <2>4, <2>5 DEF callCallback, TypeInv, TypeOK, session, lists, windows, popup
<1>5. ASSUME NEW r \in Recorders, Push(r) PROVE TypeInv'
  <2>1. recorder[r] \in [pc : {"push", "sort", "notify"}, ev : FunctionInvocation]
      BY <1>5 DEF Push, TypeInv, TypeOK, Idle
  <2>2. m_events' \in Seq(FunctionInvocation)
      BY <1>5, <2>1 DEF Push, TypeInv, TypeOK
  <2>3. recorder' \in [Recorders ->
             {Idle} \cup [pc : {"push", "sort", "notify"}, ev : FunctionInvocation]]
      BY <1>5, <2>1 DEF Push, TypeInv, TypeOK
  <2> QED BY <1>5, <2>2, <2>3 DEF Push, TypeInv, TypeOK, session, windows, popup
<1>6. ASSUME NEW r \in Recorders, Sort(r) PROVE TypeInv'
  <2>1. recorder[r] \in [pc : {"push", "sort", "notify"}, ev : FunctionInvocation]
      BY <1>6 DEF Sort, TypeInv, TypeOK, Idle
  <2>2. m_events' \in Seq(FunctionInvocation)
      BY <1>6, SortType DEF Sort, TypeInv, TypeOK
  <2>3. recorder' \in [Recorders ->
             {Idle} \cup [pc : {"push", "sort", "notify"}, ev : FunctionInvocation]]
      BY <1>6, <2>1 DEF Sort, TypeInv, TypeOK
  <2> QED BY <1>6, <2>2, <2>3 DEF Sort, TypeInv, TypeOK, session, windows, popup
<1>7. ASSUME NEW r \in Recorders, Notify(r) PROVE TypeInv'
  <2>1. /\ DOMAIN window' = Windows
        /\ window'["traces"] \in TraceWindow
        /\ window'["events"] \in EventWindow
      BY <1>7, MarkType DEF Notify, TypeInv, TypeOK, Windows, TraceWindow, EventWindow
  <2>2. recorder' \in [Recorders ->
             {Idle} \cup [pc : {"push", "sort", "notify"}, ev : FunctionInvocation]]
      BY <1>7 DEF Notify, TypeInv, TypeOK
  <2> QED BY <1>7, <2>1, <2>2
          DEF Notify, TypeInv, TypeOK, session, lists, popup, TraceWindow, EventWindow
<1>8. CASE ReadRow
  <2> DEFINE rows == window["events"].rows
  <2>1. /\ rows \in Seq(FunctionInvocation) /\ m_events \in Seq(FunctionInvocation)
        /\ toRead \in Nat /\ toRead > 0 /\ Len(rows) + toRead <= Len(m_events)
      BY <1>8 DEF ReadRow, TypeInv, TypeOK, IndicesInRange
  <2>2. Append(rows, m_events[Len(rows) + 1]) \in Seq(FunctionInvocation)
    <3>1. Len(rows) + 1 \in 1 .. Len(m_events)
        BY <2>1
    <3> QED BY <2>1, <3>1
  <2>3. window' = [window EXCEPT !["events"].rows = Append(rows, m_events[Len(rows) + 1])]
      BY <1>8 DEF ReadRow
  <2> HIDE DEF rows
  <2>4. /\ DOMAIN window' = Windows
        /\ window'["traces"] \in TraceWindow
        /\ window'["events"] \in EventWindow
      BY <2>2, <2>3 DEF TypeInv, TypeOK, Windows, TraceWindow, EventWindow
  <2>5. toRead' \in Nat
      BY <1>8, <2>1 DEF ReadRow
  <2> QED BY <1>8, <2>4, <2>5 DEF ReadRow, TypeInv, TypeOK, TraceWindow, EventWindow,
                                  session, lists, recording, popup
<1>9. CASE ShowTraces
  <2>1. m_traces \in Seq(Functions)
      BY DEF TypeInv, TypeOK
  <2>2. /\ DOMAIN window' = Windows
        /\ window'["traces"] = [open |-> TRUE, marked |-> FALSE, rows |-> m_traces]
        /\ window'["events"] = window["events"]
      BY <1>9, <2>1, RereadTracesType DEF ShowTraces
  <2> QED BY <1>9, <2>1, <2>2 DEF ShowTraces, TypeInv, TypeOK, session, lists, recording, popup
<1>10. CASE ShowEvents
    BY <1>10 DEF ShowEvents, RereadEvents, TypeInv, TypeOK, Windows,
                 session, lists, recording, popup
<1>11. CASE traceFunction
  <2>1. m_traces' \in Seq(Functions)
      BY <1>11 DEF traceFunction, TypeInv, TypeOK
  <2>2. /\ DOMAIN window' = Windows
        /\ window'["traces"] \in TraceWindow
        /\ window'["events"] \in EventWindow
      BY <1>11, MarkType DEF traceFunction, TypeInv, TypeOK, Windows, TraceWindow, EventWindow
  <2> QED BY <1>11, <2>1, <2>2
          DEF traceFunction, TypeInv, TypeOK, session, recording, popup, TraceWindow, EventWindow
<1>12. CASE InsertTrace
  <2>1. m_traces' \in Seq(Functions)
      BY <1>12 DEF InsertTrace, TypeInv, TypeOK
  <2>2. /\ DOMAIN window' = Windows
        /\ window'["traces"] = [open |-> TRUE, marked |-> FALSE, rows |-> m_traces']
        /\ window'["events"] = window["events"]
      BY <1>12, <2>1, RereadTracesType DEF InsertTrace
  <2>3. UNCHANGED <<session, m_events, recording, toRead, popup>>
      BY <1>12 DEF InsertTrace
  <2> QED BY <2>1, <2>2, <2>3 DEF TypeInv, TypeOK, session, recording, popup
<1>13. CASE removeTrace
  <2>1. m_traces' \in Seq(Functions)
      BY <1>13, RemoveNthType DEF removeTrace, TypeInv, TypeOK
  <2>2. /\ DOMAIN window' = Windows
        /\ window'["traces"] = [open |-> TRUE, marked |-> FALSE, rows |-> m_traces']
        /\ window'["events"] = window["events"]
      BY <1>13, <2>1, RereadTracesType DEF removeTrace
  <2> QED BY <1>13, <2>1, <2>2 DEF removeTrace, TypeInv, TypeOK, session, recording, popup
<1>14. CASE removeEvent
  <2>1. m_events' \in Seq(FunctionInvocation)
      BY <1>14, RemoveNthType DEF removeEvent, TypeInv, TypeOK
  <2> QED BY <1>14, <2>1
          DEF removeEvent, RereadEvents, TypeInv, TypeOK, Windows, session, recording, popup
<1>15. CASE ui_finish_populating_widget_popup
    BY <1>15 DEF ui_finish_populating_widget_popup, TypeInv, TypeOK,
                 session, lists, recording, windows
<1>16. CASE activate
    BY <1>16 DEF activate, TypeInv, TypeOK, session, lists, recording, windows
<1>17. CASE UNCHANGED vars
    BY <1>17 DEF TypeInv, TypeOK, vars, session, lists, recording, windows, popup
<1> QED BY <1>1, <1>2, <1>3, <1>4, <1>5, <1>6, <1>7, <1>8, <1>9, <1>10, <1>11, <1>12,
           <1>13, <1>14, <1>15, <1>16, <1>17 DEF Next
------------------------------------------------------------------------------
(* The steps that leave the events and their window, and those that leave  *)
(* the traced functions and theirs.                                        *)
EventsAside ==
    \/ StartProcess \/ Replay \/ ShowTraces \/ traceFunction \/ InsertTrace \/ removeTrace
    \/ ui_finish_populating_widget_popup \/ activate
    \/ UNCHANGED vars

Recording ==
    \E r \in Recorders : callCallback(r) \/ Push(r) \/ Sort(r) \/ Notify(r)

TracesAside ==
    \/ StartProcess \/ Replay \/ Recording \/ ReadRow \/ ShowEvents \/ removeEvent
    \/ ui_finish_populating_widget_popup \/ activate
    \/ UNCHANGED vars

LEMMA EventsLeft ==
    ASSUME TypeInv, EventsAside
    PROVE  UNCHANGED <<window["events"], toRead, m_events, recorder>>
<1>1. CASE StartProcess \/ Replay \/ activate \/ UNCHANGED vars
    BY <1>1 DEF StartProcess, Replay, activate, vars, lists, recording, windows
<1>2. CASE ui_finish_populating_widget_popup
    BY <1>2 DEF ui_finish_populating_widget_popup, lists, recording, windows
<1>3. CASE ShowTraces \/ InsertTrace \/ removeTrace
  <2>1. window'["events"] = window["events"]
      BY <1>3 DEF ShowTraces, InsertTrace, removeTrace, RereadTraces, TypeInv, Windows
  <2> QED BY <1>3, <2>1 DEF ShowTraces, InsertTrace, removeTrace, lists, recording
<1>4. CASE traceFunction
  <2>1. window'["events"] = window["events"]
      BY <1>4, MarkType DEF traceFunction, Windows
  <2> QED BY <1>4, <2>1 DEF traceFunction, lists, recording
<1> QED BY <1>1, <1>2, <1>3, <1>4 DEF EventsAside

LEMMA TracesLeft ==
    ASSUME TypeInv, TracesAside
    PROVE  UNCHANGED <<window["traces"], m_traces>>
<1>1. CASE StartProcess \/ Replay \/ activate \/ UNCHANGED vars
    BY <1>1 DEF StartProcess, Replay, activate, vars, lists, windows
<1>2. CASE ui_finish_populating_widget_popup
    BY <1>2 DEF ui_finish_populating_widget_popup, lists, windows
<1>3. CASE ReadRow \/ ShowEvents \/ removeEvent
  <2>1. window'["traces"] = window["traces"]
      BY <1>3 DEF ReadRow, ShowEvents, removeEvent, RereadEvents, TypeInv, Windows
  <2> QED BY <1>3, <2>1 DEF ReadRow, ShowEvents, removeEvent, lists
<1>4. CASE Recording
  <2>1. PICK r \in Recorders : callCallback(r) \/ Push(r) \/ Sort(r) \/ Notify(r)
      BY <1>4 DEF Recording
  <2>2. CASE callCallback(r) \/ Push(r) \/ Sort(r)
      BY <2>2 DEF callCallback, Push, Sort, lists, windows
  <2>3. CASE Notify(r)
    <3>1. window'["traces"] = window["traces"]
        BY <2>3, MarkType DEF Notify, Windows
    <3> QED BY <2>3, <3>1 DEF Notify, lists
  <2> QED BY <2>1, <2>2, <2>3
<1> QED BY <1>1, <1>2, <1>3, <1>4 DEF TracesAside

LEMMA StepKinds ==
    ASSUME [Next]_vars
    PROVE  /\ EventsAside \/ OnTermDebugger \/ Recording \/ ReadRow \/ ShowEvents \/ removeEvent
           /\ TracesAside \/ OnTermDebugger \/ ShowTraces \/ traceFunction \/ InsertTrace
                \/ removeTrace
BY DEF Next, EventsAside, TracesAside, Recording
------------------------------------------------------------------------------
(* The order of the events. *)
LEMMA RemoveKeepsOrder ==
    ASSUME NEW list \in Seq(FunctionInvocation), NEW n \in DOMAIN list, IsSortedByPosition(list)
    PROVE  IsSortedByPosition(RemoveNth(list, n))
<1> DEFINE shorter == RemoveNth(list, n)
<1>1. /\ n \in 1 .. Len(list) /\ Len(list) \in Nat
      /\ shorter \in Seq(FunctionInvocation)
      /\ Len(shorter) = Len(list) - 1
      /\ \A i \in 1 .. Len(list) - 1 : shorter[i] = list[IF i < n THEN i ELSE i + 1]
    BY RemoveNthType
<1>2. DOMAIN shorter = 1 .. Len(list) - 1
    BY <1>1
<1> HIDE DEF shorter
<1>3. ASSUME NEW i \in 1 .. Len(list) - 1, NEW j \in 1 .. Len(list) - 1, i < j
      PROVE  shorter[i].pos <= shorter[j].pos
  <2> DEFINE a == IF i < n THEN i ELSE i + 1
  <2> DEFINE b == IF j < n THEN j ELSE j + 1
  <2>1. a \in DOMAIN list /\ b \in DOMAIN list /\ a < b
      BY <1>1, <1>3
  <2>2. shorter[i] = list[a] /\ shorter[j] = list[b]
      BY <1>1
  <2> HIDE DEF a, b
  <2> QED BY <2>1, <2>2 DEF IsSortedByPosition
<1>4. IsSortedByPosition(shorter)
    BY <1>2, <1>3 DEF IsSortedByPosition
<1> QED BY <1>4 DEF shorter

LEMMA NextSorted == TypeInv /\ EventsSorted /\ [Next]_vars => EventsSorted'
<1> SUFFICES ASSUME TypeInv, EventsSorted, [Next]_vars PROVE EventsSorted'
    OBVIOUS
<1>1. CASE EventsAside
  <2>1. m_events' = m_events /\ recorder' = recorder
      BY <1>1, EventsLeft
  <2> QED BY <2>1 DEF EventsSorted, IsSortedByPosition
<1>2. CASE OnTermDebugger
    BY <1>2 DEF OnTermDebugger, EventsSorted, IsSortedByPosition
<1>3. ASSUME NEW r \in Recorders, callCallback(r) \/ Push(r) \/ Sort(r) \/ Notify(r)
      PROVE  EventsSorted'
  <2>1. recorder \in [Recorders ->
             {Idle} \cup [pc : {"push", "sort", "notify"}, ev : FunctionInvocation]]
      BY DEF TypeInv, TypeOK
  <2>2. CASE callCallback(r)
    <3>1. recorder[r].pc # "sort" /\ m_events' = m_events
        BY <2>2 DEF callCallback, lists
    <3>2. \A q \in Recorders : q # r => recorder'[q] = recorder[q]
        BY <2>1, <2>2 DEF callCallback
    <3> QED BY <3>1, <3>2 DEF EventsSorted, IsSortedByPosition
  <2>3. CASE Push(r)
    <3>1. recorder'[r].pc = "sort"
        BY <2>1, <2>3 DEF Push, Idle
    <3> QED BY <3>1 DEF EventsSorted
  <2>4. CASE Sort(r)
      BY <2>4, SortType DEF Sort, EventsSorted, TypeInv, TypeOK
  <2>5. CASE Notify(r)
    <3>1. recorder[r].pc # "sort" /\ m_events' = m_events
        BY <2>5 DEF Notify, lists
    <3>2. \A q \in Recorders : q # r => recorder'[q] = recorder[q]
        BY <2>1, <2>5 DEF Notify
    <3> QED BY <3>1, <3>2 DEF EventsSorted, IsSortedByPosition
  <2> QED BY <1>3, <2>2, <2>3, <2>4, <2>5
<1>4. CASE ReadRow \/ ShowEvents
    BY <1>4 DEF ReadRow, ShowEvents, EventsSorted, IsSortedByPosition, lists, recording
<1>5. CASE removeEvent
  <2>1. PICK n \in DOMAIN window["events"].rows :
            n <= Len(m_events) /\ m_events' = RemoveNth(m_events, n)
      BY <1>5 DEF removeEvent
  <2>2. n \in DOMAIN m_events /\ m_events \in Seq(FunctionInvocation)
      BY <2>1 DEF TypeInv, TypeOK
  <2>3. recorder' = recorder
      BY <1>5 DEF removeEvent, recording
  <2>4. IsSortedByPosition(m_events) => IsSortedByPosition(m_events')
      BY <2>1, <2>2, RemoveKeepsOrder
  <2> QED BY <2>3, <2>4 DEF EventsSorted, IsSortedByPosition
<1> QED BY <1>1, <1>2, <1>3, <1>4, <1>5, StepKinds DEF Recording
------------------------------------------------------------------------------
(* What the steps do to a window they are about. *)
Fresh(rows) == [open |-> TRUE, marked |-> FALSE, rows |-> rows]

LEMMA EventsWindowSteps ==
    ASSUME TypeInv
    PROVE  LET shown == window["events"] IN
           /\ OnTermDebugger => window'["events"] = Closed
           /\ ReadRow =>
                 /\ window'["events"].open = shown.open
                 /\ window'["events"].marked = shown.marked
                 /\ window'["events"].rows = Append(shown.rows, m_events[Len(shown.rows) + 1])
           /\ ShowEvents \/ removeEvent => window'["events"] = Fresh(<< >>)
           /\ \A r \in Recorders : Notify(r) =>
                 /\ window'["events"].open = shown.open
                 /\ window'["events"].rows = shown.rows
                 /\ callbacks => window'["events"].marked = shown.open
<1>1. "events" \in Windows /\ DOMAIN window = Windows /\ window["events"] \in EventWindow
    BY DEF TypeInv, TypeOK, Windows, EventWindow
<1>2. OnTermDebugger => window'["events"] = Closed
    BY <1>1 DEF OnTermDebugger
<1>3. ASSUME ReadRow
      PROVE  /\ window'["events"].open = window["events"].open
             /\ window'["events"].marked = window["events"].marked
             /\ window'["events"].rows =
                    Append(window["events"].rows, m_events[Len(window["events"].rows) + 1])
    BY <1>1, <1>3 DEF ReadRow, EventWindow
<1>4. ShowEvents \/ removeEvent => window'["events"] = Fresh(<< >>)
    BY <1>1 DEF ShowEvents, removeEvent, RereadEvents, Fresh
<1>5. ASSUME NEW r \in Recorders, Notify(r)
      PROVE  /\ window'["events"].open = window["events"].open
             /\ window'["events"].rows = window["events"].rows
             /\ callbacks => window'["events"].marked = window["events"].open
    BY <1>1, <1>5, MarkType DEF Notify
<1> QED BY <1>2, <1>3, <1>4, <1>5

LEMMA TracesWindowSteps ==
    ASSUME TypeInv
    PROVE  LET shown == window["traces"] IN
           /\ OnTermDebugger => window'["traces"] = Closed
           /\ ShowTraces \/ InsertTrace \/ removeTrace =>
                 window'["traces"] = Fresh(m_traces')
           /\ traceFunction =>
                 /\ window'["traces"].open = shown.open
                 /\ window'["traces"].rows = shown.rows
                 /\ callbacks => window'["traces"].marked = shown.open
<1>1. "traces" \in Windows /\ DOMAIN window = Windows
    BY DEF TypeInv, Windows
<1>2. OnTermDebugger => window'["traces"] = Closed
    BY <1>1 DEF OnTermDebugger
<1>3. ShowTraces \/ InsertTrace \/ removeTrace => window'["traces"] = Fresh(m_traces')
    BY <1>1 DEF ShowTraces, InsertTrace, removeTrace, RereadTraces, Fresh, lists
<1>4. ASSUME traceFunction
      PROVE  /\ window'["traces"].open = window["traces"].open
             /\ window'["traces"].rows = window["traces"].rows
             /\ callbacks => window'["traces"].marked = window["traces"].open
    BY <1>1, <1>4, MarkType DEF traceFunction
<1> QED BY <1>2, <1>3, <1>4
------------------------------------------------------------------------------
(* The indices, each for one list. *)
EventRowsInRange == Len(window["events"].rows) + toRead <= Len(m_events)
TraceRowsInRange == Len(window["traces"].rows) <= Len(m_traces)
MenuInRange == menu # NoMenu => eventNum[menu.entry] <= Len(m_events)

LEMMA NextEventRows == TypeInv /\ EventRowsInRange /\ [Next]_vars => EventRowsInRange'
<1> SUFFICES ASSUME TypeInv, EventRowsInRange, [Next]_vars PROVE EventRowsInRange'
    OBVIOUS
<1>1. /\ m_events \in Seq(FunctionInvocation) /\ toRead \in Nat
      /\ window["events"].rows \in Seq(FunctionInvocation)
    BY DEF TypeInv, TypeOK
<1>2. CASE EventsAside
    BY <1>2, EventsLeft DEF EventRowsInRange
<1>3. CASE OnTermDebugger
  <2>1. window'["events"] = Closed
      BY <1>3, EventsWindowSteps
  <2>2. toRead' = 0 /\ m_events' = << >>
      BY <1>3 DEF OnTermDebugger, UiIdle
  <2>3. window'["events"].rows = << >>
      BY <2>1 DEF Closed
  <2> QED BY <2>2, <2>3 DEF EventRowsInRange
<1>4. ASSUME NEW r \in Recorders, callCallback(r) \/ Push(r) \/ Sort(r) \/ Notify(r)
      PROVE  EventRowsInRange'
  <2>1. window'["events"].rows = window["events"].rows /\ toRead' = toRead
      BY <1>4, EventsWindowSteps DEF callCallback, Push, Sort, Notify, windows
  <2>2. Len(m_events') \in Nat /\ Len(m_events) <= Len(m_events')
    <3>1. CASE callCallback(r) \/ Notify(r)
        BY <1>1, <3>1 DEF callCallback, Notify, lists
    <3>2. CASE Push(r)
        BY <1>1, <3>2 DEF Push
    <3>3. CASE Sort(r)
      <4>1. Len(m_events') = Len(m_events)
          BY <1>1, <3>3, SortType DEF Sort
      <4> QED BY <1>1, <4>1
    <3> QED BY <1>4, <3>1, <3>2, <3>3
  <2> QED BY <1>1, <2>1, <2>2 DEF EventRowsInRange
<1>5. CASE ReadRow
  <2>1. /\ window'["events"].rows =
               Append(window["events"].rows, m_events[Len(window["events"].rows) + 1])
        /\ toRead' = toRead - 1 /\ m_events' = m_events
      BY <1>5, EventsWindowSteps DEF ReadRow, lists
  <2>2. Len(window'["events"].rows) = Len(window["events"].rows) + 1
      BY <1>1, <2>1
  <2> QED BY <1>1, <2>1, <2>2 DEF EventRowsInRange
<1>6. CASE ShowEvents \/ removeEvent
  <2>1. window'["events"].rows = << >> /\ toRead' = Len(m_events')
      BY <1>6, EventsWindowSteps DEF ShowEvents, removeEvent, RereadEvents, Fresh, lists
  <2>2. m_events' \in Seq(FunctionInvocation)
      BY <1>1, <1>6, RemoveNthType DEF ShowEvents, removeEvent, lists
  <2> QED BY <2>1, <2>2 DEF EventRowsInRange
<1> QED BY <1>2, <1>3, <1>4, <1>5, <1>6, StepKinds DEF Recording

LEMMA NextTraceRows == TypeInv /\ TraceRowsInRange /\ [Next]_vars => TraceRowsInRange'
<1> SUFFICES ASSUME TypeInv, TraceRowsInRange, [Next]_vars PROVE TraceRowsInRange'
    OBVIOUS
<1>1. m_traces \in Seq(Functions) /\ window["traces"].rows \in Seq(Functions)
    BY DEF TypeInv, TypeOK
<1>2. CASE TracesAside
    BY <1>2, TracesLeft DEF TraceRowsInRange
<1>3. CASE OnTermDebugger
  <2>1. window'["traces"] = Closed
      BY <1>3, TracesWindowSteps
  <2>2. m_traces' = << >>
      BY <1>3 DEF OnTermDebugger
  <2>3. window'["traces"].rows = << >>
      BY <2>1 DEF Closed
  <2> QED BY <2>2, <2>3 DEF TraceRowsInRange
<1>4. CASE ShowTraces \/ InsertTrace \/ removeTrace
  <2>1. m_traces' \in Seq(Functions)
    <3>1. ShowTraces => m_traces' = m_traces
        BY DEF ShowTraces, lists
    <3>2. InsertTrace => m_traces' \in Seq(Functions)
        BY <1>1 DEF InsertTrace
    <3>3. removeTrace => m_traces' \in Seq(Functions)
        BY <1>1, RemoveNthType DEF removeTrace
    <3> QED BY <1>1, <1>4, <3>1, <3>2, <3>3
  <2>2. window'["traces"].rows = m_traces'
      BY <1>4, TracesWindowSteps DEF Fresh
  <2>3. Len(m_traces') <= Len(m_traces')
      BY <2>1
  <2> QED BY <2>2, <2>3 DEF TraceRowsInRange
<1>5. CASE traceFunction
  <2>1. window'["traces"].rows = window["traces"].rows
      BY <1>5, TracesWindowSteps
  <2>2. Len(m_traces') = Len(m_traces) + 1
      BY <1>1, <1>5 DEF traceFunction
  <2> QED BY <1>1, <2>1, <2>2 DEF TraceRowsInRange
<1> QED BY <1>2, <1>3, <1>4, <1>5, StepKinds

LEMMA NextMenuInRange == TypeInv /\ MenuInRange /\ [Next]_vars => MenuInRange'
<1> SUFFICES ASSUME TypeInv, MenuInRange, [Next]_vars PROVE MenuInRange'
    OBVIOUS
<1>1. m_events \in Seq(FunctionInvocation) /\ eventNum \in [{"arg", "return"} -> Nat \ {0}]
    BY DEF TypeInv, TypeOK
<1>2. CASE ui_finish_populating_widget_popup
  <2>1. PICK n \in DOMAIN window["events"].rows :
            /\ n <= Len(m_events)
            /\ eventNum' = [entry \in DOMAIN eventNum |-> n]
            /\ menu' = [entry |-> IF m_events[n].is_return THEN "return" ELSE "arg", row |-> n]
      BY <1>2 DEF ui_finish_populating_widget_popup
  <2>2. eventNum'[menu'.entry] = n /\ m_events' = m_events
      BY <1>1, <1>2, <2>1 DEF ui_finish_populating_widget_popup, lists
  <2> QED BY <2>1, <2>2 DEF MenuInRange
<1>3. CASE activate
    BY <1>3 DEF activate, MenuInRange, NoMenu
<1>4. CASE OnTermDebugger \/ removeEvent \/ ShowEvents
  <2>1. menu' = NoMenu
      BY <1>4 DEF OnTermDebugger, removeEvent, ShowEvents, UiIdle, popup
  <2> QED BY <2>1 DEF MenuInRange, NoMenu
<1>5. CASE UNCHANGED <<eventNum, menu>> /\ Len(m_events') \in Nat /\ Len(m_events) <= Len(m_events')
  <2>1. menu # NoMenu => eventNum[menu.entry] \in Nat
      BY DEF TypeInv, TypeOK
  <2> QED BY <1>1, <1>5, <2>1 DEF MenuInRange
<1>6. CASE Recording
  <2>1. PICK r \in Recorders : callCallback(r) \/ Push(r) \/ Sort(r) \/ Notify(r)
      BY <1>6 DEF Recording
  <2>2. CASE callCallback(r) \/ Notify(r)
      BY <1>1, <1>5, <2>2 DEF callCallback, Notify, lists, popup
  <2>3. CASE Push(r)
      BY <1>1, <1>5, <2>3 DEF Push, popup
  <2>4. CASE Sort(r)
    <3>1. Len(m_events') = Len(m_events)
        BY <1>1, <2>4, SortType DEF Sort
    <3> QED BY <1>1, <1>5, <2>4, <3>1 DEF Sort, popup
  <2> QED BY <2>1, <2>2, <2>3, <2>4
<1>7. CASE ReadRow
    BY <1>1, <1>5, <1>7 DEF ReadRow, lists, popup
<1>8. CASE StartProcess \/ Replay \/ ShowTraces \/ traceFunction \/ InsertTrace \/ removeTrace
           \/ UNCHANGED vars
  <2>1. UNCHANGED <<eventNum, menu, m_events>>
      BY <1>8 DEF StartProcess, Replay, ShowTraces, traceFunction, InsertTrace, removeTrace,
                  vars, lists, popup
  <2> QED BY <1>1, <1>5, <2>1
<1> QED BY <1>2, <1>3, <1>4, <1>6, <1>7, <1>8, StepKinds DEF EventsAside

LEMMA RangeParts == IndicesInRange <=> EventRowsInRange /\ TraceRowsInRange /\ MenuInRange
BY DEF IndicesInRange, EventRowsInRange, TraceRowsInRange, MenuInRange

LEMMA InitRange == Init => IndicesInRange /\ EventsSorted
<1> SUFFICES ASSUME Init PROVE IndicesInRange /\ EventsSorted
    OBVIOUS
<1>1. window["events"].rows = << >> /\ window["traces"].rows = << >>
    BY DEF Init, Closed
<1> QED BY <1>1 DEF Init, IndicesInRange, EventsSorted, IsSortedByPosition

(* The events are sorted whenever no recorder has yet to sort, and no      *)
(* index of the windows, of the refresh or of the menu leaves its list.    *)
TracerInv == TypeInv /\ EventsSorted /\ IndicesInRange

LEMMA TracerInvariant == Spec => []TracerInv
<1>1. Init => TracerInv
    BY InitTypes, InitRange DEF TracerInv
<1>2. ASSUME TracerInv, [Next]_vars PROVE TracerInv'
  <2>1. TypeInv /\ EventsSorted /\ EventRowsInRange /\ TraceRowsInRange /\ MenuInRange
      BY <1>2, RangeParts DEF TracerInv
  <2>2. TypeInv' /\ EventsSorted'
      BY <1>2, <2>1, NextTypes, NextSorted DEF TracerInv
  <2>3. EventRowsInRange' /\ TraceRowsInRange' /\ MenuInRange'
      BY <1>2, <2>1, NextEventRows, NextTraceRows, NextMenuInRange
  <2>4. IndicesInRange'
      BY <2>3 DEF IndicesInRange, EventRowsInRange, TraceRowsInRange, MenuInRange
  <2> QED BY <2>2, <2>4 DEF TracerInv
<1> QED BY <1>1, <1>2, PTL DEF Spec

(* Only functions of the database are traced or recorded. *)
THEOREM TracerTypes == Spec => []TypeOK
BY TracerInvariant, PTL DEF TracerInv, TypeInv

(* Whenever no recorder is between its push and its sort, the events are   *)
(* in the order of the trace.                                              *)
THEOREM EventsInOrder == Spec => []EventsSorted
BY TracerInvariant, PTL DEF TracerInv

(* No row of a window, no row a refresh has counted and no number in an    *)
(* open menu is beyond the end of its list.                                *)
THEOREM NoIndexBeyond == Spec => []IndicesInRange
BY TracerInvariant, PTL DEF TracerInv
------------------------------------------------------------------------------
(* A function is traced once. *)
TracedOnce == \A i, j \in DOMAIN m_traces : m_traces[i] = m_traces[j] => i = j

LEMMA RemoveTracedOnce ==
    ASSUME m_traces \in Seq(Functions), TracedOnce, NEW n \in DOMAIN m_traces
    PROVE  LET left == RemoveNth(m_traces, n) IN
           /\ \A i, j \in DOMAIN left : left[i] = left[j] => i = j
           /\ \A i \in DOMAIN left : left[i] # m_traces[n]
<1> DEFINE left == RemoveNth(m_traces, n)
<1> DEFINE from(i) == IF i < n THEN i ELSE i + 1
<1>1. /\ n \in 1 .. Len(m_traces) /\ Len(m_traces) \in Nat
      /\ DOMAIN left = 1 .. Len(m_traces) - 1
      /\ \A i \in 1 .. Len(m_traces) - 1 : left[i] = m_traces[from(i)]
  <2>1. /\ left \in Seq(Functions) /\ Len(left) = Len(m_traces) - 1
        /\ \A i \in 1 .. Len(m_traces) - 1 :
              left[i] = m_traces[IF i < n THEN i ELSE i + 1]
      BY RemoveNthType
  <2> HIDE DEF left
  <2>2. DOMAIN left = 1 .. Len(m_traces) - 1
      BY <2>1
  <2> QED BY <2>1, <2>2
<1> HIDE DEF left
<1>2. \A i \in 1 .. Len(m_traces) - 1 : from(i) \in DOMAIN m_traces /\ from(i) # n
    BY <1>1
<1>3. \A i, j \in 1 .. Len(m_traces) - 1 : from(i) = from(j) => i = j
    BY <1>1
<1> HIDE DEF from
<1>4. \A i, j \in DOMAIN left : left[i] = left[j] => i = j
    BY <1>1, <1>2, <1>3 DEF TracedOnce
<1>5. \A i \in DOMAIN left : left[i] # m_traces[n]
    BY <1>1, <1>2 DEF TracedOnce
<1> QED BY <1>4, <1>5 DEF left

LEMMA AppendTracedOnce ==
    ASSUME m_traces \in Seq(Functions), TracedOnce, NEW func \in Functions, ~isEATraced(func),
           m_traces' = Append(m_traces, func)
    PROVE  TracedOnce'
<1>1. DOMAIN m_traces' = 1 .. Len(m_traces) + 1 /\ DOMAIN m_traces = 1 .. Len(m_traces)
        /\ Len(m_traces) \in Nat
    OBVIOUS
<1>2. /\ \A i \in 1 .. Len(m_traces) : m_traces'[i] = m_traces[i] /\ m_traces[i] # func
      /\ m_traces'[Len(m_traces) + 1] = func
    BY <1>1 DEF isEATraced
<1>3. \A i \in 1 .. Len(m_traces) + 1 : i \in 1 .. Len(m_traces) \/ i = Len(m_traces) + 1
    BY <1>1
<1> QED BY <1>1, <1>2, <1>3 DEF TracedOnce

LEMMA NextTracedOnce == TypeInv /\ TraceRowsInRange /\ TracedOnce /\ [Next]_vars => TracedOnce'
<1> SUFFICES ASSUME TypeInv, TraceRowsInRange, TracedOnce, [Next]_vars PROVE TracedOnce'
    OBVIOUS
<1>1. m_traces \in Seq(Functions)
    BY DEF TypeInv, TypeOK
<1>2. CASE m_traces' = m_traces
    BY <1>2 DEF TracedOnce
<1>3. CASE TracesAside \/ ShowTraces
    BY <1>2, <1>3, TracesLeft DEF ShowTraces, lists
<1>4. CASE OnTermDebugger
    BY <1>4 DEF OnTermDebugger, TracedOnce
<1>5. CASE traceFunction
    BY <1>1, <1>5, AppendTracedOnce DEF traceFunction
<1>6. CASE InsertTrace
    BY <1>1, <1>2, <1>6, AppendTracedOnce DEF InsertTrace
<1>7. CASE removeTrace
  <2>1. PICK n \in DOMAIN window["traces"].rows :
            n <= Len(m_traces) /\ m_traces' = RemoveNth(m_traces, n)
      BY <1>7 DEF removeTrace
  <2>2. n \in DOMAIN m_traces
      BY <1>1, <2>1 DEF TypeInv, TypeOK
  <2> QED BY <1>1, <2>1, <2>2, RemoveTracedOnce DEF TracedOnce
<1> QED BY <1>3, <1>4, <1>5, <1>6, <1>7, StepKinds

(* One removeTrace ends the tracing of a function, however often and from  *)
(* whichever window the user asked for it.                                 *)
THEOREM RemovingUntraces == Spec => RemovedIsUntraced
<1>1. Init => TracedOnce
    BY DEF Init, TracedOnce
<1>2. TracerInv /\ TracedOnce /\ [Next]_vars => TracedOnce'
    BY NextTracedOnce, RangeParts DEF TracerInv
<1>3. ASSUME TracerInv, TracedOnce, removeTrace
      PROVE  \E func \in Functions : isEATraced(func) /\ ~isEATraced(func)'
  <2>1. m_traces \in Seq(Functions)
      BY <1>3 DEF TracerInv, TypeInv, TypeOK
  <2>2. PICK n \in DOMAIN window["traces"].rows :
            n <= Len(m_traces) /\ m_traces' = RemoveNth(m_traces, n)
      BY <1>3 DEF removeTrace
  <2>3. n \in DOMAIN m_traces
      BY <1>3, <2>1, <2>2 DEF TracerInv, TypeInv, TypeOK
  <2>4. \A i \in DOMAIN m_traces' : m_traces'[i] # m_traces[n]
      BY <1>3, <2>1, <2>2, <2>3, RemoveTracedOnce
  <2>5. m_traces[n] \in Functions /\ isEATraced(m_traces[n])
      BY <2>1, <2>3 DEF isEATraced
  <2>6. \A func : func = m_traces[n] => ~isEATraced(func)'
      BY <2>4 DEF isEATraced
  <2> QED BY <2>5, <2>6
<1>4. TracerInv /\ TracedOnce /\ [Next]_vars
        => [removeTrace => \E func \in Functions : isEATraced(func) /\ ~isEATraced(func)']_vars
    BY <1>3
<1> QED BY <1>1, <1>2, <1>4, TracerInvariant, PTL DEF Spec, RemovedIsUntraced
------------------------------------------------------------------------------
(* The windows, in a session: a recorder that has to notify finds the      *)
(* callback, because a replay is over before the session ends.             *)
SessionInv ==
    /\ Replaying => inSession
    /\ inSession => callbacks
    /\ \A w \in Windows : window[w].open => inSession
    /\ \A w \in Windows : ~window[w].open => window[w].rows = << >>
    /\ toRead > 0 => window["events"].open

TracesShown ==
    window["traces"].open /\ ~window["traces"].marked => window["traces"].rows = m_traces

(* No recorder has changed the list without having told the window. *)
Told == \A r \in Recorders : recorder[r].pc \notin {"sort", "notify"}

(* An unmarked window is on its way to show the list. *)
EventsRead ==
    window["events"].open /\ ~window["events"].marked /\ Told =>
        /\ Len(window["events"].rows) + toRead = Len(m_events)
        /\ \A k \in 1 .. Len(window["events"].rows) : window["events"].rows[k] = m_events[k]

MenuRead ==
    menu # NoMenu =>
        /\ toRead = 0
        /\ window["events"].open
        /\ menu.row \in 1 .. Len(window["events"].rows)
        /\ eventNum[menu.entry] = menu.row
        /\ ~window["events"].marked /\ Told =>
               (menu.entry = "return" <=> m_events[menu.row].is_return)

WindowInv == SessionInv /\ TracesShown /\ EventsRead /\ MenuRead

(* What the steps leave of the session. *)
LEMMA RecordingLeaves ==
    Recording => UNCHANGED <<inSession, callbacks, toRead, eventNum, menu, m_traces>>
BY DEF Recording, callCallback, Push, Sort, Notify, session, lists, windows, popup

LEMMA NextSession ==
    ASSUME OutsideSession = FALSE
    PROVE  TracerInv /\ SessionInv /\ [Next]_vars => SessionInv'
<1> SUFFICES ASSUME TracerInv, SessionInv, [Next]_vars PROVE SessionInv'
    OBVIOUS
<1> USE DEF Windows
<1>1. TypeInv /\ toRead \in Nat
    BY DEF TracerInv, TypeInv, TypeOK
<1>2. ASSUME Replaying' => Replaying \/ inSession, UNCHANGED <<inSession, callbacks, toRead>>,
             \A w \in Windows : /\ window'[w].open = window[w].open
                                /\ window'[w].rows = window[w].rows
      PROVE  SessionInv'
    BY <1>2 DEF SessionInv
<1>3. CASE StartProcess
    BY <1>3 DEF StartProcess, SessionInv, Replaying, recording, windows
<1>4. CASE OnTermDebugger
  <2>1. window'["traces"] = Closed /\ window'["events"] = Closed
      BY <1>1, <1>4, EventsWindowSteps, TracesWindowSteps
  <2>2. ~Replaying' /\ ~inSession' /\ toRead' = 0
      BY <1>4 DEF OnTermDebugger, Replaying, recording, UiIdle
  <2> QED BY <2>1, <2>2 DEF SessionInv, Closed
<1>5. CASE Replay
    BY <1>2, <1>5 DEF Replay, session, windows
<1>6. CASE Recording
  <2>1. PICK r \in Recorders : callCallback(r) \/ Push(r) \/ Sort(r) \/ Notify(r)
      BY <1>6 DEF Recording
  <2>2. Replaying
      BY <2>1 DEF callCallback, Push, Sort, Notify, Replaying
  <2>3. \A w \in Windows : window'[w].open = window[w].open /\ window'[w].rows = window[w].rows
    <3>1. CASE callCallback(r) \/ Push(r) \/ Sort(r)
        BY <3>1 DEF callCallback, Push, Sort, windows
    <3>2. CASE Notify(r)
        BY <1>1, <3>2, MarkType DEF Notify
    <3> QED BY <2>1, <3>1, <3>2
  <2> QED BY <1>2, <1>6, <2>2, <2>3, RecordingLeaves
<1>7. CASE ReadRow
  <2>1. window["events"].open /\ inSession
      BY <1>7 DEF ReadRow, SessionInv
  <2>2. window'["events"].open = window["events"].open
      BY <1>1, <1>7, EventsWindowSteps
  <2>3. window'["traces"] = window["traces"]
      BY <1>1, <1>7, TracesLeft DEF TracesAside
  <2>4. UNCHANGED <<inSession, callbacks, todo, recorder>>
      BY <1>7 DEF ReadRow, session, recording
  <2> QED BY <2>1, <2>2, <2>3, <2>4 DEF SessionInv, Replaying
<1>8. CASE ShowEvents \/ removeEvent
  <2>1. inSession
    <3>1. CASE ShowEvents
        BY <3>1 DEF ShowEvents
    <3>2. CASE removeEvent
        BY <3>2 DEF removeEvent, SessionInv
    <3> QED BY <1>8, <3>1, <3>2
  <2>2. window'["events"] = Fresh(<< >>)
      BY <1>1, <1>8, EventsWindowSteps
  <2>3. window'["traces"] = window["traces"]
      BY <1>1, <1>8, TracesLeft DEF TracesAside
  <2>4. UNCHANGED <<inSession, callbacks, todo, recorder>>
      BY <1>8 DEF ShowEvents, removeEvent, session, recording
  <2>5. window'["events"].open
      BY <2>2 DEF Fresh
  <2> QED BY <2>1, <2>3, <2>4, <2>5 DEF SessionInv, Replaying
<1>9. CASE ShowTraces \/ InsertTrace \/ removeTrace
  <2>1. inSession
    <3>1. CASE ShowTraces
        BY <3>1 DEF ShowTraces
    <3>2. CASE InsertTrace
        BY <3>2 DEF InsertTrace, SessionInv
    <3>3. CASE removeTrace
        BY <3>3 DEF removeTrace, SessionInv
    <3> QED BY <1>9, <3>1, <3>2, <3>3
  <2>2. window'["traces"] = Fresh(m_traces')
      BY <1>1, <1>9, TracesWindowSteps
  <2>3. UNCHANGED <<window["events"], toRead>>
      BY <1>1, <1>9, EventsLeft DEF EventsAside
  <2>4. UNCHANGED <<inSession, callbacks, todo, recorder>>
      BY <1>9 DEF ShowTraces, InsertTrace, removeTrace, session, recording
  <2>5. window'["traces"].open
      BY <2>2 DEF Fresh
  <2> QED BY <2>1, <2>3, <2>4, <2>5 DEF SessionInv, Replaying
<1>10. CASE traceFunction
  <2>1. /\ window'["traces"].open = window["traces"].open
        /\ window'["traces"].rows = window["traces"].rows
      BY <1>1, <1>10, TracesWindowSteps
  <2>2. UNCHANGED <<window["events"], toRead>>
      BY <1>1, <1>10, EventsLeft DEF EventsAside
  <2>3. UNCHANGED <<inSession, callbacks, todo, recorder>>
      BY <1>10 DEF traceFunction, session, recording
  <2> QED BY <1>2, <2>1, <2>2, <2>3 DEF Replaying
<1>11. CASE ui_finish_populating_widget_popup \/ activate \/ UNCHANGED vars
  <2>1. UNCHANGED <<inSession, callbacks, todo, recorder, window, toRead>>
      BY <1>11 DEF ui_finish_populating_widget_popup, activate, vars, session, recording, windows
  <2> QED BY <2>1 DEF SessionInv, Replaying
<1> QED BY <1>3, <1>4, <1>5, <1>6, <1>7, <1>8, <1>9, <1>10, <1>11, StepKinds DEF EventsAside

LEMMA NextTracesShown ==
    ASSUME OutsideSession = FALSE
    PROVE  TracerInv /\ SessionInv /\ TracesShown /\ [Next]_vars => TracesShown'
<1> SUFFICES ASSUME TracerInv, SessionInv, TracesShown, [Next]_vars PROVE TracesShown'
    OBVIOUS
<1>1. TypeInv
    BY DEF TracerInv
<1>2. CASE TracesAside
    BY <1>1, <1>2, TracesLeft DEF TracesShown
<1>3. CASE OnTermDebugger
  <2>1. window'["traces"] = Closed
      BY <1>1, <1>3, TracesWindowSteps
  <2> QED BY <2>1 DEF TracesShown, Closed
<1>4. CASE ShowTraces \/ InsertTrace \/ removeTrace
  <2>1. window'["traces"] = Fresh(m_traces')
      BY <1>1, <1>4, TracesWindowSteps
  <2> QED BY <2>1 DEF TracesShown, Fresh
<1>5. CASE traceFunction
  <2>1. callbacks
      BY <1>5 DEF traceFunction, SessionInv
  <2>2. window'["traces"].open = window["traces"].open
        /\ window'["traces"].marked = window["traces"].open
      BY <1>1, <1>5, <2>1, TracesWindowSteps
  <2> QED BY <2>2 DEF TracesShown
<1> QED BY <1>2, <1>3, <1>4, <1>5, StepKinds

(* A recorder that is about to change the list is no longer Told until its *)
(* Notify has marked the window.                                           *)
LEMMA RecordersTell ==
    ASSUME TypeInv, NEW r \in Recorders
    PROVE  /\ callCallback(r) => Told' = Told
           /\ Push(r) => ~Told'
           /\ Sort(r) => ~Told'
<1>1. recorder \in [Recorders ->
           {Idle} \cup [pc : {"push", "sort", "notify"}, ev : FunctionInvocation]]
    BY DEF TypeInv, TypeOK
<1>2. ASSUME callCallback(r) PROVE Told' <=> Told
  <2>1. recorder[r].pc = "idle"
      BY <1>2 DEF callCallback
  <2>2. recorder'[r].pc \in {"idle", "push"}
      BY <1>1, <1>2 DEF callCallback, Idle, recordCall, recordRet
  <2>3. \A q \in Recorders : q # r => recorder'[q] = recorder[q]
      BY <1>1, <1>2 DEF callCallback
  <2> QED BY <2>1, <2>2, <2>3 DEF Told
<1>3. Push(r) => recorder'[r].pc = "sort"
    BY <1>1 DEF Push, Idle
<1>4. Sort(r) => recorder'[r].pc = "notify"
    BY <1>1 DEF Sort, Idle
<1> QED BY <1>2, <1>3, <1>4 DEF Told

LEMMA NextEventsRead ==
    ASSUME OutsideSession = FALSE
    PROVE  TracerInv /\ SessionInv /\ EventsRead /\ [Next]_vars => EventsRead'
<1> SUFFICES ASSUME TracerInv, SessionInv, EventsRead, [Next]_vars PROVE EventsRead'
    OBVIOUS
<1>1. /\ TypeInv /\ toRead \in Nat
      /\ m_events \in Seq(FunctionInvocation)
      /\ window["events"].rows \in Seq(FunctionInvocation)
    BY DEF TracerInv, TypeInv, TypeOK
<1>2. CASE EventsAside
    BY <1>1, <1>2, EventsLeft DEF EventsRead, Told
<1>3. CASE OnTermDebugger
  <2>1. window'["events"] = Closed
      BY <1>1, <1>3, EventsWindowSteps
  <2> QED BY <2>1 DEF EventsRead, Closed
<1>4. ASSUME NEW r \in Recorders, callCallback(r) \/ Push(r) \/ Sort(r) \/ Notify(r)
      PROVE  EventsRead'
  <2>1. CASE callCallback(r)
    <3>1. UNCHANGED <<window, toRead, m_events>>
        BY <2>1 DEF callCallback, lists, windows
    <3>2. Told' = Told
        BY <1>1, <2>1, RecordersTell
    <3> QED BY <3>1, <3>2 DEF EventsRead
  <2>2. CASE Push(r) \/ Sort(r)
    <3>1. ~Told'
        BY <1>1, <2>2, RecordersTell
    <3> QED BY <3>1 DEF EventsRead
  <2>3. CASE Notify(r)
    <3>1. recorder[r].pc = "notify"
        BY <2>3 DEF Notify
    <3>2. callbacks
        BY <3>1 DEF SessionInv, Replaying
    <3>3. window'["events"].open = window["events"].open
          /\ window'["events"].marked = window["events"].open
        BY <1>1, <2>3, <3>2, EventsWindowSteps
    <3> QED BY <3>3 DEF EventsRead
  <2> QED BY <1>4, <2>1, <2>2, <2>3
<1>5. CASE ReadRow
  <2> DEFINE rows == window["events"].rows
  <2> DEFINE more == window'["events"].rows
  <2>1. /\ window'["events"].open = window["events"].open
        /\ window'["events"].marked = window["events"].marked
        /\ more = Append(rows, m_events[Len(rows) + 1])
      BY <1>1, <1>5, EventsWindowSteps
  <2>2. toRead' = toRead - 1 /\ UNCHANGED <<m_events, recorder>>
      BY <1>5 DEF ReadRow, lists, recording
  <2>3. Told' = Told
      BY <2>2 DEF Told
  <2>4. ASSUME window["events"].open, ~window["events"].marked, Told
        PROVE  /\ Len(more) + toRead' = Len(m_events)
               /\ \A k \in 1 .. Len(more) : more[k] = m_events[k]
    <3>1. /\ Len(rows) + toRead = Len(m_events)
          /\ \A k \in 1 .. Len(rows) : rows[k] = m_events[k]
        BY <2>4 DEF EventsRead
    <3>2. rows \in Seq(FunctionInvocation) /\ Len(rows) + 1 \in 1 .. Len(m_events)
        BY <1>1, <1>5, <3>1 DEF ReadRow
    <3>3. m_events[Len(rows) + 1] \in FunctionInvocation
        BY <1>1, <3>2
    <3> HIDE DEF rows, more
    <3>4. Len(more) = Len(rows) + 1 /\ Len(rows) \in Nat
        BY <2>1, <3>2, <3>3
    <3>5. \A k \in 1 .. Len(rows) + 1 :
              more[k] = IF k <= Len(rows) THEN rows[k] ELSE m_events[Len(rows) + 1]
        BY <2>1, <3>2, <3>3
    <3>6. \A k \in 1 .. Len(rows) + 1 : k <= Len(rows) \/ k = Len(rows) + 1
        BY <3>4
    <3>7. \A k \in 1 .. Len(rows) + 1 : more[k] = m_events[k]
        BY <3>1, <3>4, <3>5, <3>6
    <3>8. Len(more) + toRead' = Len(m_events)
        BY <1>1, <2>2, <3>1, <3>4
    <3> QED BY <3>4, <3>7, <3>8
  <2> QED BY <2>1, <2>2, <2>3, <2>4 DEF EventsRead
<1>6. CASE ShowEvents \/ removeEvent
  <2>1. window'["events"] = Fresh(<< >>)
      BY <1>1, <1>6, EventsWindowSteps
  <2>2. toRead' = Len(m_events')
      BY <1>6 DEF ShowEvents, removeEvent, RereadEvents, lists
  <2>3. m_events' \in Seq(FunctionInvocation)
      BY <1>1, <1>6, RemoveNthType DEF ShowEvents, removeEvent, lists
  <2>4. window'["events"].rows = << >>
      BY <2>1 DEF Fresh
  <2>5. Len(window'["events"].rows) = 0
      BY <2>4
  <2> QED BY <2>2, <2>3, <2>5 DEF EventsRead
<1> QED BY <1>2, <1>3, <1>4, <1>5, <1>6, StepKinds DEF Recording

LEMMA NextMenuRead ==
    ASSUME OutsideSession = FALSE
    PROVE  TracerInv /\ SessionInv /\ MenuRead /\ [Next]_vars => MenuRead'
<1> SUFFICES ASSUME TracerInv, SessionInv, MenuRead, [Next]_vars PROVE MenuRead'
    OBVIOUS
<1>1. /\ TypeInv /\ toRead \in Nat
      /\ eventNum \in [{"arg", "return"} -> Nat \ {0}]
      /\ window["events"].rows \in Seq(FunctionInvocation)
    BY DEF TracerInv, TypeInv, TypeOK
<1>2. CASE ui_finish_populating_widget_popup
  <2>1. PICK n \in DOMAIN window["events"].rows :
            /\ n <= Len(m_events)
            /\ eventNum' = [entry \in DOMAIN eventNum |-> n]
            /\ menu' = [entry |-> IF m_events[n].is_return THEN "return" ELSE "arg", row |-> n]
      BY <1>2 DEF ui_finish_populating_widget_popup
  <2>2. UNCHANGED <<window, toRead, m_events, recorder>> /\ toRead = 0
      BY <1>2 DEF ui_finish_populating_widget_popup, UiIdle, lists, recording, windows
  <2>3. n \in 1 .. Len(window["events"].rows)
      BY <1>1, <2>1
  <2>4. window["events"].open
      BY <2>1 DEF SessionInv, Windows
  <2>5. menu'.row = n /\ eventNum'[menu'.entry] = n
      BY <1>1, <2>1
  <2>6. menu'.entry = "return" <=> m_events[n].is_return
      BY <2>1
  <2> QED BY <2>2, <2>3, <2>4, <2>5, <2>6 DEF MenuRead
<1>3. CASE activate \/ OnTermDebugger \/ ShowEvents \/ removeEvent
  <2>1. menu' = NoMenu
      BY <1>3 DEF activate, OnTermDebugger, ShowEvents, removeEvent, UiIdle, popup
  <2> QED BY <2>1 DEF MenuRead
<1>4. CASE ReadRow
  <2>1. menu' = NoMenu
      BY <1>1, <1>4 DEF ReadRow, MenuRead, popup
  <2> QED BY <2>1 DEF MenuRead
<1>5. CASE StartProcess \/ Replay \/ ShowTraces \/ traceFunction \/ InsertTrace \/ removeTrace
           \/ UNCHANGED vars
  <2>1. UNCHANGED <<eventNum, menu>>
      BY <1>5 DEF StartProcess, Replay, ShowTraces, traceFunction, InsertTrace, removeTrace,
                  vars, popup
  <2>2. UNCHANGED <<window["events"], toRead, m_events, recorder>>
      BY <1>1, <1>5, EventsLeft DEF EventsAside
  <2> QED BY <2>1, <2>2 DEF MenuRead, Told
<1>6. ASSUME NEW r \in Recorders, callCallback(r) \/ Push(r) \/ Sort(r) \/ Notify(r)
      PROVE  MenuRead'
  <2>1. UNCHANGED <<eventNum, menu, toRead>>
      BY <1>6, RecordingLeaves DEF Recording
  <2>2. CASE callCallback(r)
    <3>1. UNCHANGED <<window, m_events>>
        BY <2>2 DEF callCallback, lists, windows
    <3>2. Told' = Told
        BY <1>1, <2>2, RecordersTell
    <3> QED BY <2>1, <3>1, <3>2 DEF MenuRead
  <2>3. CASE Push(r) \/ Sort(r)
    <3>1. ~Told' /\ UNCHANGED window
        BY <1>1, <2>3, RecordersTell DEF Push, Sort, windows
    <3> QED BY <2>1, <3>1 DEF MenuRead
  <2>4. CASE Notify(r)
    <3>1. recorder[r].pc = "notify"
        BY <2>4 DEF Notify
    <3>2. callbacks
        BY <3>1 DEF SessionInv, Replaying
    <3>3. /\ window'["events"].open = window["events"].open
          /\ window'["events"].rows = window["events"].rows
          /\ window'["events"].marked = window["events"].open
        BY <1>1, <2>4, <3>2, EventsWindowSteps
    <3> QED BY <2>1, <3>3 DEF MenuRead
  <2> QED BY <1>6, <2>2, <2>3, <2>4
<1> QED BY <1>2, <1>3, <1>4, <1>5, <1>6, StepKinds DEF EventsAside, Recording

LEMMA InitWindows == Init => WindowInv
<1> SUFFICES ASSUME Init PROVE WindowInv
    OBVIOUS
<1>1. window["traces"] = Closed /\ window["events"] = Closed
    BY DEF Init
<1>2. SessionInv
    BY <1>1 DEF Init, SessionInv, Replaying, Idle, Closed, Windows
<1>3. TracesShown /\ EventsRead
    BY <1>1 DEF TracesShown, EventsRead, Closed
<1>4. MenuRead
    BY DEF Init, MenuRead
<1> QED BY <1>2, <1>3, <1>4 DEF WindowInv

LEMMA AllRead ==
    ASSUME TypeInv, EventsRead, window["events"].open, ~window["events"].marked,
           toRead = 0, ~Replaying
    PROVE  window["events"].rows = m_events
<1>1. Told
    BY DEF Told, Replaying
<1>2. /\ m_events \in Seq(FunctionInvocation)
      /\ window["events"].rows \in Seq(FunctionInvocation)
    BY DEF TypeInv, TypeOK
<1>3. /\ Len(window["events"].rows) = Len(m_events)
      /\ \A k \in 1 .. Len(window["events"].rows) : window["events"].rows[k] = m_events[k]
    BY <1>1, <1>2 DEF EventsRead
<1> QED BY <1>2, <1>3, SeqEqual

LEMMA WindowInvImplies ==
    TracerInv /\ WindowInv => WindowsShowLists /\ MenuCopiesItsRow
<1> SUFFICES ASSUME TracerInv, WindowInv PROVE WindowsShowLists /\ MenuCopiesItsRow
    OBVIOUS
<1>1. WindowsShowLists
    BY AllRead DEF WindowInv, TracerInv, TracesShown, WindowsShowLists
<1>2. ASSUME menu # NoMenu, ~window["events"].marked, ~Replaying
      PROVE  /\ eventNum[menu.entry] = menu.row
             /\ m_events[eventNum[menu.entry]] = window["events"].rows[menu.row]
             /\ (menu.entry = "return") <=> m_events[eventNum[menu.entry]].is_return
  <2>1. Told
      BY <1>2 DEF Told, Replaying
  <2>2. /\ toRead = 0 /\ window["events"].open /\ eventNum[menu.entry] = menu.row
        /\ (menu.entry = "return" <=> m_events[menu.row].is_return)
      BY <1>2, <2>1 DEF WindowInv, MenuRead
  <2>3. window["events"].rows = m_events
      BY <1>2, <2>2, AllRead DEF WindowInv, TracerInv
  <2> QED BY <2>2, <2>3
<1> QED BY <1>1, <1>2 DEF MenuCopiesItsRow

LEMMA WindowInvariant ==
    ASSUME OutsideSession = FALSE
    PROVE  Spec => [](TracerInv /\ WindowInv)
<1>1. TracerInv /\ WindowInv /\ [Next]_vars => WindowInv'
    BY NextSession, NextTracesShown, NextEventsRead, NextMenuRead DEF WindowInv
<1> QED BY <1>1, InitWindows, TracerInvariant, PTL DEF Spec

(* A user who traces functions in a session only finds in a window that    *)
(* IDA has no reason to refresh what its list holds.                       *)
THEOREM WindowsAreCurrent ==
    ASSUME OutsideSession = FALSE
    PROVE  Spec => []WindowsShowLists
BY WindowInvariant, WindowInvImplies, PTL

(* And the menu copies from the event of the row it was opened on.         *)
THEOREM CopiesOwnRow ==
    ASSUME OutsideSession = FALSE
    PROVE  Spec => []MenuCopiesItsRow
BY WindowInvariant, WindowInvImplies, PTL
==============================================================================
