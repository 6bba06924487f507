# ttddbg in TLA+

ttddbg is a debugger plugin of IDA: it replays a Time Travel Debugging trace and
lets IDA believe it debugs a process that can also run backwards. This directory
holds a model of the plugin's own logic, the TLC configurations that check it on
small traces, and proofs, checked by TLAPS, of theorems about it for every trace.

Paths below are relative to `src/ttddbg/src/` unless they start with `src/`;
`debugger_manager.cc` is short for `ttddbg_debugger_manager.cc`, and so on.

## The system

| component | state it keeps | operations | talks to |
|---|---|---|---|
| **Debugger** (`debugger.cc`, `_x86`, `_x86_64`) | none | `debugger_callback`: one case per IDA event | calls the manager's handler of the same name, on IDA's debugger thread (`DBG_FLAG_DEBTHREAD`) or main thread |
| **DebuggerManager** (`debugger_manager.cc`) | engine, cursor and its watchpoints, event queue, direction, resume mode, pending position, pending step back | `onStartProcess`, `onGetDebugEvent`, `onResume`, `onExitProcess`, `onSetResumeMode`, `onUpdateBpts`, `applyCursor`/`applyDifferences`, `switchWay`, `gotoPosition`, `requestFullRun`, read-only queries | engine; queue; timeline; tracer |
| **EventDeque** (`event_deque.cc`) | a deque of `debug_event_t` and a mutex | one `add...Event` per kind, `popEvent`, `isEmpty` | manager |
| **User actions** (`action.cc`) | none | backwards, single step backwards, go to a position, full run, open a window; all enabled always | manager, `continue_process()` |
| **Timeline** (`position_chooser.cc`) | list of named positions, cursor, closed flag, netnodes of the database, rows on the screen | load, populate, insert, delete, sort, save, choose, close, jump | manager (`setNextPosition`, `populatePositionChooser`) |
| **FunctionTracer** (`tracer.cc`) | traced functions and recorded events, each with a mutex; engine; two notification callbacks | `traceFunction`, `removeTrace`, `removeEvent`, `recordCall`, `recordRet`, `sortEvents`, `callCallback` on the engine's threads | engine; windows |
| **Tracer windows** (`tracer_choosers.cc`) | rows on the screen | open, refresh row by row, insert, delete | tracer |
| **Hooks** (`hooks.cc`) | an event number kept by each copy action | popup menus | tracer, windows |
| **Plugin lifecycle** (`plugin.cc`) | registered actions | load, unload | IDA |
| **Calling conventions, registers, strings, logger** | none | pure functions of data | tracer, debugger |
| **TTDReplay engine and ttd-bindings** (submodule, not in the repository) | trace, cursors, watchpoints | `SetPosition`, `ReplayForward`, `ReplayBackward`, lists of threads, modules and events | external |
| **IDA** | process state, last event, threads and modules it knows, breakpoints it set | polls, resumes, suspends; `continue_process()` | external |

What makes it hard:

* **Two threads and a queue.** IDA learns of the world only through the queue. Each
  move of the cursor queues the differences of threads and modules, then a stop; they must
  add up over any number of moves in both directions, and there must always be a stop
  left to come, or IDA waits forever.
* **Requests that outlive their moment.** The plugin's actions are enabled in every state of
  IDA. `continue_process()` does nothing when the process is not suspended, so a request made
  then stays pending and takes effect at a later resume; the direction is toggled before and
  after that call.
* **What survives a session.** The queue, the pending requests and the timeline are not reset when a
  process ends or starts; the tracer is destroyed while the cursor keeps its callback.
* **Split critical sections.** A recorder checks, pushes and sorts under separate
  locks while a window counts and reads rows under others and the user deletes.
* **Index arithmetic.** `onUpdateBpts` goes through additions and removals with one
  counter; thread and module lists are walked from 1; a row number of a window is
  an index of a list; created and terminated events of different threads are paired.

What makes each part correct:

* manager: IDA is never left without a stop; at a stop IDA's threads and modules are
  those of the trace, its thread and address those of the cursor; the database's module stays loaded;
  events arrive in an order that makes sense; a resume goes the way it was asked and does not
  jump over a breakpoint; every run stops.
* timeline: sorted; the database holds only what is listed; a row is its entry; a notable event
  is listed once, and is listed.
* full run: covers every position at which a thread lives, has each call of a traced function recorded, ends, gives the
  cursor back, and is not to be seen by IDA, whenever it begins.
* tracer: events end sorted; windows end up to date; no index leaves its vector; a removed
  function is not traced any more; a copy is of the row it was asked of, and of the place the value was read from.

The hazards, with lines and properties, are in `PROJECT.json`.

## Modules

| module | models | instance |
|---|---|---|
| `TTDReplay` | the trace and the cursor, as the plugin uses them (external) | |
| `EventDeque` | the queue and its events, as operators on a sequence | |
| `DebuggerManager` | the manager's event loop, the user actions that resume, IDA's side (external) | `MCDebuggerManager` |
| `DebugSession` | abstract: what IDA is promised, a process that stands at one position of the trace | |
| `SessionRefinement` | the refinement mapping from `DebuggerManager` to `DebugSession`, and the invariant behind it | `MCDebuggerManager` |
| `FullRunInSession` | full runs on the main thread while the debugger thread goes on | `MCFullRunInSession` |
| `PositionChooser` | the timeline, its netnodes and its window | `MCPositionChooser` |
| `FullRun` | `requestFullRun`, its two loops | `MCFullRun` |
| `FunctionTracer` | tracer, its two windows, "Trace function", the popup of the events and its copy actions | `MCFunctionTracer` |
| `TracedRun` | `FullRun` and `FunctionTracer` composed: a replay hands the recorders what it runs over | `MCFullRun` |
| `CallArguments` | where `recordCall` reads the arguments of a call, and what `copyArgumentAddress` copies | `MCCallArguments` |
| `ArithmeticProofs`, `TTDReplayProofs`, `DebuggerManagerProofs`, `SessionProofs`, `PositionChooserProofs`, `FullRunProofs`, `FunctionTracerProofs`, `CallArgumentsProofs` | theorems | |

`DebuggerManager` composes the queue, the engine, the user actions and IDA; `FullRun` takes the same
engine. `FullRunInSession` adds the full run to `DebuggerManager`, `TracedRun` the recorders to `FullRun`.
`PositionChooser` and `FunctionTracer` alone need of the rest of the plugin only that the
cursor moves (`CursorMoves`) and that a replay goes over a part of the trace (`Replay`).

### Correspondence

* **Positions.** `{Major, Minor}` becomes a natural number that keeps the order; `{0, 0}`, the sentinel for "no
  request", is `NoPosition == 0`. A position that is typed may lie before, on or after the trace.
* **Trace.** Constant functions of the position: live threads, loaded modules, active thread, program
  counter, accesses. `Listings` takes a set in any order, as the engine lists it.
* **`onResume`** (debugger_manager.cc:259-310) is four actions, one per way out of the function:
  an event that is no stop, a pending position, a pending step back, the resume mode. Each moves the
  cursor, queues the differences and queues the stop as one step. That is sound because
  only the debugger thread and, while the process is suspended, the blocked main thread touch the
  cursor in a session, and a poll comes after the resume on the same thread.
* **`continue_process()`.** `uiCall` says where the main thread is: inside the call (`"resume"`, `"backward"`),
  before the second `switchWay` (`"switchBack"`), or idle. So the toggles of the direction and the resume are
  separate steps that the debugger thread can come between.
* **IDA.** `onGetDebugEvent` pops an event, IDA's view changes by it, and IDA suspends if the event is one of
  `SuspendOn`; else the state is `"handling"` until it resumes. `onExitProcess` lets a suspended
  process go either with or without a resume.
* **`onUpdateBpts`**: both loops, with the index the second one inherits and the type of the first
  element; IDA's own list of breakpoints changes as IDA believes it does. A request has distinct elements,
  which are new ones followed by known ones.
* **Timeline.** `netnodes` maps a name to the position saved under it; `savePositions` keeps the last entry of
  a name; `loadPositions` reads the netnodes in any order, skips the name that is the bare prefix, and sorts.
  `shown` is what the window last read. Reopening the database is `PositionChooserCtor`.
* **Full run.** `pc` separates the two loops' steps so that the user can cancel in between.
  `replayed` is a history variable.
* **Full run in a session.** `requestFullRun` is an action of the main thread, like Continue and the others, and may begin whenever
  that thread is free, in every state of IDA. Until `Restore` the cursor may be anywhere (`CursorRuns`); that the loops end and what they
  cover is `FullRun`'s matter. `continue_process()` returns after `onResume`, so a resume that moves the cursor is never
  in progress when a full run begins, but for the resume of a process that is ending.
* **Tracer.** Each recorder goes through "push", "sort" and "notify", one critical section a step; the window
  reads one row a step. The popup of a row gives its number to every copy handler (`eventNum`) and looks up the event to decide
  what it offers (`menu`); recorders may come in between.
* **Traced run.** A replay step of `FullRun` sets `todo` to the calls and returns the cursor leaves behind; the main thread waits until the
  recorders have done with them, and the window is refreshed when the run is over.
* **Arguments.** A value is the place it is read from, a register or an offset from the stack pointer at the call instruction. One step of
  `recordCall` is one round of its loop. `PlaceOf` is the reference: the place where the convention has the caller put the argument.

### The abstract session

`DebugSession` has no queue, no direction and no pending request: a process starts at the first position, moves to a position, shows where it
stands, and ends. `SessionRefinement` maps the manager to it: the abstract position is the cursor; the abstract threads, modules and
stop are those IDA *will* know when it has been given the rest of the queue (`KnownAfter`); a process that has been told to end
is gone although its exit is still queued. Then a resume is a `Move`, the poll that empties the queue is a `Show`, any other poll,
every request and every toggle is a stutter, and a session that starts behind the remains of another is a
`Start` like any other. `ImplementsSession` says so; it fails as soon as a difference is lost, doubled or queued behind the stop.
`FullRunIsUnseen` is the same with the position taken from `old` while a full run has the cursor, and with weak fairness of `Show`.

## Runs

| run | what it shows | bounds |
|---|---|---|
| `manager_session` | the manager implements `DebugSession`; type; a stop is always to come; view and stop agree with the trace; target loaded; order of events; direction; no breakpoint passed over | 4 positions, 3 threads, 3 modules, one breakpoint type, requests of at most 2 breakpoints, sessions start with an empty queue (`MaxBacklog = 0`) |
| `manager_restart` | the same refinement, and the first properties of a stop, when a session starts behind the remains of another; IDA suspends on process and library events too | 3 positions, at most 2 events left over, no breakpoints |
| `manager_full_runs` | full runs begun anywhere are not seen by IDA; every run stops or ends; every process is shown | 4 positions, no backlog, no breakpoints, IDA suspends on stops |
| `timeline` | sorted, no ghosts, rows are entries, events once | 3 positions, 3 notable events of which 2 share a name, a user name given more than once and an empty one, 4 entries |
| `full_run` | complete, cursor restored, every call recorded, ends; the window shows what was recorded once it is refreshed, and it is | every trace of 3 threads over 4 positions, with and without a breakpoint, replays of 2 steps, cancelled anywhere; 2 recorders, one traced function, a call and two returns of which one is of no function |
| `tracer` | events sorted, windows current, indices in range, copies of the right row, one trace per function | 2 recorders, 5 calls and returns of 3 functions, at most 3 events recorded |
| `arguments` | a copy is of the argument that is shown; arguments are read where they were passed, as far as `ReadWherePassed` says; no two from one place | functions of up to 5 arguments of 4 types in each convention and bitness |
| `finding_*` | see "Where the code and its documents differ" | |

Why the bounds are enough. The trace of `MCDebuggerManager` has, between neighbours, a thread that exits, one that
starts, one that returns, and the database's module loaded, unloaded and loaded again, and from 2 to 4 a move that
changes thread and modules at once; `goto` reaches each pair of positions. An address is executed twice, so a breakpoint stops replays in both
directions. The events a session leaves behind are differences and a stop that was queued after the exit; with two of them
a session can begin with a difference and a stop that are not its own. An exit is never among them, since IDA ends the process only when it has
popped it. Three positions keep, for that run, the moves at which the active thread and the modules both change. Two breakpoints in a request are the fewest in which an addition and a removal meet. Three
threads in the full run are the fewest where the i-th created and the i-th terminated events can be
permuted with one pair right and two wrong. Two recorders are what a push between another's push and sort takes. The
fifth argument is the first that x64 passes on the stack, and the third that which x86's fastcall does.

Deadlock is checked everywhere but in `full_run`, which ends, and in `arguments` and `finding_arguments`, where a call is recorded once.

### Fairness and assumptions about IDA

* `SpecWithRun`: weak fairness of `onGetDebugEvent` and `onResume`, which IDA's debugger thread calls
  in a loop as long as a process runs, of `SwitchBack`, the rest of an action that has begun, and of `Restore`, since a full run ends. Nothing
  the user does is fair.
* `FullRun`: weak fairness of the run itself, a loop on the main thread. Cancelling is not fair. `TracedSpec` adds weak fairness of the engine's
  threads, which a replay waits for, and of the refresh of a marked window, which IDA does when it is idle.
* `DebugSession!FairSpec` asks for weak fairness of `Show`; `manager_full_runs` derives it from the fairness above. It is not asked of
  `manager_restart`, where a session may be suspended, by IDA's process options or by the stop of an earlier session, before its own stop is polled.
* `continue_process()` returns after `onResume` when the process is suspended, and at once with no effect when it is
  not.
* IDA tells a stop apart from other events by the process options (`SuspendOn` always holds `BREAKPOINT` and `STEP`).
* `refresh_chooser` marks an open window, which is refreshed later; it does not call back at once.
* IDA closes the tracer's windows with the debugging desktop. With `OutsideSession = FALSE` the user neither traces functions nor runs
  the trace without a process; `finding_tracer` lifts this.
* `TraceAssumption`: the active thread of a position is alive there. `IndexZeroAssumption`: at the first position the lists of
  threads and modules have the active thread and the executable at index 0, the index that `onStartProcess` passes over
  (debugger_manager.cc:174-188).
* `TimelineAssumption`: a notable event has a name that is not empty and a position of the trace.

### Where the code and its documents differ

Each has a run that TLC finds violated and an entry in `PROJECT.json` quoting the line.

* `BackwardsSingleStepIsNext`: the flag is for "the next action" (debugger_manager.hh:97), but a pending position goes first and
  leaves it up.
* `DeletedBreakpointsUnwatched`: `onUpdateBpts` informs of "new and deleted" breakpoints (debugger_manager.hh:239); the second
  loop ends at `ndel`, and a breakpoint deleted together with an addition stays watched.
* `NotableEventsListed`: "Automatically adds notable events" (debugger_manager.hh:127), but two loads of a module share a
  netnode, and after the database is reopened one is missing.
* `RecordsFromTheTrace`: the tracer extracts parameters (README.md:36), but outside a session it records with no engine.
* `ParametersExtracted`: "extracts the parameters passed to the function" (README.md:36), but `x64_getIntArg` (callconv.cc:69) looks for the fifth argument
  at the stack pointer, where the caller keeps room for the first; it is 32 bytes further.

## Proofs

All theorems hold for every value of the constants that meets the named assumptions.

The manager (`DebuggerManagerProofs`, `SessionProofs`):

* **`TypeCorrect`** (`Spec => []TypeOK`). `TypeOK` is inductive. One lemma per operation; `DifferencesType` and
  `SessionEventsType` say that whatever order the lists are in, what is queued are events with the thread, module and address
  their kind needs. Rests on `TTDReplayProofs`: a replay ends on the trace.
* **`StopIsQueued`** (`Spec => []RunningHasStop`). Not only does the model of a small trace never run out of stops: no trace,
  session history or user can make it. `RunningHasStop` is inductive together with `TypeOK`. Polling takes the head of the queue: either it is the stop, and
  then `dbgEvent` is one or the process ends, or the stop is still behind it (`PolledStop`). A resume of a stop queues a new one at the
  end (`MoveToStops`), because no mode but `NONE` and `INTO` is ever set; a resume of another event leaves the queue's stop alone.
* **`DirectionKept`** (`Spec => ResumeKeepsDirection`), an action property. Its invariant is `DirectionInv`: the direction is
  forwards exactly while the main thread is idle or in a plain resume. `TypeOK` does not imply it, and every toggle and new
  session has to keep it. `ReplayDirection` adds that a replay never goes the wrong way.
* **`BreakpointsStop`** (`Spec => NoBreakpointSkipped`), an action property, for breakpoints of one type: then the type of a request's first element is that of
  all. Its invariant is `BreakpointsWatched`: every breakpoint IDA shows has its watchpoint, and a process starts with none. The removal
  loop that stops early removes too little, never a watchpoint of a breakpoint that stays.
* **`WhatIsToCome`** (`Spec => []SessionInv`). A statement about IDA's view is not inductive, since the view lags behind the cursor; one about the view
  *after the queue* is. `KnownAfterBoth` says that this view after one sequence and then another is the view after both, so that a poll
  changes nothing and a move adds its differences at the end; `SessionInv` adds that the last event is the cursor's stop and that an exit is queued once.
* **`SessionImplemented`** (`Spec => ImplementsSession`) follows: initial states map to `NoProcess`, and every step under `SessionInv` to a step of
  `DebugSession` or a stutter.
* **`ViewIsTheTrace`**, **`StopIsTheCursors`**, **`TargetIsNeverUnloaded`**: at a stop the queue is empty, or what is ahead of it is known, so that
  `SessionInv` speaks of the view IDA has.
* **`EventsComeInOrder`** (`Spec => EventsInOrder`), an action property. Its invariant `OrderInv` speaks of each event of the queue and what is
  known after those before it; `InOrderBoth` takes it over to queues that are appended and polled, `ListingOnce` to lists in any order. It assumes, as
  `manager_session` does, that sessions begin with an empty queue (`MaxBacklog = 0`): behind the remains of another session the property is false, which is
  why `manager_restart` does not check it. It also assumes that a module is loaded at every position.

The manager with full runs (`SessionProofs`, of `SpecWithRun`):

* **`FullRunImplementsSession`** (`SpecWithRun => Unseen!Spec`), the safety part of `FullRunIsUnseen`. `RunInv` is `SessionInv` read at `standing`, the place
  where the cursor will be put back, and needs one more fact, `LetsGo`: the debugger thread lets a stop go without the main thread only when the process is told to
  end. So, while a full run has the main thread, the debugger thread polls, and resumes what is no stop, or what is to end anyway; neither uses the cursor
  for anything that will be seen. Each step is one of the manager (`StepWithoutRun`), one of the debugger thread during a run (`PollDuringRun`, `ResumeDuringRun`), or one of the
  run itself (`RunOfCursor`). TLC has checked `RunInv` as an invariant of `MCFullRunInSession`.
* **`StopsAmongRuns`, `BreakpointsStopAmongRuns`, `EventsComeInOrderAmongRuns`**: the properties of the manager hold of the composition too. A step of it is one
  of the manager's or changes nothing but the cursor (`StepAmongRuns`), so that the manager's inductive steps are used again; the first says
  what a stop shows only outside full runs, since during one the cursor is elsewhere.

The timeline (`PositionChooserProofs`):

* **`TimelineIsSorted`, `NoGhosts`, `RowsAreCurrent`, `TimelineTypes`** from one invariant, `TimelineInv`: the properties
  and that the netnodes are finitely many, which is what makes the sorted list of `loadPositions` exist.
  `NoGhostNetnode` alone is inductive only with the fact (`SavedType`) that after a save the netnode of every listed name holds a listed entry, even when entries share
  a name; deleting needs that a netnode left behind is of another name than the deleted row's.
* **`NotableEventsOnce`**, from `TimelineInv` and the assumption, stated in the theorem, that the notable events of the trace are distinct.

The full run (`FullRunProofs`), for the composition with the recorders (`TracedSpec`):

* **`WholeTraceIsRun`** (`RunIsComplete`) from `RunInv`. Its heart is `Paired`, proved of the initial states: although the i-th created and the i-th terminated event
  may be of different threads, the i-th created is not after the i-th terminated, and every position at which a thread lives is between some pair.
  That is a pigeonhole argument on the two sorted lists: if it failed, more threads would have been created before a position than there are to be.
  `Progress` then says how far the loops have come. A replay never passes its terminated event (`ReplayForwardStops`), so that the test for equality is enough.
* **`RunComesBack`** (`CursorRestored`) and **`RunTypes`** from the same invariant.
* **`CallsAreRecorded`** (`EveryCallRecorded`): an event of the trace is recorded once for every thread alive there, no more and no less. Its invariant `RecordInv`
  is a balance: what is recorded, is about to be, or is handed to the recorders is what the loops' iterations have gone over so far. That the iterations go
  over a position as often as threads live there, although they pair events of different threads, is counted on the two lists: the pairs that contain a position are those
  created by then less those terminated before, and so are the lives.
* **`WindowShowsRun`** (`RefreshedShowsRun`): once the run is done and no refresh is pending or under way, the rows are the recorded events, sorted. `ShownInv` says
  that until then the window has no rows, since the main thread that would read them is in the run, and that once all recorders are past their notification an event recorded has
  left its mark (`ToldOf`); afterwards the rows read are the beginning of the list and the rest is still to be read (`Reading`).

The tracer (`FunctionTracerProofs`), for any number of recorders:

* **`TracerTypes`, `EventsInOrder`, `NoIndexBeyond`** from `TracerInv`. A recorder that sorts makes the list sorted for all; one that pushes is itself
  between its push and its sort. A sort keeps the length, and only the main thread shortens a list, which it then reads anew.
* **`RemovingUntraces`** (`RemovedIsUntraced`), an action property, from `TracedOnce`.
* **`WindowsAreCurrent`, `CopiesOwnRow`**, under the assumption `OutsideSession = FALSE`. While a recorder has changed the list and not notified yet the window
  may be wrong; `EventsRead` says that as soon as all are past that (`Told`) the rows read so far are the beginning of the list, or a mark is set.

Arguments (`CallArgumentsProofs`): **`CopyAgrees`** (`CopyIsOfTheArgument`), for any types and number of arguments. The two sets of rules are compared case by
case (`AddressIsOfThePlace`), and what the loop has recorded is what `getIntArg` finds (`ReadInOrder`). **`ReadAsPassed`** (`ReadWherePassed`), **`ArgumentsApart`**
(`NoPlaceTwice`) and **`PlacesExist`** (`TypeOK`) are about offsets that are sums over the arguments before: that the sum of equal slots is their number
times the size, and that a longer sum is a larger one.

The engine (`TTDReplayProofs`): **`ReplayForwardStops`, `ReplayBackwardStops`**: a replay ends between where it was and its limit and passes over no position
that touches a watchpoint.

Arithmetic (`ArithmeticProofs`): what `Min` and `Max` of a set of positions are, and **`SumRemove`**, that a sum over a finite set is an element's value and the
sum of the others. The library's induction theorems have an operator as a parameter and cannot be used; induction is done instead by the least
element of the set of counterexamples.

The assumptions are the named ones of the modules (`PositionAssumption`, `TraceAssumption`, `IdaAssumption`, `IndexZeroAssumption`, `TimelineAssumption`, `TracedRunAssumption` and
the like), which TLC evaluates in every run, and those a theorem states itself.

Only model-checked: liveness (`EveryRunStops`, the fairness in `FullRunIsUnseen`, `FullRunEnds`, `RunIsShown`), which is beyond this
prover. Every invariant and every action property of the passing runs is a theorem.

## Not modelled

* Memory, registers, memory map, source paths: read-only handlers. Register tables, strings, logging: data layout and formatting.
* Values of returns, names of enum members and strings in the tracer's events: formatting. Float arguments: nothing calls the function that reads them.
* Registration and icons of the plugin: straight-line calls at load and unload.
* The text of `gotoPosition` (any position may come out of it) and the text of a timeline row.
* The address that the popup "Trace function" keeps for its handler, and a handler run by other means than its popup.
* A full run before any process was started, and traces that end with threads alive: the code reads a null pointer, or beyond a list.
* Breakpoints of different types in one request: the handler is modelled, the instances set one type.

## Plan

Done: engine, queue and manager; timeline; full run; tracer; the abstract session and the refinement; the compositions of the full run with the
session and with the tracer; the arguments of calls; the theorems above.

Left:

1. `onUpdateBpts` with several types in a request, against a reference that watches just what IDA shows.
2. The tracer composed with the manager, so that a replay is one of `onResume`'s.
3. `gotoPosition`'s text at the width of a `long`.
4. An abstract specification of the tracer, a bag of records and a window that is to show it, which `TracedRun` implements.
