--------------------------- MODULE SessionRefinement ---------------------------
(***************************************************************************)
(* The debugger manager implements DebugSession.  IDA learns of a move of  *)
(* the cursor event by event, so the process of the abstract specification *)
(* is the one IDA will know when it has been given the whole queue.        *)
(***************************************************************************)
EXTENDS DebuggerManager

(* A thread or a module IDA can know. *)
Subject == {<<"thread", t>> : t \in Threads} \cup {<<"module", m>> : m \in Modules}

SubjectsOf(view) ==
    {<<"thread", t>> : t \in view.threads} \cup {<<"module", m>> : m \in view.modules}

ThreadsIn(known) == {t \in Threads : <<"thread", t>> \in known}
ModulesIn(known) == {m \in Modules : <<"module", m>> \in known}

(* The subjects an event introduces, and those it removes. *)
Brings(e) ==
    CASE e.eid = "PROCESS_STARTED" -> {<<"thread", e.tid>>, <<"module", e.module>>}
      [] e.eid = "THREAD_STARTED" -> {<<"thread", e.tid>>}
      [] e.eid = "LIB_LOADED" -> {<<"module", e.module>>}
      [] OTHER -> {}

Drops(e) ==
    CASE e.eid \in {"PROCESS_STARTED", "PROCESS_EXITED"} -> Subject
      [] e.eid = "THREAD_EXITED" -> {<<"thread", e.tid>>}
      [] e.eid = "LIB_UNLOADED" -> {<<"module", e.module>>}
      [] OTHER -> {}

(* What is known after the events of a queue: what was known or some event *)
(* brought, and no later event drops.                                      *)
KnownAfter(known, queue) ==
    {x \in known : \A i \in DOMAIN queue : x \notin Drops(queue[i])}
        \cup {x \in Subject : \E i \in DOMAIN queue :
                 /\ x \in Brings(queue[i])
                 /\ \A j \in DOMAIN queue : j > i => x \notin Drops(queue[j])}

Known == KnownAfter(SubjectsOf(ida), m_events)

LastEvent == IF isEmpty(m_events) THEN dbgEvent ELSE m_events[Len(m_events)]
------------------------------------------------------------------------------
(* The refinement mapping. *)
alive == dbgState # "noProcess" /\ ~exiting
pos == IF alive THEN m_cursor ELSE NoPosition
threads == IF alive THEN ThreadsIn(Known) ELSE {}
modules == IF alive THEN ModulesIn(Known) ELSE {}
thread == IF alive THEN LastEvent.tid ELSE NoThread
shown == alive /\ AtStop

Session == INSTANCE DebugSession

(* Every step of the manager, of IDA and of the user is a step of the      *)
(* session or leaves it as it is: IDA is heading for the process at the    *)
(* cursor after any sequence of moves, sessions and leftovers, what the    *)
(* queue holds included, and no event is lost, doubled or out of order in  *)
(* a way that would show.                                                  *)
ImplementsSession == Session!Spec
------------------------------------------------------------------------------
(* What is true of the queue at every step, the inductive invariant behind *)
(* ImplementsSession and the properties of a stop.                         *)

Exits == {i \in DOMAIN m_events : m_events[i].eid = "PROCESS_EXITED"}

(* A process that is told to end has its exit in the queue, once, and it *)
(* is gone when the process has ended.                                   *)
ExitsOnce ==
    /\ \A i, j \in Exits : i = j
    /\ exiting <=> Exits # {}
    /\ exiting => dbgState # "noProcess"

(* The last event announces the stop at position p. *)
Announces(e, p) ==
    /\ e.eid \in StopEvents
    /\ e.tid = ActiveThread[p]
    /\ e.eid = "BREAKPOINT" => e.ea = ProgramCounter[p]

(* The known threads are those of p, the modules too but for targets. *)
MirrorsTrace(known, p) ==
    /\ ThreadsIn(known) = ThreadsAt[p]
    /\ ModulesAt[p] \subseteq ModulesIn(known)
    /\ ModulesIn(known) \ ModulesAt[p] \subseteq Targets
    /\ Targets # {} => ModulesIn(known) \cap Targets # {}

(* An exit is announced once; and as long as the process has not been told *)
(* to end, the queue brings IDA to the threads and modules at the cursor   *)
(* and ends with its stop, whatever an earlier session left in front.      *)
SessionInv ==
    /\ ExitsOnce
    /\ alive => Announces(LastEvent, m_cursor) /\ MirrorsTrace(Known, m_cursor)
==============================================================================
