------------------------------- MODULE FullRun -------------------------------
(***************************************************************************)
(* requestFullRun: the user lets the cursor run over the whole trace, so   *)
(* that the function tracer's callbacks see every call, and finds the      *)
(* debugger where it was.  The trace is replayed once per thread, from the *)
(* i-th created event to the i-th terminated event.  Both lists are in the *)
(* order of the trace, so the two events need not be of one thread.        *)
(***************************************************************************)
EXTENDS TTDReplay, Sequences, Functions

CONSTANTS
    NThreads,       \* threads the trace creates, all of them also terminated
    TTD_STEP,
    UserCancels     \* can user_cancelled() become true under HIDECANCEL?

ASSUME FullRunAssumption ==
    /\ NThreads \in Nat \ {0}
    /\ TTD_STEP \in Nat \ {0}
    /\ UserCancels \in BOOLEAN

VARIABLES
    lives,                \* the first and last position of each thread of the trace
    created, terminated,  \* positions in GetThreadCreatedEventList, GetThreadTerminatedEventList
    watchpoints,          \* of the cursor: IDA's breakpoints
    m_cursor, old, i, cancelled,
    pc,                   \* "idle", "thread" (top of the for), "replay" (top of the
                          \* while), "restore" or "done"
    replayed              \* history: the positions the cursor has run over

trace == <<lives, created, terminated, watchpoints>>
vars == <<trace, m_cursor, old, i, cancelled, pc, replayed>>

Lifetime == {life \in Position \X Position : life[1] <= life[2]}

Sorted(list) == \A j, k \in DOMAIN list : j < k => list[j] <= list[k]

(* The positions of the events of a kind, in the order of the trace. *)
EventList(positions) ==
    {list \in {[j \in DOMAIN positions |-> positions[order[j]]] :
                  order \in Bijection(DOMAIN positions, DOMAIN positions)} : Sorted(list)}

Alive == UNION {lives[t][1] .. lives[t][2] : t \in 1 .. NThreads}

Init ==
    /\ lives \in [1 .. NThreads -> Lifetime]
    /\ created \in EventList([t \in 1 .. NThreads |-> lives[t][1]])
    /\ terminated \in EventList([t \in 1 .. NThreads |-> lives[t][2]])
    /\ watchpoints \in {{}, UNION {HitsAt[p] : p \in Position}}
    /\ m_cursor \in Position
    /\ old = NoPosition
    /\ i = 0
    /\ cancelled = FALSE
    /\ pc = "idle"
    /\ replayed = {}

requestFullRun ==
    /\ pc = "idle"
    /\ old' = m_cursor
    /\ i' = 1
    /\ pc' = "thread"
    /\ UNCHANGED <<trace, m_cursor, cancelled, replayed>>

(* Mutant: the cursor goes on from where the thread before ended. *)
NextThread_NoSetPosition ==
    /\ pc = "thread"
    /\ pc' = IF i <= Len(created) /\ (i = 1 \/ ~cancelled) THEN "replay" ELSE "restore"
    /\ m_cursor' = IF i = 1 THEN SetPosition(created[1]) ELSE m_cursor
    /\ UNCHANGED <<trace, old, i, cancelled, replayed>>

(* The head of the for loop: the cursor is put on the created event.  The *)
(* user's cancellation is looked at after each iteration.                 *)
NextThread ==
    /\ pc = "thread"
    /\ IF i <= Len(created) /\ (i = 1 \/ ~cancelled)
       THEN m_cursor' = SetPosition(created[i]) /\ pc' = "replay"
       ELSE m_cursor' = m_cursor /\ pc' = "restore"
    /\ UNCHANGED <<trace, old, i, cancelled, replayed>>

(* The cursor runs over everything from where it is to where it stops. *)
ReplayTo(last) ==
    /\ m_cursor' = ReplayForward(m_cursor, last, TTD_STEP, watchpoints)
    /\ replayed' = replayed \cup (m_cursor .. m_cursor')

(* Mutant: a thread is passed over. *)
LeaveWhile_Twice ==
    /\ i' = i + 2
    /\ pc' = "thread"

LeaveWhile ==
    /\ i' = i + 1
    /\ pc' = "thread"

(* Mutant: one replay is taken to reach the terminated event. *)
ReplayStep_Once ==
    /\ pc = "replay"
    /\ ReplayTo(terminated[i])
    /\ LeaveWhile
    /\ UNCHANGED <<trace, old, cancelled>>

(* Mutant: the replay is bounded by the end of the trace. *)
ReplayStep_ToTheEnd ==
    /\ pc = "replay"
    /\ \/ /\ m_cursor = terminated[i]
          /\ LeaveWhile
          /\ UNCHANGED <<m_cursor, replayed>>
       \/ /\ m_cursor # terminated[i]
          /\ ReplayTo(LastPosition)
          /\ IF cancelled THEN LeaveWhile ELSE UNCHANGED <<i, pc>>
    /\ UNCHANGED <<trace, old, cancelled>>

(* The while loop: until the cursor is on the terminated event, replay; *)
(* break if the user has cancelled.                                     *)
ReplayStep ==
    /\ pc = "replay"
    /\ \/ /\ m_cursor = terminated[i]
          /\ LeaveWhile
          /\ replayed' = replayed \cup {m_cursor}
          /\ UNCHANGED m_cursor
       \/ /\ m_cursor # terminated[i]
          /\ ReplayTo(terminated[i])
          /\ IF cancelled THEN LeaveWhile ELSE UNCHANGED <<i, pc>>
    /\ UNCHANGED <<trace, old, cancelled>>

(* Mutant: a cancelled run leaves the cursor where it is. *)
Restore_NotCancelled ==
    /\ pc = "restore"
    /\ m_cursor' = IF cancelled THEN m_cursor ELSE SetPosition(old)
    /\ pc' = "done"
    /\ UNCHANGED <<trace, old, i, cancelled, replayed>>

Restore ==
    /\ pc = "restore"
    /\ m_cursor' = SetPosition(old)
    /\ pc' = "done"
    /\ UNCHANGED <<trace, old, i, cancelled, replayed>>

(* user_cancelled() stays true once the user has cancelled. *)
Cancel ==
    /\ UserCancels
    /\ pc \in {"thread", "replay"}
    /\ ~cancelled
    /\ cancelled' = TRUE
    /\ UNCHANGED <<trace, m_cursor, old, i, pc, replayed>>

Run == requestFullRun \/ NextThread \/ ReplayStep \/ Restore

Next == Run \/ Cancel

Spec == Init /\ [][Next]_vars /\ WF_vars(Run)
------------------------------------------------------------------------------
TypeOK ==
    /\ lives \in [1 .. NThreads -> Lifetime]
    /\ created \in Seq(Position)
    /\ terminated \in Seq(Position)
    /\ m_cursor \in Position
    /\ old \in Position \cup {NoPosition}
    /\ i \in 0 .. Len(created) + 1
    /\ cancelled \in BOOLEAN
    /\ pc \in {"idle", "thread", "replay", "restore", "done"}
    /\ replayed \subseteq Position

(* "Simulate a complete run, from start to finish": a run that is not      *)
(* cancelled has gone over every position at which some thread is alive,   *)
(* although it takes the events of different threads together and stops    *)
(* at every breakpoint on the way.                                         *)
RunIsComplete ==
    pc = "done" /\ ~cancelled => Alive \subseteq replayed

(* The debugger is found where it was, cancelled or not. *)
CursorRestored ==
    pc = "done" => m_cursor = old

(* The wait box goes away: every replay ends on its terminated event. *)
FullRunEnds == <>(pc = "done")
==============================================================================
