--------------------------- MODULE PositionChooser ---------------------------
(***************************************************************************)
(* The timeline (ttddbg_position_chooser.cc): a list of named positions    *)
(* that onStartProcess fills with the notable events of the trace, that    *)
(* the user edits and jumps from, and that is kept in netnodes of the IDA  *)
(* database, one per name.                                                 *)
(*                                                                         *)
(* The window of IDA shows the rows it read when it was last refreshed.    *)
(***************************************************************************)
EXTENDS Integers, Sequences, FiniteSets, FiniteSetsExt, Functions

CONSTANTS
    Positions,      \* positions of the trace
    FirstPosition,
    UserNames,      \* what the user types as the name of a position
    EmptyName,      \* the name of no characters, whose netnode name is the bare prefix
    NotableEvents,  \* the entries of populatePositionChooser, in its order
    UserDeletes,    \* does the user delete entries?
    MaxPositions    \* bound: length of the list when the user inserts

NoPosition == 0

EventNames == {NotableEvents[i].name : i \in DOMAIN NotableEvents}
Names == UserNames \cup EventNames
Entry == [name : Names, pos : Positions]

ASSUME TimelineAssumption ==
    /\ Positions \subseteq Nat \ {NoPosition}
    /\ FirstPosition \in Positions
    /\ NotableEvents \in Seq(Entry)
    /\ EmptyName \notin EventNames
    /\ UserDeletes \in BOOLEAN
    /\ MaxPositions \in Nat

VARIABLES
    m_positions,
    m_cursor,        \* the position of the cursor; NoPosition while it is null
    m_isClosed,
    netnodes,        \* the database: the position saved under each name that has a netnode
    shown,           \* the rows of the window
    m_nextPosition   \* of the debugger manager

vars == <<m_positions, m_cursor, m_isClosed, netnodes, shown, m_nextPosition>>
------------------------------------------------------------------------------
(* sortPositions: std::sort by position, which orders equals as it likes. *)
IsSortedByPosition(list) ==
    \A i, j \in DOMAIN list : i < j => list[i].pos <= list[j].pos

sortPositions(list) ==
    {sorted \in {[i \in DOMAIN list |-> list[order[i]]] :
                     order \in Bijection(DOMAIN list, DOMAIN list)} :
        IsSortedByPosition(sorted)}

NamesIn(list) == {list[i].name : i \in DOMAIN list}

(* savePositions writes the netnode of every entry in the order of the list, *)
(* so the last entry of a name is the one that stays.                        *)
savePositions(list, nodes) ==
    [name \in NamesIn(list) \cup DOMAIN nodes |->
        IF name \in NamesIn(list)
        THEN list[Max({i \in DOMAIN list : list[i].name = name})].pos
        ELSE nodes[name]]

(* loadPositions skips a netnode whose name is the bare prefix. *)
Loadable(nodes) == {[name |-> n, pos |-> nodes[n]] : n \in DOMAIN nodes \ {EmptyName}}

(* Mutant: the list is left in the order of the netnodes. *)
loadPositions_Unsorted(nodes) ==
    Bijection(1 .. Cardinality(Loadable(nodes)), Loadable(nodes))

loadPositions(nodes) ==
    UNION {sortPositions(list) :
              list \in Bijection(1 .. Cardinality(Loadable(nodes)), Loadable(nodes))}

(* addNewPosition, for one entry after another: the netnodes end as the last *)
(* savePositions leaves them.                                                *)
AddAll(entries) ==
    \E sorted \in sortPositions(m_positions \o entries) :
        /\ m_positions' = sorted
        /\ netnodes' = savePositions(sorted, netnodes)
------------------------------------------------------------------------------
Init ==
    /\ m_positions = << >>
    /\ m_cursor = NoPosition
    /\ m_isClosed = TRUE
    /\ netnodes = [n \in {} |-> NoPosition]
    /\ shown = << >>
    /\ m_nextPosition = NoPosition

(* The database is closed, which ends the plugin, and opened again. *)
PositionChooserCtor ==
    /\ m_positions' \in loadPositions(netnodes)
    /\ m_cursor' = NoPosition
    /\ m_isClosed' = TRUE
    /\ shown' = << >>
    /\ m_nextPosition' = NoPosition
    /\ UNCHANGED netnodes

(* Mutant: the events are added to a list that is not empty. *)
populatePositionChooser_Again == AddAll(NotableEvents)

populatePositionChooser ==
    IF m_positions # << >> THEN UNCHANGED <<m_positions, netnodes>>
    ELSE AddAll(NotableEvents)

(* onStartProcess: setCursor, populate, cursor to the first position.  The *)
(* window is not refreshed.                                                *)
StartProcess ==
    /\ populatePositionChooser
    /\ m_cursor' = FirstPosition
    /\ UNCHANGED <<m_isClosed, shown, m_nextPosition>>

(* The debugger manager replays, or honours the next position. *)
CursorMoves ==
    /\ m_cursor # NoPosition
    /\ m_cursor' \in IF m_nextPosition # NoPosition THEN {m_nextPosition} ELSE Positions
    /\ m_nextPosition' = NoPosition
    /\ UNCHANGED <<m_positions, m_isClosed, netnodes, shown>>

choose ==
    /\ m_isClosed
    /\ m_isClosed' = FALSE
    /\ shown' = m_positions
    /\ UNCHANGED <<m_positions, m_cursor, netnodes, m_nextPosition>>

closed ==
    /\ ~m_isClosed
    /\ m_isClosed' = TRUE
    /\ shown' = << >>
    /\ UNCHANGED <<m_positions, m_cursor, netnodes, m_nextPosition>>

(* Mutant: the window is not told that the list has changed. *)
ins_NothingChanged ==
    /\ ~m_isClosed
    /\ m_cursor # NoPosition
    /\ Len(m_positions) < MaxPositions
    /\ \E name \in UserNames : AddAll(<<[name |-> name, pos |-> m_cursor]>>)
    /\ UNCHANGED <<m_cursor, m_isClosed, shown, m_nextPosition>>

(* Mutant: the cursor is not checked. *)
ins_NullCursor ==
    /\ ~m_isClosed
    /\ Len(m_positions) < MaxPositions
    /\ \E name \in UserNames : AddAll(<<[name |-> name, pos |-> m_cursor]>>)
    /\ shown' = m_positions'
    /\ UNCHANGED <<m_cursor, m_isClosed, m_nextPosition>>

(* The user inserts the cursor's position under a name; without a cursor *)
(* there is only a warning.                                              *)
ins ==
    /\ ~m_isClosed
    /\ m_cursor # NoPosition
    /\ Len(m_positions) < MaxPositions
    /\ \E name \in UserNames : AddAll(<<[name |-> name, pos |-> m_cursor]>>)
    /\ shown' = m_positions'
    /\ UNCHANGED <<m_cursor, m_isClosed, m_nextPosition>>

(* Mutant: the netnode of the deleted entry is not killed. *)
del_KeepsNode ==
    /\ ~m_isClosed
    /\ UserDeletes
    /\ \E n \in DOMAIN shown :
        /\ n <= Len(m_positions)
        /\ m_positions' = [i \in 1 .. Len(m_positions) - 1 |->
                               m_positions[IF i < n THEN i ELSE i + 1]]
    /\ shown' = m_positions'
    /\ UNCHANGED <<m_cursor, m_isClosed, netnodes, m_nextPosition>>

(* The user deletes row n: the netnode of its name goes, whichever entry of *)
(* that name it held, and the n-th entry goes.                              *)
del ==
    /\ ~m_isClosed
    /\ UserDeletes
    /\ \E n \in DOMAIN shown :
        /\ n <= Len(m_positions)
        /\ netnodes' = Restrict(netnodes, DOMAIN netnodes \ {m_positions[n].name})
        /\ m_positions' = [i \in 1 .. Len(m_positions) - 1 |->
                               m_positions[IF i < n THEN i ELSE i + 1]]
    /\ shown' = m_positions'
    /\ UNCHANGED <<m_cursor, m_isClosed, m_nextPosition>>

(* The user jumps to row n: setNextPosition, and continue_process. *)
get_ea ==
    /\ ~m_isClosed
    /\ \E n \in DOMAIN shown :
        /\ n <= Len(m_positions)
        /\ m_nextPosition' = m_positions[n].pos
    /\ UNCHANGED <<m_positions, m_cursor, m_isClosed, netnodes, shown>>

Next ==
    \/ PositionChooserCtor
    \/ StartProcess
    \/ CursorMoves
    \/ choose
    \/ closed
    \/ ins
    \/ del
    \/ get_ea

Spec == Init /\ [][Next]_vars
------------------------------------------------------------------------------
TypeOK ==
    /\ m_positions \in Seq(Entry)
    /\ m_cursor \in Positions \cup {NoPosition}
    /\ m_isClosed \in BOOLEAN
    /\ DOMAIN netnodes \subseteq Names
    /\ netnodes \in [DOMAIN netnodes -> Positions]
    /\ shown \in Seq(Entry)
    /\ m_nextPosition \in Positions \cup {NoPosition}

(* The timeline is a timeline: after any mix of insertions, deletions and  *)
(* reloads the entries are in the order of the trace.                      *)
SortedTimeline == IsSortedByPosition(m_positions)

(* What the database would bring back is what the user sees: a netnode     *)
(* that loads holds the name and position of a listed entry, so a deleted  *)
(* or overwritten entry never comes back with the database.                *)
NoGhostNetnode ==
    \A name \in DOMAIN netnodes \ {EmptyName} :
        \E i \in DOMAIN m_positions :
            m_positions[i] = [name |-> name, pos |-> netnodes[name]]

(* A row the user can click is the entry get_ea and del will take: they    *)
(* look the row number up in m_positions, which a new process may fill     *)
(* behind the window, but then the window shows no row.                    *)
RowsAreEntries ==
    shown # << >> => shown = m_positions

(* Starting the process again, before or after the database was closed,    *)
(* never lists a notable event twice.                                      *)
EventsListedOnce ==
    \A i, j \in DOMAIN m_positions :
        m_positions[i] = m_positions[j] /\ m_positions[i].name \in EventNames \ UserNames
            => i = j
------------------------------------------------------------------------------
(* debugger_manager.hh:127, populatePositionChooser "Automatically adds    *)
(* notable events to the Timeline": once a process was started, every      *)
(* notable event is listed, if the user does not delete any.               *)
NotableEventsListed ==
    m_cursor # NoPosition =>
        \A i \in DOMAIN NotableEvents : \E j \in DOMAIN m_positions :
            m_positions[j] = NotableEvents[i]
==============================================================================
