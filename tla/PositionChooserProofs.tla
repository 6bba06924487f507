------------------------- MODULE PositionChooserProofs -------------------------
(***************************************************************************)
(* Proofs about the timeline, for every trace, every list of notable       *)
(* events and every choice of names.                                       *)
(***************************************************************************)
EXTENDS PositionChooser, ArithmeticProofs, FiniteSetTheorems, SequenceTheorems

------------------------------------------------------------------------------
(* Lists. *)

Holds(list, e) == \E i \in DOMAIN list : list[i] = e

(* Sorting keeps the entries, neither more nor fewer, and sorts them.       *)
LEMMA SortedType ==
    ASSUME NEW list \in Seq(Entry), NEW sorted \in sortPositions(list)
    PROVE  /\ sorted \in Seq(Entry)
           /\ IsSortedByPosition(sorted)
           /\ \A i \in DOMAIN list : Holds(sorted, list[i])
<1>1. PICK order \in Bijection(DOMAIN list, DOMAIN list) :
        sorted = [i \in DOMAIN list |-> list[order[i]]]
  BY DEF sortPositions
<1>2. /\ order \in [DOMAIN list -> DOMAIN list]
      /\ \A i \in DOMAIN list : \E j \in DOMAIN list : order[j] = i
  BY DEF Bijection, Injection, Surjection
<1>3. Len(list) \in Nat /\ DOMAIN list = 1 .. Len(list) /\ \A i \in DOMAIN list : list[i] \in Entry
  BY LenProperties, ElementOfSeq
<1>4. sorted \in [1 .. Len(list) -> Entry]
  BY <1>1, <1>2, <1>3
<1>5. sorted \in Seq(Entry)
  BY <1>3, <1>4, SeqDef
<1>6. IsSortedByPosition(sorted)
  BY DEF sortPositions
<1>7. ASSUME NEW i \in DOMAIN list PROVE Holds(sorted, list[i])
  <2>1. PICK j \in DOMAIN list : order[j] = i
    BY <1>2
  <2>2. j \in DOMAIN sorted /\ sorted[j] = list[i]
    BY <1>1, <2>1
  <2> QED
    BY <2>2 DEF Holds
<1> QED
  BY <1>5, <1>6, <1>7

(* The entries the database would bring back, in any order. *)
LEMMA LoadableListed ==
    ASSUME NEW nodes, DOMAIN nodes \subseteq Names, nodes \in [DOMAIN nodes -> Positions],
           IsFiniteSet(DOMAIN nodes),
           NEW list \in Bijection(1 .. Cardinality(Loadable(nodes)), Loadable(nodes))
    PROVE  /\ list \in Seq(Entry)
           /\ \A e \in Loadable(nodes) : Holds(list, e)
<1> DEFINE N == DOMAIN nodes \ {EmptyName}
           L == Loadable(nodes)
           f == [n \in N |-> [name |-> n, pos |-> nodes[n]]]
<1>1. IsFiniteSet(N)
  BY FS_Subset
<1>2. f \in Surjection(N, L)
  BY DEF Surjection, Loadable
<1>3. IsFiniteSet(L)
  <2> HIDE DEF f, N, L
  <2> QED
    BY <1>1, <1>2, FS_Surjection
<1>4. Cardinality(L) \in Nat
  <2> HIDE DEF L
  <2> QED
    BY <1>3, FS_CardinalityType
<1>5. L \subseteq Entry
  BY DEF Loadable, Entry
<1>6. /\ list \in [1 .. Cardinality(L) -> L]
      /\ \A e \in L : \E i \in 1 .. Cardinality(L) : list[i] = e
  BY DEF Bijection, Injection, Surjection
<1>7. list \in [1 .. Cardinality(L) -> Entry]
  <2> HIDE DEF L
  <2> QED
    BY <1>5, <1>6
<1>8. list \in Seq(Entry)
  <2> HIDE DEF L
  <2> QED
    BY <1>4, <1>7, SeqDef
<1>9. \A e \in L : Holds(list, e)
  BY <1>6 DEF Holds
<1> QED
  BY <1>8, <1>9

LEMMA LoadedType ==
    ASSUME NEW nodes, DOMAIN nodes \subseteq Names, nodes \in [DOMAIN nodes -> Positions],
           IsFiniteSet(DOMAIN nodes),
           NEW loaded \in loadPositions(nodes)
    PROVE  /\ loaded \in Seq(Entry)
           /\ IsSortedByPosition(loaded)
           /\ \A e \in Loadable(nodes) : Holds(loaded, e)
<1>1. PICK list \in Bijection(1 .. Cardinality(Loadable(nodes)), Loadable(nodes)) :
        loaded \in sortPositions(list)
  BY DEF loadPositions
<1>2. list \in Seq(Entry) /\ \A e \in Loadable(nodes) : Holds(list, e)
  BY <1>1, LoadableListed
<1>3. /\ loaded \in Seq(Entry)
      /\ IsSortedByPosition(loaded)
      /\ \A i \in DOMAIN list : Holds(loaded, list[i])
  BY <1>1, <1>2, SortedType
<1> QED
  BY <1>2, <1>3 DEF Holds

(* The netnode of a name holds the last of the listed entries of that name. *)
LEMMA SavedType ==
    ASSUME NEW list \in Seq(Entry),
           NEW nodes, DOMAIN nodes \subseteq Names, nodes \in [DOMAIN nodes -> Positions],
           IsFiniteSet(DOMAIN nodes)
    PROVE  LET saved == savePositions(list, nodes)
           IN  /\ DOMAIN saved = NamesIn(list) \cup DOMAIN nodes
               /\ DOMAIN saved \subseteq Names
               /\ saved \in [DOMAIN saved -> Positions]
               /\ IsFiniteSet(DOMAIN saved)
               /\ \A name \in NamesIn(list) : Holds(list, [name |-> name, pos |-> saved[name]])
<1> DEFINE saved == savePositions(list, nodes)
           Of(name) == {i \in DOMAIN list : list[i].name = name}
           f == [i \in DOMAIN list |-> list[i].name]
<1>1. /\ Len(list) \in Nat
      /\ DOMAIN list = 1 .. Len(list)
      /\ \A i \in DOMAIN list : list[i] \in Entry
  BY LenProperties, ElementOfSeq
<1>2. NamesIn(list) \subseteq Names
  BY <1>1 DEF NamesIn, Entry
<1>3. IsFiniteSet(NamesIn(list))
  <2>1. IsFiniteSet(DOMAIN list)
    <3>1. Len(list) \in Int /\ 1 \in Int
      BY <1>1
    <3>2. IsFiniteSet(1 .. Len(list))
      BY <3>1, FS_Interval
    <3> QED
      BY <1>1, <3>2
  <2>2. f \in Surjection(DOMAIN list, NamesIn(list))
    BY DEF Surjection, NamesIn
  <2> HIDE DEF f
  <2> QED
    BY <2>1, <2>2, FS_Surjection
<1>4. ASSUME NEW name \in NamesIn(list)
      PROVE  Max(Of(name)) \in DOMAIN list /\ list[Max(Of(name))].name = name
  <2>1. Of(name) \in SUBSET Nat /\ Of(name) # {} /\ \A i \in Of(name) : i <= Len(list)
    BY <1>1 DEF NamesIn
  <2>2. Max(Of(name)) \in Of(name)
    <3> HIDE DEF Of
    <3> QED
      BY <1>1, <2>1, MaxProperty
  <2> QED
    BY <2>2
<1>5. \A name \in NamesIn(list) : saved[name] = list[Max(Of(name))].pos
  BY DEF savePositions
<1>6. \A name \in DOMAIN nodes \ NamesIn(list) : saved[name] = nodes[name]
  BY DEF savePositions
<1>7. DOMAIN saved = NamesIn(list) \cup DOMAIN nodes /\ saved = [x \in DOMAIN saved |-> saved[x]]
  BY DEF savePositions
<1> HIDE DEF saved, Of
<1>8. ASSUME NEW name \in NamesIn(list)
      PROVE  saved[name] \in Positions /\ Holds(list, [name |-> name, pos |-> saved[name]])
  <2>1. list[Max(Of(name))] \in Entry
    BY <1>1, <1>4
  <2>2. list[Max(Of(name))] = [name |-> name, pos |-> saved[name]]
    BY <1>4, <1>5, <2>1 DEF Entry
  <2> QED
    BY <1>4, <1>5, <2>1, <2>2 DEF Entry, Holds
<1>9. \A name \in DOMAIN saved : saved[name] \in Positions
  BY <1>6, <1>7, <1>8
<1>10. saved \in [DOMAIN saved -> Positions]
  BY <1>7, <1>9
<1>11. IsFiniteSet(DOMAIN saved)
  BY <1>3, <1>7, FS_Union
<1>12. DOMAIN saved \subseteq Names
  BY <1>2, <1>7
<1> QED
  BY <1>7, <1>8, <1>10, <1>11, <1>12 DEF saved
------------------------------------------------------------------------------
(* The inductive invariant.  Beside the properties it only says that the    *)
(* database holds finitely many netnodes, so that they can be listed.       *)

FiniteNetnodes == IsFiniteSet(DOMAIN netnodes)

TimelineInv ==
    /\ TypeOK
    /\ FiniteNetnodes
    /\ SortedTimeline
    /\ NoGhostNetnode
    /\ RowsAreEntries

LEMMA GhostsAreHeld ==
    NoGhostNetnode <=>
        \A name \in DOMAIN netnodes \ {EmptyName} :
            Holds(m_positions, [name |-> name, pos |-> netnodes[name]])
BY DEF NoGhostNetnode, Holds

(* The list and the netnodes after the entries have been added.             *)
LEMMA AddAllKeeps ==
    ASSUME TimelineInv, NEW entries \in Seq(Entry), AddAll(entries)
    PROVE  /\ m_positions' \in Seq(Entry)
           /\ IsSortedByPosition(m_positions')
           /\ DOMAIN netnodes' \subseteq Names
           /\ netnodes' \in [DOMAIN netnodes' -> Positions]
           /\ IsFiniteSet(DOMAIN netnodes')
           /\ \A name \in DOMAIN netnodes' \ {EmptyName} :
                  Holds(m_positions', [name |-> name, pos |-> netnodes'[name]])
<1> DEFINE list == m_positions \o entries
<1>1. /\ m_positions \in Seq(Entry)
      /\ DOMAIN netnodes \subseteq Names
      /\ netnodes \in [DOMAIN netnodes -> Positions]
      /\ IsFiniteSet(DOMAIN netnodes)
  BY DEF TimelineInv, TypeOK, FiniteNetnodes
<1>2. list \in Seq(Entry)
  BY <1>1, ConcatProperties
<1>3. \A i \in DOMAIN m_positions : Holds(list, m_positions[i])
  <2>1. /\ Len(m_positions) \in Nat /\ Len(entries) \in Nat
        /\ DOMAIN m_positions = 1 .. Len(m_positions)
        /\ Len(list) = Len(m_positions) + Len(entries)
        /\ DOMAIN list = 1 .. Len(list)
    BY <1>1, <1>2, ConcatProperties, LenProperties
  <2>2. \A i \in DOMAIN m_positions : i \in DOMAIN list /\ list[i] = m_positions[i]
    BY <1>1, <2>1, ConcatProperties
  <2> QED
    BY <2>2 DEF Holds
<1>4. /\ m_positions' \in sortPositions(list)
      /\ netnodes' = savePositions(m_positions', netnodes)
  BY DEF AddAll
<1> HIDE DEF list
<1>5. /\ m_positions' \in Seq(Entry)
      /\ IsSortedByPosition(m_positions')
      /\ \A i \in DOMAIN list : Holds(m_positions', list[i])
  BY <1>2, <1>4, SortedType
<1>6. /\ DOMAIN netnodes' = NamesIn(m_positions') \cup DOMAIN netnodes
      /\ DOMAIN netnodes' \subseteq Names
      /\ netnodes' \in [DOMAIN netnodes' -> Positions]
      /\ IsFiniteSet(DOMAIN netnodes')
      /\ \A name \in NamesIn(m_positions') :
             Holds(m_positions', [name |-> name, pos |-> netnodes'[name]])
  BY <1>1, <1>4, <1>5, SavedType
<1>7. ASSUME NEW name \in DOMAIN netnodes \ {EmptyName}
      PROVE  name \in NamesIn(m_positions')
  <2> DEFINE e == [name |-> name, pos |-> netnodes[name]]
  <2>1. Holds(m_positions, e)
    BY <1>7, GhostsAreHeld DEF TimelineInv
  <2>2. Holds(list, e)
    BY <1>3, <2>1 DEF Holds
  <2>3. Holds(m_positions', e)
    BY <1>5, <2>2 DEF Holds
  <2>4. e.name = name
    OBVIOUS
  <2> QED
    BY <2>3, <2>4 DEF Holds, NamesIn
<1> QED
  BY <1>5, <1>6, <1>7

(* Row n is taken out of a list; the other entries stay in their order.     *)
LEMMA RemovedType ==
    ASSUME NEW list \in Seq(Entry), IsSortedByPosition(list),
           NEW n \in Nat \ {0}, n <= Len(list)
    PROVE  LET removed == [i \in 1 .. Len(list) - 1 |-> list[IF i < n THEN i ELSE i + 1]]
           IN  /\ removed \in Seq(Entry)
               /\ IsSortedByPosition(removed)
               /\ \A i \in DOMAIN list \ {n} : Holds(removed, list[i])
<1> DEFINE removed == [i \in 1 .. Len(list) - 1 |-> list[IF i < n THEN i ELSE i + 1]]
<1>1. /\ Len(list) \in Nat /\ Len(list) - 1 \in Nat
      /\ DOMAIN list = 1 .. Len(list)
      /\ \A i \in DOMAIN list : list[i] \in Entry
  BY LenProperties, ElementOfSeq
<1>2. removed \in [1 .. Len(list) - 1 -> Entry]
  BY <1>1
<1>3. removed \in Seq(Entry)
  BY <1>1, <1>2, SeqDef
<1>4. IsSortedByPosition(removed)
  BY <1>1 DEF IsSortedByPosition
<1>5. ASSUME NEW i \in DOMAIN list \ {n} PROVE Holds(removed, list[i])
  <2>1. CASE i < n
    <3>1. i \in 1 .. Len(list) - 1 /\ removed[i] = list[i]
      BY <1>1, <2>1
    <3> QED
      BY <3>1 DEF Holds
  <2>2. CASE i > n
    <3>1. i - 1 \in 1 .. Len(list) - 1 /\ removed[i - 1] = list[i]
      BY <1>1, <2>2
    <3> QED
      BY <3>1 DEF Holds
  <2> QED
    BY <1>1, <2>1, <2>2
<1> QED
  BY <1>3, <1>4, <1>5

LEMMA TimelineInit == Init => TimelineInv
<1> SUFFICES ASSUME Init PROVE TimelineInv
  OBVIOUS
<1>1. DOMAIN netnodes = {} /\ netnodes \in [{} -> Positions]
  BY DEF Init
<1>2. FiniteNetnodes /\ NoGhostNetnode
  BY <1>1, FS_EmptySet DEF FiniteNetnodes, NoGhostNetnode
<1>3. TypeOK
  BY <1>1 DEF Init, TypeOK
<1>4. SortedTimeline /\ RowsAreEntries
  BY DEF Init, SortedTimeline, IsSortedByPosition, RowsAreEntries
<1> QED
  BY <1>2, <1>3, <1>4 DEF TimelineInv

(* A window that is refreshed with the list, or shows no row, is up to date. *)
LEMMA TimelineChanged ==
    ASSUME TimelineInv,
           m_positions' \in Seq(Entry), IsSortedByPosition(m_positions'),
           DOMAIN netnodes' \subseteq Names, netnodes' \in [DOMAIN netnodes' -> Positions],
           IsFiniteSet(DOMAIN netnodes'),
           \A name \in DOMAIN netnodes' \ {EmptyName} :
               Holds(m_positions', [name |-> name, pos |-> netnodes'[name]]),
           shown' \in {m_positions', << >>},
           m_cursor' \in Positions \cup {NoPosition}, m_isClosed' \in BOOLEAN,
           m_nextPosition' \in Positions \cup {NoPosition}
    PROVE  TimelineInv'
<1>0. shown' \in Seq(Entry)
  <2>1. << >> \in Seq(Entry)
    OBVIOUS
  <2> QED
    BY <2>1
<1>1. TypeOK'
  BY <1>0 DEF TypeOK
<1>2. FiniteNetnodes' /\ SortedTimeline' /\ NoGhostNetnode' /\ RowsAreEntries'
  BY DEF FiniteNetnodes, SortedTimeline, NoGhostNetnode, RowsAreEntries, Holds
<1> QED
  BY <1>1, <1>2 DEF TimelineInv

LEMMA TimelineStep == TimelineInv /\ [Next]_vars => TimelineInv'
<1> SUFFICES ASSUME TimelineInv, [Next]_vars PROVE TimelineInv'
  OBVIOUS
<1>0. /\ m_positions \in Seq(Entry)
      /\ DOMAIN netnodes \subseteq Names
      /\ netnodes \in [DOMAIN netnodes -> Positions]
      /\ IsFiniteSet(DOMAIN netnodes)
      /\ m_cursor \in Positions \cup {NoPosition}
      /\ m_isClosed \in BOOLEAN
      /\ m_nextPosition \in Positions \cup {NoPosition}
      /\ shown \in Seq(Entry)
      /\ IsSortedByPosition(m_positions)
      /\ shown # << >> => shown = m_positions
      /\ \A name \in DOMAIN netnodes \ {EmptyName} :
             Holds(m_positions, [name |-> name, pos |-> netnodes[name]])
  BY GhostsAreHeld DEF TimelineInv, TypeOK, FiniteNetnodes, SortedTimeline, RowsAreEntries
<1>1. CASE PositionChooserCtor
  <2>1. /\ m_positions' \in Seq(Entry)
        /\ IsSortedByPosition(m_positions')
        /\ \A e \in Loadable(netnodes) : Holds(m_positions', e)
    BY <1>0, <1>1, LoadedType DEF PositionChooserCtor
  <2>2. \A name \in DOMAIN netnodes \ {EmptyName} :
            Holds(m_positions', [name |-> name, pos |-> netnodes[name]])
    BY <2>1 DEF Loadable
  <2> QED
    BY <1>0, <1>1, <2>1, <2>2, TimelineChanged DEF PositionChooserCtor
<1>2. CASE StartProcess
  <2>1. CASE m_positions # << >>
    <3>1. UNCHANGED <<m_positions, netnodes, m_isClosed, shown, m_nextPosition>>
      BY <1>2, <2>1 DEF StartProcess, populatePositionChooser
    <3>2. m_cursor' \in Positions
      BY <1>2, TimelineAssumption DEF StartProcess
    <3> QED
      BY <1>0, <3>1, <3>2, TimelineChanged
  <2>2. CASE m_positions = << >>
    <3>1. AddAll(NotableEvents)
      BY <1>2, <2>2 DEF StartProcess, populatePositionChooser
    <3>2. shown' = << >>
      BY <1>0, <1>2, <2>2 DEF StartProcess
    <3>3. /\ m_cursor' \in Positions
          /\ UNCHANGED <<m_isClosed, m_nextPosition>>
      BY <1>2, TimelineAssumption DEF StartProcess
    <3>4. NotableEvents \in Seq(Entry)
      BY TimelineAssumption
    <3> QED
      BY <1>0, <3>1, <3>2, <3>3, <3>4, AddAllKeeps, TimelineChanged
  <2> QED
    BY <2>1, <2>2
<1>3. CASE CursorMoves
  <2>1. m_cursor' \in Positions
    BY <1>0, <1>3 DEF CursorMoves
  <2>2. UNCHANGED <<m_positions, m_isClosed, netnodes, shown>> /\ m_nextPosition' = NoPosition
    BY <1>3 DEF CursorMoves
  <2> QED
    BY <1>0, <2>1, <2>2, TimelineChanged
<1>4. CASE choose \/ closed
  <2>1. UNCHANGED <<m_positions, m_cursor, netnodes, m_nextPosition>>
    BY <1>4 DEF choose, closed
  <2>2. m_isClosed' \in BOOLEAN /\ shown' \in {m_positions, << >>}
    BY <1>4 DEF choose, closed
  <2> QED
    BY <1>0, <2>1, <2>2, TimelineChanged
<1>5. CASE ins
  <2>1. PICK name \in UserNames : AddAll(<<[name |-> name, pos |-> m_cursor]>>)
    BY <1>5 DEF ins
  <2>2. m_cursor \in Positions
    BY <1>0, <1>5 DEF ins
  <2>3. [name |-> name, pos |-> m_cursor] \in Entry
    BY <2>2 DEF Entry, Names
  <2> DEFINE e == [name |-> name, pos |-> m_cursor]
  <2>4. <<e>> \in Seq(Entry)
    BY <2>3
  <2>5. shown' = m_positions' /\ UNCHANGED <<m_cursor, m_isClosed, m_nextPosition>>
    BY <1>5 DEF ins
  <2> QED
    BY <1>0, <2>1, <2>4, <2>5, AddAllKeeps, TimelineChanged
<1>6. CASE del
  <2>1. PICK n \in DOMAIN shown :
          /\ n <= Len(m_positions)
          /\ netnodes' = Restrict(netnodes, DOMAIN netnodes \ {m_positions[n].name})
          /\ m_positions' = [i \in 1 .. Len(m_positions) - 1 |->
                                 m_positions[IF i < n THEN i ELSE i + 1]]
    BY <1>6 DEF del
  <2>2. n \in Nat \ {0}
    BY <1>0, LenProperties
  <2>3. /\ m_positions' \in Seq(Entry)
        /\ IsSortedByPosition(m_positions')
        /\ \A i \in DOMAIN m_positions \ {n} : Holds(m_positions', m_positions[i])
    BY <1>0, <2>1, <2>2, RemovedType
  <2>4. /\ DOMAIN netnodes' = DOMAIN netnodes \ {m_positions[n].name}
        /\ \A name \in DOMAIN netnodes' : netnodes'[name] = netnodes[name]
        /\ netnodes' \in [DOMAIN netnodes' -> Positions]
    BY <1>0, <2>1 DEF Restrict
  <2>5. IsFiniteSet(DOMAIN netnodes')
    BY <1>0, <2>4, FS_Subset
  <2>6. ASSUME NEW name \in DOMAIN netnodes' \ {EmptyName}
        PROVE  Holds(m_positions', [name |-> name, pos |-> netnodes'[name]])
    <3>1. Holds(m_positions, [name |-> name, pos |-> netnodes[name]])
      BY <1>0, <2>4, <2>6
    <3>2. PICK i \in DOMAIN m_positions :
            m_positions[i] = [name |-> name, pos |-> netnodes[name]]
      BY <3>1 DEF Holds
    <3>3. i # n
      BY <2>4, <2>6, <3>2
    <3> QED
      BY <2>3, <2>4, <3>2, <3>3
  <2>7. shown' = m_positions' /\ UNCHANGED <<m_cursor, m_isClosed, m_nextPosition>>
    BY <1>6 DEF del
  <2>8. DOMAIN netnodes' \subseteq Names
    BY <1>0, <2>4
  <2> QED
    BY <1>0, <2>3, <2>4, <2>5, <2>6, <2>7, <2>8, TimelineChanged
<1>7. CASE get_ea
  <2>1. PICK n \in DOMAIN shown : n <= Len(m_positions) /\ m_nextPosition' = m_positions[n].pos
    BY <1>7 DEF get_ea
  <2>2. n \in DOMAIN m_positions
    BY <1>0, <2>1, LenProperties
  <2>3. m_positions[n] \in Entry
    BY <1>0, <2>2, LenProperties, ElementOfSeq
  <2>4. m_positions[n].pos \in Positions
    BY <2>3 DEF Entry
  <2>5. m_nextPosition' \in Positions
    BY <2>1, <2>4
  <2>6. UNCHANGED <<m_positions, m_cursor, m_isClosed, netnodes, shown>>
    BY <1>7 DEF get_ea
  <2> QED
    BY <1>0, <2>5, <2>6, TimelineChanged
<1>8. CASE UNCHANGED vars
  BY <1>0, <1>8, TimelineChanged DEF vars
<1> QED
  BY <1>1, <1>2, <1>3, <1>4, <1>5, <1>6, <1>7, <1>8 DEF Next

LEMMA TimelineInvariant == Spec => []TimelineInv
BY TimelineInit, TimelineStep, PTL DEF Spec

(* The entries are in the order of the trace, after any insertions,         *)
(* deletions, sessions and reloads of the database.                         *)
THEOREM TimelineIsSorted == Spec => []SortedTimeline
BY TimelineInvariant, PTL DEF TimelineInv

(* Every netnode that loads is an entry of the list, whatever names the     *)
(* entries share: what was deleted or overwritten does not come back.       *)
THEOREM NoGhosts == Spec => []NoGhostNetnode
BY TimelineInvariant, PTL DEF TimelineInv

(* The row the user clicks is the entry get_ea and del take.                *)
THEOREM RowsAreCurrent == Spec => []RowsAreEntries
BY TimelineInvariant, PTL DEF TimelineInv

(* The types of the timeline; the netnodes have names the list can hold.    *)
THEOREM TimelineTypes == Spec => []TypeOK
BY TimelineInvariant, PTL DEF TimelineInv
------------------------------------------------------------------------------
(* Entries that are only in the list once. *)
Own(e) == e.name \in EventNames \ UserNames

OnceIn(list) == \A i, j \in DOMAIN list : list[i] = list[j] /\ Own(list[i]) => i = j

LEMMA SortedOnce ==
    ASSUME NEW list, OnceIn(list), NEW sorted \in sortPositions(list)
    PROVE  OnceIn(sorted)
<1>1. PICK order \in Bijection(DOMAIN list, DOMAIN list) :
        sorted = [i \in DOMAIN list |-> list[order[i]]]
  BY DEF sortPositions
<1>2. /\ order \in [DOMAIN list -> DOMAIN list]
      /\ \A i, j \in DOMAIN list : order[i] = order[j] => i = j
  BY DEF Bijection, Injection, IsInjective
<1> QED
  BY <1>1, <1>2 DEF OnceIn

LEMMA LoadedOnce ==
    ASSUME NEW nodes, NEW loaded \in loadPositions(nodes)
    PROVE  OnceIn(loaded)
<1>1. PICK list \in Bijection(1 .. Cardinality(Loadable(nodes)), Loadable(nodes)) :
        loaded \in sortPositions(list)
  BY DEF loadPositions
<1>2. \A i, j \in DOMAIN list : list[i] = list[j] => i = j
  BY DEF Bijection, Injection, IsInjective
<1> QED
  BY <1>1, <1>2, SortedOnce DEF OnceIn

LEMMA InsertedOnce ==
    ASSUME NEW list \in Seq(Entry), OnceIn(list), NEW e \in Entry, e.name \in UserNames
    PROVE  OnceIn(list \o <<e>>)
<1> DEFINE longer == list \o <<e>>
<1>1. /\ Len(list) \in Nat
      /\ DOMAIN list = 1 .. Len(list) /\ DOMAIN longer = 1 .. Len(list) + 1
      /\ \A i \in 1 .. Len(list) : longer[i] = list[i]
      /\ longer[Len(list) + 1] = e
  OBVIOUS
<1> HIDE DEF longer
<1>2. \A i \in DOMAIN longer : Own(longer[i]) => i \in DOMAIN list /\ longer[i] = list[i]
  <2>1. \A i \in 1 .. Len(list) + 1 : i \in 1 .. Len(list) \/ i = Len(list) + 1
    BY <1>1
  <2> QED
    BY <1>1, <2>1 DEF Own
<1>3. OnceIn(longer)
  BY <1>2 DEF OnceIn
<1> QED
  BY <1>3 DEF longer

LEMMA RemovedOnce ==
    ASSUME NEW list \in Seq(Entry), OnceIn(list), NEW n \in Nat
    PROVE  OnceIn([i \in 1 .. Len(list) - 1 |-> list[IF i < n THEN i ELSE i + 1]])
<1> DEFINE from(i) == IF i < n THEN i ELSE i + 1
<1>1. Len(list) \in Nat /\ DOMAIN list = 1 .. Len(list)
  OBVIOUS
<1>2. \A i \in 1 .. Len(list) - 1 : from(i) \in DOMAIN list
  BY <1>1
<1>3. \A i, j \in 1 .. Len(list) - 1 : from(i) = from(j) => i = j
  BY <1>1
<1> HIDE DEF from
<1>4. OnceIn([i \in 1 .. Len(list) - 1 |-> list[from(i)]])
  BY <1>2, <1>3 DEF OnceIn
<1> QED
  BY <1>4 DEF from

LEMMA NextOnce ==
    ASSUME OnceIn(NotableEvents)
    PROVE  TimelineInv /\ OnceIn(m_positions) /\ [Next]_vars => OnceIn(m_positions)'
<1> SUFFICES ASSUME TimelineInv, OnceIn(m_positions), [Next]_vars PROVE OnceIn(m_positions')
  OBVIOUS
<1>1. m_positions \in Seq(Entry) /\ m_cursor \in Positions \cup {NoPosition}
  BY DEF TimelineInv, TypeOK
<1>2. CASE PositionChooserCtor
  BY <1>2, LoadedOnce DEF PositionChooserCtor
<1>3. CASE StartProcess
  <2>1. CASE m_positions' = m_positions
    BY <2>1
  <2>2. CASE m_positions = << >> /\ AddAll(NotableEvents)
    <3>1. << >> \o NotableEvents = NotableEvents
      BY TimelineAssumption DEF TimelineAssumption
    <3>2. m_positions' \in sortPositions(NotableEvents)
      BY <2>2, <3>1 DEF AddAll
    <3> QED
      BY <3>2, SortedOnce
  <2> QED
    BY <1>3, <2>1, <2>2 DEF StartProcess, populatePositionChooser
<1>4. CASE ins
  <2>1. PICK name \in UserNames : AddAll(<<[name |-> name, pos |-> m_cursor]>>)
    BY <1>4 DEF ins
  <2> DEFINE e == [name |-> name, pos |-> m_cursor]
  <2>2. e \in Entry /\ e.name \in UserNames
    BY <1>1, <1>4 DEF ins, Entry, Names
  <2>3. m_positions' \in sortPositions(m_positions \o <<e>>)
    BY <2>1 DEF AddAll
  <2> HIDE DEF e
  <2> QED
    BY <1>1, <2>2, <2>3, InsertedOnce, SortedOnce
<1>5. CASE del
  <2>1. PICK n \in DOMAIN shown :
          m_positions' = [i \in 1 .. Len(m_positions) - 1 |->
                              m_positions[IF i < n THEN i ELSE i + 1]]
    BY <1>5 DEF del
  <2>2. n \in Nat
    BY DEF TimelineInv, TypeOK
  <2> QED
    BY <1>1, <2>1, <2>2, RemovedOnce
<1>6. CASE CursorMoves \/ choose \/ closed \/ get_ea \/ UNCHANGED vars
  <2>1. m_positions' = m_positions
    BY <1>6 DEF CursorMoves, choose, closed, get_ea, vars
  <2> QED
    BY <2>1
<1> QED
  BY <1>2, <1>3, <1>4, <1>5, <1>6 DEF Next

(* The notable events of a trace, which are all different, are never       *)
(* listed twice: neither by another process nor by a reload.               *)
THEOREM NotableEventsOnce ==
    ASSUME \A i, j \in DOMAIN NotableEvents : NotableEvents[i] = NotableEvents[j] => i = j
    PROVE  Spec => []EventsListedOnce
<1>1. OnceIn(NotableEvents)
  BY DEF OnceIn
<1>2. Init => OnceIn(m_positions)
  BY DEF Init, OnceIn
<1>3. TimelineInv /\ OnceIn(m_positions) /\ [Next]_vars => OnceIn(m_positions)'
  BY <1>1, NextOnce
<1>4. OnceIn(m_positions) => EventsListedOnce
  BY DEF OnceIn, Own, EventsListedOnce
<1> QED
  BY <1>2, <1>3, <1>4, TimelineInvariant, PTL DEF Spec
==============================================================================
