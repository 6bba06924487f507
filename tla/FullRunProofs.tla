---------------------------- MODULE FullRunProofs ----------------------------
(***************************************************************************)
(* A full run goes over the whole life of every thread, although it takes  *)
(* the created and terminated events of different threads together, and    *)
(* records every call of a traced function once for each thread that is    *)
(* alive there: for every number of threads, every trace, any breakpoints  *)
(* and any number of recorders.                                            *)
(***************************************************************************)
EXTENDS TracedRun, TTDReplayProofs, FiniteSetTheorems, TLAPS

Thread == 1 .. NThreads

(* What pairing the two lists by index keeps of the lives. *)
Paired ==
    /\ created \in [Thread -> Position]
    /\ terminated \in [Thread -> Position]
    /\ \A j \in Thread : created[j] <= terminated[j]
    /\ \A p \in Alive : \E j \in Thread : created[j] <= p /\ p <= terminated[j]

(* The part of the trace the i-th iteration is for. *)
Span(j) == created[j] .. terminated[j]

Progress ==
    /\ pc = "thread" => i \in 1 .. NThreads + 1 /\ old \in Position
    /\ pc = "replay" =>
           /\ i \in Thread /\ old \in Position
           /\ created[i] <= m_cursor /\ m_cursor <= terminated[i]
           /\ created[i] .. m_cursor - 1 \subseteq replayed
    /\ pc = "restore" => old \in Position
    /\ pc = "done" => m_cursor = old
    /\ pc \in {"thread", "replay"} /\ ~cancelled =>
           \A j \in Thread : j < i => Span(j) \subseteq replayed
    /\ pc \in {"restore", "done"} /\ ~cancelled =>
           \A j \in Thread : Span(j) \subseteq replayed

RunInv == TypeOK /\ Paired /\ Progress
------------------------------------------------------------------------------
(* A list of events is the positions in some order of the threads. *)
Ordered(list, positions) ==
    /\ list \in [Thread -> Position]
    /\ \A j, k \in Thread : j < k => list[j] <= list[k]
    /\ \E order \in [Thread -> Thread] :
          /\ \A j \in Thread : list[j] = positions[order[j]]
          /\ \A j, k \in Thread : order[j] = order[k] => j = k
          /\ \A t \in Thread : \E j \in Thread : order[j] = t

LEMMA EventListOrder ==
    ASSUME NEW positions \in [Thread -> Position], NEW list \in EventList(positions)
    PROVE  Ordered(list, positions)
<1>1. PICK order \in Bijection(Thread, Thread) :
          list = [j \in Thread |-> positions[order[j]]] /\ Sorted(list)
    BY DEF EventList
<1>2. /\ order \in [Thread -> Thread]
      /\ \A j, k \in Thread : order[j] = order[k] => j = k
      /\ \A t \in Thread : \E j \in Thread : order[j] = t
    BY <1>1 DEF Bijection, Injection, Surjection, IsInjective
<1>3. list \in [Thread -> Position] /\ \A j \in Thread : list[j] = positions[order[j]]
    BY <1>1, <1>2
<1> QED BY <1>1, <1>2, <1>3 DEF Sorted, Ordered

LEMMA Naturals ==
    /\ NThreads \in Nat /\ Thread = 1 .. NThreads
    /\ \A j \in Thread : j \in Nat /\ 1 <= j /\ j <= NThreads
    /\ \A a, b, c, d \in Nat : a <= b /\ b <= c /\ ~(d <= c) => ~(d <= b) /\ ~(d <= a) /\ a <= d
BY FullRunAssumption DEF Thread, FullRunAssumption

(* More threads than places in a list. *)
LEMMA TooMany ==
    ASSUME NEW m \in Nat, NEW n \in Nat, n < m, NEW f \in [1 .. m -> 1 .. n],
           \A j, k \in 1 .. m : f[j] = f[k] => j = k
    PROVE  FALSE
<1>1. IsFiniteSet(1 .. m) /\ IsFiniteSet(1 .. n)
    BY FS_Interval
<1>2. Cardinality(1 .. m) = m /\ Cardinality(1 .. n) = n
    BY FS_Interval
<1>3. \E x, y \in 1 .. m : x # y /\ f[x] = f[y]
    BY <1>1, <1>2, FS_PigeonHole
<1> QED BY <1>3

(* The first and the last positions in their orders: thread t is the       *)
(* place[t]-th to start and last[j] is the j-th to end.                    *)
Ranked(starts, ends, place, last) ==
    /\ starts \in [Thread -> Nat]
    /\ ends \in [Thread -> Nat]
    /\ \A j, k \in Thread : j <= k => starts[j] <= starts[k] /\ ends[j] <= ends[k]
    /\ place \in [Thread -> Thread]
    /\ last \in [Thread -> Thread]
    /\ \A s, t \in Thread : place[s] = place[t] => s = t
    /\ \A j, k \in Thread : last[j] = last[k] => j = k
    /\ \A j \in Thread : starts[place[last[j]]] <= ends[j]

(* The i-th first and the i-th last position are in this order: otherwise  *)
(* the i threads that end earliest would be more than the threads that     *)
(* start before.                                                           *)
LEMMA StartsBeforeEnds ==
    ASSUME NEW starts, NEW ends, NEW place, NEW last, Ranked(starts, ends, place, last),
           NEW i0 \in Thread
    PROVE  starts[i0] <= ends[i0]
<1> SUFFICES ASSUME ~(starts[i0] <= ends[i0]) PROVE FALSE
    OBVIOUS
<1> DEFINE f == [k \in 1 .. i0 |-> place[last[k]]]
<1>1. ASSUME NEW k \in 1 .. i0
      PROVE  k \in Thread /\ last[k] \in Thread /\ place[last[k]] \in 1 .. i0 - 1
  <2>1. k \in Thread /\ k <= i0
      BY Naturals
  <2>2. last[k] \in Thread
      BY <2>1 DEF Ranked
  <2>3. place[last[k]] \in Thread
      BY <2>2 DEF Ranked
  <2>4. starts[place[last[k]]] <= ends[k] /\ ends[k] <= ends[i0]
      BY <2>1 DEF Ranked
  <2>5. starts[place[last[k]]] \in Nat /\ ends[k] \in Nat /\ ends[i0] \in Nat /\ starts[i0] \in Nat
      BY <2>1, <2>3 DEF Ranked
  <2>6. ~(starts[i0] <= starts[place[last[k]]])
      BY <2>4, <2>5
  <2>7. ~(i0 <= place[last[k]])
      BY <2>3, <2>6 DEF Ranked
  <2> QED BY <2>1, <2>2, <2>3, <2>7, Naturals
<1>2. f \in [1 .. i0 -> 1 .. i0 - 1]
    BY <1>1
<1>3. \A k, l \in 1 .. i0 : f[k] = f[l] => k = l
    BY <1>1 DEF Ranked
<1> HIDE DEF f
<1>4. i0 \in Nat /\ i0 - 1 \in Nat /\ i0 - 1 < i0
    BY Naturals
<1> QED BY <1>2, <1>3, <1>4, TooMany

(* A position of a life is between the i-th first and the i-th last        *)
(* position, where i is how many threads have started there: otherwise i   *)
(* of them would have ended, and the life's own thread besides.            *)
LEMMA SomeSpan ==
    ASSUME NEW starts, NEW ends, NEW place, NEW last, Ranked(starts, ends, place, last),
           NEW t \in Thread, NEW p \in Nat, starts[place[t]] <= p,
           \A j \in Thread : last[j] = t => p <= ends[j]
    PROVE  \E j \in Thread : starts[j] <= p /\ p <= ends[j]
<1> DEFINE S == {j \in Thread : starts[j] <= p}
<1>1. S \in SUBSET Nat /\ \A j \in S : j <= NThreads
    BY Naturals
<1>2. place[t] \in S
    BY DEF Ranked
<1>3. Max(S) \in S /\ \A j \in S : Max(S) >= j
  <2> HIDE DEF S
  <2> QED BY Naturals, <1>1, <1>2, MaxProperty
<1>4. PICK k \in Thread : starts[k] <= p /\ \A j \in Thread : starts[j] <= p => k >= j
    BY <1>3
<1> HIDE DEF S
<1> SUFFICES ASSUME ~(p <= ends[k]) PROVE FALSE
    BY <1>4
<1> DEFINE f == [j \in 1 .. k + 1 |-> IF j = k + 1 THEN place[t] ELSE place[last[j]]]
<1>5. ASSUME NEW j \in 1 .. k
      PROVE  /\ j \in Thread /\ last[j] \in Thread /\ last[j] # t
             /\ place[last[j]] \in 1 .. k /\ place[last[j]] # place[t]
  <2>1. j \in Thread /\ j <= k
      BY Naturals
  <2>2. last[j] \in Thread
      BY <2>1 DEF Ranked
  <2>3. place[last[j]] \in Thread
      BY <2>2 DEF Ranked
  <2>4. starts[place[last[j]]] <= ends[j] /\ ends[j] <= ends[k]
      BY <2>1 DEF Ranked
  <2>5. starts[place[last[j]]] \in Nat /\ ends[j] \in Nat /\ ends[k] \in Nat
      BY <2>1, <2>3 DEF Ranked
  <2>6. ~(p <= ends[j]) /\ starts[place[last[j]]] <= p
      BY <2>4, <2>5
  <2>7. last[j] # t
      BY <2>1, <2>6
  <2>8. place[last[j]] <= k
      BY <1>4, <2>3, <2>6
  <2>9. place[last[j]] # place[t]
      BY <2>2, <2>7 DEF Ranked
  <2> QED BY <2>1, <2>2, <2>3, <2>7, <2>8, <2>9, Naturals
<1>6. place[t] \in 1 .. k /\ k \in Nat
    BY <1>4, Naturals DEF Ranked
<1>7. f \in [1 .. k + 1 -> 1 .. k]
  <2>1. \A j \in 1 .. k + 1 : j # k + 1 => j \in 1 .. k
      BY <1>6
  <2>2. \A j \in 1 .. k + 1 :
            (IF j = k + 1 THEN place[t] ELSE place[last[j]]) \in 1 .. k
      BY <1>5, <1>6, <2>1
  <2> QED BY <2>2
<1>8. ASSUME NEW j \in 1 .. k + 1, NEW l \in 1 .. k + 1, f[j] = f[l]
      PROVE  j = l
  <2>1. CASE j = k + 1 \/ l = k + 1
    <3>1. ASSUME NEW x \in 1 .. k + 1, x # k + 1 PROVE f[x] = place[last[x]] /\ x \in 1 .. k
        BY <1>6, <3>1
    <3>2. f[k + 1] = place[t]
        BY <1>6
    <3> HIDE DEF f
    <3> QED BY <1>5, <1>8, <2>1, <3>1, <3>2
  <2>2. CASE j # k + 1 /\ l # k + 1
    <3>1. j \in 1 .. k /\ l \in 1 .. k
        BY <1>6, <2>2
    <3>2. place[last[j]] = place[last[l]]
        BY <1>8, <2>2
    <3>3. last[j] = last[l]
        BY <1>5, <3>1, <3>2 DEF Ranked
    <3> QED BY <1>5, <3>1, <3>3 DEF Ranked
  <2> QED BY <2>1, <2>2
<1>9. \A j, l \in 1 .. k + 1 : f[j] = f[l] => j = l
    BY <1>8
<1> HIDE DEF f
<1>10. k \in Nat /\ k + 1 \in Nat /\ k < k + 1
    BY Naturals
<1> QED BY <1>7, <1>9, <1>10, TooMany

LEMMA PairingCovers ==
    ASSUME lives \in [Thread -> Lifetime],
           created \in EventList([t \in Thread |-> lives[t][1]]),
           terminated \in EventList([t \in Thread |-> lives[t][2]])
    PROVE  Paired
<1> DEFINE A == [t \in Thread |-> lives[t][1]]
<1> DEFINE B == [t \in Thread |-> lives[t][2]]
<1>1. /\ A \in [Thread -> Position] /\ B \in [Thread -> Position]
      /\ \A t \in Thread : A[t] <= B[t]
    BY DEF Lifetime
<1>2. Alive = UNION {A[t] .. B[t] : t \in Thread}
    BY DEF Alive, Thread
<1>3. created \in EventList(A) /\ terminated \in EventList(B)
    OBVIOUS
<1> HIDE DEF A, B
<1> Ordered(created, A) /\ Ordered(terminated, B)
    BY <1>1, <1>3, EventListOrder
<1>4. /\ created \in [Thread -> Position]
      /\ \A j, k \in Thread : j < k => created[j] <= created[k]
      /\ \E order \in [Thread -> Thread] :
            /\ \A j \in Thread : created[j] = A[order[j]]
            /\ \A t \in Thread : \E j \in Thread : order[j] = t
    BY DEF Ordered
<1>5. /\ terminated \in [Thread -> Position]
      /\ \A j, k \in Thread : j < k => terminated[j] <= terminated[k]
      /\ \E order \in [Thread -> Thread] :
            /\ \A j \in Thread : terminated[j] = B[order[j]]
            /\ \A j, k \in Thread : order[j] = order[k] => j = k
    BY DEF Ordered
<1>6. PICK first \in [Thread -> Thread] :
          /\ \A j \in Thread : created[j] = A[first[j]]
          /\ \A t \in Thread : \E j \in Thread : first[j] = t
    BY <1>4
<1>7. PICK last \in [Thread -> Thread] :
          /\ \A j \in Thread : terminated[j] = B[last[j]]
          /\ \A j, k \in Thread : last[j] = last[k] => j = k
    BY <1>5
<1> DEFINE place == [t \in Thread |-> CHOOSE j \in Thread : first[j] = t]
<1>8. /\ place \in [Thread -> Thread]
      /\ \A t \in Thread : first[place[t]] = t
    BY <1>6
<1> HIDE DEF place
<1>9. \A t \in Thread : created[place[t]] = A[t]
    BY <1>6, <1>8
<1>10. \A s, t \in Thread : place[s] = place[t] => s = t
    BY <1>8
<1>11. NThreads \in Nat /\ Thread = 1 .. NThreads /\ Position \subseteq Nat
    BY FullRunAssumption, PositionsAreNaturals DEF Thread, FullRunAssumption
<1>12. created \in [Thread -> Nat] /\ terminated \in [Thread -> Nat]
    BY <1>4, <1>5, <1>11
<1>13. \A j, k \in Thread : j <= k => created[j] <= created[k] /\ terminated[j] <= terminated[k]
  <2>1. \A j \in Thread : created[j] <= created[j] /\ terminated[j] <= terminated[j]
      BY <1>12
  <2>2. \A j, k \in Thread : j <= k => j < k \/ j = k
      BY Naturals
  <2> QED BY <1>4, <1>5, <2>1, <2>2, Zenon
<1>14. \A j \in Thread : created[place[last[j]]] <= terminated[j]
    BY <1>1, <1>7, <1>9
<1> Ranked(created, terminated, place, last)
    BY <1>7, <1>8, <1>10, <1>12, <1>13, <1>14 DEF Ranked
<1>15. ASSUME NEW j \in Thread PROVE created[j] <= terminated[j]
    BY StartsBeforeEnds
<1>16. ASSUME NEW p \in Alive
       PROVE  \E j \in Thread : created[j] <= p /\ p <= terminated[j]
  <2>1. PICK t \in Thread : p \in A[t] .. B[t]
      BY <1>2
  <2>2. A[t] \in Nat /\ B[t] \in Nat
      BY <1>1, <1>11
  <2>3. p \in Nat /\ A[t] <= p /\ p <= B[t]
      BY <2>1, <2>2
  <2>4. created[place[t]] <= p
      BY <1>9, <2>3
  <2>5. \A j \in Thread : last[j] = t => p <= terminated[j]
      BY <1>7, <2>3
  <2> QED BY <2>3, <2>4, <2>5, SomeSpan
<1> QED BY <1>4, <1>5, <1>15, <1>16 DEF Paired
------------------------------------------------------------------------------
LEMMA InitRunInv == Init => RunInv
<1> SUFFICES ASSUME Init PROVE RunInv
    OBVIOUS
<1>1. Paired
    BY PairingCovers DEF Init, Thread
<1>2. created \in Seq(Position) /\ terminated \in Seq(Position) /\ Len(created) = NThreads
    BY <1>1, FullRunAssumption DEF Paired, Thread, FullRunAssumption
<1>3. TypeOK
  <2>1. i \in 0 .. Len(created) + 1
      BY <1>2, Naturals DEF Init
  <2> QED BY <1>2, <2>1 DEF Init, TypeOK
<1>4. Progress
    BY DEF Init, Progress
<1> QED BY <1>1, <1>3, <1>4 DEF RunInv

LEMMA NextRunInv == RunInv /\ [Next]_vars => RunInv'
<1> SUFFICES ASSUME RunInv, [Next]_vars PROVE RunInv'
    OBVIOUS
<1> USE DEF RunInv
<1>1. /\ NThreads \in Nat \ {0} /\ TTD_STEP \in Int /\ Position \subseteq Nat
      /\ Len(created) = NThreads
    BY FullRunAssumption, PositionsAreNaturals DEF Paired, Thread, TypeOK, FullRunAssumption
<1>2. UNCHANGED trace
    BY DEF Next, Run, requestFullRun, NextThread, ReplayStep, Restore, Cancel, vars
<1>3. Paired' /\ created \in [Thread -> Position] /\ terminated \in [Thread -> Position]
    BY <1>2 DEF Paired, trace, Alive
<1>4. \A p \in Position : SetPosition(p) = p
    BY PositionAssumption DEF SetPosition, Position
<1>5. CASE requestFullRun
  <2>1. TypeOK'
      BY <1>1, <1>2, <1>5 DEF requestFullRun, TypeOK, trace
  <2>2. Progress'
      BY <1>1, <1>5 DEF requestFullRun, TypeOK, Progress, Thread, trace
  <2> QED BY <1>3, <2>1, <2>2
<1>6. CASE NextThread
  <2>1. CASE i <= Len(created) /\ (i = 1 \/ ~cancelled)
    <3>1. i \in Thread /\ old \in Position
        BY <1>1, <1>6, <2>1 DEF NextThread, Progress, Thread
    <3>2. m_cursor' = created[i] /\ pc' = "replay" /\ created[i] \in Position
        BY <1>3, <1>4, <1>6, <2>1, <3>1 DEF NextThread
    <3>3. created[i] <= terminated[i]
        BY <3>1 DEF Paired
    <3>4. UNCHANGED <<trace, old, i, cancelled, replayed>>
        BY <1>6 DEF NextThread
    <3>5. TypeOK'
        BY <3>2, <3>4 DEF TypeOK, trace
    <3>6. \A j \in Thread : ~cancelled /\ j < i => Span(j) \subseteq replayed
        BY <1>6 DEF NextThread, Progress
    <3>7. created[i] .. created[i] - 1 = {}
      <4>1. \A p \in Nat : p .. p - 1 = {}
          OBVIOUS
      <4> QED BY <1>1, <3>2, <4>1
    <3>8. Progress'
      <4>1. created' = created /\ terminated' = terminated /\ i' = i /\ old' = old
              /\ cancelled' = cancelled /\ replayed' = replayed
          BY <3>4 DEF trace
      <4>2. created[i] <= created[i]
        <5>1. \A p \in Nat : p <= p
            OBVIOUS
        <5> QED BY <1>1, <3>2, <5>1
      <4>3. \A j \in Thread : Span(j)' = Span(j)
          BY <4>1 DEF Span
      <4> QED BY <3>1, <3>2, <3>3, <3>6, <3>7, <4>1, <4>2, <4>3 DEF Progress
    <3> QED BY <1>3, <3>5, <3>8
  <2>2. CASE ~(i <= Len(created) /\ (i = 1 \/ ~cancelled))
    <3>1. pc = "thread" /\ pc' = "restore" /\ UNCHANGED <<trace, m_cursor, old, i, cancelled, replayed>>
        BY <1>6, <2>2 DEF NextThread
    <3>2. TypeOK'
        BY <3>1 DEF TypeOK, trace
    <3>3. ~cancelled => i = NThreads + 1
        BY <1>1, <2>2, <3>1 DEF Progress
    <3>4. ~cancelled => \A j \in Thread : Span(j) \subseteq replayed
        BY <1>1, <3>1, <3>3 DEF Progress, Thread
    <3>5. Progress'
        BY <3>1, <3>4 DEF Progress, Span, trace
    <3> QED BY <1>3, <3>2, <3>5
  <2> QED BY <2>1, <2>2
<1>7. CASE ReplayStep
  <2>1. /\ pc = "replay" /\ i \in Thread /\ old \in Position /\ m_cursor \in Position
        /\ created[i] <= m_cursor /\ m_cursor <= terminated[i]
        /\ created[i] .. m_cursor - 1 \subseteq replayed
        /\ created[i] \in Position /\ terminated[i] \in Position
      BY <1>3, <1>7 DEF ReplayStep, Progress, TypeOK
  <2>2. UNCHANGED <<trace, old, cancelled>>
      BY <1>7 DEF ReplayStep
  <2>3. ASSUME NEW to \in Position, m_cursor <= to, to <= terminated[i],
               m_cursor' = to, replayed' = replayed \cup (m_cursor .. to)
        PROVE  /\ replayed' \subseteq Position
               /\ created[i] <= to
               /\ created[i] .. to \subseteq replayed'
    <3>1. m_cursor .. to \subseteq Position
        BY <2>1, <2>3, PositionAssumption DEF Position
    <3>2. \A q \in created[i] .. to :
              q \in created[i] .. m_cursor - 1 \/ q \in m_cursor .. to
        BY <1>1, <2>1, <2>3
    <3>3. created[i] .. m_cursor - 1 \subseteq replayed
        BY <2>1
    <3>4. created[i] \in Nat /\ m_cursor \in Nat /\ to \in Nat
        BY <1>1, <2>1
    <3>5. created[i] <= to
        BY <2>1, <2>3, <3>4
    <3>6. created[i] .. to \subseteq replayed'
        BY <2>3, <3>2, <3>3
    <3>7. replayed' \subseteq Position
        BY <2>3, <3>1 DEF TypeOK
    <3> QED BY <3>5, <3>6, <3>7
  <2>4. \E to \in Position :
            /\ m_cursor <= to /\ to <= terminated[i]
            /\ m_cursor' = to /\ replayed' = replayed \cup (m_cursor .. to)
            /\ \/ /\ UNCHANGED <<i, pc>>
               \/ /\ i' = i + 1 /\ pc' = "thread"
                  /\ ~cancelled => to = terminated[i]
    <3>1. CASE m_cursor = terminated[i]
      <4>1. m_cursor .. m_cursor = {m_cursor}
          BY <1>1, <2>1
      <4> QED BY <1>1, <1>7, <2>1, <3>1, <4>1 DEF ReplayStep, LeaveWhile
    <3>2. CASE m_cursor # terminated[i]
      <4> DEFINE to == ReplayForward(m_cursor, terminated[i], TTD_STEP, watchpoints)
      <4>1. to \in Position /\ m_cursor <= to /\ to <= terminated[i]
          BY <1>1, <2>1, ReplayForwardStops
      <4>2. m_cursor' = to /\ replayed' = replayed \cup (m_cursor .. to)
          BY <1>7, <3>2 DEF ReplayStep, ReplayTo
      <4>3. \/ UNCHANGED <<i, pc>>
            \/ i' = i + 1 /\ pc' = "thread" /\ cancelled
          BY <1>7, <3>2 DEF ReplayStep, LeaveWhile
      <4> HIDE DEF to
      <4> QED BY <4>1, <4>2, <4>3
    <3> QED BY <3>1, <3>2
  <2>5. PICK to \in Position :
            /\ m_cursor <= to /\ to <= terminated[i]
            /\ m_cursor' = to /\ replayed' = replayed \cup (m_cursor .. to)
            /\ \/ /\ UNCHANGED <<i, pc>>
               \/ /\ i' = i + 1 /\ pc' = "thread"
                  /\ ~cancelled => to = terminated[i]
      BY <2>4
  <2>6. /\ replayed' \subseteq Position
        /\ created[i] <= to
        /\ created[i] .. to \subseteq replayed'
      BY <2>3, <2>5
  <2>7. i' \in 1 .. NThreads + 1 /\ pc' \in {"thread", "replay"}
      BY <1>1, <2>1, <2>5 DEF Thread
  <2>8. TypeOK'
      BY <1>1, <2>2, <2>5, <2>6, <2>7 DEF TypeOK, trace
  <2>9. ASSUME ~cancelled, NEW j \in Thread, j < i'
        PROVE  Span(j) \subseteq replayed'
    <3>1. CASE j < i
        BY <2>1, <2>5, <2>9, <3>1 DEF Progress
    <3>2. CASE ~(j < i)
      <4>1. j = i /\ to = terminated[i]
          BY <1>1, <2>1, <2>5, <2>9, <3>2 DEF Thread
      <4> QED BY <2>6, <4>1 DEF Span
    <3> QED BY <3>1, <3>2
  <2>10. ASSUME pc' = "replay"
         PROVE  /\ i' = i /\ created[i] <= to /\ to <= terminated[i]
                /\ created[i] .. to - 1 \subseteq replayed'
    <3>1. created[i] .. to - 1 \subseteq created[i] .. to
        BY <1>1, <2>1
    <3> QED BY <2>5, <2>6, <2>10, <3>1
  <2>11. Progress'
      BY <2>1, <2>2, <2>5, <2>7, <2>9, <2>10 DEF Progress, Span, trace
  <2> QED BY <1>3, <2>8, <2>11
<1>8. CASE Restore
  <2>1. pc = "restore" /\ pc' = "done" /\ m_cursor' = old /\ old \in Position
      BY <1>4, <1>8 DEF Restore, Progress
  <2>2. UNCHANGED <<trace, old, i, cancelled, replayed>>
      BY <1>8 DEF Restore
  <2>3. TypeOK'
      BY <2>1, <2>2 DEF TypeOK, trace
  <2>4. Progress'
      BY <2>1, <2>2 DEF Progress, Span, trace
  <2> QED BY <1>3, <2>3, <2>4
<1>9. CASE Cancel
  <2>1. cancelled' = TRUE /\ UNCHANGED <<trace, m_cursor, old, i, pc, replayed>>
      BY <1>9 DEF Cancel
  <2>2. TypeOK'
      BY <2>1 DEF TypeOK, trace
  <2>3. Progress'
      BY <2>1 DEF Progress, Span, trace
  <2> QED BY <1>3, <2>2, <2>3
<1>10. CASE UNCHANGED vars
  <2>1. TypeOK'
      BY <1>10 DEF TypeOK, vars, trace
  <2>2. Progress'
      BY <1>10 DEF Progress, Span, vars, trace
  <2> QED BY <1>3, <2>1, <2>2
<1> QED BY <1>5, <1>6, <1>7, <1>8, <1>9, <1>10 DEF Next, Run

(* The engine's threads and IDA's refreshes leave the run alone. *)
LEMMA TracedIsARun ==
    /\ TracedInit => Init
    /\ [TracedNext]_tracedVars => [Next]_vars
<1>1. TracedInit => Init
    BY DEF TracedInit
<1>2. TracedNext => [Next]_vars
    BY DEF TracedNext, FullRunStep, ReplayRecords, Engine, Refresh, Next, Run
<1> QED BY <1>1, <1>2 DEF tracedVars

LEMMA RunInvImplies == RunInv => TypeOK /\ RunIsComplete /\ CursorRestored
<1> SUFFICES ASSUME RunInv PROVE RunIsComplete /\ CursorRestored
    BY DEF RunInv
<1>1. CursorRestored
    BY DEF RunInv, Progress, CursorRestored
<1>2. ASSUME pc = "done", ~cancelled, NEW p \in Alive PROVE p \in replayed
  <2>1. PICK j \in Thread : created[j] <= p /\ p <= terminated[j]
      BY DEF RunInv, Paired
  <2>2. created[j] \in Nat /\ terminated[j] \in Nat
      BY <2>1, PositionsAreNaturals DEF RunInv, Paired
  <2>3. p \in Int
      BY PositionsAreNaturals DEF RunInv, TypeOK, Lifetime, Alive
  <2>4. p \in Span(j)
      BY <2>1, <2>2, <2>3 DEF Span
  <2> QED BY <1>2, <2>4 DEF RunInv, Progress
<1> QED BY <1>1, <1>2 DEF RunIsComplete

LEMMA TracedRunInv == TracedSpec => []RunInv
BY InitRunInv, NextRunInv, TracedIsARun, PTL DEF TracedSpec

(* The variables of the full run keep their types. *)
THEOREM RunTypes == TracedSpec => []TypeOK
BY TracedRunInv, RunInvImplies, PTL

(* A full run that is not cancelled has gone over the life of every thread. *)
THEOREM WholeTraceIsRun == TracedSpec => []RunIsComplete
BY TracedRunInv, RunInvImplies, PTL

(* A full run, cancelled or not, leaves the cursor where it was. *)
THEOREM RunComesBack == TracedSpec => []CursorRestored
BY TracedRunInv, RunInvImplies, PTL
------------------------------------------------------------------------------
(* The calls and returns that have to be recorded. *)
Recorded ==
    {e \in Invocations :
        Tracer!isEATraced(e.func) /\ <<e.func, e.is_return>> \notin InvalidBitness}

(* The j-th iteration executes the instruction at p. *)
Runs(j, p) == created[j] <= p /\ p < terminated[j]
RunsBefore(k, p) == {j \in Thread : j < k /\ Runs(j, p)}

(* Yet to be recorded in the replay in progress. *)
InHand(e) == \E r \in Recorders : recorder[r].pc = "push" /\ recorder[r].ev = e
Due(e) == IF e \in todo \/ InHand(e) THEN 1 ELSE 0

(* The part of the i-th iteration that is done has executed p. *)
Begun(p) == IF created[i] <= p /\ p < m_cursor THEN 1 ELSE 0

RecordTypes ==
    /\ m_events \in Seq(Invocations)
    /\ todo \subseteq Invocations
    /\ recorder \in [Recorders -> {Tracer!Idle} \cup
                         [pc : {"push", "sort", "notify"}, ev : Invocations]]

(* Every event of a replay is with one recorder at most. *)
HeldOnce ==
    /\ \A r \in Recorders : recorder[r].pc = "push" => recorder[r].ev \notin todo
    /\ \A r, s \in Recorders :
          recorder[r].pc = "push" /\ recorder[s].pc = "push" /\ recorder[r].ev = recorder[s].ev
              => r = s

PairsCount ==
    \A p \in Nat : Cardinality(AliveAt(p)) = Cardinality(RunsBefore(NThreads + 1, p))

(* What the iterations so far have executed is recorded or about to be. *)
Tally ==
    /\ pc # "replay" => ~Tracer!Replaying
    /\ pc = "idle" => m_events = << >>
    /\ pc = "thread" =>
           \A e \in Recorded : Tracer!Count(m_events, e) = Cardinality(RunsBefore(i, e.pos))
    /\ pc = "replay" =>
           \A e \in Recorded : Tracer!Count(m_events, e) + Due(e)
                                   = Cardinality(RunsBefore(i, e.pos)) + Begun(e.pos)
    /\ pc \in {"restore", "done"} =>
           \A e \in Recorded :
               Tracer!Count(m_events, e) = Cardinality(RunsBefore(NThreads + 1, e.pos))

RecordInv ==
    /\ RecordTypes
    /\ HeldOnce
    /\ PairsCount
    /\ ~cancelled => Tally
------------------------------------------------------------------------------
(* The tracer's instance counts as this module does. *)
LEMMA TracerCardinality == \A S : Tracer!Cardinality(S) = Cardinality(S)
BY DEF Tracer!Cardinality, Cardinality, Tracer!IsFiniteSet, IsFiniteSet

LEMMA TracerCount ==
    ASSUME NEW list, NEW e
    PROVE  Tracer!Count(list, e) = Cardinality({n \in DOMAIN list : list[n] = e})
BY TracerCardinality DEF Tracer!Count

AtOrBefore(list, p) == {j \in Thread : list[j] <= p}

(* As many events of a list as positions lie at or before p. *)
LEMMA OrderedCounts ==
    ASSUME NEW positions \in [Thread -> Position], NEW list, Ordered(list, positions), NEW p
    PROVE  Cardinality(AtOrBefore(list, p)) = Cardinality(AtOrBefore(positions, p))
<1>1. PICK order \in [Thread -> Thread] :
          /\ \A j \in Thread : list[j] = positions[order[j]]
          /\ \A j, k \in Thread : order[j] = order[k] => j = k
          /\ \A t \in Thread : \E j \in Thread : order[j] = t
    BY DEF Ordered
<1> DEFINE S == AtOrBefore(list, p)
<1> DEFINE T == AtOrBefore(positions, p)
<1> DEFINE g == [j \in S |-> order[j]]
<1>2. g \in [S -> T]
    BY <1>1 DEF AtOrBefore
<1>3. \A j, k \in S : g[j] = g[k] => j = k
    BY <1>1 DEF AtOrBefore
<1>4. \A t \in T : \E j \in S : g[j] = t
    BY <1>1 DEF AtOrBefore
<1>5. IsFiniteSet(S)
    BY Naturals, FS_Interval, FS_Subset DEF AtOrBefore
<1> HIDE DEF S, T, g
<1>6. g \in Bijection(S, T)
    BY <1>2, <1>3, <1>4 DEF Bijection, Injection, Surjection, IsInjective
<1>7. ExistsBijection(S, T)
    BY <1>6 DEF ExistsBijection
<1> QED BY <1>5, <1>7, FS_Bijection DEF S, T

(* Of pairs, those around p are those begun at p less those ended. *)
LEMMA AroundCount ==
    ASSUME NEW a \in [Thread -> Nat], NEW b \in [Thread -> Nat], NEW p \in Nat,
           \A j \in Thread : a[j] <= b[j]
    PROVE  Cardinality({j \in Thread : a[j] <= p /\ p < b[j]})
               = Cardinality(AtOrBefore(a, p)) - Cardinality(AtOrBefore(b, p))
<1> DEFINE S == AtOrBefore(a, p)
<1> DEFINE T == AtOrBefore(b, p)
<1>1. {j \in Thread : a[j] <= p /\ p < b[j]} = S \ T
  <2>1. \A j \in Thread : p < b[j] <=> ~(b[j] <= p)
      OBVIOUS
  <2> QED BY <2>1 DEF AtOrBefore
<1>2. S \cap T = T
  <2>1. \A j \in Thread : b[j] <= p => a[j] <= p
    <3> TAKE j \in Thread
    <3>1. a[j] \in Nat /\ b[j] \in Nat /\ a[j] <= b[j]
        OBVIOUS
    <3> QED BY <3>1
  <2> QED BY <2>1 DEF AtOrBefore
<1>3. IsFiniteSet(S)
    BY Naturals, FS_Interval, FS_Subset DEF AtOrBefore
<1> HIDE DEF S, T
<1>4. Cardinality(S \ T) = Cardinality(S) - Cardinality(S \cap T)
    BY <1>3, FS_Difference
<1>5. Cardinality(S \ T) = Cardinality(S) - Cardinality(T)
    BY <1>2, <1>4
<1> QED BY <1>1, <1>5 DEF S, T

LEMMA PairingCounts ==
    ASSUME lives \in [Thread -> Lifetime],
           created \in EventList([t \in Thread |-> lives[t][1]]),
           terminated \in EventList([t \in Thread |-> lives[t][2]])
    PROVE  PairsCount
<1> DEFINE A == [t \in Thread |-> lives[t][1]]
<1> DEFINE B == [t \in Thread |-> lives[t][2]]
<1>1. /\ A \in [Thread -> Position] /\ B \in [Thread -> Position]
      /\ \A t \in Thread : A[t] <= B[t]
    BY DEF Lifetime
<1>2. \A p : AliveAt(p) = {t \in Thread : A[t] <= p /\ p < B[t]}
    BY DEF AliveAt, Thread
<1>3. created \in EventList(A) /\ terminated \in EventList(B)
    OBVIOUS
<1> HIDE DEF A, B
<1>4. Ordered(created, A) /\ Ordered(terminated, B)
    BY <1>1, <1>3, EventListOrder
<1>5. Paired
    BY PairingCovers
<1>6. /\ created \in [Thread -> Nat] /\ terminated \in [Thread -> Nat]
      /\ A \in [Thread -> Nat] /\ B \in [Thread -> Nat]
      /\ \A j \in Thread : created[j] <= terminated[j]
    BY <1>1, <1>5, PositionsAreNaturals DEF Paired
<1> SUFFICES ASSUME NEW p \in Nat
             PROVE  Cardinality(AliveAt(p)) = Cardinality(RunsBefore(NThreads + 1, p))
    BY DEF PairsCount
<1>7. RunsBefore(NThreads + 1, p) = {j \in Thread : created[j] <= p /\ p < terminated[j]}
  <2>1. \A j \in Thread : j < NThreads + 1
      BY Naturals
  <2> QED BY <2>1 DEF RunsBefore, Runs
<1>8. Cardinality({j \in Thread : created[j] <= p /\ p < terminated[j]})
          = Cardinality(AtOrBefore(created, p)) - Cardinality(AtOrBefore(terminated, p))
    BY <1>6, AroundCount
<1>9. Cardinality({j \in Thread : A[j] <= p /\ p < B[j]})
          = Cardinality(AtOrBefore(A, p)) - Cardinality(AtOrBefore(B, p))
    BY <1>1, <1>6, AroundCount
<1>10. Cardinality(AtOrBefore(created, p)) = Cardinality(AtOrBefore(A, p))
    BY <1>1, <1>4, OrderedCounts
<1>11. Cardinality(AtOrBefore(terminated, p)) = Cardinality(AtOrBefore(B, p))
    BY <1>1, <1>4, OrderedCounts
<1> QED BY <1>2, <1>7, <1>8, <1>9, <1>10, <1>11
------------------------------------------------------------------------------
(* One more iteration: it counts for p if it runs over p. *)
LEMMA OneIterationMore ==
    ASSUME NEW k \in Thread, NEW p
    PROVE  /\ Cardinality(RunsBefore(k, p)) \in Nat
           /\ Cardinality(RunsBefore(k + 1, p))
                  = Cardinality(RunsBefore(k, p)) + (IF Runs(k, p) THEN 1 ELSE 0)
<1>1. IsFiniteSet(RunsBefore(k, p))
    BY Naturals, FS_Interval, FS_Subset DEF RunsBefore
<1>2. k \notin RunsBefore(k, p)
    BY Naturals DEF RunsBefore
<1>3. \A j \in Thread : j < k + 1 <=> j < k \/ j = k
    BY Naturals
<1>4. RunsBefore(k + 1, p) = IF Runs(k, p) THEN RunsBefore(k, p) \cup {k} ELSE RunsBefore(k, p)
    BY <1>3 DEF RunsBefore
<1>5. Cardinality(RunsBefore(k, p)) \in Nat
    BY <1>1, FS_CardinalityType
<1> QED BY <1>1, <1>2, <1>4, <1>5, FS_AddElement

LEMMA NoneBeforeTheFirst ==
    ASSUME NEW p
    PROVE  Cardinality(RunsBefore(1, p)) = 0
<1>1. RunsBefore(1, p) = {}
    BY Naturals DEF RunsBefore
<1> QED BY <1>1, FS_EmptySet

LEMMA CountEmpty ==
    ASSUME NEW e
    PROVE  Tracer!Count(<< >>, e) = 0
<1>1. {n \in DOMAIN << >> : << >>[n] = e} = {}
    OBVIOUS
<1> QED BY <1>1, TracerCount, FS_EmptySet

LEMMA CountType ==
    ASSUME NEW S, NEW list \in Seq(S), NEW e
    PROVE  Tracer!Count(list, e) \in Nat
<1>1. IsFiniteSet(DOMAIN list)
    BY FS_Interval
<1>2. IsFiniteSet({n \in DOMAIN list : list[n] = e})
    BY <1>1, FS_Subset
<1> QED BY <1>2, TracerCount, FS_CardinalityType

LEMMA CountAppend ==
    ASSUME NEW S, NEW list \in Seq(S), NEW new \in S, NEW e
    PROVE  Tracer!Count(Append(list, new), e)
               = Tracer!Count(list, e) + (IF new = e THEN 1 ELSE 0)
<1> DEFINE at == {n \in DOMAIN list : list[n] = e}
<1> DEFINE l == Len(list) + 1
<1>1. /\ DOMAIN Append(list, new) = DOMAIN list \cup {l} /\ l \notin DOMAIN list
      /\ Append(list, new)[l] = new
      /\ \A n \in DOMAIN list : Append(list, new)[n] = list[n]
  <2>1. /\ Append(list, new) \in Seq(S) /\ Len(Append(list, new)) = l
        /\ DOMAIN list = 1 .. Len(list) /\ DOMAIN Append(list, new) = 1 .. l
        /\ Len(list) \in Nat
      OBVIOUS
  <2> QED BY <2>1
<1>2. {n \in DOMAIN Append(list, new) : Append(list, new)[n] = e}
          = IF new = e THEN at \cup {l} ELSE at
    BY <1>1
<1>3. IsFiniteSet(at) /\ l \notin at
  <2>1. IsFiniteSet(DOMAIN list)
      BY FS_Interval
  <2> QED BY <1>1, <2>1, FS_Subset
<1>4. Cardinality(at) \in Nat /\ Tracer!Count(list, e) = Cardinality(at)
    BY <1>3, TracerCount, FS_CardinalityType
<1> HIDE DEF at, l
<1>5. Tracer!Count(Append(list, new), e) = Cardinality(IF new = e THEN at \cup {l} ELSE at)
    BY <1>2, TracerCount
<1>6. CASE new = e
    BY <1>3, <1>4, <1>5, <1>6, FS_AddElement
<1>7. CASE new # e
    BY <1>4, <1>5, <1>7
<1> QED BY <1>6, <1>7

LEMMA CountSorted ==
    ASSUME NEW S, NEW list \in Seq(S), NEW sorted \in Tracer!sortEvents(list), NEW e
    PROVE  /\ sorted \in Seq(S)
           /\ Tracer!Count(sorted, e) = Tracer!Count(list, e)
<1>1. /\ sorted \in [DOMAIN list -> Range(list)]
      /\ \A x \in Range(list) : Tracer!Count(sorted, x) = Tracer!Count(list, x)
    BY DEF Tracer!sortEvents, Tracer!Range, Range
<1>2. sorted \in Seq(S)
    BY <1>1 DEF Range
<1>3. CASE e \notin Range(list)
  <2>1. {n \in DOMAIN list : list[n] = e} = {n \in DOMAIN sorted : sorted[n] = e}
      BY <1>1, <1>3 DEF Range
  <2> QED BY <1>2, <2>1, TracerCount
<1> QED BY <1>1, <1>2, <1>3
------------------------------------------------------------------------------
(* What is recorded of an invocation and what is due. *)
Total(e) == Tracer!Count(m_events, e) + Due(e)

(* The callback hands a traced invocation over to its recorder as it is. *)
LEMMA CallbackRecords ==
    ASSUME NEW r \in Recorders, Tracer!callCallback(r), todo \subseteq Invocations
    PROVE  \E e \in todo, got \in {Tracer!Idle} \cup [pc : {"push"}, ev : todo] :
              /\ todo' = todo \ {e}
              /\ recorder' = [recorder EXCEPT ![r] = got]
              /\ got # Tracer!Idle => got.ev = e
              /\ e \in Recorded => got # Tracer!Idle
<1>1. PICK e \in todo :
          /\ todo' = todo \ {e}
          /\ recorder' = [recorder EXCEPT ![r] =
                 IF ~Tracer!isEATraced(e.func) THEN Tracer!Idle
                 ELSE IF e.is_return THEN Tracer!recordRet(e.func, e.pos)
                                     ELSE Tracer!recordCall(e.func, e.pos)]
    BY DEF Tracer!callCallback
<1> DEFINE held == [pc |-> "push", ev |-> e]
<1>2. /\ e.is_return \in BOOLEAN
      /\ e.is_return => e = [func |-> e.func, pos |-> e.pos, is_return |-> TRUE]
      /\ ~e.is_return => e = [func |-> e.func, pos |-> e.pos, is_return |-> FALSE]
    BY TracedRunAssumption DEF TracedRunAssumption
<1>3. held \in [pc : {"push"}, ev : todo] /\ held.ev = e /\ held # Tracer!Idle
    BY DEF Tracer!Idle
<1>4. CASE e \in Recorded
  <2>1. Tracer!isEATraced(e.func) /\ <<e.func, e.is_return>> \notin InvalidBitness
      BY <1>4 DEF Recorded
  <2>2. recorder' = [recorder EXCEPT ![r] = held]
    <3>1. CASE e.is_return = TRUE
        BY <1>1, <1>2, <2>1, <3>1 DEF Tracer!recordRet
    <3>2. CASE e.is_return = FALSE
        BY <1>1, <1>2, <2>1, <3>2 DEF Tracer!recordCall
    <3> QED BY <1>2, <3>1, <3>2
  <2>3. todo' = todo \ {e}
      BY <1>1
  <2>4. held \in {Tracer!Idle} \cup [pc : {"push"}, ev : todo]
      BY <1>3
  <2> HIDE DEF held
  <2> WITNESS e \in todo, held \in {Tracer!Idle} \cup [pc : {"push"}, ev : todo]
  <2> QED BY <1>3, <2>2, <2>3
<1>5. CASE e \notin Recorded
  <2>1. recorder' = [recorder EXCEPT ![r] = held] \/ recorder' = [recorder EXCEPT ![r] = Tracer!Idle]
      BY <1>1, <1>2 DEF Tracer!recordRet, Tracer!recordCall
  <2> HIDE DEF held
  <2> QED BY <1>1, <1>3, <1>5, <2>1
<1> QED BY <1>4, <1>5

LEMMA CallbackKeeps ==
    ASSUME RecordTypes, HeldOnce, NEW r \in Recorders, Tracer!callCallback(r)
    PROVE  /\ RecordTypes' /\ HeldOnce'
           /\ \A e \in Recorded : Total(e)' = Total(e)
<1>1. PICK e \in todo, got \in {Tracer!Idle} \cup [pc : {"push"}, ev : todo] :
              /\ todo' = todo \ {e}
              /\ recorder' = [recorder EXCEPT ![r] = got]
              /\ got # Tracer!Idle => got.ev = e
              /\ e \in Recorded => got # Tracer!Idle
    BY CallbackRecords DEF RecordTypes
<1>2. m_events' = m_events /\ recorder[r].pc = "idle"
    BY DEF Tracer!callCallback, Tracer!lists
<1>3. got.pc = "push" <=> got # Tracer!Idle
    BY DEF Tracer!Idle
<1>4. /\ recorder'[r] = got
      /\ \A s \in Recorders : s # r => recorder'[s] = recorder[s]
    BY <1>1 DEF RecordTypes
<1>5. RecordTypes'
    BY <1>1, <1>2 DEF RecordTypes
<1>6. HeldOnce'
  <2>1. ASSUME NEW s \in Recorders, recorder'[s].pc = "push"
        PROVE  recorder'[s].ev \notin todo' /\ (s # r => recorder'[s].ev # e)
    <3>1. CASE s = r
        BY <1>1, <1>3, <1>4, <2>1, <3>1
    <3>2. CASE s # r
      <4>1. recorder'[s] = recorder[s] /\ recorder[s].ev \notin todo
          BY <1>4, <2>1, <3>2 DEF HeldOnce
      <4> QED BY <1>1, <3>2, <4>1
    <3> QED BY <3>1, <3>2
  <2>2. ASSUME NEW s \in Recorders, NEW s2 \in Recorders,
               recorder'[s].pc = "push", recorder'[s2].pc = "push",
               recorder'[s].ev = recorder'[s2].ev
        PROVE  s = s2
    <3>1. CASE s = r \/ s2 = r
        BY <1>1, <1>3, <1>4, <2>1, <2>2, <3>1
    <3>2. CASE s # r /\ s2 # r
        BY <1>4, <2>2, <3>2 DEF HeldOnce
    <3> QED BY <3>1, <3>2
  <2> QED BY <2>1, <2>2 DEF HeldOnce
<1>7. ASSUME NEW x \in Recorded
      PROVE  Total(x)' = Total(x)
  <2>1. (x \in todo \/ InHand(x)) <=> (x \in todo \/ InHand(x))'
    <3>1. CASE x = e
      <4>1. recorder'[r].pc = "push" /\ recorder'[r].ev = x
          BY <1>1, <1>3, <1>4, <1>7, <3>1
      <4> QED BY <3>1, <4>1 DEF InHand
    <3>2. CASE x # e
      <4>1. x \in todo <=> x \in todo'
          BY <1>1, <3>2
      <4>2. \A s \in Recorders : (recorder[s].pc = "push" /\ recorder[s].ev = x)
                                     <=> (recorder'[s].pc = "push" /\ recorder'[s].ev = x)
          BY <1>1, <1>2, <1>3, <1>4, <3>2
      <4> QED BY <4>1, <4>2 DEF InHand
    <3> QED BY <3>1, <3>2
  <2>2. Due(x)' = Due(x)
      BY <2>1 DEF Due
  <2>3. Tracer!Count(m_events', x) = Tracer!Count(m_events, x)
      BY <1>2
  <2> QED BY <2>2, <2>3 DEF Total
<1> QED BY <1>5, <1>6, <1>7

(* A recorder that goes on has no event in hand any more. *)
LEMMA GoesOn ==
    ASSUME RecordTypes, HeldOnce, NEW r \in Recorders, recorder[r].pc # "idle",
           todo' = todo, NEW got,
           recorder' = [recorder EXCEPT ![r] = got], got.pc # "push"
    PROVE  /\ HeldOnce'
           /\ \A e : recorder[r].pc = "push" /\ recorder[r].ev = e
                         => Due(e) = 1 /\ Due(e)' = 0
           /\ \A e : ~(recorder[r].pc = "push" /\ recorder[r].ev = e) => Due(e)' = Due(e)
<1>1. /\ recorder'[r] = got
      /\ \A s \in Recorders : s # r => recorder'[s] = recorder[s]
    BY DEF RecordTypes
<1>2. \A s \in Recorders : recorder'[s].pc = "push" => s # r /\ recorder'[s] = recorder[s]
    BY <1>1
<1>3. HeldOnce'
    BY <1>2 DEF HeldOnce
<1>4. ASSUME NEW e, recorder[r].pc = "push", recorder[r].ev = e
      PROVE  Due(e) = 1 /\ Due(e)' = 0
  <2>1. e \notin todo /\ \A s \in Recorders : s # r => ~(recorder[s].pc = "push" /\ recorder[s].ev = e)
      BY <1>4 DEF HeldOnce
  <2>2. InHand(e) /\ ~InHand(e)'
      BY <1>2, <1>4, <2>1 DEF InHand
  <2> QED BY <2>1, <2>2 DEF Due
<1>5. ASSUME NEW e, ~(recorder[r].pc = "push" /\ recorder[r].ev = e)
      PROVE  Due(e)' = Due(e)
  <2>1. InHand(e)' <=> InHand(e)
      BY <1>1, <1>2, <1>5 DEF InHand
  <2> QED BY <2>1 DEF Due
<1> QED BY <1>3, <1>4, <1>5

LEMMA PushKeeps ==
    ASSUME RecordTypes, HeldOnce, NEW r \in Recorders, Tracer!Push(r)
    PROVE  /\ RecordTypes' /\ HeldOnce'
           /\ \A e \in Recorded : Total(e)' = Total(e)
<1> DEFINE new == recorder[r].ev
<1> DEFINE got == [recorder[r] EXCEPT !.pc = "sort"]
<1>1. /\ recorder[r].pc = "push" /\ m_events' = Append(m_events, new)
      /\ todo' = todo /\ recorder' = [recorder EXCEPT ![r] = got]
    BY DEF Tracer!Push
<1>2. new \in Invocations /\ got \in [pc : {"push", "sort", "notify"}, ev : Invocations]
          /\ got.pc = "sort"
    BY <1>1 DEF RecordTypes, Tracer!Idle
<1> HIDE DEF new, got
<1>3. RecordTypes'
    BY <1>1, <1>2 DEF RecordTypes
<1>4. /\ HeldOnce'
      /\ \A e : recorder[r].pc = "push" /\ recorder[r].ev = e => Due(e) = 1 /\ Due(e)' = 0
      /\ \A e : ~(recorder[r].pc = "push" /\ recorder[r].ev = e) => Due(e)' = Due(e)
    BY <1>1, <1>2, GoesOn
<1>5. ASSUME NEW e \in Recorded
      PROVE  Total(e)' = Total(e)
  <2>1. Tracer!Count(m_events', e) = Tracer!Count(m_events, e) + (IF new = e THEN 1 ELSE 0)
      BY <1>1, <1>2, CountAppend DEF RecordTypes
  <2>2. Tracer!Count(m_events, e) \in Nat
      BY CountType DEF RecordTypes
  <2>3. CASE new = e
    <3>1. Due(e) = 1 /\ Due(e)' = 0
        BY <1>1, <1>4, <2>3 DEF new
    <3> QED BY <2>1, <2>2, <2>3, <3>1 DEF Total
  <2>4. CASE new # e
    <3>1. Due(e)' = Due(e) /\ Due(e) \in Nat
        BY <1>1, <1>4, <2>4 DEF new, Due
    <3> QED BY <2>1, <2>2, <2>4, <3>1 DEF Total
  <2> QED BY <2>3, <2>4
<1> QED BY <1>3, <1>4, <1>5

LEMMA SortKeeps ==
    ASSUME RecordTypes, HeldOnce, NEW r \in Recorders, Tracer!Sort(r)
    PROVE  /\ RecordTypes' /\ HeldOnce'
           /\ \A e \in Recorded : Total(e)' = Total(e)
<1> DEFINE got == [recorder[r] EXCEPT !.pc = "notify"]
<1>1. /\ recorder[r].pc = "sort" /\ m_events' \in Tracer!sortEvents(m_events)
      /\ todo' = todo /\ recorder' = [recorder EXCEPT ![r] = got]
    BY DEF Tracer!Sort
<1>2. got \in [pc : {"push", "sort", "notify"}, ev : Invocations] /\ got.pc = "notify"
    BY <1>1 DEF RecordTypes, Tracer!Idle
<1> HIDE DEF got
<1>3. \A e : m_events' \in Seq(Invocations) /\ Tracer!Count(m_events', e) = Tracer!Count(m_events, e)
    BY <1>1, CountSorted DEF RecordTypes
<1>4. RecordTypes'
    BY <1>1, <1>2, <1>3 DEF RecordTypes
<1>5. HeldOnce' /\ \A e : Due(e)' = Due(e)
    BY <1>1, <1>2, GoesOn
<1> QED BY <1>3, <1>4, <1>5 DEF Total

LEMMA NotifyKeeps ==
    ASSUME RecordTypes, HeldOnce, NEW r \in Recorders, Tracer!Notify(r)
    PROVE  /\ RecordTypes' /\ HeldOnce'
           /\ \A e \in Recorded : Total(e)' = Total(e)
<1>1. /\ recorder[r].pc = "notify" /\ m_events' = m_events
      /\ todo' = todo /\ recorder' = [recorder EXCEPT ![r] = Tracer!Idle]
    BY DEF Tracer!Notify, Tracer!lists
<1>2. Tracer!Idle.pc = "idle"
    BY DEF Tracer!Idle
<1>3. RecordTypes'
    BY <1>1 DEF RecordTypes
<1>4. HeldOnce' /\ \A e : Due(e)' = Due(e)
    BY <1>1, <1>2, GoesOn
<1> QED BY <1>1, <1>3, <1>4 DEF Total
------------------------------------------------------------------------------
LEMMA EngineKeeps ==
    ASSUME RecordTypes, HeldOnce, Engine
    PROVE  /\ RecordTypes' /\ HeldOnce'
           /\ \A e \in Recorded : Total(e)' = Total(e)
BY CallbackKeeps, PushKeeps, SortKeeps, NotifyKeeps DEF Engine

(* The engine reports and the recorders record inside a replay only. *)
LEMMA EngineInReplay == Engine => Tracer!Replaying
<1>1. ASSUME NEW r \in Recorders,
             Tracer!callCallback(r) \/ Tracer!Push(r) \/ Tracer!Sort(r) \/ Tracer!Notify(r)
      PROVE  Tracer!Replaying
    BY <1>1 DEF Tracer!callCallback, Tracer!Push, Tracer!Sort, Tracer!Notify, Tracer!Replaying
<1> QED BY <1>1 DEF Engine

(* Nothing is due when no replay is in progress. *)
LEMMA NothingDue == ~Tracer!Replaying => todo = {} /\ \A e : Due(e) = 0 /\ ~InHand(e)
BY DEF Tracer!Replaying, Due, InHand

LEMMA InitRecordInv == TracedInit => RecordInv
<1> SUFFICES ASSUME TracedInit PROVE RecordInv
    OBVIOUS
<1>1. /\ m_events = << >> /\ todo = {} /\ pc = "idle"
      /\ recorder = [r \in Recorders |-> Tracer!Idle] /\ Tracer!Idle.pc = "idle"
    BY DEF TracedInit, Init, Tracer!Idle
<1>2. RecordTypes
    BY <1>1 DEF RecordTypes
<1>3. HeldOnce
    BY <1>1 DEF HeldOnce
<1>4. PairsCount
    BY PairingCounts DEF TracedInit, Init, Thread
<1>5. Tally
    BY <1>1 DEF Tally, Tracer!Replaying
<1> QED BY <1>2, <1>3, <1>4, <1>5 DEF RecordInv

(* The traced functions and the trace do not change in a run. *)
LEMMA RunKeeps ==
    ASSUME [TracedNext]_tracedVars
    PROVE  /\ UNCHANGED <<trace, m_traces>>
           /\ Recorded' = Recorded
           /\ \A k, p : RunsBefore(k, p)' = RunsBefore(k, p)
           /\ PairsCount => PairsCount'
           /\ ~cancelled' => ~cancelled
<1>1. UNCHANGED <<trace, m_traces>> /\ (~cancelled' => ~cancelled)
    BY DEF TracedNext, FullRunStep, ReplayRecords, Engine, Refresh, tracedVars, tracerVars,
           vars, trace, requestFullRun, NextThread, ReplayStep, Restore, Cancel,
           Tracer!callCallback, Tracer!Push, Tracer!Sort, Tracer!Notify, Tracer!ShowEvents,
           Tracer!ReadRow, Tracer!lists
<1>2. Recorded' = Recorded
    BY <1>1 DEF Recorded, Tracer!isEATraced
<1>3. \A k, p : RunsBefore(k, p)' = RunsBefore(k, p)
    BY <1>1 DEF RunsBefore, Runs, trace
<1>4. PairsCount => PairsCount'
    BY <1>1, <1>3 DEF PairsCount, AliveAt, trace
<1> QED BY <1>1, <1>2, <1>3, <1>4

(* A step of the main thread that replays nothing. *)
LEMMA LoopKeepsTally ==
    ASSUME RunInv, RecordInv, ~cancelled, ~Tracer!Replaying, [TracedNext]_tracedVars,
           requestFullRun \/ NextThread \/ Restore, UNCHANGED tracerVars
    PROVE  Tally'
<1>1. /\ m_events' = m_events /\ Tracer!Replaying' = Tracer!Replaying
      /\ \A e : Due(e)' = 0
    BY NothingDue DEF tracerVars, Tracer!Replaying, Due, InHand
<1>2. /\ Recorded' = Recorded
      /\ \A k, p : RunsBefore(k, p)' = RunsBefore(k, p)
    BY RunKeeps
<1>3. Tally
    BY DEF RecordInv
<1>4. CASE requestFullRun
  <2>1. pc = "idle" /\ pc' = "thread" /\ i' = 1
      BY <1>4 DEF requestFullRun
  <2> QED BY <1>1, <1>2, <1>3, <2>1, CountEmpty, NoneBeforeTheFirst DEF Tally
<1>5. CASE NextThread
  <2>1. pc = "thread" /\ i' = i /\ pc' \in {"replay", "restore"} /\ i \in 1 .. NThreads + 1
      BY <1>5 DEF NextThread, RunInv, Progress
  <2>2. Len(created) = NThreads /\ created \in [Thread -> Position]
      BY Naturals DEF RunInv, Paired, Thread
  <2>3. CASE pc' = "replay"
    <3>1. i \in Thread /\ m_cursor' = SetPosition(created[i]) /\ created' = created
        BY <1>5, <2>1, <2>2, <2>3 DEF NextThread, Thread, trace
    <3>2. created[i] \in Nat /\ m_cursor' = created[i]
        BY <2>2, <3>1, PositionAssumption DEF SetPosition, Position
    <3>3. \A p \in Nat : Begun(p)' = 0
        BY <2>1, <3>1, <3>2 DEF Begun
    <3>4. \A e \in Recorded : e.pos \in Nat
        BY TracedRunAssumption DEF TracedRunAssumption, Recorded
    <3>5. \A e \in Recorded : Cardinality(RunsBefore(i, e.pos)) \in Nat
        BY <3>1, OneIterationMore
    <3> QED BY <1>1, <1>2, <1>3, <2>1, <2>3, <3>3, <3>4, <3>5 DEF Tally
  <2>4. CASE pc' = "restore"
    <3>1. i = NThreads + 1
        BY <1>5, <2>1, <2>2, <2>4 DEF NextThread
    <3> QED BY <1>1, <1>2, <1>3, <2>1, <2>4, <3>1 DEF Tally
  <2> QED BY <2>1, <2>3, <2>4
<1>6. CASE Restore
  <2>1. pc = "restore" /\ pc' = "done"
      BY <1>6 DEF Restore
  <2> QED BY <1>1, <1>2, <1>3, <2>1 DEF Tally
<1> QED BY <1>4, <1>5, <1>6
(* A replay leaves due what it runs over, and that is what it adds to its  *)
(* iteration; it ends the iteration when it has nothing more to run over.  *)
LEMMA ReplayKeepsTally ==
    ASSUME RunInv, RecordInv, ~cancelled, ~Tracer!Replaying, [TracedNext]_tracedVars,
           ReplayRecords
    PROVE  Tally'
<1>1. /\ pc = "replay" /\ i \in Thread
      /\ created[i] <= m_cursor /\ m_cursor <= terminated[i]
    BY DEF ReplayRecords, ReplayStep, RunInv, Progress
<1>2. /\ created[i] \in Position /\ terminated[i] \in Position /\ m_cursor \in Position
      /\ created[i] \in Nat /\ terminated[i] \in Nat /\ m_cursor \in Nat
    BY <1>1, PositionsAreNaturals DEF RunInv, Paired, TypeOK
<1>3. /\ m_events' = m_events /\ UNCHANGED <<trace, recorder, cancelled>>
      /\ todo' = Executed(m_cursor, m_cursor')
    BY DEF ReplayRecords, ReplayStep
<1>4. /\ Recorded' = Recorded
      /\ \A k, p : RunsBefore(k, p)' = RunsBefore(k, p)
    BY RunKeeps
<1>5. \A e \in Recorded : e \in Invocations /\ e.pos \in Nat
    BY TracedRunAssumption DEF TracedRunAssumption, Recorded
<1>6. \A e : Due(e) = 0 /\ ~InHand(e) /\ ~InHand(e)'
    BY <1>3, NothingDue DEF InHand
<1>7. \A e \in Recorded : Tracer!Count(m_events, e) = Cardinality(RunsBefore(i, e.pos)) + Begun(e.pos)
  <2>1. ASSUME NEW e \in Recorded PROVE Tracer!Count(m_events, e) \in Nat
      BY CountType DEF RecordInv, RecordTypes
  <2> QED BY <1>1, <1>6, <2>1 DEF RecordInv, Tally
<1>8. \A e \in Recorded : Cardinality(RunsBefore(i, e.pos)) \in Nat
    BY <1>1, OneIterationMore
<1>9. CASE m_cursor = terminated[i]
  <2>1. m_cursor' = m_cursor /\ i' = i + 1 /\ pc' = "thread"
      BY <1>1, <1>9 DEF ReplayRecords, ReplayStep, LeaveWhile
  <2>2. todo' = {}
    <3>1. \A e \in Invocations : ~(m_cursor <= e.pos /\ e.pos < m_cursor)
        BY <1>2, TracedRunAssumption DEF TracedRunAssumption
    <3> QED BY <1>3, <2>1, <3>1 DEF Executed
  <2>3. ~Tracer!Replaying'
      BY <1>3, <2>2 DEF Tracer!Replaying
  <2>4. ASSUME NEW e \in Recorded
        PROVE  Tracer!Count(m_events, e) = Cardinality(RunsBefore(i + 1, e.pos))
    <3>1. Begun(e.pos) = IF Runs(i, e.pos) THEN 1 ELSE 0
        BY <1>9 DEF Begun, Runs
    <3> QED BY <1>1, <1>7, <3>1, OneIterationMore
  <2> QED BY <1>3, <1>4, <2>1, <2>3, <2>4 DEF Tally
<1>10. CASE m_cursor # terminated[i]
  <2> DEFINE to == ReplayForward(m_cursor, terminated[i], TTD_STEP, watchpoints)
  <2>1. /\ m_cursor' = to /\ UNCHANGED <<i, pc>>
      BY <1>1, <1>10 DEF ReplayRecords, ReplayStep, ReplayTo
  <2>2. to \in Position /\ m_cursor <= to
    <3>1. TTD_STEP \in Int
        BY FullRunAssumption DEF FullRunAssumption
    <3> QED BY <1>1, <1>2, <3>1, ReplayForwardStops
  <2> HIDE DEF to
  <2>3. to \in Nat
      BY <2>2, PositionsAreNaturals
  <2>4. ASSUME NEW e \in Recorded
        PROVE  Begun(e.pos)' = Begun(e.pos) + Due(e)'
    <3>1. Due(e)' = IF m_cursor <= e.pos /\ e.pos < to THEN 1 ELSE 0
        BY <1>3, <1>5, <1>6, <2>1 DEF Due, Executed
    <3>2. Begun(e.pos)' = IF created[i] <= e.pos /\ e.pos < to THEN 1 ELSE 0
        BY <1>3, <2>1 DEF Begun, trace
    <3> QED BY <1>1, <1>2, <1>5, <2>2, <2>3, <3>1, <3>2 DEF Begun
  <2>5. \A e \in Recorded : Due(e)' \in Nat /\ Begun(e.pos) \in Nat
      BY DEF Due, Begun
  <2>6. ASSUME NEW e \in Recorded
        PROVE  Tracer!Count(m_events', e) + Due(e)' = Cardinality(RunsBefore(i, e.pos)) + Begun(e.pos)'
      BY <1>3, <1>7, <1>8, <2>4, <2>5
  <2> QED BY <1>1, <1>4, <2>1, <2>6 DEF Tally
<1> QED BY <1>9, <1>10

LEMMA NextRecordInv == RunInv /\ RecordInv /\ [TracedNext]_tracedVars => RecordInv'
<1> SUFFICES ASSUME RunInv, RecordInv, [TracedNext]_tracedVars PROVE RecordInv'
    OBVIOUS
<1>1. PairsCount' /\ (~cancelled' => ~cancelled)
    BY RunKeeps DEF RecordInv
<1>2. CASE FullRunStep
  <2>1. ~Tracer!Replaying /\ UNCHANGED <<m_events, recorder>> /\ todo' \subseteq Invocations
      BY <1>2 DEF FullRunStep, ReplayRecords, Executed, tracerVars, RecordInv, RecordTypes
  <2>2. RecordTypes'
      BY <2>1 DEF RecordInv, RecordTypes
  <2>3. HeldOnce'
      BY <2>1 DEF HeldOnce, Tracer!Replaying
  <2>4. ~cancelled' => Tally'
      BY <1>1, <1>2, <2>1, LoopKeepsTally, ReplayKeepsTally DEF FullRunStep
  <2> QED BY <1>1, <2>2, <2>3, <2>4 DEF RecordInv
<1>3. CASE Engine
  <2>1. /\ RecordTypes' /\ HeldOnce'
        /\ \A e \in Recorded : Total(e)' = Total(e)
      BY <1>3, EngineKeeps DEF RecordInv
  <2>2. UNCHANGED vars /\ Tracer!Replaying
      BY <1>3, EngineInReplay DEF Engine
  <2>3. ASSUME ~cancelled PROVE Tally'
    <3>1. Tally /\ pc = "replay" /\ pc' = pc /\ i' = i
        BY <2>2, <2>3 DEF RecordInv, Tally, vars
    <3>2. /\ Recorded' = Recorded
          /\ \A k, p : RunsBefore(k, p)' = RunsBefore(k, p)
        BY RunKeeps
    <3>3. \A p : Begun(p)' = Begun(p)
        BY <2>2 DEF Begun, vars, trace
    <3> QED BY <2>1, <3>1, <3>2, <3>3 DEF Tally, Total
  <2> QED BY <1>1, <2>1, <2>3 DEF RecordInv
<1>4. CASE Refresh \/ UNCHANGED tracedVars
  <2>1. UNCHANGED <<vars, m_events, todo, recorder, m_traces>>
      BY <1>4 DEF Refresh, Tracer!ShowEvents, Tracer!ReadRow, Tracer!lists, Tracer!recording,
                  tracedVars, tracerVars
  <2>2. RecordTypes' /\ HeldOnce'
      BY <2>1 DEF RecordInv, RecordTypes, HeldOnce
  <2>3. Tally' <=> Tally
      BY <2>1 DEF Tally, vars, trace, Tracer!Replaying, Recorded, Tracer!isEATraced, RunsBefore,
                  Runs, Begun, Due, InHand
  <2> QED BY <1>1, <2>2, <2>3 DEF RecordInv
<1>5. CASE Cancel /\ UNCHANGED tracerVars
  <2>1. cancelled' /\ UNCHANGED <<m_events, todo, recorder>>
      BY <1>5 DEF Cancel, tracerVars
  <2>2. RecordTypes' /\ HeldOnce'
      BY <2>1 DEF RecordInv, RecordTypes, HeldOnce
  <2> QED BY <1>1, <2>1, <2>2 DEF RecordInv
<1> QED BY <1>2, <1>3, <1>4, <1>5 DEF TracedNext

LEMMA RecordInvImplies == RecordInv => EveryCallRecorded
<1> SUFFICES ASSUME RecordInv, pc = "done", ~cancelled, NEW e \in Recorded
             PROVE  Tracer!Count(m_events, e) = Cardinality(AliveAt(e.pos))
    BY DEF EveryCallRecorded, Recorded
<1>1. e.pos \in Nat
    BY TracedRunAssumption DEF TracedRunAssumption, Recorded
<1> QED BY <1>1 DEF RecordInv, Tally, PairsCount

(* A full run that is not cancelled records every call and every return of *)
(* a traced function once for every thread that is alive there.            *)
THEOREM CallsAreRecorded == TracedSpec => []EveryCallRecorded
<1>1. TracedInit => RecordInv
    BY InitRecordInv
<1>2. RunInv /\ RecordInv /\ [TracedNext]_tracedVars => RecordInv'
    BY NextRecordInv
<1> QED BY <1>1, <1>2, RecordInvImplies, TracedRunInv, PTL DEF TracedSpec
------------------------------------------------------------------------------
(* What the window shows of the run. *)

EventWindow == [open : BOOLEAN, marked : BOOLEAN, rows : Seq(Invocations)]

(* Nothing was recorded that the window is not told of or about to be. *)
ToldOf ==
    \/ window["events"].marked
    \/ m_events = << >>
    \/ \E r \in Recorders : recorder[r].pc \in {"sort", "notify"}

(* The rows that have been read, and those that have not. *)
Reading ==
    /\ Len(window["events"].rows) + toRead = Len(m_events)
    /\ \A k \in DOMAIN window["events"].rows : window["events"].rows[k] = m_events[k]

ShownInv ==
    /\ window \in [{"traces", "events"} -> EventWindow]
    /\ callbacks /\ window["events"].open
    /\ toRead \in Nat
    /\ window["events"].marked => toRead = 0
    /\ Tracer!EventsSorted
    /\ pc # "done" => toRead = 0 /\ window["events"].rows = << >> /\ ToldOf
    /\ pc = "done" => ~Tracer!Replaying /\ (~window["events"].marked => Reading)

LEMMA InitShownInv == TracedInit => ShownInv
<1> SUFFICES ASSUME TracedInit PROVE ShownInv
    OBVIOUS
<1>1. /\ m_events = << >> /\ pc = "idle" /\ toRead = 0 /\ callbacks
      /\ window = [traces |-> Tracer!Closed, events |-> [Tracer!Closed EXCEPT !.open = TRUE]]
    BY DEF TracedInit, Init
<1>2. << >> \in Seq(Invocations) /\ DOMAIN << >> = {}
    OBVIOUS
<1>3. /\ window["events"] = [open |-> TRUE, marked |-> FALSE, rows |-> << >>]
      /\ window["traces"] = [open |-> FALSE, marked |-> FALSE, rows |-> << >>]
      /\ DOMAIN window = {"traces", "events"}
    BY <1>1 DEF Tracer!Closed
<1>4. window \in [{"traces", "events"} -> EventWindow]
  <2>1. window["events"] \in EventWindow /\ window["traces"] \in EventWindow
      BY <1>2, <1>3 DEF EventWindow
  <2>2. window = [w \in {"traces", "events"} |-> window[w]]
      BY <1>1
  <2> QED BY <2>1, <2>2
<1>5. Tracer!EventsSorted
    BY <1>1, <1>2 DEF Tracer!EventsSorted, Tracer!IsSortedByPosition
<1> QED BY <1>1, <1>3, <1>4, <1>5 DEF ShownInv, ToldOf

(* A step that leaves the lists, the recorders and the window alone. *)
LEMMA SteadyShown ==
    ASSUME ShownInv, UNCHANGED <<window, callbacks, toRead, m_events, recorder>>,
           pc' = "done" => UNCHANGED todo /\ (pc # "done" => ~Tracer!Replaying),
           pc = "done" => pc' = "done"
    PROVE  ShownInv'
<1>1. /\ window' = window /\ callbacks' = callbacks /\ toRead' = toRead
      /\ m_events' = m_events /\ recorder' = recorder
    OBVIOUS
<1>2. (Tracer!EventsSorted)'
    BY <1>1 DEF ShownInv, Tracer!EventsSorted, Tracer!IsSortedByPosition
<1>3. (ToldOf' <=> ToldOf) /\ (Reading' <=> Reading)
    BY <1>1 DEF ToldOf, Reading
<1>4. CASE pc' # "done"
  <2>1. pc # "done"
      BY <1>4
  <2> QED BY <1>1, <1>2, <1>3, <1>4, <2>1 DEF ShownInv
<1>5. CASE pc' = "done"
  <2>1. ~Tracer!Replaying /\ ~Tracer!Replaying'
      BY <1>1, <1>5 DEF ShownInv, Tracer!Replaying
  <2>2. ASSUME pc # "done", ~window["events"].marked PROVE Reading
    <3>1. m_events = << >> /\ window["events"].rows = << >> /\ toRead = 0
        BY <2>1, <2>2 DEF ShownInv, ToldOf, Tracer!Replaying
    <3> QED BY <3>1 DEF Reading
  <2>3. ~window["events"].marked => Reading
      BY <2>2 DEF ShownInv
  <2> QED BY <1>1, <1>2, <1>3, <1>5, <2>1, <2>3 DEF ShownInv
<1> QED BY <1>4, <1>5

(* The recorders push, sort and tell while the run goes on. *)
LEMMA EngineShown ==
    ASSUME RecordTypes, ShownInv, Engine
    PROVE  ShownInv'
<1>1. UNCHANGED <<pc, callbacks, toRead>> /\ pc # "done"
    BY EngineInReplay
       DEF ShownInv, Engine, vars, Tracer!callCallback, Tracer!Push, Tracer!Sort, Tracer!Notify,
           Tracer!session, Tracer!windows
<1>2. /\ toRead = 0 /\ window["events"].rows = << >> /\ ToldOf
      /\ window \in [{"traces", "events"} -> EventWindow]
      /\ window["events"].open /\ callbacks /\ Tracer!EventsSorted
    BY <1>1 DEF ShownInv
<1>3. PICK r \in Recorders :
        Tracer!callCallback(r) \/ Tracer!Push(r) \/ Tracer!Sort(r) \/ Tracer!Notify(r)
    BY DEF Engine
<1>4. CASE Tracer!callCallback(r)
  <2>1. UNCHANGED <<m_events, window>> /\ recorder[r].pc = "idle"
      BY <1>4 DEF Tracer!callCallback, Tracer!lists, Tracer!windows
  <2>2. PICK got : recorder' = [recorder EXCEPT ![r] = got] /\ got.pc \notin {"sort", "notify"}
      BY <1>4 DEF Tracer!callCallback, Tracer!recordCall, Tracer!recordRet, Tracer!Idle
  <2>3. /\ recorder'[r] = got
        /\ \A s \in Recorders : s # r => recorder'[s] = recorder[s]
      BY <2>2 DEF RecordTypes
  <2>4. (Tracer!EventsSorted)'
      BY <1>2, <2>1, <2>2, <2>3 DEF Tracer!EventsSorted, Tracer!IsSortedByPosition
  <2>5. ToldOf'
      BY <1>2, <2>1, <2>2, <2>3 DEF ToldOf
  <2> QED BY <1>1, <1>2, <2>1, <2>4, <2>5 DEF ShownInv
<1>5. CASE Tracer!Push(r)
  <2>1. UNCHANGED window /\ recorder' = [recorder EXCEPT ![r].pc = "sort"]
      BY <1>5 DEF Tracer!Push, Tracer!windows
  <2>2. recorder'[r].pc = "sort"
      BY <1>5, <2>1 DEF Tracer!Push, RecordTypes, Tracer!Idle
  <2>3. (Tracer!EventsSorted)' /\ ToldOf'
      BY <2>2 DEF Tracer!EventsSorted, ToldOf
  <2> QED BY <1>1, <1>2, <2>1, <2>3 DEF ShownInv
<1>6. CASE Tracer!Sort(r)
  <2>1. /\ UNCHANGED window /\ recorder' = [recorder EXCEPT ![r].pc = "notify"]
        /\ m_events' \in Tracer!sortEvents(m_events)
      BY <1>6 DEF Tracer!Sort, Tracer!windows
  <2>2. recorder'[r].pc = "notify"
      BY <1>6, <2>1 DEF Tracer!Sort, RecordTypes, Tracer!Idle
  <2>3. (Tracer!EventsSorted)'
      BY <2>1 DEF Tracer!EventsSorted, Tracer!sortEvents, Tracer!IsSortedByPosition
  <2>4. ToldOf'
      BY <2>2 DEF ToldOf
  <2> QED BY <1>1, <1>2, <2>1, <2>3, <2>4 DEF ShownInv
<1>7. CASE Tracer!Notify(r)
  <2>1. /\ UNCHANGED m_events /\ recorder' = [recorder EXCEPT ![r] = Tracer!Idle]
        /\ recorder[r].pc = "notify"
        /\ window' = [window EXCEPT !["events"].marked = TRUE]
      BY <1>2, <1>7 DEF Tracer!Notify, Tracer!lists, Tracer!Mark
  <2>2. /\ window' \in [{"traces", "events"} -> EventWindow]
        /\ window'["events"].open /\ window'["events"].marked
        /\ window'["events"].rows = window["events"].rows
      BY <1>2, <2>1 DEF EventWindow
  <2>3. (Tracer!EventsSorted)'
    <3>1. \A s \in Recorders : recorder[s].pc = "sort" => s # r /\ recorder'[s] = recorder[s]
        BY <2>1 DEF RecordTypes
    <3> QED BY <1>2, <2>1, <3>1 DEF Tracer!EventsSorted, Tracer!IsSortedByPosition
  <2> QED BY <1>1, <1>2, <2>2, <2>3 DEF ShownInv, ToldOf
<1> QED BY <1>3, <1>4, <1>5, <1>6, <1>7

(* The window reads the rows when the run is over, and nobody adds any. *)
LEMMA RefreshShown ==
    ASSUME RecordTypes, ShownInv, Refresh
    PROVE  ShownInv'
<1>1. /\ pc = "done" /\ pc' = pc /\ UNCHANGED <<callbacks, m_events, todo, recorder>>
      /\ m_events \in Seq(Invocations)
    BY DEF Refresh, RecordTypes, vars, Tracer!ShowEvents, Tracer!ReadRow, Tracer!session,
           Tracer!lists, Tracer!recording
<1>2. /\ window \in [{"traces", "events"} -> EventWindow] /\ window["events"].open
      /\ callbacks /\ toRead \in Nat /\ ~Tracer!Replaying
      /\ window["events"].marked => toRead = 0
      /\ ~window["events"].marked => Reading
    BY <1>1 DEF ShownInv
<1>3. (Tracer!EventsSorted)' /\ ~Tracer!Replaying'
    BY <1>1, <1>2 DEF ShownInv, Tracer!EventsSorted, Tracer!IsSortedByPosition, Tracer!Replaying
<1> SUFFICES /\ window' \in [{"traces", "events"} -> EventWindow] /\ window'["events"].open
             /\ toRead' \in Nat
             /\ ~window'["events"].marked
             /\ Reading'
    BY <1>1, <1>2, <1>3 DEF ShownInv
<1>4. CASE Tracer!ShowEvents
  <2>1. /\ window' = [window EXCEPT !["events"] =
                         [open |-> TRUE, marked |-> FALSE, rows |-> << >>]]
        /\ toRead' = Len(m_events)
      BY <1>4 DEF Tracer!ShowEvents, Tracer!RereadEvents
  <2>2. << >> \in Seq(Invocations)
      OBVIOUS
  <2>3. /\ window' \in [{"traces", "events"} -> EventWindow]
        /\ window'["events"] = [open |-> TRUE, marked |-> FALSE, rows |-> << >>]
      BY <1>2, <2>1, <2>2 DEF EventWindow
  <2>4. Len(m_events) \in Nat /\ Len(<< >>) = 0 /\ DOMAIN << >> = {}
      BY <1>1
  <2> QED BY <1>1, <2>1, <2>3, <2>4 DEF Reading
<1>5. CASE Tracer!ReadRow
  <2> DEFINE rows == window["events"].rows
             next == m_events[Len(rows) + 1]
  <2>1. /\ toRead > 0 /\ toRead' = toRead - 1
        /\ window' = [window EXCEPT !["events"].rows = Append(rows, next)]
      BY <1>5 DEF Tracer!ReadRow
  <2>2. ~window["events"].marked /\ Reading
      BY <1>2, <2>1
  <2>3. /\ rows \in Seq(Invocations)
        /\ Len(rows) + toRead = Len(m_events)
        /\ \A k \in DOMAIN rows : rows[k] = m_events[k]
      BY <1>2, <2>2 DEF Reading, EventWindow
  <2>4. next \in Invocations
    <3>1. Len(rows) \in Nat /\ Len(m_events) \in Nat
        BY <1>1, <2>3
    <3>2. Len(rows) + 1 \in 1 .. Len(m_events)
        BY <1>2, <2>1, <2>3, <3>1
    <3> QED BY <1>1, <3>2
  <2> HIDE DEF rows, next
  <2>5. /\ Append(rows, next) \in Seq(Invocations)
        /\ Len(Append(rows, next)) = Len(rows) + 1
        /\ \A k \in DOMAIN Append(rows, next) : Append(rows, next)[k] = m_events[k]
    <3>1. Append(rows, next)[Len(rows) + 1] = m_events[Len(rows) + 1]
        BY <2>3, <2>4 DEF next
    <3>2. \A k \in 1 .. Len(rows) : Append(rows, next)[k] = m_events[k]
        BY <2>3, <2>4
    <3>3. DOMAIN Append(rows, next) = 1 .. Len(rows) + 1 /\ Len(rows) \in Nat
        BY <2>3, <2>4
    <3> QED BY <2>3, <2>4, <3>1, <3>2, <3>3
  <2>6. /\ window' \in [{"traces", "events"} -> EventWindow]
        /\ window'["events"].open /\ ~window'["events"].marked
        /\ window'["events"].rows = Append(rows, next)
      BY <1>2, <2>1, <2>2, <2>5 DEF EventWindow
  <2>7. Len(Append(rows, next)) + toRead' = Len(m_events)
    <3>1. Len(rows) \in Nat
        BY <2>3
    <3> QED BY <1>2, <2>1, <2>3, <2>5, <3>1
  <2>8. Reading'
      BY <1>1, <2>5, <2>6, <2>7 DEF Reading
  <2> QED BY <1>2, <2>1, <2>6, <2>8
<1> QED BY <1>4, <1>5 DEF Refresh

LEMMA NextShownInv == RecordTypes /\ ShownInv /\ [TracedNext]_tracedVars => ShownInv'
<1> SUFFICES ASSUME RecordTypes, ShownInv, [TracedNext]_tracedVars PROVE ShownInv'
    OBVIOUS
<1>1. CASE FullRunStep
  <2>1. UNCHANGED <<window, callbacks, toRead, m_events, recorder>> /\ ~Tracer!Replaying
      BY <1>1 DEF FullRunStep, ReplayRecords, tracerVars
  <2>2. /\ pc # "done"
        /\ pc' = "done" => UNCHANGED todo
    <3>1. CASE ReplayRecords
        BY <3>1 DEF ReplayRecords, ReplayStep, LeaveWhile
    <3>2. CASE (requestFullRun \/ NextThread \/ Restore) /\ UNCHANGED tracerVars
        BY <3>2 DEF requestFullRun, NextThread, Restore, tracerVars
    <3> QED BY <1>1, <3>1, <3>2 DEF FullRunStep
  <2> QED BY <2>1, <2>2, SteadyShown
<1>2. CASE Engine
    BY <1>2, EngineShown
<1>3. CASE Refresh
    BY <1>3, RefreshShown
<1>4. CASE (Cancel /\ UNCHANGED tracerVars) \/ UNCHANGED tracedVars
  <2>1. UNCHANGED <<window, callbacks, toRead, m_events, recorder, todo, pc>>
      BY <1>4 DEF Cancel, tracedVars, tracerVars, vars
  <2> QED BY <2>1, SteadyShown
<1> QED BY <1>1, <1>2, <1>3, <1>4 DEF TracedNext

LEMMA ShownInvImplies == RecordTypes /\ ShownInv => RefreshedShowsRun
<1> SUFFICES ASSUME RecordTypes, ShownInv,
                    pc = "done", ~window["events"].marked, toRead = 0
             PROVE  window["events"].rows = m_events /\ Tracer!IsSortedByPosition(m_events)
    BY DEF RefreshedShowsRun
<1>1. Tracer!IsSortedByPosition(m_events)
    BY DEF ShownInv, Tracer!EventsSorted, Tracer!Replaying
<1> DEFINE rows == window["events"].rows
<1>2. /\ rows \in Seq(Invocations) /\ m_events \in Seq(Invocations)
      /\ Len(rows) = Len(m_events)
      /\ \A k \in DOMAIN rows : rows[k] = m_events[k]
  <2>1. Reading /\ rows \in Seq(Invocations) /\ m_events \in Seq(Invocations)
      BY DEF ShownInv, RecordTypes, EventWindow
  <2>2. Len(rows) + 0 = Len(m_events) /\ \A k \in DOMAIN rows : rows[k] = m_events[k]
      BY <2>1 DEF Reading
  <2>3. Len(rows) \in Nat
      BY <2>1
  <2> QED BY <2>1, <2>2, <2>3
<1> HIDE DEF rows
<1>3. rows = m_events
    BY <1>2
<1> QED BY <1>1, <1>3 DEF rows

(* Whenever the window has no refresh to do after a full run, it shows what *)
(* was recorded, in the order of the trace.                                 *)
THEOREM WindowShowsRun == TracedSpec => []RefreshedShowsRun
<1>1. TracedInit => RecordInv /\ ShownInv
    BY InitRecordInv, InitShownInv
<1>2. RunInv /\ RecordInv /\ [TracedNext]_tracedVars => RecordInv'
    BY NextRecordInv
<1>3. RecordInv /\ ShownInv /\ [TracedNext]_tracedVars => ShownInv'
    BY NextShownInv DEF RecordInv
<1>4. RecordInv /\ ShownInv => RefreshedShowsRun
    BY ShownInvImplies DEF RecordInv
<1> QED BY <1>1, <1>2, <1>3, <1>4, TracedRunInv, PTL DEF TracedSpec
==============================================================================
