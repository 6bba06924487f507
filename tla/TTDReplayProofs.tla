---------------------------- MODULE TTDReplayProofs ----------------------------
(***************************************************************************)
(* Where the cursor can be after a replay, for every trace.                *)
(***************************************************************************)
EXTENDS TTDReplay, ArithmeticProofs

(* Cursor::SetPosition always leaves the cursor in the trace. *)
LEMMA SetPositionType ==
    ASSUME NEW p \in Int
    PROVE  SetPosition(p) \in Position
BY PositionAssumption DEF SetPosition, Position

LEMMA PositionsAreNaturals ==
    /\ Position \subseteq Nat
    /\ FirstPosition \in Position
    /\ LastPosition \in Position
    /\ NoPosition \notin Position
BY PositionAssumption DEF Position, NoPosition

(* A replay forwards stays between the cursor and its limit, and stops at   *)
(* the first touched watchpoint: no position it passes over touches one.    *)
THEOREM ReplayForwardStops ==
    ASSUME NEW p \in Position, NEW last \in Position, p <= last,
           NEW steps \in Int, NEW watchpoints
    PROVE  LET to == ReplayForward(p, last, steps, watchpoints)
           IN  /\ to \in Position
               /\ p <= to /\ to <= last
               /\ \A q \in Position : p < q /\ q < to => ~Touched(q, watchpoints)
<1> DEFINE S == StopsForward(p, last, steps, watchpoints)
<1> DEFINE to == Min(S)
<1>1. p \in Nat /\ last \in Nat /\ p .. last \subseteq Position
  BY PositionsAreNaturals, PositionAssumption DEF Position
<1>2. S \in SUBSET Nat /\ last \in S /\ S \subseteq p .. last
  BY <1>1 DEF StopsForward
<1>3. to \in S /\ \A q \in S : to <= q
  BY <1>2, MinProperty
<1>4. ASSUME NEW q \in Position, p < q, q < to PROVE ~Touched(q, watchpoints)
  <2>1. q \notin S
    BY <1>2, <1>3, <1>4, PositionsAreNaturals
  <2>2. q \in p .. last
    BY <1>1, <1>2, <1>3, <1>4, PositionsAreNaturals
  <2> QED
    BY <1>4, <2>1, <2>2 DEF StopsForward
<1> QED
  BY <1>1, <1>2, <1>3, <1>4 DEF ReplayForward

(* The same backwards. *)
THEOREM ReplayBackwardStops ==
    ASSUME NEW p \in Position, NEW first \in Position, first <= p,
           NEW steps \in Int, NEW watchpoints
    PROVE  LET to == ReplayBackward(p, first, steps, watchpoints)
           IN  /\ to \in Position
               /\ first <= to /\ to <= p
               /\ \A q \in Position : to < q /\ q < p => ~Touched(q, watchpoints)
<1> DEFINE S == StopsBackward(p, first, steps, watchpoints)
<1> DEFINE to == Max(S)
<1>1. p \in Nat /\ first \in Nat /\ first .. p \subseteq Position
  BY PositionsAreNaturals, PositionAssumption DEF Position
<1>2. S \in SUBSET Nat /\ first \in S /\ S \subseteq first .. p
  BY <1>1 DEF StopsBackward
<1>3. \A q \in S : q <= p
  BY <1>1, <1>2
<1>4. to \in S /\ \A q \in S : to >= q
  BY <1>1, <1>2, <1>3, MaxProperty
<1>5. ASSUME NEW q \in Position, to < q, q < p PROVE ~Touched(q, watchpoints)
  <2>1. q \notin S
    BY <1>2, <1>4, <1>5, PositionsAreNaturals
  <2>2. q \in first .. p
    BY <1>1, <1>2, <1>4, <1>5, PositionsAreNaturals
  <2> QED
    BY <1>5, <2>1, <2>2 DEF StopsBackward
<1> QED
  BY <1>1, <1>2, <1>4, <1>5 DEF ReplayBackward
==============================================================================
