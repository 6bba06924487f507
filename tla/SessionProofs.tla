----------------------------- MODULE SessionProofs -----------------------------
(***************************************************************************)
(* Proofs that the debugger manager implements DebugSession, and that what *)
(* IDA shows at a stop is the trace at the cursor, with full runs of the   *)
(* cursor and without.  All of them come from one invariant about what IDA *)
(* will know after the queue.                                              *)
(***************************************************************************)
EXTENDS FullRunInSession, DebuggerManagerProofs

------------------------------------------------------------------------------
(* What is known after a sequence of events. *)

LEMMA KnownType ==
    ASSUME NEW known \in SUBSET Subject, NEW queue
    PROVE  KnownAfter(known, queue) \in SUBSET Subject
BY DEF KnownAfter

LEMMA KnownAfterNothing ==
    ASSUME NEW known
    PROVE  KnownAfter(known, << >>) = known
<1>1. DOMAIN << >> = {}
  BY EmptySeq
<1> QED
  BY <1>1 DEF KnownAfter

LEMMA KnownAfterOne ==
    ASSUME NEW known, NEW e
    PROVE  KnownAfter(known, <<e>>) = (known \ Drops(e)) \cup (Brings(e) \cap Subject)
<1>1. DOMAIN <<e>> = {1} /\ <<e>>[1] = e
  OBVIOUS
<1>2. ~(1 > 1)
  OBVIOUS
<1> QED
  BY <1>1, <1>2 DEF KnownAfter

(* Two sequences are known one after the other. *)
LEMMA KnownAfterBoth ==
    ASSUME NEW known \in SUBSET Subject, NEW p \in Seq(DebugEvent), NEW q \in Seq(DebugEvent)
    PROVE  KnownAfter(known, p \o q) = KnownAfter(KnownAfter(known, p), q)
<1>1. /\ Len(p) \in Nat /\ Len(q) \in Nat
      /\ DOMAIN p = 1 .. Len(p) /\ DOMAIN q = 1 .. Len(q)
      /\ DOMAIN (p \o q) = 1 .. Len(p) + Len(q)
      /\ \A i \in 1 .. Len(p) : (p \o q)[i] = p[i]
      /\ \A i \in 1 .. Len(q) : (p \o q)[Len(p) + i] = q[i]
  <2>1. p \o q \in Seq(DebugEvent) /\ Len(p \o q) = Len(p) + Len(q)
    BY ConcatProperties
  <2>2. \A i \in 1 .. Len(p) + Len(q) :
            (p \o q)[i] = IF i <= Len(p) THEN p[i] ELSE q[i - Len(p)]
    BY ConcatProperties
  <2>3. Len(p) \in Nat /\ Len(q) \in Nat
    BY LenProperties
  <2>4. \A i \in 1 .. Len(q) : /\ Len(p) + i \in 1 .. Len(p) + Len(q)
                               /\ ~(Len(p) + i <= Len(p))
                               /\ Len(p) + i - Len(p) = i
    BY <2>3
  <2>5. \A i \in 1 .. Len(p) : i \in 1 .. Len(p) + Len(q) /\ i <= Len(p)
    BY <2>3
  <2>6. \A i \in 1 .. Len(q) : (p \o q)[Len(p) + i] = q[i]
    BY <2>2, <2>4
  <2>7. \A i \in 1 .. Len(p) : (p \o q)[i] = p[i]
    BY <2>2, <2>5
  <2> QED
    BY <2>1, <2>3, <2>6, <2>7, LenProperties
<1> DEFINE Kept(x, queue) == \A i \in DOMAIN queue : x \notin Drops(queue[i])
           Brought(x, queue) ==
               \E i \in DOMAIN queue :
                   /\ x \in Brings(queue[i])
                   /\ \A j \in DOMAIN queue : j > i => x \notin Drops(queue[j])
<1>2. \A k \in SUBSET Subject : \A queue, x :
          x \in KnownAfter(k, queue) <=> (x \in k /\ Kept(x, queue))
                                            \/ (x \in Subject /\ Brought(x, queue))
  BY DEF KnownAfter
<1>3. \A x : Kept(x, p \o q) <=> Kept(x, p) /\ Kept(x, q)
  <2> TAKE x
  <2>1. ASSUME Kept(x, p \o q) PROVE Kept(x, p) /\ Kept(x, q)
    <3>1. \A i \in 1 .. Len(q) : Len(p) + i \in DOMAIN (p \o q)
      BY <1>1
    <3>2. \A i \in 1 .. Len(p) : i \in DOMAIN (p \o q)
      BY <1>1
    <3> QED
      BY <1>1, <2>1, <3>1, <3>2
  <2>2. ASSUME Kept(x, p), Kept(x, q) PROVE Kept(x, p \o q)
    <3> SUFFICES ASSUME NEW i \in DOMAIN (p \o q) PROVE x \notin Drops((p \o q)[i])
      OBVIOUS
    <3>1. CASE i \in 1 .. Len(p)
      BY <1>1, <2>2, <3>1
    <3>2. CASE i \notin 1 .. Len(p)
      <4>1. i - Len(p) \in 1 .. Len(q) /\ i = Len(p) + (i - Len(p))
        BY <1>1, <3>2
      <4> QED
        BY <1>1, <2>2, <4>1
    <3> QED
      BY <3>1, <3>2
  <2> QED
    BY <2>1, <2>2
<1>4. \A x : Brought(x, p \o q) <=> Brought(x, q) \/ (Brought(x, p) /\ Kept(x, q))
  <2> TAKE x
  <2>1. ASSUME Brought(x, p \o q) PROVE Brought(x, q) \/ (Brought(x, p) /\ Kept(x, q))
    <3>1. PICK i \in DOMAIN (p \o q) :
            /\ x \in Brings((p \o q)[i])
            /\ \A j \in DOMAIN (p \o q) : j > i => x \notin Drops((p \o q)[j])
      BY <2>1
    <3>2. CASE i \in 1 .. Len(p)
      <4>1. ASSUME NEW j \in 1 .. Len(q) PROVE x \notin Drops(q[j])
        <5>1. Len(p) + j \in DOMAIN (p \o q) /\ Len(p) + j > i
          BY <1>1, <3>2
        <5> QED
          BY <1>1, <3>1, <5>1
      <4>2. ASSUME NEW j \in 1 .. Len(p), j > i PROVE x \notin Drops(p[j])
        <5>1. j \in DOMAIN (p \o q)
          BY <1>1
        <5> QED
          BY <1>1, <3>1, <4>2, <5>1
      <4>3. x \in Brings(p[i])
        BY <1>1, <3>1, <3>2
      <4> QED
        BY <1>1, <3>2, <4>1, <4>2, <4>3
    <3>3. CASE i \notin 1 .. Len(p)
      <4>1. i - Len(p) \in 1 .. Len(q) /\ i = Len(p) + (i - Len(p))
        BY <1>1, <3>3
      <4>2. ASSUME NEW j \in 1 .. Len(q), j > i - Len(p) PROVE x \notin Drops(q[j])
        <5>1. Len(p) + j \in DOMAIN (p \o q) /\ Len(p) + j > i
          BY <1>1, <4>1, <4>2
        <5> QED
          BY <1>1, <3>1, <5>1
      <4>3. x \in Brings(q[i - Len(p)])
        BY <1>1, <3>1, <4>1
      <4> QED
        BY <1>1, <4>1, <4>2, <4>3
    <3> QED
      BY <3>2, <3>3
  <2>2. ASSUME Brought(x, q) PROVE Brought(x, p \o q)
    <3>1. PICK i \in 1 .. Len(q) :
            /\ x \in Brings(q[i])
            /\ \A j \in 1 .. Len(q) : j > i => x \notin Drops(q[j])
      BY <1>1, <2>2
    <3>2. Len(p) + i \in DOMAIN (p \o q) /\ x \in Brings((p \o q)[Len(p) + i])
      BY <1>1, <3>1
    <3>3. ASSUME NEW j \in DOMAIN (p \o q), j > Len(p) + i PROVE x \notin Drops((p \o q)[j])
      <4>1. j - Len(p) \in 1 .. Len(q) /\ j - Len(p) > i /\ j = Len(p) + (j - Len(p))
        BY <1>1, <3>3
      <4> QED
        BY <1>1, <3>1, <4>1
    <3> QED
      BY <3>2, <3>3
  <2>3. ASSUME Brought(x, p), Kept(x, q) PROVE Brought(x, p \o q)
    <3>1. PICK i \in 1 .. Len(p) :
            /\ x \in Brings(p[i])
            /\ \A j \in 1 .. Len(p) : j > i => x \notin Drops(p[j])
      BY <1>1, <2>3
    <3>2. i \in DOMAIN (p \o q) /\ x \in Brings((p \o q)[i])
      BY <1>1, <3>1
    <3>3. ASSUME NEW j \in DOMAIN (p \o q), j > i PROVE x \notin Drops((p \o q)[j])
      <4>1. CASE j \in 1 .. Len(p)
        BY <1>1, <3>1, <3>3, <4>1
      <4>2. CASE j \notin 1 .. Len(p)
        <5>1. j - Len(p) \in 1 .. Len(q) /\ j = Len(p) + (j - Len(p))
          BY <1>1, <4>2
        <5> QED
          BY <1>1, <2>3, <5>1
      <4> QED
        BY <4>1, <4>2
    <3> QED
      BY <3>2, <3>3
  <2> QED
    BY <2>1, <2>2, <2>3
<1> HIDE DEF Kept, Brought
<1>5. KnownAfter(known, p) \in SUBSET Subject
  BY KnownType
<1>6. \A x : x \in KnownAfter(known, p \o q) <=> x \in KnownAfter(KnownAfter(known, p), q)
  <2> TAKE x
  <2>1. x \in KnownAfter(known, p \o q) <=>
            (x \in known /\ Kept(x, p \o q)) \/ (x \in Subject /\ Brought(x, p \o q))
    BY <1>2
  <2>2. x \in KnownAfter(KnownAfter(known, p), q) <=>
            (x \in KnownAfter(known, p) /\ Kept(x, q)) \/ (x \in Subject /\ Brought(x, q))
    BY <1>2, <1>5
  <2>3. x \in KnownAfter(known, p) <=> (x \in known /\ Kept(x, p)) \/ (x \in Subject /\ Brought(x, p))
    BY <1>2
  <2> QED
    BY <1>3, <1>4, <2>1, <2>2, <2>3
<1> QED
  BY <1>6
------------------------------------------------------------------------------
(* What the lists of the engine tell. *)

LEMMA ListingEnumerates ==
    ASSUME NEW S, IsFiniteSet(S), NEW list \in Listings(S)
    PROVE  /\ \A i \in DOMAIN list : list[i] \in S
           /\ \A x \in S : \E i \in DOMAIN list : list[i] = x
BY DEF Listings, Bijection, Injection, Surjection

Named(kind, S) == {<<kind, x>> : x \in S}

LEMMA NamedSubjects ==
    /\ \A S \in SUBSET Threads : Named("thread", S) \subseteq Subject
    /\ \A S \in SUBSET Modules : Named("module", S) \subseteq Subject
BY DEF Named, Subject

LEMMA KnownAfterThreads ==
    ASSUME NEW known \in SUBSET Subject, NEW S \in SUBSET Threads, NEW list \in Listings(S)
    PROVE  /\ KnownAfter(known, ThreadStarts(list)) = known \cup Named("thread", S)
           /\ KnownAfter(known, ThreadExits(list)) = known \ Named("thread", S)
<1>1. /\ \A i \in DOMAIN list : list[i] \in S
      /\ \A x \in S : \E i \in DOMAIN list : list[i] = x
  BY TraceAssumption, FS_Subset, ListingEnumerates
<1>2. /\ DOMAIN ThreadStarts(list) = DOMAIN list
      /\ DOMAIN ThreadExits(list) = DOMAIN list
  BY DEF ThreadStarts, ThreadExits
<1>3. \A i \in DOMAIN list :
          /\ Brings(ThreadStarts(list)[i]) = {<<"thread", list[i]>>}
          /\ Drops(ThreadStarts(list)[i]) = {}
          /\ Brings(ThreadExits(list)[i]) = {}
          /\ Drops(ThreadExits(list)[i]) = {<<"thread", list[i]>>}
  BY DEF ThreadStarts, ThreadExits, ThreadStartEvent, ThreadExitEvent, Event, Brings, Drops
<1>4. Named("thread", S) \subseteq Subject
  BY NamedSubjects
<1>5. KnownAfter(known, ThreadStarts(list)) = known \cup Named("thread", S)
  BY <1>1, <1>2, <1>3, <1>4 DEF KnownAfter, Named
<1>6. KnownAfter(known, ThreadExits(list)) = known \ Named("thread", S)
  BY <1>1, <1>2, <1>3 DEF KnownAfter, Named
<1> QED
  BY <1>5, <1>6

LEMMA KnownAfterModules ==
    ASSUME NEW known \in SUBSET Subject, NEW S \in SUBSET Modules, NEW list \in Listings(S)
    PROVE  /\ KnownAfter(known, LibLoads(list)) = known \cup Named("module", S)
           /\ KnownAfter(known, LibUnloads(list)) = known \ Named("module", S)
<1>1. /\ \A i \in DOMAIN list : list[i] \in S
      /\ \A x \in S : \E i \in DOMAIN list : list[i] = x
  BY TraceAssumption, FS_Subset, ListingEnumerates
<1>2. /\ DOMAIN LibLoads(list) = DOMAIN list
      /\ DOMAIN LibUnloads(list) = DOMAIN list
  BY DEF LibLoads, LibUnloads
<1>3. \A i \in DOMAIN list :
          /\ Brings(LibLoads(list)[i]) = {<<"module", list[i]>>}
          /\ Drops(LibLoads(list)[i]) = {}
          /\ Brings(LibUnloads(list)[i]) = {}
          /\ Drops(LibUnloads(list)[i]) = {<<"module", list[i]>>}
  BY DEF LibLoads, LibUnloads, LibLoadEvent, LibUnloadEvent, Event, Brings, Drops
<1>4. Named("module", S) \subseteq Subject
  BY NamedSubjects
<1>5. KnownAfter(known, LibLoads(list)) = known \cup Named("module", S)
  BY <1>1, <1>2, <1>3, <1>4 DEF KnownAfter, Named
<1>6. KnownAfter(known, LibUnloads(list)) = known \ Named("module", S)
  BY <1>1, <1>2, <1>3 DEF KnownAfter, Named
<1> QED
  BY <1>5, <1>6

LEMMA KnownAfterFour ==
    ASSUME NEW known \in SUBSET Subject, NEW p \in Seq(DebugEvent), NEW q \in Seq(DebugEvent),
           NEW r \in Seq(DebugEvent), NEW s \in Seq(DebugEvent)
    PROVE  /\ p \o q \o r \o s \in Seq(DebugEvent)
           /\ KnownAfter(known, p \o q \o r \o s) =
                  KnownAfter(KnownAfter(KnownAfter(KnownAfter(known, p), q), r), s)
<1>1. p \o q \in Seq(DebugEvent)
  BY ConcatProperties
<1>2. (p \o q) \o r \in Seq(DebugEvent)
  BY <1>1, ConcatProperties
<1>3. ((p \o q) \o r) \o s \in Seq(DebugEvent)
  BY <1>2, ConcatProperties
<1>4. KnownAfter(known, p \o q) = KnownAfter(KnownAfter(known, p), q)
  BY KnownAfterBoth
<1>5. KnownAfter(known, (p \o q) \o r) = KnownAfter(KnownAfter(known, p \o q), r)
  BY <1>1, KnownAfterBoth
<1>6. KnownAfter(known, ((p \o q) \o r) \o s) = KnownAfter(KnownAfter(known, (p \o q) \o r), s)
  BY <1>2, KnownAfterBoth
<1> QED
  BY <1>3, <1>4, <1>5, <1>6

(* After the differences, in whatever order the lists are. *)
LEMMA KnownAfterDifferences ==
    ASSUME NEW known \in SUBSET Subject,
           NEW exited \in SUBSET Threads, NEW started \in SUBSET Threads,
           NEW unloaded \in SUBSET Modules, NEW loaded \in SUBSET Modules,
           NEW events \in Differences(exited, started, unloaded, loaded)
    PROVE  KnownAfter(known, events) =
               (((known \ Named("thread", exited)) \cup Named("thread", started))
                   \ Named("module", unloaded)) \cup Named("module", loaded)
<1>1. PICK e \in Listings(exited), s \in Listings(started),
           u \in Listings(unloaded), l \in Listings(loaded) :
        events = ThreadExits(e) \o ThreadStarts(s) \o LibUnloads(u) \o LibLoads(l)
  BY DEF Differences
<1>2. ThreadExits(e) \in Seq(DebugEvent) /\ ThreadStarts(s) \in Seq(DebugEvent)
  BY ThreadListingTypes
<1>3. LibUnloads(u) \in Seq(DebugEvent) /\ LibLoads(l) \in Seq(DebugEvent)
  BY ModuleListingTypes
<1> DEFINE k1 == KnownAfter(known, ThreadExits(e))
           k2 == KnownAfter(k1, ThreadStarts(s))
           k3 == KnownAfter(k2, LibUnloads(u))
           k4 == KnownAfter(k3, LibLoads(l))
<1>4. KnownAfter(known, events) = k4
  BY <1>1, <1>2, <1>3, KnownAfterFour
<1>5. k1 = known \ Named("thread", exited)
  BY KnownAfterThreads
<1>6. k1 \in SUBSET Subject
  BY KnownType
<1> HIDE DEF k1
<1>7. k2 = k1 \cup Named("thread", started)
  BY <1>6, KnownAfterThreads
<1>8. k2 \in SUBSET Subject
  BY <1>6, KnownType
<1> HIDE DEF k2
<1>9. k3 = k2 \ Named("module", unloaded)
  BY <1>8, KnownAfterModules
<1>10. k3 \in SUBSET Subject
  BY <1>8, KnownType
<1> HIDE DEF k3
<1>11. k4 = k3 \cup Named("module", loaded)
  BY <1>10, KnownAfterModules
<1> HIDE DEF k4
<1> QED
  BY <1>4, <1>5, <1>7, <1>9, <1>11

(* A new process, with what simulates it, is all that is known after the   *)
(* events of its start.                                                    *)
LEMMA KnownAfterSessionEvents ==
    ASSUME NEW known \in SUBSET Subject,
           NEW simulated \in SUBSET Modules, NEW started \in SUBSET Threads,
           NEW loaded \in SUBSET Modules,
           NEW events \in SessionEvents(simulated, started, loaded)
    PROVE  KnownAfter(known, events) =
               Named("thread", {ActiveThread[FirstPosition]} \cup started)
                   \cup Named("module", {MainModule} \cup simulated \cup loaded)
<1> DEFINE e == ProcessStartEvent(ActiveThread[FirstPosition], MainModule)
           stop == BreakPointAt(FirstPosition)
<1>1. PICK s \in Listings(simulated), t \in Listings(started), m \in Listings(loaded) :
        events = <<e>> \o LibLoads(s) \o ThreadStarts(t) \o LibLoads(m) \o <<stop>>
  BY DEF SessionEvents
<1>2. ActiveThread[FirstPosition] \in Threads /\ MainModule \in Modules
  BY TraceAssumption, IndexZeroAssumption, PositionsAreNaturals
<1>3. e \in DebugEvent /\ stop \in DebugEvent
  BY <1>2, EventTypes, BreakPointAtType, PositionsAreNaturals
<1>4. Brings(e) = {<<"thread", ActiveThread[FirstPosition]>>, <<"module", MainModule>>}
      /\ Drops(e) = Subject
  BY DEF Brings, Drops, ProcessStartEvent, Event
<1>5. Brings(stop) = {} /\ Drops(stop) = {}
  BY DEF Brings, Drops, BreakPointAt, BreakPointEvent, Event
<1> HIDE DEF e, stop
<1>6. /\ <<e>> \in Seq(DebugEvent) /\ <<stop>> \in Seq(DebugEvent)
      /\ LibLoads(s) \in Seq(DebugEvent)
      /\ ThreadStarts(t) \in Seq(DebugEvent)
      /\ LibLoads(m) \in Seq(DebugEvent)
  BY <1>3, ThreadListingTypes, ModuleListingTypes
<1> DEFINE k1 == KnownAfter(known, <<e>>)
           k2 == KnownAfter(k1, LibLoads(s))
           k3 == KnownAfter(k2, ThreadStarts(t))
           k4 == KnownAfter(k3, LibLoads(m))
           front == <<e>> \o LibLoads(s) \o ThreadStarts(t) \o LibLoads(m)
<1>7. front \in Seq(DebugEvent) /\ KnownAfter(known, front) = k4
  <2> DEFINE first == <<e>>
             second == LibLoads(s)
             third == ThreadStarts(t)
             fourth == LibLoads(m)
  <2>1. /\ first \in Seq(DebugEvent) /\ second \in Seq(DebugEvent)
        /\ third \in Seq(DebugEvent) /\ fourth \in Seq(DebugEvent)
    BY <1>6
  <2> HIDE DEF first, second, third, fourth
  <2>2. /\ first \o second \o third \o fourth \in Seq(DebugEvent)
        /\ KnownAfter(known, first \o second \o third \o fourth) =
               KnownAfter(KnownAfter(KnownAfter(KnownAfter(known, first), second), third), fourth)
    BY <2>1, KnownAfterFour
  <2> QED
    BY <2>2 DEF first, second, third, fourth
<1>8. events = front \o <<stop>>
  BY <1>1
<1>9. k1 \in SUBSET Subject /\ k1 = (known \ Drops(e)) \cup (Brings(e) \cap Subject)
  BY KnownType, KnownAfterOne
<1> HIDE DEF k1, front
<1>10. k2 \in SUBSET Subject /\ k2 = k1 \cup Named("module", simulated)
  BY <1>9, KnownType, KnownAfterModules
<1> HIDE DEF k2
<1>11. k3 \in SUBSET Subject /\ k3 = k2 \cup Named("thread", started)
  BY <1>10, KnownType, KnownAfterThreads
<1> HIDE DEF k3
<1>12. k4 \in SUBSET Subject /\ k4 = k3 \cup Named("module", loaded)
  BY <1>11, KnownType, KnownAfterModules
<1> HIDE DEF k4
<1>13. KnownAfter(known, events) = KnownAfter(k4, <<stop>>)
  BY <1>6, <1>7, <1>8, KnownAfterBoth
<1>14. KnownAfter(k4, <<stop>>) = k4
  BY <1>5, KnownAfterOne
<1>15. k1 = {<<"thread", ActiveThread[FirstPosition]>>, <<"module", MainModule>>}
  BY <1>2, <1>4, <1>9 DEF Subject
<1> QED
  BY <1>10, <1>11, <1>12, <1>13, <1>14, <1>15 DEF Named
------------------------------------------------------------------------------
(* Polling: what IDA is given, it knows, and the rest is still to come. *)

LEMMA SubjectsOfView ==
    ASSUME NEW view \in View
    PROVE  SubjectsOf(view) \in SUBSET Subject
BY DEF SubjectsOf, Subject, View

LEMMA SubjectsAfter ==
    ASSUME NEW view \in View, NEW e \in DebugEvent
    PROVE  SubjectsOf(IdaAfter(view, e)) = KnownAfter(SubjectsOf(view), <<e>>)
<1>1. KnownAfter(SubjectsOf(view), <<e>>) =
        (SubjectsOf(view) \ Drops(e)) \cup (Brings(e) \cap Subject)
  BY KnownAfterOne
<1>2. e.eid \in EventIds
  BY DEF DebugEvent
<1>3. CASE e.eid = "PROCESS_STARTED"
  <2>1. e.tid \in Threads /\ e.module \in Modules
    BY <1>3 DEF DebugEvent
  <2>2. SubjectsOf(IdaAfter(view, e)) = {<<"thread", e.tid>>, <<"module", e.module>>}
    BY <1>3 DEF SubjectsOf, IdaAfter, View
  <2> QED
    BY <1>1, <1>3, <2>1, <2>2, SubjectsOfView DEF Brings, Drops, Subject
<1>4. CASE e.eid = "PROCESS_EXITED"
  BY <1>1, <1>4, SubjectsOfView DEF SubjectsOf, IdaAfter, NoView, Brings, Drops
<1>5. CASE e.eid = "THREAD_STARTED"
  <2>1. e.tid \in Threads
    BY <1>5 DEF DebugEvent
  <2>2. SubjectsOf(IdaAfter(view, e)) = SubjectsOf(view) \cup {<<"thread", e.tid>>}
    BY <1>5 DEF SubjectsOf, IdaAfter, View
  <2> QED
    BY <1>1, <1>5, <2>1, <2>2 DEF Brings, Drops, Subject
<1>6. CASE e.eid = "THREAD_EXITED"
  <2>1. SubjectsOf(IdaAfter(view, e)) = SubjectsOf(view) \ {<<"thread", e.tid>>}
    BY <1>6 DEF SubjectsOf, IdaAfter, View
  <2> QED
    BY <1>1, <1>6, <2>1 DEF Brings, Drops
<1>7. CASE e.eid = "LIB_LOADED"
  <2>1. e.module \in Modules
    BY <1>7 DEF DebugEvent
  <2>2. SubjectsOf(IdaAfter(view, e)) = SubjectsOf(view) \cup {<<"module", e.module>>}
    BY <1>7 DEF SubjectsOf, IdaAfter, View
  <2> QED
    BY <1>1, <1>7, <2>1, <2>2 DEF Brings, Drops, Subject
<1>8. CASE e.eid = "LIB_UNLOADED"
  <2>1. SubjectsOf(IdaAfter(view, e)) = SubjectsOf(view) \ {<<"module", e.module>>}
    BY <1>8 DEF SubjectsOf, IdaAfter, View
  <2> QED
    BY <1>1, <1>8, <2>1 DEF Brings, Drops
<1>9. CASE e.eid \in {"BREAKPOINT", "STEP"}
  BY <1>1, <1>9 DEF IdaAfter, Brings, Drops
<1> QED
  BY <1>2, <1>3, <1>4, <1>5, <1>6, <1>7, <1>8, <1>9 DEF EventIds

LEMMA HeadAndTail ==
    ASSUME NEW queue \in Seq(DebugEvent), ~isEmpty(queue)
    PROVE  /\ frontEvent(queue) \in DebugEvent
           /\ popEvent(queue) \in Seq(DebugEvent)
           /\ queue = <<frontEvent(queue)>> \o popEvent(queue)
<1>1. queue # << >>
  BY DEF isEmpty
<1>2. /\ Head(queue) \in DebugEvent /\ Tail(queue) \in Seq(DebugEvent)
      /\ queue = <<Head(queue)>> \o Tail(queue)
  BY <1>1, HeadTailProperties
<1> QED
  BY <1>2 DEF frontEvent, popEvent

LEMMA PollKeepsKnown == TypeOK /\ onGetDebugEvent => Known' = Known
<1> SUFFICES ASSUME TypeOK, onGetDebugEvent PROVE Known' = Known
  OBVIOUS
<1> DEFINE e == frontEvent(m_events)
           rest == popEvent(m_events)
<1>1. /\ m_events \in Seq(DebugEvent) /\ ~isEmpty(m_events) /\ ida \in View
      /\ m_events' = rest /\ ida' = IdaAfter(ida, e)
  BY DEF TypeOK, onGetDebugEvent
<1>2. e \in DebugEvent /\ rest \in Seq(DebugEvent) /\ m_events = <<e>> \o rest
  BY <1>1, HeadAndTail
<1>3. Known' = KnownAfter(SubjectsOf(ida'), m_events')
  BY DEF Known, KnownAfter, SubjectsOf
<1> HIDE DEF e, rest
<1>4. Known' = KnownAfter(KnownAfter(SubjectsOf(ida), <<e>>), rest)
  BY <1>1, <1>2, <1>3, SubjectsAfter
<1>5. <<e>> \in Seq(DebugEvent) /\ SubjectsOf(ida) \in SUBSET Subject
  BY <1>1, <1>2, SubjectsOfView
<1>6. KnownAfter(SubjectsOf(ida), <<e>> \o rest) =
        KnownAfter(KnownAfter(SubjectsOf(ida), <<e>>), rest)
  BY <1>2, <1>5, KnownAfterBoth
<1> QED
  BY <1>2, <1>4, <1>6 DEF Known

LEMMA PollKeepsLast == TypeOK /\ onGetDebugEvent => LastEvent' = LastEvent
<1> SUFFICES ASSUME TypeOK, onGetDebugEvent PROVE LastEvent' = LastEvent
  OBVIOUS
<1>1. /\ m_events \in Seq(DebugEvent) /\ m_events # << >>
      /\ m_events' = Tail(m_events) /\ dbgEvent' = Head(m_events)
  BY DEF TypeOK, onGetDebugEvent, isEmpty, frontEvent, popEvent
<1>2. /\ Len(m_events) \in Nat /\ Len(m_events) >= 1
      /\ Len(Tail(m_events)) = Len(m_events) - 1
      /\ \A j \in 1 .. Len(Tail(m_events)) : Tail(m_events)[j] = m_events[j + 1]
      /\ Head(m_events) = m_events[1]
      /\ Tail(m_events) \in Seq(DebugEvent)
  BY <1>1, HeadTailProperties, LenProperties, EmptySeq
<1>3. CASE Len(m_events) = 1
  <2> DEFINE rest == Tail(m_events)
  <2>0. rest \in Seq(DebugEvent) /\ Len(rest) = 0
    BY <1>2, <1>3
  <2> HIDE DEF rest
  <2>1. rest = << >>
    BY <2>0, EmptySeq
  <2> QED
    BY <1>1, <1>2, <1>3, <2>1 DEF LastEvent, isEmpty, rest
<1>4. CASE Len(m_events) # 1
  <2> DEFINE rest == Tail(m_events)
  <2>1. /\ rest \in Seq(DebugEvent) /\ Len(rest) >= 1
        /\ rest[Len(rest)] = m_events[Len(m_events)]
    BY <1>2, <1>4
  <2> HIDE DEF rest
  <2>2. rest # << >>
    BY <2>1, EmptySeq
  <2> QED
    BY <1>1, <2>1, <2>2 DEF LastEvent, isEmpty, rest
<1> QED
  BY <1>3, <1>4
------------------------------------------------------------------------------
(* Neither a move nor a new session queues an exit. *)

ExitFree(queue) == \A i \in DOMAIN queue : queue[i].eid # "PROCESS_EXITED"

LEMMA ExitFreeBoth ==
    ASSUME NEW p \in Seq(DebugEvent), NEW q \in Seq(DebugEvent), ExitFree(p), ExitFree(q)
    PROVE  p \o q \in Seq(DebugEvent) /\ ExitFree(p \o q)
<1>1. /\ p \o q \in Seq(DebugEvent) /\ Len(p \o q) = Len(p) + Len(q)
      /\ \A i \in 1 .. Len(p) + Len(q) :
             (p \o q)[i] = IF i <= Len(p) THEN p[i] ELSE q[i - Len(p)]
  BY ConcatProperties
<1>2. /\ Len(p) \in Nat /\ Len(q) \in Nat
      /\ DOMAIN p = 1 .. Len(p) /\ DOMAIN q = 1 .. Len(q)
      /\ DOMAIN (p \o q) = 1 .. Len(p) + Len(q)
  BY <1>1, LenProperties
<1>3. ASSUME NEW i \in 1 .. Len(p) + Len(q) PROVE (p \o q)[i].eid # "PROCESS_EXITED"
  <2>1. CASE i <= Len(p)
    <3>1. i \in DOMAIN p /\ (p \o q)[i] = p[i]
      BY <1>1, <1>2, <2>1
    <3> QED
      BY <3>1 DEF ExitFree
  <2>2. CASE ~(i <= Len(p))
    <3>1. i - Len(p) \in DOMAIN q /\ (p \o q)[i] = q[i - Len(p)]
      BY <1>1, <1>2, <2>2
    <3> QED
      BY <3>1 DEF ExitFree
  <2> QED
    BY <2>1, <2>2
<1> QED
  BY <1>1, <1>2, <1>3 DEF ExitFree

LEMMA ListingsExitFree ==
    ASSUME NEW list
    PROVE  /\ ExitFree(ThreadStarts(list)) /\ ExitFree(ThreadExits(list))
           /\ ExitFree(LibLoads(list)) /\ ExitFree(LibUnloads(list))
BY DEF ExitFree, ThreadStarts, ThreadExits, LibLoads, LibUnloads,
       ThreadStartEvent, ThreadExitEvent, LibLoadEvent, LibUnloadEvent, Event

LEMMA DifferencesExitFree ==
    ASSUME NEW exited \in SUBSET Threads, NEW started \in SUBSET Threads,
           NEW unloaded \in SUBSET Modules, NEW loaded \in SUBSET Modules,
           NEW events \in Differences(exited, started, unloaded, loaded)
    PROVE  events \in Seq(DebugEvent) /\ ExitFree(events)
<1>1. PICK e \in Listings(exited), s \in Listings(started),
           u \in Listings(unloaded), l \in Listings(loaded) :
        events = ThreadExits(e) \o ThreadStarts(s) \o LibUnloads(u) \o LibLoads(l)
  BY DEF Differences
<1>2. /\ ThreadExits(e) \in Seq(DebugEvent) /\ ThreadStarts(s) \in Seq(DebugEvent)
      /\ LibUnloads(u) \in Seq(DebugEvent) /\ LibLoads(l) \in Seq(DebugEvent)
  BY ThreadListingTypes, ModuleListingTypes
<1>3. /\ ThreadExits(e) \o ThreadStarts(s) \in Seq(DebugEvent)
      /\ ExitFree(ThreadExits(e) \o ThreadStarts(s))
  BY <1>2, ListingsExitFree, ExitFreeBoth
<1>4. /\ ThreadExits(e) \o ThreadStarts(s) \o LibUnloads(u) \in Seq(DebugEvent)
      /\ ExitFree(ThreadExits(e) \o ThreadStarts(s) \o LibUnloads(u))
  BY <1>2, <1>3, ListingsExitFree, ExitFreeBoth
<1> QED
  BY <1>1, <1>2, <1>4, ListingsExitFree, ExitFreeBoth

LEMMA SessionEventsExitFree ==
    ASSUME NEW simulated \in SUBSET Modules, NEW started \in SUBSET Threads,
           NEW loaded \in SUBSET Modules,
           NEW events \in SessionEvents(simulated, started, loaded)
    PROVE  /\ events \in Seq(DebugEvent) /\ ExitFree(events)
           /\ events # << >> /\ events[Len(events)] = BreakPointAt(FirstPosition)
<1> DEFINE e == ProcessStartEvent(ActiveThread[FirstPosition], MainModule)
           stop == BreakPointAt(FirstPosition)
<1>1. PICK s \in Listings(simulated), t \in Listings(started), m \in Listings(loaded) :
        events = <<e>> \o LibLoads(s) \o ThreadStarts(t) \o LibLoads(m) \o <<stop>>
  BY DEF SessionEvents
<1>2. ActiveThread[FirstPosition] \in Threads /\ MainModule \in Modules
  BY TraceAssumption, IndexZeroAssumption, PositionsAreNaturals
<1>3. e \in DebugEvent /\ stop \in DebugEvent
  BY <1>2, EventTypes, BreakPointAtType, PositionsAreNaturals
<1>4. e.eid # "PROCESS_EXITED" /\ stop.eid # "PROCESS_EXITED"
  BY DEF ProcessStartEvent, BreakPointAt, BreakPointEvent, Event
<1> HIDE DEF e, stop
<1>5. /\ <<e>> \in Seq(DebugEvent) /\ <<stop>> \in Seq(DebugEvent)
      /\ ExitFree(<<e>>) /\ ExitFree(<<stop>>)
  BY <1>3, <1>4 DEF ExitFree
<1>6. /\ LibLoads(s) \in Seq(DebugEvent) /\ ThreadStarts(t) \in Seq(DebugEvent)
      /\ LibLoads(m) \in Seq(DebugEvent)
      /\ ExitFree(LibLoads(s)) /\ ExitFree(ThreadStarts(t)) /\ ExitFree(LibLoads(m))
  BY ThreadListingTypes, ModuleListingTypes, ListingsExitFree
<1> DEFINE front == <<e>> \o LibLoads(s) \o ThreadStarts(t) \o LibLoads(m)
<1>7. front \in Seq(DebugEvent) /\ ExitFree(front)
  <2>1. <<e>> \o LibLoads(s) \in Seq(DebugEvent) /\ ExitFree(<<e>> \o LibLoads(s))
    BY <1>5, <1>6, ExitFreeBoth
  <2>2. /\ <<e>> \o LibLoads(s) \o ThreadStarts(t) \in Seq(DebugEvent)
        /\ ExitFree(<<e>> \o LibLoads(s) \o ThreadStarts(t))
    BY <1>6, <2>1, ExitFreeBoth
  <2> QED
    BY <1>6, <2>2, ExitFreeBoth
<1>8. events = front \o <<stop>>
  BY <1>1
<1> HIDE DEF front
<1>9. events \in Seq(DebugEvent) /\ ExitFree(events)
  BY <1>5, <1>7, <1>8, ExitFreeBoth
<1>10. events = Append(front, stop)
  BY <1>3, <1>7, <1>8, AppendIsConcat
<1>11. Len(events) = Len(front) + 1 /\ events[Len(front) + 1] = stop /\ Len(front) \in Nat
  BY <1>3, <1>7, <1>10, AppendProperties, LenProperties
<1>12. events # << >>
  BY <1>9, <1>11, EmptySeq
<1> QED
  BY <1>9, <1>11, <1>12 DEF stop
------------------------------------------------------------------------------
(* What is pushed comes after what is queued. *)

LEMMA PushedKnown ==
    ASSUME TypeOK, NEW events \in Seq(DebugEvent), m_events' = m_events \o events, UNCHANGED ida
    PROVE  /\ Known' = KnownAfter(Known, events)
           /\ ExitFree(events) => Exits' = Exits
           /\ events # << >> => LastEvent' = events[Len(events)]
<1>1. m_events \in Seq(DebugEvent) /\ ida \in View
  BY DEF TypeOK
<1>2. SubjectsOf(ida) \in SUBSET Subject
  BY <1>1, SubjectsOfView
<1>3. Known' = KnownAfter(SubjectsOf(ida'), m_events')
  BY DEF Known, KnownAfter, SubjectsOf
<1>4. Known' = KnownAfter(Known, events)
  BY <1>1, <1>2, <1>3, KnownAfterBoth DEF Known
<1>5. /\ Len(m_events) \in Nat /\ Len(events) \in Nat
      /\ DOMAIN m_events = 1 .. Len(m_events)
      /\ DOMAIN events = 1 .. Len(events)
      /\ m_events' \in Seq(DebugEvent)
      /\ Len(m_events') = Len(m_events) + Len(events)
      /\ DOMAIN m_events' = 1 .. Len(m_events) + Len(events)
      /\ \A i \in 1 .. Len(m_events) + Len(events) :
             m_events'[i] = IF i <= Len(m_events) THEN m_events[i]
                            ELSE events[i - Len(m_events)]
  BY <1>1, ConcatProperties, LenProperties
<1>6. ASSUME ExitFree(events) PROVE Exits' = Exits
  <2>1. ASSUME NEW i \in DOMAIN m_events', i \notin DOMAIN m_events
        PROVE  m_events'[i].eid # "PROCESS_EXITED"
    <3>1. i - Len(m_events) \in DOMAIN events /\ m_events'[i] = events[i - Len(m_events)]
      BY <1>5, <2>1
    <3> QED
      BY <1>6, <3>1 DEF ExitFree
  <2>2. ASSUME NEW i \in DOMAIN m_events PROVE i \in DOMAIN m_events' /\ m_events'[i] = m_events[i]
    BY <1>5
  <2> QED
    BY <2>1, <2>2 DEF Exits
<1>7. ASSUME events # << >> PROVE LastEvent' = events[Len(events)]
  <2>1. Len(events) >= 1
    BY <1>5, <1>7, EmptySeq
  <2>2. m_events'[Len(m_events')] = events[Len(events)] /\ Len(m_events') >= 1
    BY <1>5, <2>1
  <2>3. m_events' # << >>
    BY <1>5, <2>2, EmptySeq
  <2> QED
    BY <2>2, <2>3 DEF LastEvent, isEmpty
<1> QED
  BY <1>4, <1>6, <1>7
------------------------------------------------------------------------------
(* A move of the cursor. *)

(* The threads and modules that are known after differences. *)
LEMMA InAfterDifferences ==
    ASSUME NEW known \in SUBSET Subject,
           NEW exited \in SUBSET Threads, NEW started \in SUBSET Threads,
           NEW unloaded \in SUBSET Modules, NEW loaded \in SUBSET Modules,
           NEW after,
           after = (((known \ Named("thread", exited)) \cup Named("thread", started))
                        \ Named("module", unloaded)) \cup Named("module", loaded)
    PROVE  /\ ThreadsIn(after) = (ThreadsIn(known) \ exited) \cup started
           /\ ModulesIn(after) = (ModulesIn(known) \ unloaded) \cup loaded
<1>1. \A S, x : <<"thread", x>> \in Named("thread", S) <=> x \in S
  BY DEF Named
<1>2. \A S, x : <<"module", x>> \in Named("module", S) <=> x \in S
  BY DEF Named
<1>3. \A S, x : <<"thread", x>> \notin Named("module", S) /\ <<"module", x>> \notin Named("thread", S)
  BY DEF Named
<1> QED
  BY <1>1, <1>2, <1>3 DEF ThreadsIn, ModulesIn

(* The modules of the new position are known, and no others but targets    *)
(* that were known before.                                                 *)
LEMMA MoveMirrors ==
    ASSUME TypeOK, m_cursor \in Position,
           NEW to \in Position, NEW stop \in Stops, stop.eid # "PROCESS_EXITED",
           MoveTo(to, stop), UNCHANGED ida
    PROVE  /\ LastEvent' = stop
           /\ Exits' = Exits
           /\ MirrorsTrace(Known, m_cursor) =>
                  /\ ThreadsIn(Known') = ThreadsAt[to]
                  /\ ModulesIn(Known') = ModulesAt[to] \cup (ModulesIn(Known) \cap Targets)
<1> DEFINE exited == ThreadsAt[m_cursor] \ ThreadsAt[to]
           started == ThreadsAt[to] \ ThreadsAt[m_cursor]
           unloaded == {m \in ModulesAt[m_cursor] \ ModulesAt[to] : ~isTargetModule(m)}
           loaded == ModulesAt[to] \ ModulesAt[m_cursor]
           after == (((Known \ Named("thread", exited)) \cup Named("thread", started))
                         \ Named("module", unloaded)) \cup Named("module", loaded)
<1>1. /\ exited \in SUBSET Threads /\ started \in SUBSET Threads
      /\ unloaded \in SUBSET Modules /\ loaded \in SUBSET Modules
      /\ ThreadsAt[to] \subseteq Threads /\ ModulesAt[to] \subseteq Modules
  BY TraceAssumption
<1>2. PICK differences \in Differences(exited, started, unloaded, loaded) :
        m_events' = pushEvent(pushEvents(m_events, differences), stop)
  <2>1. applyCursor(to) = Differences(exited, started, unloaded, loaded)
    BY Zenon DEF applyCursor, applyDifferences
  <2> QED
    BY <2>1 DEF MoveTo
<1>3. /\ stop \in DebugEvent /\ Brings(stop) = {} /\ Drops(stop) = {}
      /\ stop.eid # "PROCESS_EXITED"
  BY DEF Stops, StopEvents, Brings, Drops
<1>4. Known \in SUBSET Subject
  BY SubjectsOfView, KnownType DEF Known, TypeOK
<1>5. ThreadsIn(after) = (ThreadsIn(Known) \ exited) \cup started
      /\ ModulesIn(after) = (ModulesIn(Known) \ unloaded) \cup loaded
  <2> HIDE DEF exited, started, unloaded, loaded
  <2>1. after = (((Known \ Named("thread", exited)) \cup Named("thread", started))
                     \ Named("module", unloaded)) \cup Named("module", loaded)
    OBVIOUS
  <2> HIDE DEF after
  <2> QED
    BY <1>1, <1>4, <2>1, InAfterDifferences
<1>6. ASSUME MirrorsTrace(Known, m_cursor) PROVE ThreadsIn(after) = ThreadsAt[to]
  BY <1>5, <1>6 DEF MirrorsTrace
<1>7. ASSUME MirrorsTrace(Known, m_cursor)
      PROVE  ModulesIn(after) = ModulesAt[to] \cup (ModulesIn(Known) \cap Targets)
  <2>1. /\ ModulesAt[m_cursor] \subseteq ModulesIn(Known)
        /\ ModulesIn(Known) \ ModulesAt[m_cursor] \subseteq Targets
    BY <1>7 DEF MirrorsTrace
  <2> QED
    BY <1>5, <2>1 DEF isTargetModule
<1> HIDE DEF exited, started, unloaded, loaded
<1>8. differences \in Seq(DebugEvent) /\ ExitFree(differences)
  BY <1>1, DifferencesExitFree
<1>9. KnownAfter(Known, differences) = after
  BY <1>1, <1>4, KnownAfterDifferences
<1> HIDE DEF after
<1> DEFINE events == differences \o <<stop>>
<1>10. /\ <<stop>> \in Seq(DebugEvent) /\ ExitFree(<<stop>>)
       /\ events \in Seq(DebugEvent) /\ ExitFree(events)
  <2>1. <<stop>> \in Seq(DebugEvent) /\ ExitFree(<<stop>>)
    BY <1>3 DEF ExitFree
  <2> QED
    BY <1>8, <2>1, ExitFreeBoth
<1>11. KnownAfter(Known, events) = after
  <2>1. KnownAfter(Known, events) = KnownAfter(after, <<stop>>)
    BY <1>4, <1>8, <1>9, <1>10, KnownAfterBoth
  <2> QED
    BY <1>3, <2>1, KnownAfterOne
<1>12. events # << >> /\ events[Len(events)] = stop
  <2>1. events = Append(differences, stop)
    BY <1>3, <1>8, AppendIsConcat
  <2>2. Len(events) = Len(differences) + 1 /\ events[Len(differences) + 1] = stop
        /\ Len(differences) \in Nat
    BY <1>3, <1>8, <2>1, AppendProperties, LenProperties
  <2> HIDE DEF events
  <2>3. events # << >>
    BY <1>10, <2>2, EmptySeq
  <2> QED
    BY <2>2, <2>3
<1>13. m_events' = m_events \o events
  <2>1. m_events \in Seq(DebugEvent)
    BY DEF TypeOK
  <2>2. m_events' = Append(m_events \o differences, stop)
    BY <1>2 DEF pushEvent, pushEvents
  <2>3. m_events \o differences \in Seq(DebugEvent)
    BY <1>8, <2>1, ConcatProperties
  <2>4. m_events' = (m_events \o differences) \o <<stop>>
    BY <1>3, <2>2, <2>3, AppendIsConcat
  <2> QED
    BY <1>8, <1>10, <2>1, <2>4, ConcatAssociative
<1> HIDE DEF events
<1>14. /\ Known' = KnownAfter(Known, events)
       /\ Exits' = Exits
       /\ LastEvent' = stop
  BY <1>10, <1>12, <1>13, PushedKnown
<1> QED
  BY <1>6, <1>7, <1>11, <1>14

(* Every way onResume leaves a stop is such a move. *)
LEMMA ResumeMovesTo ==
    ASSUME TypeOK, onResume, dbgEvent.eid \in StopEvents
    PROVE  /\ m_cursor \in Position
           /\ UNCHANGED <<dbgEvent, exiting, ida>>
           /\ dbgState \in {"handling", "suspended"} /\ dbgState' = "running"
           /\ \E to \in Position, stop \in Stops :
                  /\ MoveTo(to, stop)
                  /\ Announces(stop, to)
<1>1. \A p \in Position : /\ BreakPointAt(p) \in Stops
                          /\ Announces(BreakPointAt(p), p)
                          /\ StepEvent(ActiveThread[p]) \in Stops
                          /\ Announces(StepEvent(ActiveThread[p]), p)
  BY StopsAtPositions
     DEF Announces, BreakPointAt, BreakPointEvent, StepEvent, Event, StopEvents
<1>2. IdaResumes
  BY DEF onResume, ResumeOtherEvent, ResumeAtNextPosition, ResumeBackwardsSingleStep, ResumeByMode
<1>3. /\ dbgState \in {"handling", "suspended"} /\ dbgState' = "running"
      /\ UNCHANGED <<dbgEvent, exiting, ida>>
  BY <1>2 DEF IdaResumes
<1>4. m_cursor \in Position
  BY <1>3, CursorOnTrace
<1>5. CASE ResumeAtNextPosition
  <2> DEFINE to == SetPosition(m_nextPosition)
  <2>1. to \in Position
    <3>1. m_nextPosition \in Int
      BY PositionAssumption DEF TypeOK, NoPosition
    <3> QED
      BY <3>1, SetPositionType
  <2>2. MoveTo(to, BreakPointAt(to))
    BY <1>5 DEF ResumeAtNextPosition
  <2> HIDE DEF to
  <2> QED
    BY <1>1, <1>3, <1>4, <2>1, <2>2
<1>6. CASE ResumeBackwardsSingleStep
  <2> DEFINE to == ReplayBackward(m_cursor, FirstPosition, 1, watchpoints)
  <2>1. to \in Position
    BY <1>4, ReplayType
  <2>2. MoveTo(to, BreakPointAt(to))
    BY <1>6 DEF ResumeBackwardsSingleStep
  <2> HIDE DEF to
  <2> QED
    BY <1>1, <1>3, <1>4, <2>1, <2>2
<1>7. CASE ResumeByMode
  <2>1. m_resumeMode \in {"RESMOD_NONE", "RESMOD_INTO"}
    BY DEF TypeOK, DeclaredResumeModes
  <2>2. Replay(-1) \in Position /\ Replay(1) \in Position
    BY <1>4, ReplayType
  <2>3. \/ MoveTo(Replay(-1), BreakPointAt(Replay(-1)))
        \/ MoveTo(Replay(1), StepEvent(ActiveThread[Replay(1)]))
    BY <1>7, <2>1 DEF ResumeByMode
  <2> QED
    BY <1>1, <1>3, <1>4, <2>2, <2>3
<1> QED
  BY <1>5, <1>6, <1>7 DEF onResume, ResumeOtherEvent
------------------------------------------------------------------------------
(* A new session. *)

LEMMA StartMirrors ==
    ASSUME TypeOK, onStartProcess
    PROVE  /\ Exits' = Exits
           /\ Announces(LastEvent', FirstPosition)
           /\ ThreadsIn(Known') = ThreadsAt[FirstPosition]
           /\ ModulesIn(Known') = ModulesAt[FirstPosition] \cup SimulatedModules
<1> DEFINE started == ThreadsAt[FirstPosition] \ {MainThread}
           loaded == ModulesAt[FirstPosition] \ {MainModule}
<1>1. FirstPosition \in Position
  BY PositionsAreNaturals
<1>2. /\ ThreadsAt[FirstPosition] \subseteq Threads /\ ModulesAt[FirstPosition] \subseteq Modules
      /\ started \in SUBSET Threads /\ loaded \in SUBSET Modules
      /\ SimulatedModules \in SUBSET Modules
      /\ MainThread = ActiveThread[FirstPosition]
      /\ MainThread \in ThreadsAt[FirstPosition] /\ MainModule \in ModulesAt[FirstPosition]
  BY <1>1, TraceAssumption, IdaAssumption, IndexZeroAssumption DEF SimulatedModules
<1>3. PICK events \in SessionEvents(SimulatedModules, started, loaded) :
        m_events' = m_events \o events
  <2>1. SessionStart = SessionEvents(SimulatedModules, started, loaded)
    BY Zenon DEF SessionStart
  <2> QED
    BY <2>1 DEF onStartProcess, pushEvents
<1> HIDE DEF started, loaded
<1>4. /\ events \in Seq(DebugEvent) /\ ExitFree(events)
      /\ events # << >> /\ events[Len(events)] = BreakPointAt(FirstPosition)
  BY <1>2, SessionEventsExitFree
<1>5. Known \in SUBSET Subject
  BY SubjectsOfView, KnownType DEF Known, TypeOK
<1>6. KnownAfter(Known, events) =
        Named("thread", {ActiveThread[FirstPosition]} \cup started)
            \cup Named("module", {MainModule} \cup SimulatedModules \cup loaded)
  BY <1>2, <1>5, KnownAfterSessionEvents
<1>7. UNCHANGED ida
  BY DEF onStartProcess
<1>8. /\ Known' = KnownAfter(Known, events)
      /\ Exits' = Exits
      /\ LastEvent' = BreakPointAt(FirstPosition)
  BY <1>3, <1>4, <1>7, PushedKnown
<1>9. ThreadsIn(Known') = {ActiveThread[FirstPosition]} \cup started
  BY <1>2, <1>6, <1>8 DEF ThreadsIn, Named
<1>10. ModulesIn(Known') = {MainModule} \cup SimulatedModules \cup loaded
  BY <1>2, <1>6, <1>8 DEF ModulesIn, Named
<1>11. Announces(BreakPointAt(FirstPosition), FirstPosition)
  BY DEF Announces, BreakPointAt, BreakPointEvent, Event, StopEvents
<1> QED
  BY <1>2, <1>8, <1>9, <1>10, <1>11 DEF started, loaded
------------------------------------------------------------------------------
(* Every step keeps SessionInv, and is a step of DebugSession or none. *)

SessionStep == SessionInv' /\ [Session!Next]_(Session!vars)

(* A step that changes neither what is to come nor where the cursor is. *)
LEMMA SteadyStep ==
    ASSUME TypeOK, SessionInv, UNCHANGED <<alive, Known, LastEvent, m_cursor>>,
           ExitsOnce', shown => shown'
    PROVE  SessionStep
<1>1. /\ alive' = alive /\ Known' = Known /\ LastEvent' = LastEvent
      /\ m_cursor' = m_cursor
  OBVIOUS
<1>2. SessionInv'
  BY <1>1 DEF SessionInv, Announces, MirrorsTrace, ThreadsIn, ModulesIn
<1>3. UNCHANGED <<alive, pos, threads, modules, thread>>
  BY <1>1 DEF pos, threads, modules, thread, ThreadsIn, ModulesIn
<1>4. CASE UNCHANGED shown
  BY <1>2, <1>3, <1>4 DEF SessionStep, Session!vars
<1>5. CASE ~UNCHANGED shown
  <2>1. alive' /\ ~shown /\ shown'
    BY <1>5 DEF shown
  <2>2. alive /\ shown' = TRUE
    BY <1>1, <2>1 DEF shown
  <2>3. Session!Show
    BY <1>3, <2>1, <2>2 DEF Session!Show
  <2> QED
    BY <1>2, <2>3 DEF SessionStep, Session!Next
<1> QED
  BY <1>4, <1>5

(* The requests of the user that only wait for a later resume. *)
LEMMA RequestStep ==
    ASSUME TypeOK, SessionInv,
           UNCHANGED <<m_events, m_cursor, dbgState, dbgEvent, exiting>>,
           UNCHANGED <<ida.threads, ida.modules>>
    PROVE  SessionStep
<1>1. UNCHANGED <<alive, LastEvent, m_cursor, shown, Exits>>
  BY DEF alive, LastEvent, shown, AtStop, Exits
<1>2. SubjectsOf(ida)' = SubjectsOf(ida)
  BY DEF SubjectsOf
<1>3. UNCHANGED Known
  BY <1>2 DEF Known, KnownAfter
<1>4. ExitsOnce'
  BY <1>1 DEF SessionInv, ExitsOnce
<1> QED
  BY <1>1, <1>3, <1>4, SteadyStep

(* The exit is the only one in the queue, so that none is left when the    *)
(* process ends.                                                           *)
LEMMA PollExits ==
    ASSUME TypeOK, ExitsOnce, onGetDebugEvent
    PROVE  ExitsOnce' /\ UNCHANGED alive
<1>1. /\ m_events \in Seq(DebugEvent) /\ m_events # << >>
      /\ m_events' = Tail(m_events) /\ dbgEvent' = Head(m_events)
      /\ dbgState = "running" /\ exiting \in BOOLEAN
  BY DEF TypeOK, onGetDebugEvent, isEmpty, frontEvent, popEvent
<1>2. /\ Len(m_events) \in Nat /\ Len(m_events) >= 1
      /\ DOMAIN m_events = 1 .. Len(m_events)
      /\ DOMAIN Tail(m_events) = 1 .. Len(m_events) - 1
      /\ \A j \in 1 .. Len(m_events) - 1 : Tail(m_events)[j] = m_events[j + 1]
      /\ Head(m_events) = m_events[1]
  BY <1>1, HeadTailProperties, LenProperties, EmptySeq
<1>3. \A i \in Exits' : i + 1 \in Exits /\ i + 1 # 1 /\ i \in Nat
  BY <1>1, <1>2 DEF Exits
<1>4. CASE dbgEvent'.eid = "PROCESS_EXITED"
  <2>1. 1 \in Exits
    BY <1>1, <1>2, <1>4 DEF Exits
  <2>2. Exits' = {}
    BY <1>3, <2>1 DEF ExitsOnce
  <2>3. exiting /\ exiting' = FALSE /\ dbgState' = "noProcess"
    BY <1>4, <2>1 DEF ExitsOnce, onGetDebugEvent, StatesAfter
  <2>4. UNCHANGED alive
    BY <2>3 DEF alive
  <2> QED
    BY <2>2, <2>3, <2>4 DEF ExitsOnce
<1>5. CASE dbgEvent'.eid # "PROCESS_EXITED"
  <2>1. exiting' = exiting /\ dbgState' # "noProcess"
    BY <1>1, <1>5 DEF onGetDebugEvent, StatesAfter
  <2>2. UNCHANGED alive
    BY <1>1, <2>1 DEF alive
  <2>3. \A i, j \in Exits' : i = j
    <3> SUFFICES ASSUME NEW i \in Exits', NEW j \in Exits' PROVE i = j
      OBVIOUS
    <3>1. i + 1 = j + 1 /\ i \in Nat /\ j \in Nat
      BY <1>3 DEF ExitsOnce
    <3> QED
      BY <3>1
  <2>4. exiting' <=> Exits' # {}
    <3>1. ASSUME NEW i \in Exits PROVE i - 1 \in Exits'
      BY <1>1, <1>2, <1>5 DEF Exits
    <3> QED
      BY <1>3, <2>1, <3>1 DEF ExitsOnce
  <2> QED
    BY <2>1, <2>2, <2>3, <2>4 DEF ExitsOnce
<1> QED
  BY <1>4, <1>5

(* Polling shows IDA a little more of what is to come. *)
LEMMA PollStep ==
    ASSUME TypeOK, SessionInv, onGetDebugEvent
    PROVE  SessionStep
<1>1. UNCHANGED <<Known, LastEvent>>
  BY PollKeepsKnown, PollKeepsLast
<1>2. ExitsOnce' /\ UNCHANGED alive
  BY PollExits DEF SessionInv
<1>3. ~shown /\ m_cursor' = m_cursor
  BY DEF shown, AtStop, onGetDebugEvent, replay
<1> QED
  BY <1>1, <1>2, <1>3, SteadyStep

(* What a resume queues comes after the exit, if there is one. *)
LEMMA ResumeExits ==
    ASSUME TypeOK, ExitsOnce, onResume
    PROVE  ExitsOnce' /\ UNCHANGED alive
<1>1. /\ UNCHANGED <<dbgEvent, exiting, ida>>
      /\ dbgState # "noProcess" /\ dbgState' = "running"
  BY DEF onResume, ResumeOtherEvent, ResumeAtNextPosition, ResumeBackwardsSingleStep,
        ResumeByMode, IdaResumes
<1>2. UNCHANGED alive
  BY <1>1 DEF alive
<1>3. Exits' = Exits
  <2>1. CASE dbgEvent.eid \notin StopEvents
    BY <2>1 DEF onResume, ResumeOtherEvent, ResumeAtNextPosition, ResumeBackwardsSingleStep,
          ResumeByMode, Exits
  <2>2. CASE dbgEvent.eid \in StopEvents
    <3>1. m_cursor \in Position
      BY <2>2, ResumeMovesTo
    <3>2. PICK to \in Position, stop \in Stops : MoveTo(to, stop) /\ Announces(stop, to)
      BY <2>2, ResumeMovesTo
    <3>3. stop.eid # "PROCESS_EXITED"
      BY <3>2 DEF Announces, StopEvents
    <3> QED
      BY <1>1, <3>1, <3>2, <3>3, MoveMirrors
  <2> QED
    BY <2>1, <2>2
<1> QED
  BY <1>1, <1>2, <1>3 DEF ExitsOnce

(* A resume at a stop moves the process, unless it has been told to end. *)
LEMMA ResumeStep ==
    ASSUME TypeOK, SessionInv, onResume
    PROVE  SessionStep
<1>1. CASE dbgEvent.eid \notin StopEvents
  <2>1. /\ UNCHANGED <<m_events, m_cursor, dbgEvent, exiting, ida>>
        /\ dbgState # "noProcess" /\ dbgState' = "running"
    BY <1>1 DEF onResume, ResumeOtherEvent, ResumeAtNextPosition, ResumeBackwardsSingleStep,
          ResumeByMode, IdaResumes, replay
  <2>2. UNCHANGED <<alive, LastEvent, Known>>
    BY <2>1 DEF alive, LastEvent, Known, KnownAfter, SubjectsOf
  <2>3. ExitsOnce'
    BY ResumeExits DEF SessionInv
  <2>4. ~shown
    BY <1>1 DEF shown, AtStop
  <2> QED
    BY <2>1, <2>2, <2>3, <2>4, SteadyStep
<1>2. CASE dbgEvent.eid \in StopEvents
  <2>1. /\ m_cursor \in Position
        /\ UNCHANGED <<dbgEvent, exiting, ida>>
        /\ dbgState \in {"handling", "suspended"} /\ dbgState' = "running"
    BY <1>2, ResumeMovesTo
  <2>2. PICK to \in Position, stop \in Stops : MoveTo(to, stop) /\ Announces(stop, to)
    BY <1>2, ResumeMovesTo
  <2>3. m_cursor' = to /\ stop.eid # "PROCESS_EXITED"
    BY <2>2 DEF MoveTo, Announces, StopEvents
  <2>4. UNCHANGED alive
    BY <2>1 DEF alive
  <2>5. ~shown'
    BY <2>1 DEF shown, AtStop
  <2>7. ExitsOnce'
    BY ResumeExits DEF SessionInv
  <2>8. CASE ~alive
    <3>1. SessionInv'
      BY <2>4, <2>7, <2>8 DEF SessionInv
    <3>2. UNCHANGED <<alive, pos, threads, modules, thread, shown>>
      BY <2>4, <2>8 DEF pos, threads, modules, thread, shown
    <3> QED
      BY <3>1, <3>2 DEF SessionStep, Session!vars
  <2>9. CASE alive
    <3>1. MirrorsTrace(Known, m_cursor)
      BY <2>9 DEF SessionInv
    <3>2. /\ LastEvent' = stop
          /\ ThreadsIn(Known') = ThreadsAt[to]
          /\ ModulesIn(Known') = ModulesAt[to] \cup (ModulesIn(Known) \cap Targets)
      BY <2>1, <2>2, <2>3, <3>1, MoveMirrors
    <3>3. MirrorsTrace(Known', to)
      BY <3>1, <3>2 DEF MirrorsTrace
    <3>4. SessionInv'
      BY <2>2, <2>3, <2>7, <3>2, <3>3 DEF SessionInv, Announces, MirrorsTrace, ThreadsIn, ModulesIn
    <3>5. /\ alive' = TRUE /\ pos' = to
          /\ threads' = ThreadsAt[to]
          /\ modules' = ModulesAt[to] \cup (modules \cap Targets)
          /\ thread' = ActiveThread[to]
          /\ shown' = FALSE
      BY <2>2, <2>3, <2>4, <2>5, <2>9, <3>2
         DEF alive, pos, threads, modules, thread, shown, ThreadsIn, ModulesIn, Announces
    <3>6. Session!Move
      BY <2>9, <3>5 DEF Session!Move, Session!StandAt
    <3> QED
      BY <3>4, <3>6 DEF SessionStep, Session!Next
  <2> QED
    BY <2>8, <2>9
<1> QED
  BY <1>1, <1>2

LEMMA StartStep ==
    ASSUME TypeOK, SessionInv, onStartProcess
    PROVE  SessionStep
<1>1. /\ dbgState = "noProcess" /\ dbgState' = "running" /\ exiting' = exiting
      /\ m_cursor' = FirstPosition
  <2>1. SetPosition(FirstPosition) = FirstPosition
    BY PositionAssumption DEF SetPosition
  <2> QED
    BY <2>1 DEF onStartProcess
<1>2. ~exiting
  BY <1>1 DEF SessionInv, ExitsOnce
<1>3. ~alive /\ alive' = TRUE /\ ~shown'
  BY <1>1, <1>2 DEF alive, shown, AtStop
<1>4. /\ Exits' = Exits
      /\ Announces(LastEvent', FirstPosition)
      /\ ThreadsIn(Known') = ThreadsAt[FirstPosition]
      /\ ModulesIn(Known') = ModulesAt[FirstPosition] \cup SimulatedModules
  BY StartMirrors
<1>5. ExitsOnce'
  BY <1>1, <1>2, <1>4 DEF SessionInv, ExitsOnce
<1>6. MirrorsTrace(Known', FirstPosition)
  BY <1>4, IndexZeroAssumption DEF MirrorsTrace, SimulatedModules, isTargetModule
<1>7. SessionInv'
  BY <1>1, <1>4, <1>5, <1>6 DEF SessionInv, Announces, MirrorsTrace, ThreadsIn, ModulesIn
<1>8. /\ pos' = FirstPosition
      /\ threads' = ThreadsAt[FirstPosition]
      /\ modules' = ModulesAt[FirstPosition] \cup SimulatedModules
      /\ thread' = ActiveThread[FirstPosition]
      /\ shown' = FALSE
  BY <1>1, <1>3, <1>4 DEF pos, threads, modules, thread, shown, ThreadsIn, ModulesIn, Announces
<1>9. Session!Start
  BY <1>3, <1>8 DEF Session!Start, Session!StandAt
<1> QED
  BY <1>7, <1>9 DEF SessionStep, Session!Next

LEMMA ExitStep ==
    ASSUME TypeOK, SessionInv, onExitProcess
    PROVE  SessionStep
<1>1. /\ m_events \in Seq(DebugEvent)
      /\ m_events' = Append(m_events, ProcessExitEvent)
      /\ dbgState # "noProcess" /\ ~exiting
      /\ exiting' = TRUE /\ dbgState' # "noProcess"
  BY DEF TypeOK, onExitProcess, pushEvent
<1>2. /\ Len(m_events) \in Nat /\ DOMAIN m_events = 1 .. Len(m_events)
      /\ DOMAIN m_events' = 1 .. Len(m_events) + 1
      /\ \A i \in 1 .. Len(m_events) : m_events'[i] = m_events[i]
      /\ m_events'[Len(m_events) + 1] = ProcessExitEvent
  BY <1>1, EventTypes, AppendProperties, LenProperties
<1>3. Exits = {}
  BY <1>1 DEF SessionInv, ExitsOnce
<1>4. Exits' = {Len(m_events) + 1}
  <2>1. ProcessExitEvent.eid = "PROCESS_EXITED"
    BY EventKinds
  <2>2. \A i \in 1 .. Len(m_events) : m_events[i].eid # "PROCESS_EXITED"
    BY <1>2, <1>3 DEF Exits
  <2>3. Len(m_events) + 1 \in Exits'
    BY <1>2, <2>1 DEF Exits
  <2>4. ASSUME NEW i \in Exits' PROVE i = Len(m_events) + 1
    <3>1. i \in 1 .. Len(m_events) + 1 /\ m_events'[i].eid = "PROCESS_EXITED"
      BY <1>2 DEF Exits
    <3>2. i \notin 1 .. Len(m_events)
      BY <1>2, <2>2, <3>1
    <3> QED
      BY <1>2, <3>1, <3>2
  <2> QED
    BY <2>3, <2>4
<1>5. ExitsOnce'
  BY <1>1, <1>4 DEF ExitsOnce
<1>6. alive /\ alive' = FALSE
  BY <1>1 DEF alive
<1>7. SessionInv'
  BY <1>5, <1>6 DEF SessionInv
<1>8. Session!Exit
  BY <1>6 DEF Session!Exit, Session!NoProcess, pos, threads, modules, thread, shown
<1> QED
  BY <1>7, <1>8 DEF SessionStep, Session!Next

LEMMA EveryStep ==
    ASSUME TypeOK, SessionInv, [Next]_vars
    PROVE  SessionStep
<1>1. CASE UNCHANGED vars
  BY <1>1, RequestStep DEF vars, replay, process
<1>2. CASE onGetDebugEvent
  BY <1>2, PollStep
<1>3. CASE onResume
  BY <1>3, ResumeStep
<1>4. CASE onStartProcess
  BY <1>4, StartStep
<1>5. CASE onExitProcess
  BY <1>5, ExitStep
<1>6. CASE onStartProcessFails \/ Continue \/ onSetResumeMode \/ BackwardStateRequest
           \/ SwitchBack \/ BackwardSingleStepRequest \/ gotoPosition
  <2>1. UNCHANGED <<m_events, m_cursor, dbgState, dbgEvent, exiting, ida>>
    BY <1>6 DEF onStartProcessFails, Continue, onSetResumeMode, BackwardStateRequest,
          SwitchBack, BackwardSingleStepRequest, gotoPosition, process, replay
  <2> QED
    BY <2>1, RequestStep
<1>7. CASE onUpdateBpts
  <2>1. UNCHANGED <<m_events, m_cursor, dbgState, dbgEvent, exiting>>
    BY <1>7 DEF onUpdateBpts
  <2>2. \E bpts : ida' = [ida EXCEPT !.bpts = bpts]
    BY <1>7 DEF onUpdateBpts
  <2>3. UNCHANGED <<ida.threads, ida.modules>>
    BY <2>2 DEF TypeOK, View
  <2> QED
    BY <2>1, <2>3, RequestStep
<1> QED
  BY <1>1, <1>2, <1>3, <1>4, <1>5, <1>6, <1>7 DEF Next, MainThreadAction

LEMMA InitialSession == Init => SessionInv /\ Session!Init
<1> SUFFICES ASSUME Init PROVE SessionInv /\ Session!Init
  OBVIOUS
<1>1. alive = FALSE /\ ~exiting
  BY DEF Init, alive
<1>2. Exits = {}
  BY DEF Init, Exits
<1>3. SessionInv
  BY <1>1, <1>2 DEF SessionInv, ExitsOnce
<1> QED
  BY <1>1, <1>3 DEF Session!Init, Session!NoProcess, pos, threads, modules, thread, shown

(* What is to come is always the trace at the cursor, with its stop last.  *)
THEOREM WhatIsToCome == Spec => []SessionInv
<1>1. TypeOK /\ SessionInv /\ [Next]_vars => SessionInv'
  BY EveryStep DEF SessionStep
<1> QED
  BY <1>1, InitialSession, TypeCorrect, PTL DEF Spec

(* The debugger manager, its queue, its requests and IDA's two threads     *)
(* implement a process that stands at positions of the trace: every step   *)
(* of theirs starts, moves, shows or ends it, or cannot be seen.           *)
THEOREM SessionImplemented == Spec => ImplementsSession
<1>1. TypeOK /\ SessionInv /\ [Next]_vars => [Session!Next]_(Session!vars)
  BY EveryStep DEF SessionStep
<1> QED
  BY <1>1, InitialSession, WhatIsToCome, TypeCorrect, PTL
     DEF Spec, ImplementsSession, Session!Spec
------------------------------------------------------------------------------
(* What IDA shows when nothing is left to come. *)

LEMMA StopIsCurrent ==
    ASSUME TypeOK, SessionInv, AtStop
    PROVE  Announces(dbgEvent, m_cursor) /\ MirrorsTrace(SubjectsOf(ida), m_cursor)
<1>1. m_events = << >> /\ dbgState = "suspended"
  BY DEF AtStop, isEmpty
<1>2. Exits = {}
  BY <1>1 DEF Exits
<1>3. alive
  BY <1>1, <1>2 DEF SessionInv, ExitsOnce, alive
<1>4. LastEvent = dbgEvent
  BY <1>1 DEF LastEvent, isEmpty
<1>5. Known = SubjectsOf(ida)
  BY <1>1, KnownAfterNothing DEF Known
<1> QED
  BY <1>3, <1>4, <1>5 DEF SessionInv

LEMMA InSubjects ==
    ASSUME TypeOK
    PROVE  ThreadsIn(SubjectsOf(ida)) = ida.threads /\ ModulesIn(SubjectsOf(ida)) = ida.modules
BY DEF TypeOK, View, ThreadsIn, ModulesIn, SubjectsOf

LEMMA StopIsOfTheTrace ==
    ASSUME TypeOK, SessionInv
    PROVE  IdaMirrorsTrace /\ StopShowsCursor /\ TargetStaysLoaded
<1>1. IdaMirrorsTrace /\ TargetStaysLoaded
  BY StopIsCurrent, InSubjects DEF IdaMirrorsTrace, TargetStaysLoaded, MirrorsTrace
<1>2. ASSUME AtStop PROVE StopShowsCursor
  <2>1. m_cursor \in Position
    BY <1>2, CursorOnTrace DEF AtStop
  <2>2. ActiveThread[m_cursor] \in ThreadsAt[m_cursor]
    BY <2>1, TraceAssumption
  <2>3. ida.threads = ThreadsAt[m_cursor]
    BY <1>2, StopIsCurrent, InSubjects DEF MirrorsTrace
  <2> QED
    BY <1>2, <2>2, <2>3, StopIsCurrent DEF StopShowsCursor, Announces
<1> QED
  BY <1>1, <1>2 DEF StopShowsCursor

(* However the cursor came where it is, the threads and the modules that   *)
(* IDA shows at a stop are those of the trace there.                       *)
THEOREM ViewIsTheTrace == Spec => []IdaMirrorsTrace
BY StopIsOfTheTrace, WhatIsToCome, TypeCorrect, PTL

(* The stop IDA shows is that of the cursor, in a thread that IDA knows.   *)
THEOREM StopIsTheCursors == Spec => []StopShowsCursor
BY StopIsOfTheTrace, WhatIsToCome, TypeCorrect, PTL

(* The module of the database, once simulated or loaded, is never unloaded. *)
THEOREM TargetIsNeverUnloaded == Spec => []TargetStaysLoaded
BY StopIsOfTheTrace, WhatIsToCome, TypeCorrect, PTL
------------------------------------------------------------------------------
(* Every event in the queue will be in its place when IDA is given it. *)

Before(queue, i) == [j \in 1 .. i - 1 |-> queue[j]]

(* An event is in order for one who knows the threads and modules of known. *)
Fits(known, e) ==
    EventInOrder([threads |-> ThreadsIn(known), modules |-> ModulesIn(known)], e)

(* Each event is in order after those before it.  What is behind an exit is *)
(* never given to a process.                                                *)
InOrder(known, queue) ==
    \A i \in DOMAIN queue :
        ExitFree(Before(queue, i)) => Fits(KnownAfter(known, Before(queue, i)), queue[i])

OrderInv ==
    /\ dbgState # "noProcess" => InOrder(SubjectsOf(ida), m_events)
    /\ dbgState = "noProcess" => SubjectsOf(ida) = {}

LEMMA BeforeConcat ==
    ASSUME NEW p \in Seq(DebugEvent), NEW q \in Seq(DebugEvent)
    PROVE  /\ \A i \in DOMAIN p : /\ i \in DOMAIN (p \o q)
                                  /\ Before(p \o q, i) = Before(p, i)
                                  /\ (p \o q)[i] = p[i]
           /\ \A i \in DOMAIN q : /\ Len(p) + i \in DOMAIN (p \o q)
                                  /\ Before(p \o q, Len(p) + i) = p \o Before(q, i)
                                  /\ Before(q, i) \in Seq(DebugEvent)
                                  /\ (p \o q)[Len(p) + i] = q[i]
           /\ \A i \in DOMAIN (p \o q) : i \notin DOMAIN p =>
                  i - Len(p) \in DOMAIN q /\ i = Len(p) + (i - Len(p))
<1>1. /\ p \o q \in Seq(DebugEvent) /\ Len(p \o q) = Len(p) + Len(q)
      /\ \A i \in 1 .. Len(p) + Len(q) :
             (p \o q)[i] = IF i <= Len(p) THEN p[i] ELSE q[i - Len(p)]
  BY ConcatProperties
<1>2. /\ Len(p) \in Nat /\ Len(q) \in Nat
      /\ DOMAIN p = 1 .. Len(p) /\ DOMAIN q = 1 .. Len(q)
      /\ DOMAIN (p \o q) = 1 .. Len(p) + Len(q)
      /\ \A i \in DOMAIN p : p[i] \in DebugEvent
      /\ \A i \in DOMAIN q : q[i] \in DebugEvent
  BY <1>1, LenProperties, ElementOfSeq
<1>3. \A i \in 1 .. Len(p) : i \in 1 .. Len(p) + Len(q) /\ (p \o q)[i] = p[i]
  BY <1>1, <1>2
<1>4. ASSUME NEW i \in 1 .. Len(q)
      PROVE  Len(p) + i \in 1 .. Len(p) + Len(q) /\ (p \o q)[Len(p) + i] = q[i]
  <2>1. /\ Len(p) + i \in 1 .. Len(p) + Len(q)
        /\ ~(Len(p) + i <= Len(p)) /\ Len(p) + i - Len(p) = i
    BY <1>2
  <2> QED
    BY <1>1, <2>1
<1>5. ASSUME NEW i \in 1 .. Len(p) PROVE Before(p \o q, i) = Before(p, i)
  <2>1. \A j \in 1 .. i - 1 : (p \o q)[j] = p[j]
    BY <1>2, <1>3
  <2> QED
    BY <2>1 DEF Before
<1>6. ASSUME NEW i \in 1 .. Len(q)
      PROVE  /\ Before(q, i) \in Seq(DebugEvent)
             /\ Before(p \o q, Len(p) + i) = p \o Before(q, i)
  <2> DEFINE b == Before(q, i)
             c == Before(p \o q, Len(p) + i)
  <2>1. /\ i - 1 \in Nat /\ i - 1 < Len(q) /\ Len(p) + i - 1 \in Nat
        /\ Len(p) + i - 1 = Len(p) + (i - 1)
    BY <1>2
  <2>2. b \in Seq(DebugEvent) /\ Len(b) = i - 1 /\ \A j \in 1 .. i - 1 : b[j] = q[j]
    <3>1. b \in [1 .. i - 1 -> DebugEvent]
      BY <1>2, <2>1 DEF Before
    <3>2. b \in Seq(DebugEvent)
      BY <2>1, <3>1, SeqDef
    <3>3. DOMAIN b = 1 .. i - 1
      BY DEF Before
    <3>4. Len(b) = i - 1
      BY <2>1, <3>2, <3>3, LenProperties
    <3> QED
      BY <3>2, <3>4 DEF Before
  <2>3. DOMAIN c = 1 .. Len(p) + (i - 1) /\ \A j \in 1 .. Len(p) + (i - 1) : c[j] = (p \o q)[j]
    BY <2>1 DEF Before
  <2> HIDE DEF b, c
  <2>4. /\ p \o b \in Seq(DebugEvent) /\ Len(p \o b) = Len(p) + (i - 1)
        /\ \A j \in 1 .. Len(p) + (i - 1) :
               (p \o b)[j] = IF j <= Len(p) THEN p[j] ELSE b[j - Len(p)]
    <3>1. /\ p \o b \in Seq(DebugEvent) /\ Len(p \o b) = Len(p) + Len(b)
          /\ \A j \in 1 .. Len(p) + Len(b) :
                 (p \o b)[j] = IF j <= Len(p) THEN p[j] ELSE b[j - Len(p)]
      BY <2>2, ConcatProperties
    <3> QED
      BY <2>2, <3>1
  <2>5. \A j \in 1 .. Len(p) + (i - 1) : c[j] = (p \o b)[j]
    <3> SUFFICES ASSUME NEW j \in 1 .. Len(p) + (i - 1) PROVE c[j] = (p \o b)[j]
      OBVIOUS
    <3>1. j \in 1 .. Len(p) + Len(q) /\ c[j] = (p \o q)[j]
      BY <1>2, <2>1, <2>3
    <3>2. CASE j <= Len(p)
      BY <1>1, <2>4, <3>1, <3>2
    <3>3. CASE ~(j <= Len(p))
      <4>1. j - Len(p) \in 1 .. i - 1
        BY <1>2, <2>1, <3>3
      <4> QED
        BY <1>1, <2>2, <2>4, <3>1, <3>3, <4>1
    <3> QED
      BY <3>2, <3>3
  <2>6. c \in Seq(DebugEvent) /\ Len(c) = Len(p) + (i - 1)
    <3>1. \A j \in 1 .. Len(p) + (i - 1) : c[j] \in DebugEvent
      BY <2>4, <2>5, ElementOfSeq
    <3>2. Len(p) + (i - 1) \in Nat
      BY <1>2, <2>1
    <3>3. c = [j \in 1 .. Len(p) + (i - 1) |-> c[j]]
      BY <2>1 DEF c, Before
    <3>4. c \in [1 .. Len(p) + (i - 1) -> DebugEvent]
      BY <3>1, <3>3
    <3>5. c \in Seq(DebugEvent)
      BY <3>2, <3>4, SeqDef
    <3>6. Len(c) \in Nat /\ DOMAIN c = 1 .. Len(c)
      BY <3>5, LenProperties
    <3>7. 1 .. Len(c) = 1 .. Len(p) + (i - 1)
      BY <2>3, <3>6
    <3> QED
      BY <3>2, <3>5, <3>6, <3>7
  <2>7. c = p \o b
    BY <2>4, <2>5, <2>6, SeqEqual
  <2> QED
    BY <2>2, <2>7 DEF b, c
<1>7. \A i \in 1 .. Len(p) + Len(q) : i \notin 1 .. Len(p) =>
          i - Len(p) \in 1 .. Len(q) /\ i = Len(p) + (i - Len(p))
  BY <1>2
<1> QED
  BY <1>2, <1>3, <1>4, <1>5, <1>6, <1>7

LEMMA ExitFreeParts ==
    ASSUME NEW p \in Seq(DebugEvent), NEW q \in Seq(DebugEvent)
    PROVE  ExitFree(p \o q) <=> ExitFree(p) /\ ExitFree(q)
<1>1. ExitFree(p) /\ ExitFree(q) => ExitFree(p \o q)
  BY ExitFreeBoth
<1>2. ExitFree(p \o q) => ExitFree(p) /\ ExitFree(q)
  <2> SUFFICES ASSUME ExitFree(p \o q) PROVE ExitFree(p) /\ ExitFree(q)
    OBVIOUS
  <2>1. ASSUME NEW i \in DOMAIN p PROVE p[i].eid # "PROCESS_EXITED"
    <3>1. i \in DOMAIN (p \o q) /\ (p \o q)[i] = p[i]
      BY BeforeConcat
    <3> QED
      BY <3>1 DEF ExitFree
  <2>2. ASSUME NEW i \in DOMAIN q PROVE q[i].eid # "PROCESS_EXITED"
    <3>1. Len(p) + i \in DOMAIN (p \o q) /\ (p \o q)[Len(p) + i] = q[i]
      BY BeforeConcat
    <3> QED
      BY <3>1 DEF ExitFree
  <2> QED
    BY <2>1, <2>2 DEF ExitFree
<1> QED
  BY <1>1, <1>2

(* Two sequences are in order one after the other. *)
LEMMA InOrderBoth ==
    ASSUME NEW known \in SUBSET Subject, NEW p \in Seq(DebugEvent), NEW q \in Seq(DebugEvent)
    PROVE  InOrder(known, p \o q) <=>
               InOrder(known, p) /\ (ExitFree(p) => InOrder(KnownAfter(known, p), q))
<1>1. ASSUME NEW i \in DOMAIN q
      PROVE  /\ ExitFree(Before(p \o q, Len(p) + i)) <=> ExitFree(p) /\ ExitFree(Before(q, i))
             /\ KnownAfter(known, Before(p \o q, Len(p) + i)) =
                    KnownAfter(KnownAfter(known, p), Before(q, i))
  <2>1. Before(p \o q, Len(p) + i) = p \o Before(q, i) /\ Before(q, i) \in Seq(DebugEvent)
    BY BeforeConcat
  <2>2. ExitFree(p \o Before(q, i)) <=> ExitFree(p) /\ ExitFree(Before(q, i))
    BY <2>1, ExitFreeParts
  <2>3. KnownAfter(known, p \o Before(q, i)) = KnownAfter(KnownAfter(known, p), Before(q, i))
    BY <2>1, KnownAfterBoth
  <2> QED
    BY <2>1, <2>2, <2>3
<1>2. ASSUME InOrder(known, p \o q)
      PROVE  InOrder(known, p) /\ (ExitFree(p) => InOrder(KnownAfter(known, p), q))
  <2>1. InOrder(known, p)
    BY <1>2, BeforeConcat DEF InOrder
  <2>2. ASSUME ExitFree(p), NEW i \in DOMAIN q, ExitFree(Before(q, i))
        PROVE  Fits(KnownAfter(KnownAfter(known, p), Before(q, i)), q[i])
    <3>1. Len(p) + i \in DOMAIN (p \o q) /\ (p \o q)[Len(p) + i] = q[i]
      BY BeforeConcat
    <3>2. Fits(KnownAfter(known, Before(p \o q, Len(p) + i)), (p \o q)[Len(p) + i])
      BY <1>1, <1>2, <2>2, <3>1 DEF InOrder
    <3> QED
      BY <1>1, <3>1, <3>2
  <2> QED
    BY <2>1, <2>2 DEF InOrder
<1>3. ASSUME InOrder(known, p), ExitFree(p) => InOrder(KnownAfter(known, p), q)
      PROVE  InOrder(known, p \o q)
  <2> SUFFICES ASSUME NEW i \in DOMAIN (p \o q), ExitFree(Before(p \o q, i))
               PROVE  Fits(KnownAfter(known, Before(p \o q, i)), (p \o q)[i])
    BY DEF InOrder
  <2>1. CASE i \in DOMAIN p
    BY <1>3, <2>1, BeforeConcat DEF InOrder
  <2>2. CASE i \notin DOMAIN p
    <3>1. PICK k \in DOMAIN q : i = Len(p) + k
      BY <2>2, BeforeConcat
    <3>2. ExitFree(p) /\ ExitFree(Before(q, k))
      BY <1>1, <3>1
    <3>3. Fits(KnownAfter(KnownAfter(known, p), Before(q, k)), q[k])
      BY <1>3, <3>2 DEF InOrder
    <3>4. (p \o q)[i] = q[k]
      BY <3>1, BeforeConcat
    <3> QED
      BY <1>1, <3>1, <3>3, <3>4
  <2> QED
    BY <2>1, <2>2
<1> QED
  BY <1>2, <1>3

LEMMA InOrderOne ==
    ASSUME NEW known, NEW e
    PROVE  InOrder(known, <<e>>) <=> Fits(known, e)
<1>1. DOMAIN <<e>> = {1} /\ <<e>>[1] = e
  OBVIOUS
<1>2. Before(<<e>>, 1) = << >>
  BY DEF Before
<1>3. DOMAIN << >> = {}
  BY EmptySeq
<1>4. ExitFree(<< >>)
  BY <1>3 DEF ExitFree
<1> QED
  BY <1>1, <1>2, <1>4, KnownAfterNothing DEF InOrder
------------------------------------------------------------------------------
(* A list names each of its threads or modules once, so that each event is  *)
(* in order if the first one is.                                            *)

LEMMA ListingOnce ==
    ASSUME NEW S, IsFiniteSet(S), NEW list \in Listings(S)
    PROVE  \A i, j \in DOMAIN list : list[i] = list[j] => i = j
BY DEF Listings, Bijection, Injection, IsInjective

LEMMA BeforeDomain ==
    ASSUME NEW queue \in Seq(DebugEvent), NEW i \in DOMAIN queue
    PROVE  /\ \A j \in DOMAIN Before(queue, i) :
                  j \in DOMAIN queue /\ j # i /\ Before(queue, i)[j] = queue[j]
<1>1. Len(queue) \in Nat /\ DOMAIN queue = 1 .. Len(queue)
  BY LenProperties
<1>2. \A j \in 1 .. i - 1 : j \in DOMAIN queue /\ j # i
  BY <1>1
<1> QED
  BY <1>2 DEF Before

LEMMA ThreadsInOrder ==
    ASSUME NEW known \in SUBSET Subject, NEW S \in SUBSET Threads, NEW list \in Listings(S)
    PROVE  /\ S \cap ThreadsIn(known) = {} /\ ModulesIn(known) # {} =>
                  InOrder(known, ThreadStarts(list))
           /\ S \subseteq ThreadsIn(known) => InOrder(known, ThreadExits(list))
<1>1. /\ \A i \in DOMAIN list : list[i] \in S /\ list[i] \in Threads
      /\ \A i, j \in DOMAIN list : list[i] = list[j] => i = j
  BY TraceAssumption, FS_Subset, ListingEnumerates, ListingOnce
<1>2. /\ DOMAIN ThreadStarts(list) = DOMAIN list
      /\ DOMAIN ThreadExits(list) = DOMAIN list
      /\ ThreadStarts(list) \in Seq(DebugEvent)
      /\ ThreadExits(list) \in Seq(DebugEvent)
  BY ThreadListingTypes DEF ThreadStarts, ThreadExits
<1>3. \A i \in DOMAIN list :
          /\ ThreadStarts(list)[i].eid = "THREAD_STARTED"
          /\ ThreadStarts(list)[i].tid = list[i]
          /\ Brings(ThreadStarts(list)[i]) = {<<"thread", list[i]>>}
          /\ Drops(ThreadStarts(list)[i]) = {}
          /\ ThreadExits(list)[i].eid = "THREAD_EXITED"
          /\ ThreadExits(list)[i].tid = list[i]
          /\ Drops(ThreadExits(list)[i]) = {<<"thread", list[i]>>}
  BY DEF ThreadStarts, ThreadExits, ThreadStartEvent, ThreadExitEvent, Event, Brings, Drops
<1>4. ASSUME S \cap ThreadsIn(known) = {}, ModulesIn(known) # {}
      PROVE  InOrder(known, ThreadStarts(list))
  <2> SUFFICES ASSUME NEW i \in DOMAIN list
               PROVE  Fits(KnownAfter(known, Before(ThreadStarts(list), i)), ThreadStarts(list)[i])
    BY <1>2 DEF InOrder
  <2> DEFINE before == Before(ThreadStarts(list), i)
             k == KnownAfter(known, before)
  <2>1. \A j \in DOMAIN before : /\ j \in DOMAIN list /\ j # i
                                 /\ Brings(before[j]) = {<<"thread", list[j]>>}
                                 /\ Drops(before[j]) = {}
    <3>1. \A j \in DOMAIN before : j \in DOMAIN list /\ j # i /\ before[j] = ThreadStarts(list)[j]
      BY <1>2, BeforeDomain
    <3> QED
      BY <1>3, <3>1
  <2> HIDE DEF before
  <2>2. known \subseteq k
    BY <2>1 DEF KnownAfter
  <2>3. ModulesIn(k) # {}
    BY <1>4, <2>2 DEF ModulesIn
  <2>4. list[i] \notin ThreadsIn(k)
    <3>1. <<"thread", list[i]>> \notin known
      BY <1>1, <1>4 DEF ThreadsIn
    <3>2. \A j \in DOMAIN before : <<"thread", list[i]>> \notin Brings(before[j])
      BY <1>1, <2>1
    <3> QED
      BY <3>1, <3>2 DEF KnownAfter, ThreadsIn
  <2> HIDE DEF k
  <2>5. Fits(k, ThreadStarts(list)[i])
    BY <1>3, <2>3, <2>4 DEF Fits, EventInOrder
  <2> QED
    BY <2>5 DEF k, before
<1>5. ASSUME S \subseteq ThreadsIn(known)
      PROVE  InOrder(known, ThreadExits(list))
  <2> SUFFICES ASSUME NEW i \in DOMAIN list
               PROVE  Fits(KnownAfter(known, Before(ThreadExits(list), i)), ThreadExits(list)[i])
    BY <1>2 DEF InOrder
  <2> DEFINE before == Before(ThreadExits(list), i)
             k == KnownAfter(known, before)
  <2>1. \A j \in DOMAIN before : /\ j \in DOMAIN list /\ j # i
                                 /\ Drops(before[j]) = {<<"thread", list[j]>>}
    <3>1. \A j \in DOMAIN before : j \in DOMAIN list /\ j # i /\ before[j] = ThreadExits(list)[j]
      BY <1>2, BeforeDomain
    <3> QED
      BY <1>3, <3>1
  <2> HIDE DEF before
  <2>2. list[i] \in ThreadsIn(k)
    <3>1. <<"thread", list[i]>> \in known
      BY <1>1, <1>5 DEF ThreadsIn
    <3>2. \A j \in DOMAIN before : <<"thread", list[i]>> \notin Drops(before[j])
      BY <1>1, <2>1
    <3> QED
      BY <1>1, <3>1, <3>2 DEF KnownAfter, ThreadsIn
  <2> HIDE DEF k
  <2>3. Fits(k, ThreadExits(list)[i])
    BY <1>3, <2>2 DEF Fits, EventInOrder
  <2> QED
    BY <2>3 DEF k, before
<1> QED
  BY <1>4, <1>5

LEMMA ModulesInOrder ==
    ASSUME NEW known \in SUBSET Subject, NEW S \in SUBSET Modules, NEW list \in Listings(S)
    PROVE  /\ InOrder(known, LibLoads(list))
           /\ S \subseteq ModulesIn(known) \ Targets => InOrder(known, LibUnloads(list))
<1>1. /\ \A i \in DOMAIN list : list[i] \in S /\ list[i] \in Modules
      /\ \A i, j \in DOMAIN list : list[i] = list[j] => i = j
  BY TraceAssumption, FS_Subset, ListingEnumerates, ListingOnce
<1>2. /\ DOMAIN LibLoads(list) = DOMAIN list
      /\ DOMAIN LibUnloads(list) = DOMAIN list
      /\ LibUnloads(list) \in Seq(DebugEvent)
  BY ModuleListingTypes DEF LibLoads, LibUnloads
<1>3. \A i \in DOMAIN list :
          /\ LibLoads(list)[i].eid = "LIB_LOADED"
          /\ LibUnloads(list)[i].eid = "LIB_UNLOADED"
          /\ LibUnloads(list)[i].module = list[i]
          /\ Drops(LibUnloads(list)[i]) = {<<"module", list[i]>>}
  BY DEF LibLoads, LibUnloads, LibLoadEvent, LibUnloadEvent, Event, Drops
<1>4. InOrder(known, LibLoads(list))
  BY <1>2, <1>3 DEF InOrder, Fits, EventInOrder
<1>5. ASSUME S \subseteq ModulesIn(known) \ Targets
      PROVE  InOrder(known, LibUnloads(list))
  <2> SUFFICES ASSUME NEW i \in DOMAIN list
               PROVE  Fits(KnownAfter(known, Before(LibUnloads(list), i)), LibUnloads(list)[i])
    BY <1>2 DEF InOrder
  <2> DEFINE before == Before(LibUnloads(list), i)
             k == KnownAfter(known, before)
  <2>1. \A j \in DOMAIN before : /\ j \in DOMAIN list /\ j # i
                                 /\ Drops(before[j]) = {<<"module", list[j]>>}
    <3>1. \A j \in DOMAIN before : j \in DOMAIN list /\ j # i /\ before[j] = LibUnloads(list)[j]
      BY <1>2, BeforeDomain
    <3> QED
      BY <1>3, <3>1
  <2> HIDE DEF before
  <2>2. list[i] \in ModulesIn(k) \ Targets
    <3>1. <<"module", list[i]>> \in known /\ list[i] \notin Targets
      BY <1>1, <1>5 DEF ModulesIn
    <3>2. \A j \in DOMAIN before : <<"module", list[i]>> \notin Drops(before[j])
      BY <1>1, <2>1
    <3> QED
      BY <1>1, <3>1, <3>2 DEF KnownAfter, ModulesIn
  <2> HIDE DEF k
  <2>3. Fits(k, LibUnloads(list)[i])
    BY <1>3, <2>2 DEF Fits, EventInOrder
  <2> QED
    BY <2>3 DEF k, before
<1> QED
  BY <1>4, <1>5

LEMMA InOrderFour ==
    ASSUME NEW known \in SUBSET Subject, NEW p \in Seq(DebugEvent), NEW q \in Seq(DebugEvent),
           NEW r \in Seq(DebugEvent), NEW s \in Seq(DebugEvent),
           InOrder(known, p),
           InOrder(KnownAfter(known, p), q),
           InOrder(KnownAfter(KnownAfter(known, p), q), r),
           InOrder(KnownAfter(KnownAfter(KnownAfter(known, p), q), r), s)
    PROVE  InOrder(known, p \o q \o r \o s)
<1>1. p \o q \in Seq(DebugEvent)
  BY ConcatProperties
<1>2. (p \o q) \o r \in Seq(DebugEvent)
  BY <1>1, ConcatProperties
<1>3. InOrder(known, p \o q)
  BY InOrderBoth
<1>4. KnownAfter(known, p \o q) = KnownAfter(KnownAfter(known, p), q)
  BY KnownAfterBoth
<1>5. InOrder(known, (p \o q) \o r)
  BY <1>1, <1>3, <1>4, InOrderBoth
<1>6. KnownAfter(known, (p \o q) \o r) = KnownAfter(KnownAfter(known, p \o q), r)
  BY <1>1, KnownAfterBoth
<1>7. InOrder(known, ((p \o q) \o r) \o s)
  BY <1>2, <1>4, <1>5, <1>6, InOrderBoth
<1> QED
  BY <1>7

(* Each list of the differences is in order where it is.                    *)
LEMMA DifferencesInOrder ==
    ASSUME NEW known \in SUBSET Subject,
           NEW exited \in SUBSET Threads, NEW started \in SUBSET Threads,
           NEW unloaded \in SUBSET Modules, NEW loaded \in SUBSET Modules,
           exited \subseteq ThreadsIn(known),
           started \cap ThreadsIn(known) = {},
           ModulesIn(known) # {},
           unloaded \subseteq ModulesIn(known) \ Targets,
           NEW events \in Differences(exited, started, unloaded, loaded)
    PROVE  InOrder(known, events)
<1>1. PICK e \in Listings(exited), s \in Listings(started),
           u \in Listings(unloaded), l \in Listings(loaded) :
        events = ThreadExits(e) \o ThreadStarts(s) \o LibUnloads(u) \o LibLoads(l)
  BY DEF Differences
<1> DEFINE first == ThreadExits(e)
           second == ThreadStarts(s)
           third == LibUnloads(u)
           fourth == LibLoads(l)
           k1 == KnownAfter(known, first)
           k2 == KnownAfter(k1, second)
           k3 == KnownAfter(k2, third)
<1>2. /\ first \in Seq(DebugEvent) /\ second \in Seq(DebugEvent)
      /\ third \in Seq(DebugEvent) /\ fourth \in Seq(DebugEvent)
  BY ThreadListingTypes, ModuleListingTypes
<1>3. k1 \in SUBSET Subject /\ k1 = known \ Named("thread", exited)
  BY KnownType, KnownAfterThreads
<1>4. InOrder(known, first)
  BY ThreadsInOrder
<1> HIDE DEF k1
<1>5. /\ started \cap ThreadsIn(k1) = {}
      /\ ModulesIn(k1) = ModulesIn(known)
  BY <1>3 DEF ThreadsIn, ModulesIn, Named
<1>6. InOrder(k1, second)
  BY <1>3, <1>5, ThreadsInOrder
<1>7. k2 \in SUBSET Subject /\ k2 = k1 \cup Named("thread", started)
  BY <1>3, KnownType, KnownAfterThreads
<1> HIDE DEF k2
<1>8. ModulesIn(k2) = ModulesIn(known)
  BY <1>5, <1>7 DEF ModulesIn, Named
<1>9. InOrder(k2, third)
  BY <1>7, <1>8, ModulesInOrder
<1>10. k3 \in SUBSET Subject
  BY <1>7, KnownType
<1> HIDE DEF k3
<1>11. InOrder(k3, fourth)
  BY <1>10, ModulesInOrder
<1> HIDE DEF first, second, third, fourth
<1>12. InOrder(known, first \o second \o third \o fourth)
  BY <1>2, <1>4, <1>6, <1>9, <1>11, InOrderFour DEF k1, k2, k3
<1> QED
  BY <1>1, <1>12 DEF first, second, third, fourth

(* A process starts when nothing is known of another.                       *)
LEMMA SessionEventsInOrder ==
    ASSUME NEW simulated \in SUBSET Modules, NEW started \in SUBSET Threads,
           NEW loaded \in SUBSET Modules,
           ActiveThread[FirstPosition] \notin started,
           NEW events \in SessionEvents(simulated, started, loaded)
    PROVE  InOrder({}, events)
<1> DEFINE e == ProcessStartEvent(ActiveThread[FirstPosition], MainModule)
           stop == BreakPointAt(FirstPosition)
<1>1. PICK s \in Listings(simulated), t \in Listings(started), m \in Listings(loaded) :
        events = <<e>> \o LibLoads(s) \o ThreadStarts(t) \o LibLoads(m) \o <<stop>>
  BY DEF SessionEvents
<1>2. ActiveThread[FirstPosition] \in Threads /\ MainModule \in Modules
  BY TraceAssumption, IndexZeroAssumption, PositionsAreNaturals
<1>3. e \in DebugEvent /\ stop \in DebugEvent
  BY <1>2, EventTypes, BreakPointAtType, PositionsAreNaturals
<1>4. /\ Brings(e) = {<<"thread", ActiveThread[FirstPosition]>>, <<"module", MainModule>>}
      /\ Drops(e) = Subject
      /\ e.eid = "PROCESS_STARTED"
  BY DEF Brings, Drops, ProcessStartEvent, Event
<1>5. stop.eid = "BREAKPOINT" /\ stop.tid = ActiveThread[FirstPosition]
  BY DEF BreakPointAt, BreakPointEvent, Event
<1> DEFINE first == <<e>>
           second == LibLoads(s)
           third == ThreadStarts(t)
           fourth == LibLoads(m)
           k1 == KnownAfter({}, first)
           k2 == KnownAfter(k1, second)
           k3 == KnownAfter(k2, third)
           k4 == KnownAfter(k3, fourth)
<1>6. k1 \in SUBSET Subject /\ k1 = ({} \ Drops(e)) \cup (Brings(e) \cap Subject)
  BY KnownType, KnownAfterOne
<1>7. InOrder({}, first)
  <2>1. Fits({}, e)
    BY <1>4 DEF Fits, EventInOrder, ThreadsIn, ModulesIn
  <2> QED
    BY <2>1, InOrderOne
<1>8. /\ first \in Seq(DebugEvent) /\ <<stop>> \in Seq(DebugEvent)
      /\ second \in Seq(DebugEvent) /\ third \in Seq(DebugEvent)
      /\ fourth \in Seq(DebugEvent)
  BY <1>3, ThreadListingTypes, ModuleListingTypes
<1> HIDE DEF e, stop, first, k1
<1>9. k1 = {<<"thread", ActiveThread[FirstPosition]>>, <<"module", MainModule>>}
  BY <1>2, <1>4, <1>6 DEF Subject
<1>10. InOrder(k1, second)
  BY <1>6, ModulesInOrder
<1>11. k2 \in SUBSET Subject /\ k2 = k1 \cup Named("module", simulated)
  BY <1>6, KnownType, KnownAfterModules
<1> HIDE DEF k2, second
<1>12. started \cap ThreadsIn(k2) = {} /\ ModulesIn(k2) # {}
  BY <1>2, <1>9, <1>11 DEF ThreadsIn, ModulesIn, Named
<1>13. InOrder(k2, third)
  BY <1>11, <1>12, ThreadsInOrder
<1>14. k3 \in SUBSET Subject /\ k3 = k2 \cup Named("thread", started)
  BY <1>11, KnownType, KnownAfterThreads
<1> HIDE DEF k3, third
<1>15. InOrder(k3, fourth)
  BY <1>14, ModulesInOrder
<1>16. k4 \in SUBSET Subject /\ k4 = k3 \cup Named("module", loaded)
  BY <1>14, KnownType, KnownAfterModules
<1> HIDE DEF k4, fourth
<1>17. ActiveThread[FirstPosition] \in ThreadsIn(k4)
  BY <1>2, <1>9, <1>11, <1>14, <1>16 DEF ThreadsIn
<1>18. InOrder(k4, <<stop>>)
  <2>1. Fits(k4, stop)
    BY <1>5, <1>17 DEF Fits, EventInOrder
  <2> QED
    BY <2>1, InOrderOne
<1> DEFINE front == first \o second \o third \o fourth
<1>19. /\ front \in Seq(DebugEvent)
       /\ KnownAfter({}, front) = k4
       /\ InOrder({}, front)
  <2>1. /\ front \in Seq(DebugEvent)
        /\ KnownAfter({}, front) =
               KnownAfter(KnownAfter(KnownAfter(KnownAfter({}, first), second), third), fourth)
    BY <1>8, KnownAfterFour
  <2>2. InOrder({}, front)
    BY <1>7, <1>8, <1>10, <1>13, <1>15, InOrderFour DEF k1, k2, k3
  <2> QED
    BY <2>1, <2>2 DEF k1, k2, k3, k4
<1>20. events = front \o <<stop>>
  BY <1>1 DEF first, second, third, fourth
<1> HIDE DEF front
<1> QED
  BY <1>8, <1>18, <1>19, <1>20, InOrderBoth
------------------------------------------------------------------------------
(* Every step keeps the order of what is to come.                           *)

LEMMA PushInOrder ==
    ASSUME TypeOK, InOrder(SubjectsOf(ida), m_events),
           NEW events \in Seq(DebugEvent), m_events' = m_events \o events, UNCHANGED ida,
           ExitFree(m_events) => InOrder(Known, events)
    PROVE  InOrder(SubjectsOf(ida), m_events)'
<1>1. m_events \in Seq(DebugEvent) /\ SubjectsOf(ida) \in SUBSET Subject
  BY SubjectsOfView DEF TypeOK
<1>2. InOrder(SubjectsOf(ida), m_events \o events)
  BY <1>1, InOrderBoth DEF Known
<1>3. InOrder(SubjectsOf(ida), m_events)' <=> InOrder(SubjectsOf(ida'), m_events')
  BY DEF InOrder, SubjectsOf
<1> QED
  BY <1>2, <1>3

LEMMA PollInOrder ==
    ASSUME TypeOK, OrderInv, onGetDebugEvent
    PROVE  /\ dbgEvent'.eid # "PROCESS_EXITED" => InOrder(SubjectsOf(ida), m_events)'
           /\ EventInOrder(ida, dbgEvent')
<1> DEFINE e == frontEvent(m_events)
           rest == popEvent(m_events)
           known == SubjectsOf(ida)
<1>1. /\ m_events \in Seq(DebugEvent) /\ ~isEmpty(m_events) /\ ida \in View
      /\ m_events' = rest /\ ida' = IdaAfter(ida, e) /\ dbgEvent' = e
      /\ dbgState = "running"
  BY DEF TypeOK, onGetDebugEvent
<1>2. e \in DebugEvent /\ rest \in Seq(DebugEvent) /\ m_events = <<e>> \o rest
  BY <1>1, HeadAndTail
<1>3. InOrder(known, m_events)
  BY <1>1 DEF OrderInv
<1>4. InOrder(SubjectsOf(ida), m_events)' <=> InOrder(SubjectsOf(ida'), m_events')
  BY DEF InOrder, SubjectsOf
<1>5. /\ known \in SUBSET Subject
      /\ SubjectsOf(IdaAfter(ida, e)) = KnownAfter(known, <<e>>)
  BY <1>1, <1>2, SubjectsOfView, SubjectsAfter
<1>6. ThreadsIn(known) = ida.threads /\ ModulesIn(known) = ida.modules
  BY InSubjects
<1> HIDE DEF e, rest, known
<1>7. <<e>> \in Seq(DebugEvent)
  BY <1>2
<1>8. InOrder(known, <<e>>) /\ (ExitFree(<<e>>) => InOrder(KnownAfter(known, <<e>>), rest))
  BY <1>2, <1>3, <1>5, <1>7, InOrderBoth
<1>9. EventInOrder(ida, e)
  <2>1. Fits(known, e)
    BY <1>8, InOrderOne
  <2> QED
    BY <1>6, <2>1 DEF Fits, EventInOrder
<1>10. e.eid # "PROCESS_EXITED" => ExitFree(<<e>>)
  BY DEF ExitFree
<1> QED
  BY <1>1, <1>4, <1>5, <1>8, <1>9, <1>10

LEMMA MoveInOrder ==
    ASSUME TypeOK, m_cursor \in Position, \A p \in Position : ModulesAt[p] # {},
           NEW to \in Position, NEW stop \in Stops, Announces(stop, to),
           MoveTo(to, stop)
    PROVE  \E events \in Seq(DebugEvent) :
               /\ m_events' = m_events \o events
               /\ MirrorsTrace(Known, m_cursor) => InOrder(Known, events)
<1> DEFINE exited == ThreadsAt[m_cursor] \ ThreadsAt[to]
           started == ThreadsAt[to] \ ThreadsAt[m_cursor]
           unloaded == {m \in ModulesAt[m_cursor] \ ModulesAt[to] : ~isTargetModule(m)}
           loaded == ModulesAt[to] \ ModulesAt[m_cursor]
           after == (((Known \ Named("thread", exited)) \cup Named("thread", started))
                         \ Named("module", unloaded)) \cup Named("module", loaded)
<1>1. /\ exited \in SUBSET Threads /\ started \in SUBSET Threads
      /\ unloaded \in SUBSET Modules /\ loaded \in SUBSET Modules
  BY TraceAssumption
<1>2. PICK differences \in Differences(exited, started, unloaded, loaded) :
        m_events' = pushEvent(pushEvents(m_events, differences), stop)
  <2>1. applyCursor(to) = Differences(exited, started, unloaded, loaded)
    BY Zenon DEF applyCursor, applyDifferences
  <2> QED
    BY <2>1 DEF MoveTo
<1>3. stop \in DebugEvent /\ stop.eid \in StopEvents /\ stop.tid = ActiveThread[to]
  BY DEF Stops, Announces
<1>4. Known \in SUBSET Subject
  BY SubjectsOfView, KnownType DEF Known, TypeOK
<1>5. MirrorsTrace(Known, m_cursor) =>
      /\ exited \subseteq ThreadsIn(Known)
      /\ started \cap ThreadsIn(Known) = {}
      /\ ModulesIn(Known) # {}
      /\ unloaded \subseteq ModulesIn(Known) \ Targets
      /\ (ThreadsIn(Known) \ exited) \cup started = ThreadsAt[to]
  BY DEF MirrorsTrace, isTargetModule
<1> HIDE DEF exited, started, unloaded, loaded
<1>6. /\ differences \in Seq(DebugEvent)
      /\ MirrorsTrace(Known, m_cursor) => InOrder(Known, differences)
  BY <1>1, <1>4, <1>5, DifferencesInOrder, DifferencesExitFree
<1>7. KnownAfter(Known, differences) = after
  BY <1>1, <1>4, KnownAfterDifferences
<1>8. ThreadsIn(after) = (ThreadsIn(Known) \ exited) \cup started
  <2>1. after = (((Known \ Named("thread", exited)) \cup Named("thread", started))
                     \ Named("module", unloaded)) \cup Named("module", loaded)
    OBVIOUS
  <2> HIDE DEF after
  <2> QED
    BY <1>1, <1>4, <2>1, InAfterDifferences
<1> HIDE DEF after
<1>9. ASSUME MirrorsTrace(Known, m_cursor) PROVE Fits(after, stop)
  <2>1. stop.tid \in ThreadsIn(after)
    BY <1>3, <1>5, <1>8, <1>9, TraceAssumption
  <2> QED
    BY <1>3, <2>1 DEF Fits, EventInOrder, StopEvents
<1>10. /\ <<stop>> \in Seq(DebugEvent)
       /\ MirrorsTrace(Known, m_cursor) => InOrder(after, <<stop>>)
  BY <1>3, <1>9, InOrderOne
<1>11. /\ differences \o <<stop>> \in Seq(DebugEvent)
       /\ MirrorsTrace(Known, m_cursor) => InOrder(Known, differences \o <<stop>>)
  BY <1>4, <1>6, <1>7, <1>10, InOrderBoth, ConcatProperties
<1>12. m_events' = m_events \o (differences \o <<stop>>)
  <2>1. m_events \in Seq(DebugEvent)
    BY DEF TypeOK
  <2>2. m_events' = Append(m_events \o differences, stop)
    BY <1>2 DEF pushEvent, pushEvents
  <2>3. m_events \o differences \in Seq(DebugEvent)
    BY <1>6, <2>1, ConcatProperties
  <2>4. m_events' = (m_events \o differences) \o <<stop>>
    BY <1>3, <2>2, <2>3, AppendIsConcat
  <2> QED
    BY <1>6, <1>10, <2>1, <2>4, ConcatAssociative
<1> QED
  BY <1>11, <1>12

LEMMA ResumeInOrder ==
    ASSUME \A p \in Position : ModulesAt[p] # {},
           TypeOK, InOrder(SubjectsOf(ida), m_events), onResume,
           dbgEvent.eid \in StopEvents /\ ExitFree(m_events) => MirrorsTrace(Known, m_cursor)
    PROVE  InOrder(SubjectsOf(ida), m_events)'
<1>1. CASE dbgEvent.eid \notin StopEvents
  <2>1. UNCHANGED <<m_events, ida>>
    BY <1>1 DEF onResume, ResumeOtherEvent, ResumeAtNextPosition, ResumeBackwardsSingleStep,
          ResumeByMode, IdaResumes
  <2> QED
    BY <2>1 DEF InOrder, SubjectsOf
<1>2. CASE dbgEvent.eid \in StopEvents
  <2>1. m_cursor \in Position /\ UNCHANGED ida /\ dbgState # "noProcess"
    BY <1>2, ResumeMovesTo
  <2>2. PICK to \in Position, stop \in Stops : MoveTo(to, stop) /\ Announces(stop, to)
    BY <1>2, ResumeMovesTo
  <2>3. PICK events \in Seq(DebugEvent) :
            /\ m_events' = m_events \o events
            /\ MirrorsTrace(Known, m_cursor) => InOrder(Known, events)
    BY <2>1, <2>2, MoveInOrder
  <2>4. ExitFree(m_events) => MirrorsTrace(Known, m_cursor)
    BY <1>2
  <2> QED
    BY <2>1, <2>3, <2>4, PushInOrder
<1> QED
  BY <1>1, <1>2

LEMMA StartInOrder ==
    ASSUME MaxBacklog = 0, TypeOK, OrderInv, onStartProcess
    PROVE  InOrder(SubjectsOf(ida), m_events)'
<1> DEFINE started == ThreadsAt[FirstPosition] \ {MainThread}
           loaded == ModulesAt[FirstPosition] \ {MainModule}
<1>1. FirstPosition \in Position
  BY PositionsAreNaturals
<1>2. /\ started \in SUBSET Threads /\ loaded \in SUBSET Modules
      /\ SimulatedModules \in SUBSET Modules
      /\ ActiveThread[FirstPosition] \notin started
  BY <1>1, TraceAssumption, IdaAssumption, IndexZeroAssumption DEF SimulatedModules
<1>3. PICK events \in SessionEvents(SimulatedModules, started, loaded) :
        m_events' = m_events \o events
  <2>1. SessionStart = SessionEvents(SimulatedModules, started, loaded)
    BY Zenon DEF SessionStart
  <2> QED
    BY <2>1 DEF onStartProcess, pushEvents
<1> HIDE DEF started, loaded
<1>4. events \in Seq(DebugEvent) /\ InOrder({}, events)
  BY <1>2, SessionEventsExitFree, SessionEventsInOrder
<1>5. m_events = << >> /\ UNCHANGED ida
  <2>1. m_events \in Seq(DebugEvent) /\ Len(m_events) <= 0 /\ UNCHANGED ida
    BY DEF TypeOK, onStartProcess
  <2>2. Len(m_events) \in Nat
    BY <2>1, LenProperties
  <2> QED
    BY <2>1, <2>2, EmptySeq
<1>6. SubjectsOf(ida) = {}
  BY DEF OrderInv, onStartProcess
<1>7. Known = {}
  BY <1>5, <1>6, KnownAfterNothing DEF Known
<1>8. InOrder(SubjectsOf(ida), m_events)
  <2>1. DOMAIN m_events = {}
    BY <1>5, EmptySeq
  <2> QED
    BY <2>1 DEF InOrder
<1> QED
  BY <1>3, <1>4, <1>5, <1>7, <1>8, PushInOrder

(* What a resume at a stop is made from. *)
ResumeMirrors ==
    onResume /\ dbgEvent.eid \in StopEvents /\ ExitFree(m_events) => MirrorsTrace(Known, m_cursor)

LEMMA NoExitToCome == ExitsOnce /\ ExitFree(m_events) => ~exiting
BY DEF ExitsOnce, ExitFree, Exits

LEMMA SessionMirrors == SessionInv => ResumeMirrors
<1>1. onResume => dbgState # "noProcess"
  BY DEF onResume, ResumeOtherEvent, ResumeAtNextPosition, ResumeBackwardsSingleStep,
        ResumeByMode, IdaResumes
<1> QED
  BY <1>1, NoExitToCome DEF SessionInv, ResumeMirrors, alive

LEMMA OrderStep ==
    ASSUME MaxBacklog = 0, \A p \in Position : ModulesAt[p] # {}
    PROVE  TypeOK /\ ResumeMirrors /\ OrderInv /\ [Next]_vars => OrderInv'
<1> SUFFICES ASSUME TypeOK, ResumeMirrors, OrderInv, [Next]_vars PROVE OrderInv'
  OBVIOUS
<1>1. CASE onGetDebugEvent
  <2>1. CASE dbgEvent'.eid = "PROCESS_EXITED"
    <3>1. dbgState' = "noProcess" /\ ida' = NoView
      BY <1>1, <2>1 DEF onGetDebugEvent, StatesAfter, IdaAfter
    <3> QED
      BY <3>1 DEF OrderInv, SubjectsOf, NoView
  <2>2. CASE dbgEvent'.eid # "PROCESS_EXITED"
    <3>1. dbgState' # "noProcess"
      BY <1>1, <2>2 DEF onGetDebugEvent, StatesAfter
    <3> QED
      BY <1>1, <2>2, <3>1, PollInOrder DEF OrderInv
  <2> QED
    BY <2>1, <2>2
<1>2. CASE onResume
  <2>1. dbgState # "noProcess" /\ dbgState' # "noProcess"
    BY <1>2 DEF onResume, ResumeOtherEvent, ResumeAtNextPosition, ResumeBackwardsSingleStep,
          ResumeByMode, IdaResumes
  <2> QED
    BY <1>2, <2>1, ResumeInOrder DEF OrderInv, ResumeMirrors
<1>3. CASE onStartProcess
  <2>1. dbgState' # "noProcess"
    BY <1>3 DEF onStartProcess
  <2> QED
    BY <1>3, <2>1, StartInOrder DEF OrderInv
<1>4. CASE onExitProcess
  <2>1. /\ dbgState # "noProcess" /\ dbgState' # "noProcess" /\ UNCHANGED ida
        /\ m_events' = Append(m_events, ProcessExitEvent)
        /\ m_events \in Seq(DebugEvent)
    BY <1>4 DEF onExitProcess, pushEvent, TypeOK
  <2>2. ProcessExitEvent \in DebugEvent /\ ProcessExitEvent.eid = "PROCESS_EXITED"
    BY EventTypes, EventKinds
  <2> DEFINE e == ProcessExitEvent
  <2> HIDE DEF e
  <2>3. m_events' = m_events \o <<e>> /\ <<e>> \in Seq(DebugEvent)
    BY <2>1, <2>2, AppendIsConcat DEF e
  <2>4. InOrder(Known, <<e>>)
    <3>1. Fits(Known, e)
      BY <2>2 DEF Fits, EventInOrder, e
    <3> QED
      BY <3>1, InOrderOne
  <2> QED
    BY <2>1, <2>3, <2>4, PushInOrder DEF OrderInv
<1>5. CASE onUpdateBpts
  <2>1. /\ UNCHANGED <<m_events, dbgState>>
        /\ \E bpts : ida' = [ida EXCEPT !.bpts = bpts]
    BY <1>5 DEF onUpdateBpts
  <2>2. SubjectsOf(ida') = SubjectsOf(ida)
    BY <2>1 DEF TypeOK, View, SubjectsOf
  <2> QED
    BY <2>1, <2>2 DEF OrderInv, InOrder, SubjectsOf
<1>6. CASE onStartProcessFails \/ Continue \/ onSetResumeMode \/ BackwardStateRequest
           \/ SwitchBack \/ BackwardSingleStepRequest \/ gotoPosition \/ UNCHANGED vars
  <2>1. UNCHANGED <<m_events, dbgState, ida>>
    BY <1>6 DEF onStartProcessFails, Continue, onSetResumeMode, BackwardStateRequest,
          SwitchBack, BackwardSingleStepRequest, gotoPosition, process, vars
  <2> QED
    BY <2>1 DEF OrderInv, InOrder, SubjectsOf
<1> QED
  BY <1>1, <1>2, <1>3, <1>4, <1>5, <1>6 DEF Next, MainThreadAction

PollsInOrder == onGetDebugEvent => EventInOrder(ida, dbgEvent')

LEMMA InitialOrder == Init => OrderInv
BY DEF Init, OrderInv, SubjectsOf, NoView

LEMMA PollKeepsOrder == TypeOK /\ OrderInv => PollsInOrder
BY PollInOrder DEF PollsInOrder

(* Where sessions begin with an empty queue and a module is loaded at every *)
(* position, IDA is given each event in its place, over any moves and       *)
(* however the lists of the engine are ordered.                             *)
THEOREM EventsComeInOrder ==
    ASSUME MaxBacklog = 0, \A p \in Position : ModulesAt[p] # {}
    PROVE  Spec => EventsInOrder
<1>1. TypeOK /\ SessionInv /\ OrderInv /\ [Next]_vars => OrderInv'
  BY OrderStep, SessionMirrors
<1> QED
  BY <1>1, InitialOrder, PollKeepsOrder, TypeCorrect, WhatIsToCome, PTL
     DEF Spec, EventsInOrder, PollsInOrder
------------------------------------------------------------------------------
(* Full runs. *)

(* Only a process that is told to end is let go at a stop without the main *)
(* thread, which is what keeps the debugger thread off the cursor during a *)
(* full run.                                                               *)
LetsGo == dbgState = "handling" /\ dbgEvent.eid \in StopEvents => exiting

(* What is to come is the trace where the cursor will be put back. *)
RunInv ==
    /\ TypeOK
    /\ ExitsOnce
    /\ LetsGo
    /\ fullRun \in BOOLEAN
    /\ fullRun => old \in Position /\ uiCall = "idle"
    /\ alive => Announces(LastEvent, standing) /\ MirrorsTrace(Known, standing)

RunStep == RunInv' /\ [Unseen!Next]_(Unseen!vars)

LEMMA LetsGoStep ==
    ASSUME TypeOK, LetsGo, [Next]_vars
    PROVE  LetsGo'
<1>1. CASE onGetDebugEvent
  <2>1. StopEvents \subseteq SuspendOn /\ "PROCESS_EXITED" \notin SuspendOn
    BY IdaAssumption
  <2> QED
    BY <1>1, <2>1 DEF onGetDebugEvent, StatesAfter, LetsGo, TypeOK
<1>2. CASE onResume
  BY <1>2 DEF onResume, ResumeOtherEvent, ResumeAtNextPosition, ResumeBackwardsSingleStep,
        ResumeByMode, IdaResumes, LetsGo
<1>3. CASE onStartProcess \/ onExitProcess
  BY <1>3 DEF onStartProcess, onExitProcess, LetsGo
<1>4. CASE onStartProcessFails \/ Continue \/ onSetResumeMode \/ BackwardStateRequest
           \/ SwitchBack \/ BackwardSingleStepRequest \/ gotoPosition \/ onUpdateBpts
           \/ UNCHANGED vars
  <2>1. UNCHANGED <<dbgState, dbgEvent, exiting>>
    BY <1>4 DEF onStartProcessFails, Continue, onSetResumeMode, BackwardStateRequest,
          SwitchBack, BackwardSingleStepRequest, gotoPosition, onUpdateBpts, process, vars
  <2> QED
    BY <2>1 DEF LetsGo
<1> QED
  BY <1>1, <1>2, <1>3, <1>4 DEF Next, MainThreadAction

(* Between full runs the manager stands where its cursor is. *)
LEMMA StandsAtCursor ==
    ASSUME ~fullRun
    PROVE  /\ standing = pos
           /\ alive => standing = m_cursor
BY DEF standing, pos

(* A step of the manager outside full runs is what it is without them. *)
LEMMA StepWithoutRun ==
    ASSUME RunInv, ~fullRun, [Next]_vars, UNCHANGED runVars
    PROVE  RunStep
<1>1. TypeOK /\ SessionInv
  BY StandsAtCursor DEF RunInv, SessionInv
<1>2. SessionInv' /\ [Session!Next]_(Session!vars)
  BY <1>1, EveryStep DEF SessionStep
<1>3. ~fullRun' /\ standing = pos /\ standing' = pos' /\ (alive' => standing' = m_cursor')
  BY DEF runVars, standing, pos
<1>4. TypeOK'
  BY <1>1, TypeStep
<1>5. LetsGo'
  BY LetsGoStep DEF RunInv
<1>6. RunInv'
  <2>1. ExitsOnce'
    BY <1>2 DEF SessionInv
  <2>2. ASSUME alive' PROVE Announces(LastEvent', standing') /\ MirrorsTrace(Known', standing')
    BY <1>2, <1>3, <2>2 DEF SessionInv, Announces, MirrorsTrace, ThreadsIn, ModulesIn
  <2>3. (alive => Announces(LastEvent, standing) /\ MirrorsTrace(Known, standing))'
    BY <2>2 DEF Announces, MirrorsTrace, ThreadsIn, ModulesIn
  <2>4. fullRun' \in BOOLEAN
    BY DEF RunInv, runVars
  <2> QED
    BY <1>3, <1>4, <1>5, <2>1, <2>3, <2>4 DEF RunInv
<1>7. [Unseen!Next]_(Unseen!vars)
  BY <1>2, <1>3
     DEF Session!Next, Session!Start, Session!Move, Session!Show, Session!Exit,
         Session!StandAt, Session!NoProcess, Session!vars,
         Unseen!Next, Unseen!Start, Unseen!Move, Unseen!Show, Unseen!Exit,
         Unseen!StandAt, Unseen!NoProcess, Unseen!vars
<1> QED
  BY <1>6, <1>7 DEF RunStep

(* A step that changes neither what is to come nor where the cursor will be *)
(* found.                                                                   *)
LEMMA SteadyRunStep ==
    ASSUME RunInv, UNCHANGED <<alive, standing>>,
           alive => UNCHANGED <<Known, LastEvent>> /\ (shown => shown'),
           TypeOK', ExitsOnce', LetsGo', fullRun' \in BOOLEAN,
           fullRun' => old' \in Position /\ uiCall' = "idle"
    PROVE  RunStep
<1>1. alive' = alive /\ standing' = standing
  OBVIOUS
<1>2. CASE ~alive
  <2>1. RunInv'
    BY <1>1, <1>2 DEF RunInv
  <2>2. UNCHANGED <<alive, standing, threads, modules, thread, shown>>
    BY <1>1, <1>2 DEF threads, modules, thread, shown
  <2> QED
    BY <2>1, <2>2 DEF RunStep, Unseen!vars
<1>3. CASE alive
  <2>1. Known' = Known /\ LastEvent' = LastEvent
    BY <1>3
  <2>2. RunInv'
    BY <1>1, <2>1 DEF RunInv, Announces, MirrorsTrace, ThreadsIn, ModulesIn
  <2>3. UNCHANGED <<alive, standing, threads, modules, thread>>
    BY <1>1, <2>1 DEF threads, modules, thread, ThreadsIn, ModulesIn
  <2>4. CASE UNCHANGED shown
    BY <2>2, <2>3, <2>4 DEF RunStep, Unseen!vars
  <2>5. CASE ~UNCHANGED shown
    <3>1. ~shown /\ shown' = TRUE
      BY <1>1, <1>3, <2>5 DEF shown
    <3>2. Unseen!Show
      BY <1>3, <2>3, <3>1 DEF Unseen!Show
    <3> QED
      BY <2>2, <3>2 DEF RunStep, Unseen!Next
  <2> QED
    BY <2>4, <2>5
<1> QED
  BY <1>2, <1>3

(* IDA goes on polling during a full run. *)
LEMMA PollDuringRun ==
    ASSUME RunInv, fullRun, onGetDebugEvent, UNCHANGED runVars
    PROVE  RunStep
<1>1. UNCHANGED <<Known, LastEvent>>
  BY PollKeepsKnown, PollKeepsLast DEF RunInv
<1>2. TypeOK' /\ ExitsOnce' /\ UNCHANGED alive
  BY onGetDebugEventType, PollExits DEF RunInv
<1>3. LetsGo'
  BY LetsGoStep DEF RunInv, Next
<1>4. ~shown /\ UNCHANGED <<m_cursor, uiCall, fullRun, old>>
  BY DEF shown, AtStop, onGetDebugEvent, replay, runVars
<1>5. UNCHANGED standing
  BY <1>2, <1>4 DEF standing
<1> QED
  BY <1>1, <1>2, <1>3, <1>4, <1>5, SteadyRunStep DEF RunInv

(* And resumes what it does not suspend on; with the main thread busy it   *)
(* resumes a stop only of a process that is ending.                        *)
LEMMA ResumeDuringRun ==
    ASSUME RunInv, fullRun, onResume, UNCHANGED runVars
    PROVE  RunStep
<1>1. TypeOK' /\ ExitsOnce' /\ UNCHANGED alive
  BY onResumeType, ResumeExits DEF RunInv
<1>2. LetsGo'
  BY LetsGoStep DEF RunInv, Next
<1>3. /\ dbgState = "handling" /\ UNCHANGED <<uiCall, ida, dbgEvent, fullRun, old>>
      /\ IdaResumes
  BY DEF RunInv, onResume, ResumeOtherEvent, ResumeAtNextPosition, ResumeBackwardsSingleStep,
        ResumeByMode, IdaResumes, InContinueProcess, runVars
<1>4. UNCHANGED standing
  BY <1>1, <1>3 DEF standing
<1>5. ASSUME alive PROVE UNCHANGED <<Known, LastEvent>> /\ ~shown
  <2>1. dbgEvent.eid \notin StopEvents
    BY <1>3, <1>5 DEF RunInv, LetsGo, alive
  <2>2. UNCHANGED m_events
    BY <2>1 DEF onResume, ResumeOtherEvent, ResumeAtNextPosition, ResumeBackwardsSingleStep,
          ResumeByMode
  <2> QED
    BY <1>3, <2>1, <2>2 DEF Known, KnownAfter, SubjectsOf, LastEvent, shown, AtStop
<1> QED
  BY <1>1, <1>2, <1>3, <1>4, <1>5, SteadyRunStep DEF RunInv

(* The full run itself touches neither the queue nor IDA. *)
LEMMA RunOfCursor ==
    ASSUME RunInv, requestFullRun \/ CursorRuns \/ Restore
    PROVE  RunStep
<1>1. UNCHANGED <<m_events, m_isForward, requests, watchpoints, process, uiCall>>
  BY DEF requestFullRun, CursorRuns, Restore, vars, replay
<1>2. UNCHANGED <<dbgState, dbgEvent, exiting, ida>>
  BY <1>1 DEF process
<1>3. UNCHANGED <<alive, Known, LastEvent, shown, Exits>>
  BY <1>1, <1>2 DEF alive, Known, KnownAfter, SubjectsOf, LastEvent, shown, AtStop, Exits
<1>4. ExitsOnce' /\ LetsGo'
  BY <1>2, <1>3 DEF RunInv, ExitsOnce, LetsGo
<1>5. /\ m_cursor' \in Position /\ fullRun' \in BOOLEAN
      /\ fullRun' => old' \in Position /\ uiCall' = "idle"
      /\ UNCHANGED standing
  <2>1. CASE requestFullRun
    <3>1. m_cursor \in Position
      BY <2>1 DEF requestFullRun, RunInv, TypeOK
    <3> QED
      BY <1>3, <2>1, <3>1 DEF requestFullRun, vars, replay, standing
  <2>2. CASE CursorRuns
    BY <1>1, <1>3, <2>2 DEF CursorRuns, RunInv, runVars, standing
  <2>3. CASE Restore
    <3>1. old \in Position /\ SetPosition(old) = old
      BY <2>3, PositionAssumption DEF Restore, RunInv, SetPosition, Position
    <3> QED
      BY <1>3, <2>3, <3>1 DEF Restore, standing
  <2> QED
    BY <2>1, <2>2, <2>3
<1>6. TypeOK'
  BY <1>1, <1>2, <1>5, PositionsAreNaturals DEF RunInv, TypeOK, requests
<1> QED
  BY <1>3, <1>4, <1>5, <1>6, SteadyRunStep

LEMMA EveryRunStep ==
    ASSUME RunInv, [NextWithRun]_allVars
    PROVE  RunStep
<1>1. CASE DebuggerThread
  <2>1. CASE ~fullRun
    BY <1>1, <2>1, StepWithoutRun DEF DebuggerThread, Next
  <2>2. CASE fullRun
    BY <1>1, <2>2, PollDuringRun, ResumeDuringRun DEF DebuggerThread
  <2> QED
    BY <2>1, <2>2
<1>2. CASE ~fullRun /\ MainThreadAction /\ UNCHANGED runVars
  BY <1>2, StepWithoutRun DEF Next
<1>3. CASE requestFullRun \/ CursorRuns \/ Restore
  BY <1>3, RunOfCursor
<1>4. CASE UNCHANGED allVars
  <2>1. UNCHANGED <<m_events, m_isForward, requests, replay, process, uiCall, fullRun, old>>
    BY <1>4 DEF allVars, vars, runVars
  <2>2. UNCHANGED <<alive, Known, LastEvent, shown, Exits, standing>>
    BY <2>1 DEF alive, Known, KnownAfter, SubjectsOf, LastEvent, shown, AtStop, Exits,
          standing, process, replay
  <2>3. TypeOK' /\ ExitsOnce' /\ LetsGo'
    BY <2>1, <2>2 DEF RunInv, TypeOK, ExitsOnce, LetsGo, requests, replay, process
  <2> QED
    BY <2>1, <2>2, <2>3, SteadyRunStep DEF RunInv
<1> QED
  BY <1>1, <1>2, <1>3, <1>4 DEF NextWithRun

LEMMA InitialRunInv == InitWithRun => RunInv
<1> SUFFICES ASSUME InitWithRun PROVE RunInv
  OBVIOUS
<1>1. TypeOK /\ SessionInv /\ ~fullRun
  BY InitialType, InitialSession DEF InitWithRun
<1>2. LetsGo /\ fullRun \in BOOLEAN
  BY DEF InitWithRun, Init, LetsGo
<1> QED
  BY <1>1, <1>2, StandsAtCursor DEF RunInv, SessionInv

LEMMA RunInvariant == SpecWithRun => []RunInv
<1>1. RunInv /\ [NextWithRun]_allVars => RunInv'
  BY EveryRunStep DEF RunStep
<1> QED
  BY <1>1, InitialRunInv, PTL DEF SpecWithRun

(* For the debugged process a full run does not happen.  With full runs    *)
(* begun wherever the main thread is free, left early or not, and IDA      *)
(* polling and resuming meanwhile, every step is one of the session at the *)
(* place where the cursor will be put back, or cannot be seen.             *)
THEOREM FullRunImplementsSession == SpecWithRun => Unseen!Spec
<1>1. InitWithRun => Unseen!Init
  BY InitialSession, StandsAtCursor
     DEF InitWithRun, Session!Init, Session!NoProcess, Unseen!Init, Unseen!NoProcess
<1>2. RunInv /\ [NextWithRun]_allVars => [Unseen!Next]_(Unseen!vars)
  BY EveryRunStep DEF RunStep
<1> QED
  BY <1>1, <1>2, RunInvariant, PTL DEF SpecWithRun, Unseen!Spec
------------------------------------------------------------------------------
(* What full runs leave as it is. *)

RunOnly == UNCHANGED <<m_events, m_isForward, requests, watchpoints, process, uiCall>>

(* A step is one of the manager, or moves nothing but the cursor. *)
LEMMA StepAmongRuns == [NextWithRun]_allVars => [Next]_vars \/ RunOnly
BY DEF NextWithRun, DebuggerThread, Next, requestFullRun, CursorRuns, Restore, allVars, vars,
       replay, RunOnly

(* Full runs keep none of IDA's promises from being kept: a stop is always  *)
(* to come, a stop outside a full run shows the trace at the cursor and the *)
(* module of the database, and a resume goes the way the user asked for.    *)
THEOREM StopsAmongRuns ==
    SpecWithRun =>
        /\ []RunningHasStop
        /\ [](~fullRun => IdaMirrorsTrace /\ StopShowsCursor /\ TargetStaysLoaded)
        /\ ResumeKeepsDirection
<1>1. RunInv /\ RunningHasStop /\ [NextWithRun]_allVars => RunningHasStop'
  <2>1. RunningHasStop /\ RunOnly => RunningHasStop'
    BY DEF RunningHasStop, StopQueued, RunOnly, process
  <2> QED
    BY <2>1, StepAmongRuns, StopStep DEF RunInv
<1>2. RunInv => (~fullRun => IdaMirrorsTrace /\ StopShowsCursor /\ TargetStaysLoaded)
  BY StandsAtCursor, StopIsOfTheTrace DEF RunInv, SessionInv
<1>3. RunInv /\ DirectionInv /\ [NextWithRun]_allVars => DirectionInv'
  <2>1. DirectionInv /\ RunOnly => DirectionInv'
    BY DEF DirectionInv, RunOnly
  <2> QED
    BY <2>1, StepAmongRuns, DirectionStep DEF RunInv
<1>4. RunInv /\ DirectionInv => DirectionOfResume
  BY ResumeGoesTheWay DEF RunInv
<1>5. InitWithRun => RunningHasStop /\ DirectionInv
  BY InitialStop, InitialDirection DEF InitWithRun
<1> QED
  BY <1>1, <1>2, <1>3, <1>4, <1>5, RunInvariant, PTL
     DEF SpecWithRun, ResumeKeepsDirection, DirectionOfResume

(* Nor does a full run have a resume pass over a breakpoint, wherever it    *)
(* finds the cursor.                                                        *)
THEOREM BreakpointsStopAmongRuns ==
    ASSUME \A s, t \in BptTypes : s = t
    PROVE  SpecWithRun => NoBreakpointSkipped
<1>1. RunInv /\ BreakpointsWatched /\ [NextWithRun]_allVars => BreakpointsWatched'
  <2>1. BreakpointsWatched /\ RunOnly => BreakpointsWatched'
    BY DEF BreakpointsWatched, WatchpointOf, RunOnly, process
  <2> QED
    BY <2>1, StepAmongRuns, WatchStep DEF RunInv
<1>2. RunInv /\ BreakpointsWatched => NoneSkipped
  BY ResumeSkipsNone DEF RunInv
<1>3. InitWithRun => BreakpointsWatched
  BY InitialWatched DEF InitWithRun
<1> QED
  BY <1>1, <1>2, <1>3, RunInvariant, PTL DEF SpecWithRun, NoBreakpointSkipped, NoneSkipped

(* And the threads and modules come and go in order: no difference is       *)
(* computed from a cursor that a full run has moved, unless behind an exit. *)
THEOREM EventsComeInOrderAmongRuns ==
    ASSUME MaxBacklog = 0, \A p \in Position : ModulesAt[p] # {}
    PROVE  SpecWithRun => EventsInOrder
<1>1. RunInv /\ OrderInv /\ [NextWithRun]_allVars => OrderInv'
  <2> SUFFICES ASSUME RunInv, OrderInv, [NextWithRun]_allVars PROVE OrderInv'
    OBVIOUS
  <2>1. CASE RunOnly
    BY <2>1 DEF OrderInv, InOrder, SubjectsOf, RunOnly, process
  <2>2. CASE [Next]_vars
    <3>1. CASE ~fullRun
      <4>1. SessionInv
        BY <3>1, StandsAtCursor DEF RunInv, SessionInv
      <4> QED
        BY <2>2, <4>1, OrderStep, SessionMirrors DEF RunInv
    <3>2. CASE fullRun
      <4>1. ASSUME onResume, dbgEvent.eid \in StopEvents PROVE exiting
        <5>1. dbgState = "handling"
          BY <3>2, <4>1 DEF RunInv, onResume, ResumeOtherEvent, ResumeAtNextPosition,
                ResumeBackwardsSingleStep, ResumeByMode, IdaResumes, InContinueProcess
        <5> QED
          BY <4>1, <5>1 DEF RunInv, LetsGo
      <4>2. ResumeMirrors
        BY <4>1, NoExitToCome DEF RunInv, ResumeMirrors
      <4> QED
        BY <2>2, <4>2, OrderStep DEF RunInv
    <3> QED
      BY <3>1, <3>2
  <2> QED
    BY <2>1, <2>2, StepAmongRuns
<1>2. RunInv /\ OrderInv => PollsInOrder
  BY PollKeepsOrder DEF RunInv
<1>3. InitWithRun => OrderInv
  BY InitialOrder DEF InitWithRun
<1> QED
  BY <1>1, <1>2, <1>3, RunInvariant, PTL DEF SpecWithRun, EventsInOrder, PollsInOrder
==============================================================================
