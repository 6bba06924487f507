-------------------------- MODULE CallArgumentsProofs --------------------------
(***************************************************************************)
(* Two pieces of code agree on where an argument is: recordCall, which     *)
(* reads it, and copyArgumentAddress, which copies its address.  It is no  *)
(* other argument's place, and for arguments in registers or behind filled *)
(* stack slots it is where the caller has put the argument.                *)
(***************************************************************************)
EXTENDS CallArguments, ArithmeticProofs

(* What the loop has recorded so far is what getIntArg finds. *)
Reading(n) == IF nth_arg(n).kind = "other" THEN Unknown ELSE getIntArg(n)

ReadInOrder ==
    /\ args \in Seq({Unknown} \cup {getIntArg(n) : n \in Nat})
    /\ \A n \in 0 .. Len(args) - 1 : args[n + 1] = Reading(n)

(* What was copied: the value of a pointer, or an address. *)
CopiedByTheRules ==
    /\ clip.what \in {"nothing", "address", "value"}
    /\ clip.what # "nothing" => clip.narg \in 0 .. Len(args) - 1
    /\ clip.what = "value" => nth_arg(clip.narg).kind = "ptr" /\ clip.of = getIntArg(clip.narg)
    /\ clip.what = "address" => clip.of \in AddressOf(clip.narg)

CopyInv == ReadInOrder /\ CopiedByTheRules

(* An argument whose value was read has the address it was read from. *)
LEMMA AddressIsOfThePlace ==
    ASSUME NEW n \in Nat, NEW place \in AddressOf(n), Reading(n).in # "none"
    PROVE  place = Reading(n)
BY DEF AddressOf, Reading, getIntArg, x86_getIntArg, x64_getIntArg, Register, Stack,
       NotRead, Unknown

LEMMA CopyInvImplies == CopyInv => CopyIsOfTheArgument
<1> SUFFICES ASSUME CopyInv PROVE CopyIsOfTheArgument
    OBVIOUS
<1>1. ASSUME clip.what # "nothing"
      PROVE  clip.narg \in Nat /\ args[clip.narg + 1] = Reading(clip.narg)
    BY <1>1 DEF CopyInv, ReadInOrder, CopiedByTheRules
<1>2. clip.what = "value" => clip.of = args[clip.narg + 1]
    BY <1>1 DEF CopyInv, CopiedByTheRules, Reading
<1>3. ASSUME clip.what = "address", args[clip.narg + 1].in # "none"
      PROVE  clip.of = args[clip.narg + 1]
    BY <1>1, <1>3, AddressIsOfThePlace DEF CopyInv, CopiedByTheRules
<1> QED BY <1>2, <1>3 DEF CopyIsOfTheArgument

LEMMA InitCopyInv == Init => CopyInv
BY DEF Init, CopyInv, ReadInOrder, CopiedByTheRules, Nothing

(* The loop appends the next argument; all else leaves the recorded ones. *)
LEMMA NextCopyInv == CopyInv /\ [Next]_vars => CopyInv'
<1> SUFFICES ASSUME CopyInv, [Next]_vars PROVE CopyInv'
    OBVIOUS
<1>1. CASE recordCall
  <2> DEFINE n == Len(args)
  <2>1. n \in Nat
      BY DEF CopyInv, ReadInOrder
  <2>2. UNCHANGED <<tinfo, clip>>
      BY <1>1 DEF recordCall
  <2>3. \/ args' = args
        \/ args' = Append(args, Reading(n))
      BY <1>1 DEF recordCall, Reading
  <2>4. \A m : Reading(m)' = Reading(m) /\ getIntArg(m)' = getIntArg(m)
                  /\ AddressOf(m)' = AddressOf(m)
      BY <2>2 DEF Reading, nth_arg, getIntArg, x86_getIntArg, x64_getIntArg, AddressOf,
                  stackArgOffset, sizes
  <2>5. ReadInOrder'
    <3>1. Reading(n) \in {Unknown} \cup {getIntArg(m) : m \in Nat}
        BY <2>1 DEF Reading
    <3> DEFINE S == {Unknown} \cup {getIntArg(m) : m \in Nat}
    <3>2. S' = S
        BY <2>4 DEF Unknown
    <3>3. args \in Seq(S) /\ args' \in Seq(S)
        BY <2>3, <3>1 DEF CopyInv, ReadInOrder
    <3>4. \A m \in 0 .. Len(args') - 1 : args'[m + 1] = Reading(m)
      <4> HIDE DEF S
      <4>1. \A m \in 0 .. Len(args) - 1 : args[m + 1] = Reading(m)
          BY DEF CopyInv, ReadInOrder
      <4>2. Reading(n) \in S
          BY <3>1 DEF S
      <4> QED BY <2>3, <3>3, <4>1, <4>2
    <3> QED BY <2>4, <3>2, <3>3, <3>4 DEF ReadInOrder
  <2>6. CopiedByTheRules'
      BY <2>1, <2>2, <2>3, <2>4 DEF CopyInv, CopiedByTheRules, ReadInOrder, nth_arg
  <2> QED BY <2>5, <2>6 DEF CopyInv
<1>2. CASE Push \/ UNCHANGED vars
  <2>1. UNCHANGED <<tinfo, args, clip>>
      BY <1>2 DEF Push, vars
  <2>2. \A m : /\ nth_arg(m)' = nth_arg(m)
              /\ Reading(m)' = Reading(m)
              /\ getIntArg(m)' = getIntArg(m)
              /\ AddressOf(m)' = AddressOf(m)
      BY <2>1 DEF Reading, nth_arg, getIntArg, x86_getIntArg, x64_getIntArg, AddressOf,
                  stackArgOffset, sizes
  <2>3. ReadInOrder'
      BY <2>1, <2>2 DEF CopyInv, ReadInOrder
  <2>4. CopiedByTheRules'
      BY <2>1, <2>2 DEF CopyInv, CopiedByTheRules
  <2> QED BY <2>3, <2>4 DEF CopyInv
<1>3. CASE copyArgumentAddress
  <2>1. UNCHANGED <<tinfo, args>>
      BY <1>3 DEF copyArgumentAddress
  <2>2. ReadInOrder'
      BY <2>1 DEF CopyInv, ReadInOrder, Reading, nth_arg, getIntArg, x86_getIntArg,
                  x64_getIntArg, stackArgOffset, sizes
  <2>3. \A m : nth_arg(m)' = nth_arg(m) /\ getIntArg(m)' = getIntArg(m)
                  /\ AddressOf(m)' = AddressOf(m)
      BY <2>1 DEF nth_arg, getIntArg, x86_getIntArg, x64_getIntArg, AddressOf, stackArgOffset, sizes
  <2>4. Len(args) \in Nat
      BY DEF CopyInv, ReadInOrder
  <2>5. CopiedByTheRules'
    <3>1. PICK narg \in 0 .. 3 :
             /\ narg < Len(args)
             /\ \/ /\ nth_arg(narg).kind = "ptr"
                   /\ clip' \in {[what |-> "value", narg |-> narg, of |-> getIntArg(narg)], Nothing}
                \/ \E place \in AddressOf(narg) :
                       clip' = [what |-> "address", narg |-> narg, of |-> place]
        BY <1>3 DEF copyArgumentAddress
    <3> QED BY <2>1, <2>3, <2>4, <3>1 DEF CopiedByTheRules, Nothing
  <2> QED BY <2>2, <2>5 DEF CopyInv
<1> QED BY <1>1, <1>2, <1>3 DEF Next

(* For every signature, what is copied is the value the window shows or    *)
(* the address that value was read from.                                   *)
THEOREM CopyAgrees == Spec => []CopyIsOfTheArgument
BY InitCopyInv, NextCopyInv, CopyInvImplies, PTL DEF Spec
------------------------------------------------------------------------------
(* What the code takes from the type of a function. *)
LEMMA FunctionTypes ==
    ASSUME tinfo \in func_type_data_t
    PROVE  /\ Len(tinfo.args) \in Nat
           /\ DOMAIN tinfo.args = 1 .. Len(tinfo.args)
           /\ sizes \in [1 .. Len(tinfo.args) -> Nat \ {0}]
           /\ tinfo.cc \in cm_t
<1>1. PICK b \in Bitnesses, n \in 0 .. MaxArgs :
          /\ tinfo.args \in [1 .. n -> Types[b]]
          /\ tinfo.cc \in cm_t
    BY DEF func_type_data_t
<1>2. n \in Nat
    BY CallArgumentsAssumption DEF CallArgumentsAssumption
<1>3. Types[b] \subseteq [kind : Kinds, size : Nat \ {0}]
    BY CallArgumentsAssumption DEF CallArgumentsAssumption
<1>4. tinfo.args \in Seq(Types[b]) /\ Len(tinfo.args) = n /\ DOMAIN tinfo.args = 1 .. n
    BY <1>1, <1>2
<1>5. \A k \in 1 .. n : tinfo.args[k].size \in Nat \ {0}
    BY <1>1, <1>3
<1> QED BY <1>1, <1>2, <1>4, <1>5 DEF sizes

(* The loop of stackArgOffset: nothing before the first argument on the    *)
(* stack, and the size of each argument for the next one.                  *)
LEMMA StackArgOffsetLoop ==
    ASSUME tinfo \in func_type_data_t, NEW first \in Nat, NEW n \in 0 .. Len(tinfo.args)
    PROVE  /\ stackArgOffset(n, first) \in Nat
           /\ n <= first => stackArgOffset(n, first) = 0
           /\ first <= n /\ n < Len(tinfo.args) =>
                  stackArgOffset(n + 1, first) = stackArgOffset(n, first) + nth_arg(n).size
<1> DEFINE S == first + 1 .. n
<1>1. /\ Len(tinfo.args) \in Nat
      /\ sizes \in [1 .. Len(tinfo.args) -> Nat \ {0}]
    BY FunctionTypes
<1>2. n \in Nat /\ n <= Len(tinfo.args)
    BY <1>1
<1>3. IsFiniteSet(S) /\ \A k \in S : sizes[k] \in Nat
  <2>1. \A k \in S : k \in 1 .. Len(tinfo.args)
      BY <1>1, <1>2
  <2>2. IsFiniteSet(S)
      BY <1>2, FS_Interval
  <2> QED BY <1>1, <2>1, <2>2
<1>4. stackArgOffset(n, first) \in Nat
  <2> HIDE DEF S
  <2>1. SumFunctionOnSet(sizes, S) \in Nat
      BY <1>3, SumType
  <2> QED BY <2>1 DEF stackArgOffset, S
<1>5. ASSUME n <= first PROVE stackArgOffset(n, first) = 0
  <2>1. S = {}
      BY <1>2, <1>5
  <2> QED BY <2>1, SumEmpty DEF stackArgOffset
<1>6. ASSUME first <= n, n < Len(tinfo.args)
      PROVE  stackArgOffset(n + 1, first) = stackArgOffset(n, first) + nth_arg(n).size
  <2> DEFINE T == first + 1 .. n + 1
  <2>1. n + 1 \in T /\ T \ {n + 1} = S
      BY <1>2, <1>6
  <2>2. IsFiniteSet(T) /\ \A k \in T : sizes[k] \in Nat
    <3>1. \A k \in T : k \in 1 .. Len(tinfo.args)
        BY <1>1, <1>2, <1>6
    <3>2. IsFiniteSet(T)
        BY <1>2, FS_Interval
    <3> QED BY <1>1, <3>1, <3>2
  <2>3. sizes[n + 1] = nth_arg(n).size /\ sizes[n + 1] \in Nat
      BY <1>1, <1>2, <1>6, FunctionTypes DEF sizes, nth_arg
  <2> HIDE DEF S, T
  <2>4. SumFunctionOnSet(sizes, T) = sizes[n + 1] + SumFunctionOnSet(sizes, S)
      BY <2>1, <2>2, SumRemove
  <2>5. stackArgOffset(n + 1, first) = SumFunctionOnSet(sizes, T)
          /\ stackArgOffset(n, first) = SumFunctionOnSet(sizes, S)
      BY DEF stackArgOffset, S, T
  <2> QED BY <1>4, <2>3, <2>4, <2>5
<1> QED BY <1>4, <1>5, <1>6

(* A later argument on the stack is further from the stack pointer. *)
LEMMA OffsetsGrow ==
    ASSUME tinfo \in func_type_data_t, NEW first \in Nat,
           NEW n \in Nat, NEW m \in Nat, first <= n, n < m, m <= Len(tinfo.args)
    PROVE  stackArgOffset(n, first) < stackArgOffset(m, first)
<1> DEFINE D == {d \in Nat : n + d + 1 <= Len(tinfo.args) =>
                     stackArgOffset(n, first) < stackArgOffset(n + d + 1, first)}
<1>0. /\ Len(tinfo.args) \in Nat
      /\ sizes \in [1 .. Len(tinfo.args) -> Nat \ {0}]
    BY FunctionTypes
<1>1. ASSUME NEW k \in Nat, n <= k, k + 1 <= Len(tinfo.args)
      PROVE  /\ stackArgOffset(k, first) \in Nat /\ stackArgOffset(k + 1, first) \in Nat
             /\ stackArgOffset(k, first) < stackArgOffset(k + 1, first)
  <2>1. k \in 0 .. Len(tinfo.args) /\ k + 1 \in 0 .. Len(tinfo.args)
          /\ first <= k /\ k < Len(tinfo.args)
      BY <1>0, <1>1
  <2>2. nth_arg(k).size \in Nat \ {0}
    <3>1. sizes[k + 1] = nth_arg(k).size
        BY <1>0, <2>1, FunctionTypes DEF sizes, nth_arg
    <3>2. k + 1 \in 1 .. Len(tinfo.args)
        BY <2>1
    <3> QED BY <1>0, <3>1, <3>2
  <2>3. /\ stackArgOffset(k, first) \in Nat /\ stackArgOffset(k + 1, first) \in Nat
        /\ stackArgOffset(k + 1, first) = stackArgOffset(k, first) + nth_arg(k).size
      BY <2>1, StackArgOffsetLoop
  <2> QED BY <2>2, <2>3
<1>2. 0 \in D
    BY <1>1
<1>3. ASSUME NEW d \in D PROVE d + 1 \in D
  <2> SUFFICES ASSUME n + (d + 1) + 1 <= Len(tinfo.args)
               PROVE  stackArgOffset(n, first) < stackArgOffset(n + (d + 1) + 1, first)
      OBVIOUS
  <2>1. d \in Nat /\ n + d + 1 \in Nat /\ n + (d + 1) + 1 = (n + d + 1) + 1
      OBVIOUS
  <2>2. stackArgOffset(n, first) < stackArgOffset(n + d + 1, first)
      BY <1>0, <2>1
  <2>3. /\ stackArgOffset(n + d + 1, first) \in Nat /\ stackArgOffset(n + d + 1 + 1, first) \in Nat
        /\ stackArgOffset(n + d + 1, first) < stackArgOffset(n + d + 1 + 1, first)
      BY <1>0, <1>1, <2>1
  <2>4. stackArgOffset(n, first) \in Nat
      BY <1>0, <1>1
  <2> QED BY <2>1, <2>2, <2>3, <2>4
<1>4. \A d \in Nat : d \in D
  <2> HIDE DEF D
  <2>1. D \in SUBSET Nat
      BY DEF D
  <2> QED BY <1>2, <1>3, <2>1, Induction
<1>5. m - n - 1 \in Nat /\ n + (m - n - 1) + 1 = m
    OBVIOUS
<1> QED BY <1>4, <1>5

(* Where the conventions of the code find an argument. *)
LEMMA ReadingPlaces ==
    ASSUME tinfo \in func_type_data_t, NEW n \in 0 .. Len(tinfo.args) - 1
    PROVE  /\ getIntArg(n) \in Place /\ Reading(n) \in Place
           /\ AddressOf(n) \subseteq Place
<1>1. n \in Nat /\ n \in 0 .. Len(tinfo.args)
    BY FunctionTypes
<1>2. \A first \in {0, 2, 4} : stackArgOffset(n, first) \in Nat
    BY <1>1, StackArgOffsetLoop
<1>3. \A first \in {0, 2, 4} : Stack(stackArgOffset(n, first)) \in Place
    BY <1>2 DEF Place, Stack
<1>4. /\ tinfo.bitness = "x86" /\ n < 2 => Register(n) \in Place
      /\ tinfo.bitness = "x64" /\ n < 4 => Register(n) \in Place
    BY <1>1 DEF Place, Registers
<1>5. NotRead \in Place /\ Unknown \in Place
    BY DEF Place
<1> HIDE DEF Place
<1>6. getIntArg(n) \in Place
    BY <1>3, <1>4, <1>5 DEF getIntArg, x86_getIntArg, x64_getIntArg
<1>7. Reading(n) \in Place
    BY <1>5, <1>6 DEF Reading
<1>8. AddressOf(n) \subseteq Place
    BY <1>3, <1>5 DEF AddressOf
<1> QED BY <1>6, <1>7, <1>8

ArgumentsInv == TypeOK /\ CopyInv

LEMMA Below == \A k, n \in Nat : k < n => k \in 0 .. n - 1 /\ k + 1 <= n
OBVIOUS

LEMMA ReadIsASequence ==
    ASSUME CopyInv
    PROVE  /\ args \in Seq({Unknown} \cup {getIntArg(n) : n \in Nat})
           /\ Len(args) \in Nat /\ DOMAIN args = 1 .. Len(args)
<1> DEFINE S == {Unknown} \cup {getIntArg(n) : n \in Nat}
<1>1. args \in Seq(S)
    BY DEF CopyInv, ReadInOrder
<1> HIDE DEF S
<1>2. Len(args) \in Nat /\ DOMAIN args = 1 .. Len(args)
    BY <1>1
<1> QED BY <1>1, <1>2 DEF S

LEMMA InitArguments == Init => ArgumentsInv
<1> SUFFICES ASSUME Init PROVE TypeOK
    BY InitCopyInv DEF ArgumentsInv
<1>1. Len(tinfo.args) \in Nat
    BY FunctionTypes DEF Init
<1>2. Unknown \in Place
    BY DEF Place
<1> QED BY <1>1, <1>2 DEF Init, TypeOK, Nothing

LEMMA NextArguments == ArgumentsInv /\ [Next]_vars => ArgumentsInv'
<1> SUFFICES ASSUME TypeOK, CopyInv, [Next]_vars PROVE TypeOK'
    BY NextCopyInv DEF ArgumentsInv
<1>1. tinfo' = tinfo /\ Place' = Place
    BY DEF Next, recordCall, Push, copyArgumentAddress, vars, Place, Registers
<1>2. Len(tinfo.args) \in Nat /\ Len(args) \in Nat /\ DOMAIN args = 1 .. Len(args)
    BY FunctionTypes, ReadIsASequence DEF TypeOK
<1>0. Len(args) <= Len(tinfo.args)
    BY DEF TypeOK
<1>3. CASE recordCall
  <2> DEFINE n == Len(args)
  <2>1. n < Len(tinfo.args) /\ UNCHANGED clip /\ pc' \in {"read", "given up"}
      BY <1>3 DEF recordCall
  <2>2. args' = args \/ args' = Append(args, Reading(n))
      BY <1>3 DEF recordCall, Reading
  <2>3. Reading(n) \in Place
    <3>1. n \in 0 .. Len(tinfo.args) - 1
        BY <1>2, <2>1, Below
    <3> QED BY <3>1, ReadingPlaces DEF TypeOK
  <2>4. /\ Len(args') <= Len(tinfo.args)
        /\ \A k \in DOMAIN args' : args'[k] \in Place
    <3>1. \A k \in DOMAIN args : args[k] \in Place
        BY DEF TypeOK
    <3>2. args \in [1 .. Len(args) -> Place]
        BY <1>2, <3>1, ReadIsASequence
    <3> HIDE DEF Place, n
    <3>3. args \in Seq(Place)
        BY <1>2, <3>2
    <3>4. CASE args' = args
        BY <1>0, <3>1, <3>4
    <3>5. CASE args' = Append(args, Reading(n))
      <4>1. args' \in Seq(Place) /\ Len(args') = Len(args) + 1
          BY <2>3, <3>3, <3>5
      <4>2. Len(args') <= Len(tinfo.args)
          BY <1>2, <2>1, <4>1, Below DEF n
      <4> QED BY <4>1, <4>2
    <3> QED BY <2>2, <3>4, <3>5
  <2> QED BY <1>1, <2>1, <2>4 DEF TypeOK
<1>4. CASE Push \/ UNCHANGED vars
  <2>1. UNCHANGED <<args, clip>> /\ pc' \in {"read", "recorded", "given up"}
      BY <1>4 DEF Push, vars, TypeOK
  <2> QED BY <1>1, <2>1 DEF TypeOK
<1>5. CASE copyArgumentAddress
  <2>1. UNCHANGED <<args, pc>>
      BY <1>5 DEF copyArgumentAddress
  <2>2. PICK narg \in 0 .. 3 :
           /\ narg < Len(args)
           /\ \/ clip' \in {[what |-> "value", narg |-> narg, of |-> getIntArg(narg)], Nothing}
              \/ \E place \in AddressOf(narg) :
                     clip' = [what |-> "address", narg |-> narg, of |-> place]
      BY <1>5 DEF copyArgumentAddress
  <2>3. narg \in 0 .. Len(tinfo.args) - 1
      BY <1>0, <1>2, <2>2
  <2>4. getIntArg(narg) \in Place /\ AddressOf(narg) \subseteq Place /\ Unknown \in Place
      BY <2>3, ReadingPlaces DEF TypeOK, Place
  <2>5. clip' \in [what : {"nothing", "address", "value"}, narg : 0 .. 3, of : Place]
    <3> HIDE DEF Place
    <3> QED BY <2>2, <2>4 DEF Nothing
  <2> QED BY <1>1, <2>1, <2>5 DEF TypeOK
<1> QED BY <1>3, <1>4, <1>5 DEF Next

LEMMA ArgumentsInvariant == Spec => []ArgumentsInv
BY InitArguments, NextArguments, PTL DEF Spec

LEMMA ReadSoFar ==
    ASSUME ArgumentsInv
    PROVE  /\ tinfo \in func_type_data_t /\ Len(args) \in Nat /\ DOMAIN args = 1 .. Len(args)
           /\ \A n \in 0 .. Len(args) - 1 :
                  /\ n \in Nat /\ n \in 0 .. Len(tinfo.args) - 1
                  /\ args[n + 1] = Reading(n)
<1>1. /\ tinfo \in func_type_data_t /\ Len(args) \in Nat /\ DOMAIN args = 1 .. Len(args)
      /\ Len(args) <= Len(tinfo.args)
    BY ReadIsASequence DEF ArgumentsInv, TypeOK
<1>2. Len(tinfo.args) \in Nat
    BY <1>1, FunctionTypes
<1> QED BY <1>1, <1>2 DEF ArgumentsInv, CopyInv, ReadInOrder

LEMMA PlacedApart ==
    ASSUME tinfo \in func_type_data_t,
           NEW n \in Nat, NEW m \in Nat, n < m, m < Len(tinfo.args),
           Reading(n).in # "none", Reading(m).in # "none"
    PROVE  Reading(n) # Reading(m)
<1>1. Len(tinfo.args) \in Nat
    BY FunctionTypes
<1>2. \A first \in {0, 4} : first <= n =>
          stackArgOffset(n, first) \in Nat /\ stackArgOffset(m, first) \in Nat
              /\ stackArgOffset(n, first) < stackArgOffset(m, first)
  <2>1. n \in 0 .. Len(tinfo.args) /\ m \in 0 .. Len(tinfo.args) /\ m <= Len(tinfo.args)
      BY <1>1
  <2> QED BY <2>1, StackArgOffsetLoop, OffsetsGrow
<1>3. \A first \in {0, 4} : first <= n =>
          Stack(stackArgOffset(n, first)) # Stack(stackArgOffset(m, first))
    BY <1>2 DEF Stack
<1>4. \A k, offset : Register(k).in = "register" /\ Stack(offset).in = "stack"
                        /\ Register(n) # Register(m)
    BY DEF Register, Stack
<1>5. Reading(n) = getIntArg(n) /\ Reading(m) = getIntArg(m)
    BY DEF Reading, Unknown
<1>6. CASE tinfo.bitness = "x86"
  <2>1. Reading(n) = x86_getIntArg(n) /\ Reading(m) = x86_getIntArg(m)
      BY <1>5, <1>6 DEF getIntArg
  <2>2. CASE tinfo.cc = "fastcall"
      BY <1>4, <2>1, <2>2 DEF x86_getIntArg, NotRead
  <2>3. CASE tinfo.cc # "fastcall"
      BY <1>3, <2>1, <2>3 DEF x86_getIntArg, NotRead
  <2> QED BY <2>2, <2>3
<1>7. CASE tinfo.bitness = "x64"
  <2>1. Reading(n) = x64_getIntArg(n) /\ Reading(m) = x64_getIntArg(m)
      BY <1>5, <1>7 DEF getIntArg
  <2>2. tinfo.cc = "fastcall"
      BY <2>1 DEF x64_getIntArg, NotRead
  <2>3. /\ Reading(n) = IF n < 4 THEN Register(n) ELSE Stack(stackArgOffset(n, 4))
        /\ Reading(m) = IF m < 4 THEN Register(m) ELSE Stack(stackArgOffset(m, 4))
      BY <2>1, <2>2 DEF x64_getIntArg
  <2> QED BY <1>3, <1>4, <2>3
<1> QED BY <1>5, <1>6, <1>7 DEF getIntArg, Unknown

LEMMA ApartImplies == ArgumentsInv => NoPlaceTwice
<1> SUFFICES ASSUME ArgumentsInv PROVE NoPlaceTwice
    OBVIOUS
<1>1. Unknown.in = "none"
    BY DEF Unknown
<1>2. ASSUME NEW a \in DOMAIN args, NEW b \in DOMAIN args, a < b,
             args[a].in # "none", args[b].in # "none"
      PROVE  args[a] # args[b]
  <2> DEFINE n == a - 1
  <2> DEFINE m == b - 1
  <2>1. /\ n \in 0 .. Len(args) - 1 /\ m \in 0 .. Len(args) - 1
        /\ n + 1 = a /\ m + 1 = b /\ n < m
      BY <1>2, ReadSoFar
  <2>2. /\ n \in Nat /\ m \in Nat /\ m \in 0 .. Len(tinfo.args) - 1
        /\ args[a] = Reading(n) /\ args[b] = Reading(m) /\ tinfo \in func_type_data_t
      BY <2>1, ReadSoFar
  <2>3. m < Len(tinfo.args)
      BY <2>2, FunctionTypes
  <2> HIDE DEF n, m
  <2> QED BY <1>2, <2>1, <2>2, <2>3, PlacedApart
<1>3. \A a, b \in DOMAIN args : a # b => a < b \/ b < a
    BY ReadSoFar
<1> QED BY <1>2, <1>3 DEF NoPlaceTwice

(* Slots of four bytes that are filled are summed up as the sizes are. *)
LEMMA FilledSlots ==
    ASSUME tinfo \in func_type_data_t, NEW n \in 0 .. Len(tinfo.args),
           \A k \in 0 .. n - 1 : nth_arg(k).size % 4 = 0
    PROVE  SumFunctionOnSet([k \in DOMAIN sizes |-> Slots(sizes[k])], 1 .. n) = stackArgOffset(n, 0)
<1> DEFINE slots == [k \in DOMAIN sizes |-> Slots(sizes[k])]
<1>1. /\ Len(tinfo.args) \in Nat /\ DOMAIN tinfo.args = 1 .. Len(tinfo.args)
      /\ sizes \in [1 .. Len(tinfo.args) -> Nat \ {0}]
    BY FunctionTypes
<1>2. n \in Nat /\ n <= Len(tinfo.args)
    BY <1>1
<1>3. \A size \in Nat : size % 4 = 0 => Slots(size) = size
    BY DEF Slots
<1>4. ASSUME NEW k \in 1 .. n PROVE slots[k] = sizes[k]
  <2>1. k \in 1 .. Len(tinfo.args) /\ k - 1 \in 0 .. n - 1 /\ (k - 1) + 1 = k
      BY <1>1, <1>2
  <2>2. nth_arg(k - 1).size = sizes[k] /\ sizes[k] \in Nat
      BY <1>1, <2>1 DEF nth_arg, sizes
  <2>3. Slots(sizes[k]) = sizes[k]
      BY <1>3, <2>1, <2>2
  <2> QED BY <1>1, <2>1, <2>3
<1>5. IsFiniteSet(1 .. n)
    BY <1>2, FS_Interval
<1> HIDE DEF slots
<1>6. SumFunctionOnSet(slots, 1 .. n) = SumFunctionOnSet(sizes, 1 .. n)
    BY <1>4, <1>5, SumEqual
<1> QED BY <1>6 DEF stackArgOffset, slots

LEMMA PassedImplies == ArgumentsInv => ReadWherePassed
<1> SUFFICES ASSUME ArgumentsInv, NEW n \in 0 .. Len(args) - 1, HasConvention, IsValue(n),
                    tinfo.bitness = "x64" => n < 4,
                    tinfo.bitness = "x86" => \A k \in 0 .. n - 1 : nth_arg(k).size % 4 = 0
             PROVE  args[n + 1] = PlaceOf(n)
    BY DEF ReadWherePassed
<1>1. /\ tinfo \in func_type_data_t /\ n \in Nat /\ n \in 0 .. Len(tinfo.args) - 1
      /\ args[n + 1] = Reading(n)
    BY ReadSoFar
<1>2. Reading(n) = getIntArg(n)
    BY DEF Reading, IsValue
<1>3. CASE tinfo.bitness = "x64"
    BY <1>1, <1>2, <1>3 DEF HasConvention, getIntArg, x64_getIntArg, PlaceOf
<1>4. CASE tinfo.bitness = "x86"
  <2>1. getIntArg(n) = Stack(stackArgOffset(n, 0))
      BY <1>4 DEF HasConvention, getIntArg, x86_getIntArg
  <2>2. n \in 0 .. Len(tinfo.args)
      BY <1>1, FunctionTypes
  <2>3. SumFunctionOnSet([k \in DOMAIN sizes |-> Slots(sizes[k])], 1 .. n) = stackArgOffset(n, 0)
      BY <1>1, <1>4, <2>2, FilledSlots
  <2> QED BY <1>1, <1>2, <1>4, <2>1, <2>3 DEF PlaceOf
<1> QED BY <1>3, <1>4 DEF HasConvention

(* No register is read that the convention does not have, and no place     *)
(* before the stack pointer, for any types of any number of arguments.     *)
THEOREM PlacesExist == Spec => []TypeOK
BY ArgumentsInvariant, PTL DEF ArgumentsInv

(* An argument in a register, and one behind others that fill their slots  *)
(* on an x86 stack, is read where the convention has put it.               *)
THEOREM ReadAsPassed == Spec => []ReadWherePassed
BY ArgumentsInvariant, PassedImplies, PTL

(* No two arguments of a call are read from one place. *)
THEOREM ArgumentsApart == Spec => []NoPlaceTwice
BY ArgumentsInvariant, ApartImplies, PTL
==============================================================================
