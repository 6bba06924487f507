---------------------------- MODULE CallArguments ----------------------------
(***************************************************************************)
(* The arguments of a traced call: where recordCall (ttddbg_tracer.cc)     *)
(* reads them, by the calling conventions of ttddbg_callconv.cc, and what  *)
(* copyArgumentAddress puts on the clipboard afterwards.                   *)
(*                                                                         *)
(* A value is modelled by the place it is read from: a register of the     *)
(* convention or an offset from the stack pointer, which at the call       *)
(* instruction points to what the caller has put on the stack.             *)
(***************************************************************************)
EXTENDS Integers, Sequences, Functions

CONSTANTS
    Bitnesses,   \* of the database's functions: "x86", "x64" or else
    Types,       \* per bitness: the types of arguments, [kind, size]
    MaxArgs      \* bound: arguments of a function

Kinds == {"int", "ptr", "enum", "other"}
cm_t == {"cdecl", "stdcall", "fastcall", "thiscall"}

ASSUME CallArgumentsAssumption ==
    /\ Types \in [Bitnesses -> SUBSET [kind : Kinds, size : Nat \ {0}]]
    /\ MaxArgs \in Nat

func_type_data_t ==
    UNION {[bitness : {b}, cc : cm_t, args : UNION {[1 .. n -> Types[b]] : n \in 0 .. MaxArgs}]
               : b \in Bitnesses}

Register(n) == [in |-> "register", at |-> n]
Stack(offset) == [in |-> "stack", at |-> offset]
NotRead == [in |-> "none", at |-> -1]      \* the value -1
Unknown == [in |-> "none", at |-> 0]       \* "?"

(* The registers a convention passes arguments in: Ecx and Edx, or Rcx, *)
(* Rdx, R8 and R9.                                                      *)
Registers(tinfo) == {Register(n) : n \in 0 .. (IF tinfo.bitness = "x86" THEN 1 ELSE 3)}

VARIABLES
    tinfo,     \* the type of the function
    args,      \* where the arguments of the event were read
    pc,        \* "read", "recorded" or "given up"
    clip       \* what was copied last

vars == <<tinfo, args, pc, clip>>

Nothing == [what |-> "nothing", narg |-> 0, of |-> Unknown]
------------------------------------------------------------------------------
sizes == [k \in DOMAIN tinfo.args |-> tinfo.args[k].size]

(* Mutant: the argument's own size is added too. *)
stackArgOffset_Inclusive(n, firstStackArgNum) ==
    SumFunctionOnSet(sizes, firstStackArgNum + 1 .. n + 1)

(* Mutant: the first argument on the stack is not counted. *)
stackArgOffset_SkipsFirst(n, firstStackArgNum) ==
    SumFunctionOnSet(sizes, firstStackArgNum + 2 .. n)

(* The sizes of the arguments on the stack before the n-th, from 0. *)
stackArgOffset(n, firstStackArgNum) ==
    SumFunctionOnSet(sizes, firstStackArgNum + 1 .. n)

(* Mutant: any argument of a fastcall function is looked for in registers. *)
x86_getIntArg_NoBound(n) ==
    CASE tinfo.cc = "fastcall"             -> Register(n)
      [] tinfo.cc \in {"stdcall", "cdecl"} -> Stack(stackArgOffset(n, 0))
      [] OTHER                             -> NotRead

x86_getIntArg(n) ==
    CASE tinfo.cc = "fastcall" /\ n < 2    -> Register(n)
      [] tinfo.cc \in {"stdcall", "cdecl"} -> Stack(stackArgOffset(n, 0))
      [] OTHER                             -> NotRead

x64_getIntArg(n) ==
    CASE tinfo.cc = "fastcall" /\ n < 4  -> Register(n)
      [] tinfo.cc = "fastcall" /\ n >= 4 -> Stack(stackArgOffset(n, 4))
      [] OTHER                           -> NotRead

getIntArg(n) ==
    CASE tinfo.bitness = "x86" -> x86_getIntArg(n)
      [] tinfo.bitness = "x64" -> x64_getIntArg(n)
      [] OTHER                 -> Unknown

Init ==
    /\ tinfo \in func_type_data_t
    /\ args = << >>
    /\ pc = "read"
    /\ clip = Nothing

nth_arg(n) == tinfo.args[n + 1]

(* One round of recordCall's loop: a pointer in a function of unknown    *)
(* bitness makes recordCall return without an event.                     *)
recordCall ==
    /\ pc = "read"
    /\ LET n == Len(args) IN
       /\ n < Len(tinfo.args)
       /\ IF nth_arg(n).kind = "ptr" /\ tinfo.bitness \notin {"x86", "x64"}
          THEN pc' = "given up" /\ args' = args
          ELSE /\ args' = Append(args, IF nth_arg(n).kind = "other" THEN Unknown ELSE getIntArg(n))
               /\ pc' = pc
    /\ UNCHANGED <<tinfo, clip>>

Push ==
    /\ pc = "read"
    /\ Len(args) = Len(tinfo.args)
    /\ pc' = "recorded"
    /\ UNCHANGED <<tinfo, args, clip>>

(* Mutant: the registers of a 32-bit fastcall function are forgotten. *)
AddressOf_NoRegisters(n) ==
    CASE tinfo.bitness = "x86" ->
             {Stack(stackArgOffset(n, IF tinfo.cc = "fastcall" THEN 2 ELSE 0))}
      [] tinfo.bitness = "x64" -> IF n < 4 THEN {} ELSE {Stack(stackArgOffset(n, 4))}
      [] OTHER                 -> {Unknown}

(* The address copied for the n-th argument; none for an argument that is *)
(* passed in a register, where the user is warned instead.                *)
AddressOf(n) ==
    CASE tinfo.bitness = "x86" ->
             IF tinfo.cc = "fastcall" /\ n < 2 THEN {}
             ELSE {Stack(stackArgOffset(n, IF tinfo.cc = "fastcall" THEN 2 ELSE 0))}
      [] tinfo.bitness = "x64" -> IF n < 4 THEN {} ELSE {Stack(stackArgOffset(n, 4))}
      [] OTHER                 -> {Unknown}

(* The menu has an entry for each of the first four arguments.  Of a        *)
(* pointer, the user may have its value instead; a cancelled question       *)
(* leaves an empty clipboard.                                               *)
copyArgumentAddress ==
    /\ pc = "recorded"
    /\ \E narg \in 0 .. 3 :
        /\ narg < Len(args)
        /\ \/ /\ nth_arg(narg).kind = "ptr"
              /\ clip' \in {[what |-> "value", narg |-> narg, of |-> getIntArg(narg)], Nothing}
           \/ \E place \in AddressOf(narg) :
                  clip' = [what |-> "address", narg |-> narg, of |-> place]
    /\ UNCHANGED <<tinfo, args, pc>>

Next == recordCall \/ Push \/ copyArgumentAddress

Spec == Init /\ [][Next]_vars
------------------------------------------------------------------------------
Place == Registers(tinfo) \cup [in : {"stack"}, at : Nat] \cup {NotRead, Unknown}

(* The types; no register is read that the convention does not have. *)
TypeOK ==
    /\ tinfo \in func_type_data_t
    /\ Len(args) <= Len(tinfo.args)
    /\ \A k \in DOMAIN args : args[k] \in Place
    /\ pc \in {"read", "recorded", "given up"}
    /\ clip \in [what : {"nothing", "address", "value"}, narg : 0 .. 3, of : Place]

(* What is copied is of the argument the window shows: the value it shows, *)
(* or the address that value was read from, never the address of one that  *)
(* was read from a register.  Two pieces of code have to agree on this:    *)
(* copyArgumentAddress finds the address by rules of its own.              *)
CopyIsOfTheArgument ==
    /\ clip.what = "value" => clip.of = args[clip.narg + 1]
    /\ clip.what = "address" /\ args[clip.narg + 1].in # "none"
           => clip.of = args[clip.narg + 1]

(* No two arguments of a call are shown with one value: each that was read *)
(* has a place of its own, whatever the sizes before it and however the    *)
(* convention splits the arguments between registers and stack.            *)
NoPlaceTwice ==
    \A n, m \in DOMAIN args : n # m /\ args[n].in # "none" => args[n] # args[m]

(***************************************************************************)
(* The conventions.  On x86 each argument takes stack slots of four bytes; *)
(* on x64 each takes one slot of eight bytes, the first four only reserve  *)
(* it.                                                                     *)
(***************************************************************************)
Slots(size) == ((size + 3) \div 4) * 4

PlaceOf(n) ==
    CASE tinfo.bitness = "x64" -> IF n < 4 THEN Register(n) ELSE Stack(8 * n)
      [] OTHER -> Stack(SumFunctionOnSet([k \in DOMAIN sizes |-> Slots(sizes[k])], 1 .. n))

HasConvention ==
    \/ tinfo.bitness = "x86" /\ tinfo.cc \in {"cdecl", "stdcall"}
    \/ tinfo.bitness = "x64" /\ tinfo.cc = "fastcall"

IsValue(n) == nth_arg(n).kind # "other"

(* Arguments in registers, and arguments behind others that fill their     *)
(* slots on an x86 stack, are read where the convention has put them.      *)
ReadWherePassed ==
    \A n \in 0 .. Len(args) - 1 :
        /\ HasConvention
        /\ IsValue(n)
        /\ tinfo.bitness = "x64" => n < 4
        /\ tinfo.bitness = "x86" => \A i \in 0 .. n - 1 : nth_arg(i).size % 4 = 0
        => args[n + 1] = PlaceOf(n)

(* src/README.md:36, "ttddbg also extracts the parameters passed to the    *)
(* function": the value recorded for an argument is read where the caller  *)
(* has put the argument.                                                   *)
ParametersExtracted ==
    \A n \in 0 .. Len(args) - 1 : HasConvention /\ IsValue(n) => args[n + 1] = PlaceOf(n)
==============================================================================
