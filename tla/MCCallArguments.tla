--------------------------- MODULE MCCallArguments ---------------------------
(***************************************************************************)
(* Functions of up to five arguments of four types: one smaller than a     *)
(* stack slot, one of four bytes, one that takes two slots of x86 or is    *)
(* shown as "?", and a pointer.                                            *)
(***************************************************************************)
EXTENDS CallArguments

MCBitnesses == {"x86", "x64", "x16"}

Pointer(size) == [kind |-> "ptr", size |-> size]

MCTypes ==
    [b \in MCBitnesses |->
        {[kind |-> "int", size |-> 1],
         [kind |-> "enum", size |-> 4],
         [kind |-> "other", size |-> 8],
         Pointer(IF b = "x64" THEN 8 ELSE 4)}]

MCPointers == [b \in {"x64"} |-> {Pointer(8)}]
==============================================================================
