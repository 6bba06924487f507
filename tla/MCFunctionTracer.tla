--------------------------- MODULE MCFunctionTracer ---------------------------
(***************************************************************************)
(* Two recorders.  A function that is called and returns, another one that *)
(* is called at the position of that return, one of an unknown bitness,    *)
(* and a return outside every function.                                    *)
(***************************************************************************)
EXTENDS FunctionTracer

CONSTANTS f, g, h

MCFunctions == {f, g, h}
MCInvalidBitness == {<<h, FALSE>>}

Call(func, pos) == [func |-> func, pos |-> pos, is_return |-> FALSE]
Return(func, pos) == [func |-> func, pos |-> pos, is_return |-> TRUE]

MCInvocations ==
    {Call(f, 2), Return(f, 3), Call(g, 3), Call(h, 4), Return(NoFunction, 4)}
==============================================================================
