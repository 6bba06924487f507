-------------------------- MODULE MCPositionChooser --------------------------
(***************************************************************************)
(* Three positions and three notable events, of which two have one name:   *)
(* a module that is loaded twice.  The user may give one name twice, or no *)
(* name at all.                                                            *)
(***************************************************************************)
EXTENDS PositionChooser

CONSTANTS mine, loaded, created

MCPositions == 2 .. 4

MCNotableEvents ==
    <<[name |-> created, pos |-> 2], [name |-> loaded, pos |-> 2], [name |-> loaded, pos |-> 3]>>

MCUserNames == {mine, EmptyName}
==============================================================================
