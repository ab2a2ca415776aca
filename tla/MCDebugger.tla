----------------------------- MODULE MCDebugger -----------------------------
(* Instances of Debugger for TLC: main has a loop and a line without code;   *)
(* f, in a file of its own whose lines have the same numbers, has a for with *)
(* a part of its header on a line of its own.                                *)
EXTENDS Debugger, TLC

CONSTANTS main, f, mainFile, fFile

MCFunctions == {main, f}
MCFile == main :> mainFile @@ f :> fFile
MCDeclared == main :> 1 @@ f :> 1
MCCode == main :> <<2, 4, 2, 5>> @@ f :> <<2, 4, 3, 5>>
=============================================================================
