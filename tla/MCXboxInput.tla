---------------------------- MODULE MCXboxInput ----------------------------
(* Instances of XboxInput for TLC: two places, two keys, a queue of two      *)
(* strokes, a window of one by one, a mouse that moves right and up, which   *)
(* is told, or left, which is not, and a script that puts the cursor left of *)
(* the window or below it.                                                   *)
EXTENDS XboxInput

MCPlaces == 1..2
MCMotions == {<<1, -1>>, <<-1, 0>>}
MCPositions == {<<-1, 0>>, <<1, 2>>}
=============================================================================
