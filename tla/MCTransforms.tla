---------------------------- MODULE MCTransforms ----------------------------
(* Bounded instance of Transforms, and with it of SceneGraph, for TLC: one  *)
(* node that is moved, as a parent or as a child, and one that is probed.   *)
EXTENDS Transforms

OneMovable == {1}
OneProbed == {3}
=============================================================================
