---------------------------- MODULE MCSceneGraph ----------------------------
(* Bounded instance of SceneGraph for TLC.                                  *)
EXTENDS SceneGraph
=============================================================================
