---------------------------- MODULE MCScripting ----------------------------
(* Instances of Scripting for TLC.                                           *)
EXTENDS Scripting
=============================================================================
