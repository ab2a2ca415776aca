--------------------------- MODULE MCAudioStream ----------------------------
(* Instances of AudioStream for TLC.                                        *)
EXTENDS AudioStream
=============================================================================
