--------------------------- MODULE MCTextureRefs ----------------------------
(* Instances of TextureRefs for TLC.                                        *)
EXTENDS TextureRefs

CONSTANTS s1, s2, t1, good, word
=============================================================================
