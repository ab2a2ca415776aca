-------------------------- MODULE MCTextureLoader ---------------------------
(* Instances of TextureLoader for TLC; a, b and c are texture ids.          *)
EXTENDS TextureLoader

CONSTANTS a, b, c
=============================================================================
