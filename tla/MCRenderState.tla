--------------------------- MODULE MCRenderState ----------------------------
(* An instance of RenderState for TLC.  One state stands for each way the   *)
(* renderers share the device's states:                                     *)
(*   shader   set by Init only (also scissor)                               *)
(*   view     by the cameras only (also projection, viewport)               *)
(*   model    by the cameras and the quads (also tint, blend, blend         *)
(*            factors, draw mode, culling, depth)                           *)
(*   fog      by the cameras and Fog (also the fog instance)                *)
(*   light    by the cameras and Lighting (also ambient, lights, and the    *)
(*            four light instances)                                         *)
EXTENDS RenderState

CONSTANTS shader, view, model, fog, light
=============================================================================
