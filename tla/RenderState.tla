---------------------------- MODULE RenderState -----------------------------
(***************************************************************************)
(* The render state cache: RenderStateManager keeps the last value of each *)
(* of the device's 25 states and a dirty flag for it, a node's Render sets *)
(* the states it cares for and ApplyChanges sends the dirty ones to the    *)
(* rendering helper (src/NexgenRedux-Shared/RenderStateManager.cpp,        *)
(* OpenGLRenderingHelper.cpp).                                             *)
(*                                                                         *)
(* All states but the texture are handled alike, so a state is a member of *)
(* States and the constants say which renderer sets which.  A value is a   *)
(* model value: the light and fog setters compare floats up to 1e-6, and   *)
(* values closer than that are one value here.  The texture is different:  *)
(* LoadTextureData binds the texture it fills without telling the cache.   *)
(***************************************************************************)
EXTENDS FiniteSets

CONSTANTS States,        \* the device states other than the texture
          Values,        \* the values a state may have
          CameraStates,  \* set by OrthoCamera and PerspectiveCamera
          FogStates,     \* set by Fog
          LightStates,   \* set by Lighting
          QuadStates,    \* set by Sprite and Text
          TextureIds,    \* ids of texture containers
          NoTexture      \* texture id 0, and what is bound when nothing is

ASSUME RenderersSetStates ==
  CameraStates \union FogStates \union LightStates \union QuadStates \subseteq States
ASSUME NoTextureIsNoId == NoTexture \notin TextureIds

VARIABLES
  cache,        \* the value fields of m_renderState
  dirty,        \* its isDirty flags, as the set of dirty states
  textureId,    \* textureState.textureId
  textureDirty, \* textureState.isDirty
  initialized,  \* m_initialized
  device,       \* the values the device has
  bound,        \* the container whose texture the device has bound
  filled,       \* containers that have their pixels (IsTextureLoaded)
  purged,       \* containers that are gone; ids are not used again
  wanted,       \* history: the value last given to each state's setter
  uploaded,     \* history: an upload has bound a texture since SetTexture did
  todo,         \* the states the current renderer has still to set
  pc            \* what the main thread is doing

vars == <<cache, dirty, textureId, textureDirty, initialized, device, bound,
          filled, purged, wanted, uploaded, todo, pc>>

cacheVars == <<cache, dirty, textureId, textureDirty, initialized, wanted>>
deviceVars == <<device, bound, filled, purged, uploaded>>

(* RenderStateManager::Init sets every state once, before any draw; what    *)
(* the new device has is unknown.                                           *)
Init ==
  /\ cache \in [States -> Values]
  /\ device \in [States -> Values]
  /\ dirty = States
  /\ textureId = NoTexture
  /\ textureDirty = TRUE
  /\ initialized = FALSE
  /\ bound = NoTexture
  /\ filled = {}
  /\ purged = {}
  /\ wanted = cache
  /\ uploaded = FALSE
  /\ todo = {}
  /\ pc = "idle"

-----------------------------------------------------------------------------
(* A node's Render: its setters in some order, each once, ApplyChanges, and *)
(* for a quad RenderMesh.                                                   *)

Start(sets, next) ==
  /\ pc = "idle"
  /\ todo' = sets
  /\ pc' = next
  /\ UNCHANGED <<cacheVars, deviceVars>>

RenderCamera == Start(CameraStates, "set")
RenderFog == Start(FogStates, "set")
RenderLighting == Start(LightStates, "set")

(* A Sprite or Text without a loaded texture returns at once.               *)
RenderQuad == filled # {} /\ Start(QuadStates, "set texture")

(* Mutant of SetState: the first value set for good is the last one heeded. *)
SetFreshState(s, v) ==
  /\ pc \in {"set", "set texture", "set quad"}
  /\ s \in todo
  /\ todo' = todo \ {s}
  /\ cache' = IF initialized THEN cache ELSE [cache EXCEPT ![s] = v]
  /\ dirty' = IF initialized THEN dirty \ {s} ELSE dirty \union {s}
  /\ wanted' = [wanted EXCEPT ![s] = v]
  /\ UNCHANGED <<textureId, textureDirty, initialized, deviceVars, pc>>

(* Mutant of SetState: the value is not compared.                           *)
SetAnyState(s, v) ==
  /\ pc \in {"set", "set texture", "set quad"}
  /\ s \in todo
  /\ todo' = todo \ {s}
  /\ cache' = [cache EXCEPT ![s] = v]
  /\ dirty' = dirty \union {s}
  /\ wanted' = [wanted EXCEPT ![s] = v]
  /\ UNCHANGED <<textureId, textureDirty, initialized, deviceVars, pc>>

(* SetModelMatrix, SetTint, SetBlend and their like: the flag is assigned,  *)
(* not raised.                                                              *)
SetState(s, v) ==
  /\ pc \in {"set", "set texture", "set quad"}
  /\ s \in todo
  /\ todo' = todo \ {s}
  /\ cache' = [cache EXCEPT ![s] = v]
  /\ dirty' = IF ~initialized \/ cache[s] # v THEN dirty \union {s} ELSE dirty \ {s}
  /\ wanted' = [wanted EXCEPT ![s] = v]
  /\ UNCHANGED <<textureId, textureDirty, initialized, deviceVars, pc>>

(* Mutant of SetTexture: only the first texture makes the state dirty.      *)
SetTextureOnce(t) ==
  /\ pc = "set texture"
  /\ t \in filled
  /\ textureId' = t
  /\ textureDirty' = (~initialized \/ textureId = NoTexture)
  /\ pc' = "set quad"
  /\ UNCHANGED <<cache, dirty, initialized, wanted, deviceVars, todo>>

SetTexture(t) ==
  /\ pc = "set texture"
  /\ t \in filled
  /\ textureId' = t
  /\ textureDirty' = (~initialized \/ textureId # t)
  /\ pc' = "set quad"
  /\ UNCHANGED <<cache, dirty, initialized, wanted, deviceVars, todo>>

(* RenderStateManager::CanBatch: nothing waits to be sent.                  *)
CanBatch == dirty = {} /\ ~textureDirty

(* OpenGLRenderingHelper::SetTexture: id 0 and an id without a container    *)
(* leave the binding alone.                                                 *)
Binds == textureDirty /\ textureId \in filled

ApplyChanges ==
  /\ pc \in {"set", "set quad"}
  /\ todo = {}
  /\ device' = [s \in States |-> IF s \in dirty THEN cache[s] ELSE device[s]]
  /\ dirty' = {}
  /\ bound' = IF Binds THEN textureId ELSE bound
  /\ uploaded' = (uploaded /\ ~Binds)
  /\ textureDirty' = FALSE
  /\ initialized' = TRUE
  /\ pc' = IF pc = "set quad" THEN "draw" ELSE "idle"
  /\ UNCHANGED <<cache, textureId, filled, purged, wanted, todo>>

(* OpenGLRenderingHelper::RenderMesh draws with whatever the device has.    *)
RenderMesh ==
  /\ pc = "draw"
  /\ pc' = "idle"
  /\ UNCHANGED <<cacheVars, deviceVars, todo>>

-----------------------------------------------------------------------------
(* Between renders.                                                         *)

(* OpenGLRenderingHelper::LoadTextureData makes a new texture, binds it and *)
(* leaves it bound; Text::Update may fill a container again.                *)
LoadTextureData(t) ==
  /\ pc = "idle"
  /\ t \notin purged
  /\ filled' = filled \union {t}
  /\ bound' = t
  /\ uploaded' = TRUE
  /\ UNCHANGED <<cacheVars, device, purged, todo, pc>>

(* PurgeTextures deletes the texture and the container nobody refers to; a  *)
(* deleted texture is no longer bound.                                      *)
PurgeTexture(t) ==
  /\ pc = "idle"
  /\ t \in filled
  /\ filled' = filled \ {t}
  /\ purged' = purged \union {t}
  /\ bound' = IF bound = t THEN NoTexture ELSE bound
  /\ UNCHANGED <<cacheVars, device, uploaded, todo, pc>>

-----------------------------------------------------------------------------
Next ==
  \/ RenderCamera \/ RenderFog \/ RenderLighting \/ RenderQuad
  \/ \E s \in States, v \in Values : SetState(s, v)
  \/ \E t \in TextureIds : SetTexture(t) \/ LoadTextureData(t) \/ PurgeTexture(t)
  \/ ApplyChanges
  \/ RenderMesh

Spec == Init /\ [][Next]_vars

-----------------------------------------------------------------------------
TypeOK ==
  /\ cache \in [States -> Values]
  /\ device \in [States -> Values]
  /\ wanted \in [States -> Values]
  /\ dirty \subseteq States
  /\ todo \subseteq States
  /\ textureId \in TextureIds \union {NoTexture}
  /\ bound \in TextureIds \union {NoTexture}
  /\ filled \subseteq TextureIds \ purged
  /\ purged \subseteq TextureIds
  /\ textureDirty \in BOOLEAN /\ initialized \in BOOLEAN /\ uploaded \in BOOLEAN
  /\ pc \in {"idle", "set", "set texture", "set quad", "draw"}

(* A mesh is drawn with the value last given to every state's setter, set   *)
(* by this node or by an earlier one, although ApplyChanges sends only what *)
(* is dirty.                                                                *)
DrawUsesLastValues == pc = "draw" => device = wanted

(* After the first frame's first node, a state is dirty exactly when the    *)
(* device has another value: ApplyChanges sends nothing twice, and CanBatch *)
(* tells whether the device is up to date.                                  *)
DirtyIsExact == initialized => dirty = {s \in States : cache[s] # device[s]}

(* A quad is drawn with another node's texture only if a texture was filled *)
(* since the cache last bound one: LoadTextureData is the only step that    *)
(* goes behind the cache's back.                                            *)
WrongTextureOnlyAfterUpload == pc = "draw" /\ bound # textureId => uploaded
=============================================================================
