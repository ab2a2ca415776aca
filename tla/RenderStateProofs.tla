-------------------------- MODULE RenderStateProofs --------------------------
(***************************************************************************)
(* Proofs about RenderState for any states, values, renderers and textures.*)
(***************************************************************************)
EXTENDS RenderState, TLAPS

(* The flags are exact because a renderer calls each setter at most once    *)
(* before ApplyChanges: what it has still to set is not dirty, and between  *)
(* renders nothing is.                                                      *)
IInv ==
  /\ TypeOK
  /\ cache = wanted
  /\ ~initialized => dirty = States
  /\ DirtyIsExact
  /\ initialized => todo \intersect dirty = {}
  /\ pc \in {"idle", "draw"} => todo = {}
  /\ initialized /\ pc \in {"idle", "draw"} => dirty = {}
  /\ pc = "draw" => initialized

(* RenderStateManager::Init raises every flag and draws nothing yet.        *)
LEMMA InitEstablishes == Init => IInv
  BY DEF Init, IInv, TypeOK, DirtyIsExact

(* No setter, ApplyChanges, draw, upload or purge breaks the agreement; one *)
(* step per action.                                                         *)
LEMMA Inductive == IInv /\ [Next]_vars => IInv'
<1> SUFFICES ASSUME IInv, [Next]_vars PROVE IInv'
  OBVIOUS
<1> USE RenderersSetStates DEF IInv, TypeOK, DirtyIsExact
<1>1. CASE RenderCamera \/ RenderFog \/ RenderLighting \/ RenderQuad
  <2>1. PICK sets \in SUBSET States, next \in {"set", "set texture"} : Start(sets, next)
    BY <1>1 DEF RenderCamera, RenderFog, RenderLighting, RenderQuad
  <2>2. UNCHANGED <<cache, dirty, textureId, textureDirty, initialized, wanted,
                    device, bound, filled, purged, uploaded>>
    BY <2>1 DEF Start, cacheVars, deviceVars
  <2>3. pc = "idle" /\ todo' = sets /\ pc' = next
    BY <2>1 DEF Start
  <2> QED BY <2>2, <2>3
<1>2. ASSUME NEW s \in States, NEW v \in Values, SetState(s, v) PROVE IInv'
  <2> USE <1>2 DEF SetState, deviceVars
  <2>1. cache' \in [States -> Values] /\ wanted' = cache'
    OBVIOUS
  <2>2. CASE ~initialized
    <3>1. dirty' = States /\ ~initialized'
      BY <2>2
    <3>2. todo' \subseteq States /\ pc' = pc /\ pc \in {"set", "set texture", "set quad"}
      OBVIOUS
    <3> QED BY <2>1, <2>2, <3>1, <3>2
  <2>3. CASE initialized
    <3>1. s \notin dirty /\ cache[s] = device[s]
      BY <2>3
    <3>2. dirty' \subseteq States /\ \A r \in States : r \in dirty' <=> cache'[r] # device'[r]
      BY <2>3, <3>1
    <3>3. dirty' = {r \in States : cache'[r] # device'[r]}
      BY <3>2
    <3>4. todo' \subseteq States /\ todo' \intersect dirty' = {}
      BY <2>3
    <3>5. /\ UNCHANGED <<device, textureId, textureDirty, initialized, bound, filled,
                        purged, uploaded, pc>>
          /\ pc \in {"set", "set texture", "set quad"}
      OBVIOUS
    <3>6. TypeOK'
      BY <2>1, <3>2, <3>4, <3>5
    <3>7. DirtyIsExact'
      BY <3>3
    <3> HIDE DEF TypeOK, DirtyIsExact, SetState
    <3> QED BY <2>1, <2>3, <3>4, <3>5, <3>6, <3>7
  <2> QED BY <2>2, <2>3
<1>3. ASSUME NEW t \in TextureIds, SetTexture(t) PROVE IInv'
  BY <1>3 DEF SetTexture, deviceVars
<1>4. ASSUME NEW t \in TextureIds, LoadTextureData(t) PROVE IInv'
  BY <1>4 DEF LoadTextureData, cacheVars
<1>5. ASSUME NEW t \in TextureIds, PurgeTexture(t) PROVE IInv'
  BY <1>5 DEF PurgeTexture, cacheVars
<1>6. CASE ApplyChanges
  <2> USE <1>6 DEF ApplyChanges
  <2>1. device' \in [States -> Values]
    OBVIOUS
  <2>2. \A s \in States : device'[s] = cache[s]
    OBVIOUS
  <2>3. bound' \in TextureIds \union {NoTexture} /\ uploaded' \in BOOLEAN
    BY DEF Binds
  <2> QED BY <2>1, <2>2, <2>3
<1>7. CASE RenderMesh
  BY <1>7 DEF RenderMesh, cacheVars, deviceVars
<1>8. CASE UNCHANGED vars
  BY <1>8 DEF vars
<1> QED
  BY <1>1, <1>2, <1>3, <1>4, <1>5, <1>6, <1>7, <1>8 DEF Next

(* Flags, cache and device agree in every run of the renderers.             *)
THEOREM InvHolds == Spec => []IInv
<1>1. Init => IInv
  BY InitEstablishes
<1>2. IInv /\ [Next]_vars => IInv'
  BY Inductive
<1> QED BY <1>1, <1>2, PTL DEF Spec

(* The cache and the device keep their types (RenderStateManager).          *)
THEOREM Typing == Spec => []TypeOK
<1>1. IInv => TypeOK
  BY DEF IInv
<1> QED BY <1>1, InvHolds, PTL

(* Every flag tells exactly whether the device has another value than the   *)
(* cache, so ApplyChanges sends nothing twice (RenderStateManager).         *)
THEOREM FlagsAreExact == Spec => []DirtyIsExact
<1>1. IInv => DirtyIsExact
  BY DEF IInv
<1> QED BY <1>1, InvHolds, PTL

(* Every mesh is drawn with the last value set for every state, for any     *)
(* number of states, values and renderers and any order of renders.         *)
THEOREM DrawsUseLastValues == Spec => []DrawUsesLastValues
<1>1. IInv => DrawUsesLastValues
  <2> SUFFICES ASSUME IInv, pc = "draw" PROVE device = wanted
    BY DEF DrawUsesLastValues
  <2>1. \A s \in States : cache[s] = device[s]
    BY DEF IInv, DirtyIsExact
  <2>2. device = cache
    BY <2>1 DEF IInv, TypeOK
  <2> QED BY <2>2 DEF IInv
<1> QED BY <1>1, InvHolds, PTL

(* The binding: the cache's texture is bound unless an upload intervened    *)
(* (uploaded) or the cache has it still to send (textureDirty).             *)
BindInv ==
  /\ bound \in TextureIds \union {NoTexture}
  /\ pc \in {"set quad", "draw"} => textureId \in filled
  /\ initialized /\ pc # "set quad" => ~textureDirty
  /\ textureId \in filled => uploaded \/ textureDirty \/ bound = textureId

(* No step but an upload separates what is bound from what the cache says.  *)
LEMMA BindInductive == BindInv /\ IInv /\ [Next]_vars => BindInv'
<1> SUFFICES ASSUME BindInv, IInv, [Next]_vars PROVE BindInv'
  OBVIOUS
<1> USE NoTextureIsNoId DEF BindInv
<1>1. CASE RenderCamera \/ RenderFog \/ RenderLighting \/ RenderQuad
  <2>1. PICK sets \in SUBSET States, next \in {"set", "set texture"} : Start(sets, next)
    BY <1>1, RenderersSetStates DEF RenderCamera, RenderFog, RenderLighting, RenderQuad
  <2>2. UNCHANGED <<textureId, textureDirty, initialized, bound, filled, uploaded>>
    BY <2>1 DEF Start, cacheVars, deviceVars
  <2>3. pc = "idle" /\ pc' = next
    BY <2>1 DEF Start
  <2> QED BY <2>2, <2>3
<1>2. ASSUME NEW s \in States, NEW v \in Values, SetState(s, v) PROVE BindInv'
  BY <1>2 DEF SetState, deviceVars
<1>3. ASSUME NEW t \in TextureIds, SetTexture(t) PROVE BindInv'
  <2>1. textureId' = t /\ t \in filled /\ filled' = filled /\ pc = "set texture" /\ pc' = "set quad"
    BY <1>3 DEF SetTexture, deviceVars
  <2>2. UNCHANGED <<bound, uploaded, initialized>>
    BY <1>3 DEF SetTexture, deviceVars
  <2>3. ~textureDirty' => initialized /\ textureId = t
    BY <1>3 DEF SetTexture
  <2> QED BY <2>1, <2>2, <2>3
<1>4. ASSUME NEW t \in TextureIds, LoadTextureData(t) PROVE BindInv'
  BY <1>4 DEF LoadTextureData, cacheVars
<1>5. ASSUME NEW t \in TextureIds, PurgeTexture(t) PROVE BindInv'
  BY <1>5 DEF PurgeTexture, cacheVars
<1>6. CASE ApplyChanges
  BY <1>6 DEF ApplyChanges, Binds, IInv, TypeOK
<1>7. CASE RenderMesh
  BY <1>7 DEF RenderMesh, cacheVars, deviceVars
<1>8. CASE UNCHANGED vars
  BY <1>8 DEF vars
<1> QED
  BY <1>1, <1>2, <1>3, <1>4, <1>5, <1>6, <1>7, <1>8 DEF Next

(* LoadTextureData is the only way to draw a quad with another's texture.   *)
THEOREM OnlyUploadsMislead == Spec => []WrongTextureOnlyAfterUpload
<1>1. Init => BindInv
  BY NoTextureIsNoId DEF Init, BindInv
<1>2. BindInv /\ IInv => WrongTextureOnlyAfterUpload
  BY DEF BindInv, IInv, WrongTextureOnlyAfterUpload
<1>3. BindInv /\ IInv /\ [Next]_vars => BindInv'
  BY BindInductive
<1> QED BY <1>1, <1>2, <1>3, InvHolds, PTL DEF Spec
=============================================================================
