---------------------------- MODULE TextureRefs -----------------------------
(***************************************************************************)
(* Who keeps which texture alive: sprites, texts and the preloader hold    *)
(* references to texture containers, which RenderStateManager's helper     *)
(* keeps by id and key and frees when nobody refers to them                *)
(* (src/NexgenRedux-Shared/OpenGLRenderingHelper.cpp,                      *)
(* EntityEngine/Sprite.cpp, Text.cpp, PreLoader.cpp), frame by frame in    *)
(* the order of WindowManager::RenderLoop.                                 *)
(*                                                                         *)
(* A container's key is a sprite's path or a text's words.  The two may    *)
(* have keys in common; a new sprite and a new text share the empty one,   *)
(* which names no file and has no pixels.                                  *)
(*                                                                         *)
(* The texture loader runs beside the frames.  It is modelled by           *)
(* LoadQueue, the abstract queue that TextureLoader implements: Request    *)
(* is its Enqueue, LoaderProcesses its Mark and ServeRequest its Serve.    *)
(* So a push may cost the first request its mark, and the queue stands     *)
(* still (stalled), and once a bad file has been marked (spoiled) a        *)
(* request may leave the queue unread or with another one's image.         *)
(***************************************************************************)
EXTENDS Integers, Sequences, FiniteSets

CONSTANTS Sprites, Texts,   \* the nodes scripts may create
          Paths, Words,     \* the keys of sprites and of texts
          Empty,            \* the path of a new sprite and the words of a new text
          Loadable,         \* the paths that name a good image
          NoKey,            \* not a key: marks an id without a container
          MaxIds            \* bounds m_maxTextureContainerID

ASSUME KeysAreDistinct ==
  /\ Sprites \intersect Texts = {}
  /\ Empty \in Paths \intersect Words /\ Loadable \subseteq Paths \ {Empty}
  /\ NoKey \notin Paths \union Words
  /\ MaxIds \in Nat

VARIABLES
  maxId,      \* m_maxTextureContainerID
  key,        \* key of each container; NoKey for ids without one
  refCount,   \* its refCount
  loaded,     \* ids whose container has a texture
  queue,      \* m_textureRequestMap: the requests not yet erased
  processed,  \* the first request's mark
  stalled,    \* the first request's mark is lost
  spoiled,    \* history: a bad file has been marked
  alive,      \* nodes in NodeManager's map
  marked,     \* those marked for deletion
  source,     \* m_texturePath of a sprite, m_text of a text
  dirty,      \* nodes with m_textureIsDirty or m_textIsDirty
  texture,    \* m_textureID of each node
  wants,      \* sprites with m_wantsTexture
  mesh,       \* "none", "blank": uv of an empty container, "fitted"
  preloads,   \* PreLoader's m_textureKeys
  phase,      \* where RenderLoop is
  visited     \* nodes the frame's update walk has updated

tableVars == <<maxId, key, refCount, loaded>>
nodeVars == <<alive, marked, source, dirty, texture, wants, mesh>>
loaderVars == <<queue, processed, stalled, spoiled>>
vars == <<tableVars, loaderVars, nodeVars, preloads, phase, visited>>

Nodes == Sprites \union Texts
Ids == 1..MaxIds
Keys == Paths \union Words
Containers == {i \in Ids : key[i] # NoKey}

Init ==
  /\ maxId = 0
  /\ key = [i \in Ids |-> NoKey]
  /\ refCount = [i \in Ids |-> 0]
  /\ loaded = {}
  /\ queue = <<>>
  /\ processed = FALSE /\ stalled = FALSE /\ spoiled = FALSE
  /\ alive = {} /\ marked = {} /\ dirty = {} /\ wants = {}
  /\ source = [n \in Nodes |-> Empty]
  /\ texture = [n \in Nodes |-> 0]
  /\ mesh = [n \in Nodes |-> "none"]
  /\ preloads = {}
  /\ phase = "poll"
  /\ visited = {}

-----------------------------------------------------------------------------
(* The container table.                                                     *)

(* OpenGLRenderingHelper::TextureExists.                                    *)
TextureExists(k) == \E i \in Containers : key[i] = k

(* The id CreateTextureReference answers with: the key's, else a new one.   *)
IdFor(k) == IF TextureExists(k) THEN CHOOSE i \in Containers : key[i] = k ELSE maxId + 1

(* DeleteTextureReference(old), unless old is 0, then                       *)
(* CreateTextureReference(k): the count of a key in use grows, a new key    *)
(* gets a container with count 1 and no texture.                            *)
Rereference(old, k) ==
  LET id == IdFor(k)
      released == [i \in Ids |-> IF i = old /\ refCount[i] > 0 THEN refCount[i] - 1 ELSE refCount[i]]
  IN  IF TextureExists(k)
        THEN refCount' = [released EXCEPT ![id] = @ + 1] /\ UNCHANGED <<maxId, key>>
        ELSE /\ refCount' = [released EXCEPT ![id] = 1]
             /\ key' = [key EXCEPT ![id] = k]
             /\ maxId' = id

(* OpenGLRenderingHelper::DeleteTextureReference.                           *)
DeleteTextureReference(id) ==
  refCount' = [i \in Ids |-> IF i = id /\ refCount[i] > 0 THEN refCount[i] - 1 ELSE refCount[i]]

(* TextureManager::Request.  A push that moves the vector loses the mark of *)
(* a first request whose image the loader has just stored.                  *)
Request(id, path) ==
  /\ queue' = Append(queue, [id |-> id, path |-> path])
  /\ \/ UNCHANGED stalled
     \/ /\ queue # <<>> /\ ~processed
        /\ Head(queue).path \in Loadable \/ spoiled
        /\ stalled' = TRUE
  /\ UNCHANGED <<processed, spoiled>>

-----------------------------------------------------------------------------
(* Script calls, in the update callback and in window callbacks.            *)

ScriptRuns == phase \in {"script", "poll"}

(* Every dirty node may take an id at its next update.                      *)
IdIsLeft == maxId + Cardinality(dirty) < MaxIds

(* Sprite and Text constructors.                                            *)
Create(n) ==
  /\ ScriptRuns /\ IdIsLeft
  /\ n \notin alive
  /\ alive' = alive \union {n}
  /\ dirty' = dirty \union {n}
  /\ UNCHANGED <<tableVars, loaderVars, marked, source, texture, wants, mesh, preloads, phase, visited>>

(* Sprite::SetTexturePath and Text::SetText; setting the same value does    *)
(* nothing.                                                                 *)
SetSource(n, k) ==
  /\ ScriptRuns
  /\ n \in alive /\ source[n] # k
  /\ n \in dirty \/ IdIsLeft
  /\ source' = [source EXCEPT ![n] = k]
  /\ dirty' = dirty \union {n}
  /\ UNCHANGED <<tableVars, loaderVars, alive, marked, texture, wants, mesh, preloads, phase, visited>>

(* Text::SetFontName, SetFontStyle, SetFontSize.                            *)
SetFont(n) ==
  /\ ScriptRuns
  /\ n \in (alive \intersect Texts) \ dirty
  /\ IdIsLeft
  /\ dirty' = dirty \union {n}
  /\ UNCHANGED <<tableVars, loaderVars, alive, marked, source, texture, wants, mesh, preloads, phase, visited>>

Delete(n) ==
  /\ ScriptRuns
  /\ n \in alive \ marked
  /\ marked' = marked \union {n}
  /\ UNCHANGED <<tableVars, loaderVars, alive, source, dirty, texture, wants, mesh, preloads, phase, visited>>

(* PreLoader::LoadTexture, refused for a key the preloader holds already.   *)
LoadTexture(p) ==
  /\ ScriptRuns /\ IdIsLeft
  /\ p \notin preloads
  /\ preloads' = preloads \union {p}
  /\ Rereference(0, p)
  /\ IF TextureExists(p) THEN UNCHANGED loaderVars ELSE Request(maxId + 1, p)
  /\ UNCHANGED <<loaded, nodeVars, phase, visited>>

(* Mutant of UnLoadTexture: the preloader does not look for its key.        *)
UnLoadAnyTexture(p) ==
  /\ ScriptRuns
  /\ preloads' = preloads \ {p}
  /\ IF TextureExists(p) THEN DeleteTextureReference(IdFor(p)) ELSE UNCHANGED refCount
  /\ UNCHANGED <<maxId, key, loaded, loaderVars, nodeVars, phase, visited>>

(* PreLoader::UnLoadTexture finds its container by key, not by id.          *)
UnLoadTexture(p) ==
  /\ ScriptRuns
  /\ p \in preloads
  /\ preloads' = preloads \ {p}
  /\ IF TextureExists(p) THEN DeleteTextureReference(IdFor(p)) ELSE UNCHANGED refCount
  /\ UNCHANGED <<maxId, key, loaded, loaderVars, nodeVars, phase, visited>>

-----------------------------------------------------------------------------
(* The frame.                                                               *)

(* Mutant of UpdateSprite: a request is made for every sprite that finds    *)
(* its key, not for the first.                                              *)
UpdateSpriteSwapped(n) ==
  /\ phase = "update"
  /\ n \in (alive \intersect Sprites) \ (marked \union visited)
  /\ LET id == IF n \in dirty THEN IdFor(source[n]) ELSE texture[n]
         waits == n \in dirty \/ n \in wants
         fits == waits /\ id \in loaded
     IN  /\ IF n \in dirty
              THEN /\ Rereference(texture[n], source[n])
                   /\ IF ~TextureExists(source[n]) THEN UNCHANGED loaderVars ELSE Request(id, source[n])
              ELSE UNCHANGED <<maxId, key, refCount, loaderVars>>
         /\ texture' = [texture EXCEPT ![n] = id]
         /\ wants' = IF waits /\ ~fits THEN wants \union {n} ELSE wants \ {n}
         /\ mesh' = [mesh EXCEPT ![n] = IF fits THEN "fitted"
                                        ELSE IF n \in dirty THEN "blank" ELSE @]
  /\ dirty' = dirty \ {n}
  /\ visited' = visited \union {n}
  /\ UNCHANGED <<loaded, alive, marked, source, preloads, phase>>

(* Mutant of UpdateSprite: the mesh is not rebuilt when the texture comes.  *)
UpdateSpriteOnce(n) ==
  /\ phase = "update"
  /\ n \in (alive \intersect Sprites) \ (marked \union visited)
  /\ LET id == IF n \in dirty THEN IdFor(source[n]) ELSE texture[n]
     IN  /\ IF n \in dirty
              THEN /\ Rereference(texture[n], source[n])
                   /\ IF TextureExists(source[n]) THEN UNCHANGED loaderVars ELSE Request(id, source[n])
              ELSE UNCHANGED <<maxId, key, refCount, loaderVars>>
         /\ texture' = [texture EXCEPT ![n] = id]
         /\ mesh' = [mesh EXCEPT ![n] = IF n \notin dirty THEN @
                                        ELSE IF id \in loaded THEN "fitted" ELSE "blank"]
  /\ dirty' = dirty \ {n}
  /\ visited' = visited \union {n}
  /\ UNCHANGED <<loaded, alive, marked, source, wants, preloads, phase>>

(* Sprite::Update.  SetUV and SetSize only rebuild a mesh that would come   *)
(* out the same in the terms of this model.                                 *)
UpdateSprite(n) ==
  /\ phase = "update"
  /\ n \in (alive \intersect Sprites) \ (marked \union visited)
  /\ LET id == IF n \in dirty THEN IdFor(source[n]) ELSE texture[n]
         waits == n \in dirty \/ n \in wants
         fits == waits /\ id \in loaded
     IN  /\ IF n \in dirty
              THEN /\ Rereference(texture[n], source[n])
                   /\ IF TextureExists(source[n]) THEN UNCHANGED loaderVars ELSE Request(id, source[n])
              ELSE UNCHANGED <<maxId, key, refCount, loaderVars>>
         /\ texture' = [texture EXCEPT ![n] = id]
         /\ wants' = IF waits /\ ~fits THEN wants \union {n} ELSE wants \ {n}
         /\ mesh' = [mesh EXCEPT ![n] = IF fits THEN "fitted"
                                        ELSE IF n \in dirty THEN "blank" ELSE @]
  /\ dirty' = dirty \ {n}
  /\ visited' = visited \union {n}
  /\ UNCHANGED <<loaded, alive, marked, source, preloads, phase>>

(* Text::Update paints at once, if the font is there and the words have     *)
(* pixels; else the mesh stays what it was.                                 *)
UpdateText(n, painted) ==
  /\ phase = "update"
  /\ n \in (alive \intersect Texts) \ (marked \union visited)
  /\ painted => source[n] # Empty
  /\ IF n \in dirty
       THEN LET id == IdFor(source[n])
            IN  /\ Rereference(texture[n], source[n])
                /\ texture' = [texture EXCEPT ![n] = id]
                /\ loaded' = IF painted THEN loaded \union {id} ELSE loaded
                /\ mesh' = IF painted THEN [mesh EXCEPT ![n] = "fitted"] ELSE mesh
       ELSE UNCHANGED <<tableVars, texture, mesh>>
  /\ dirty' = dirty \ {n}
  /\ visited' = visited \union {n}
  /\ UNCHANGED <<loaderVars, alive, marked, source, wants, preloads, phase>>

(* The walk covers the current scene only, so it may end at any time.       *)
EndUpdate ==
  /\ phase = "update"
  /\ phase' = "script"
  /\ UNCHANGED <<tableVars, loaderVars, nodeVars, preloads, visited>>

EndScript ==
  /\ phase = "script"
  /\ phase' = "render"
  /\ UNCHANGED <<tableVars, loaderVars, nodeVars, preloads, visited>>

EndRender ==
  /\ phase = "render"
  /\ phase' = "purge"
  /\ UNCHANGED <<tableVars, loaderVars, nodeVars, preloads, visited>>

(* Mutant of FreeNode: a texture that is not loaded yet is not released.    *)
FreeLoadedNode(n) ==
  /\ phase = "purge"
  /\ n \in marked
  /\ alive' = alive \ {n}
  /\ marked' = marked \ {n}
  /\ dirty' = dirty \ {n}
  /\ wants' = wants \ {n}
  /\ DeleteTextureReference(IF texture[n] \in loaded THEN texture[n] ELSE 0)
  /\ source' = [source EXCEPT ![n] = Empty]
  /\ texture' = [texture EXCEPT ![n] = 0]
  /\ mesh' = [mesh EXCEPT ![n] = "none"]
  /\ UNCHANGED <<maxId, key, loaded, loaderVars, preloads, phase, visited>>

(* NodeManager::PurgeNodes and the destructors of Sprite and Text; the name *)
(* n may then stand for a new node.                                         *)
FreeNode(n) ==
  /\ phase = "purge"
  /\ n \in marked
  /\ alive' = alive \ {n}
  /\ marked' = marked \ {n}
  /\ dirty' = dirty \ {n}
  /\ wants' = wants \ {n}
  /\ DeleteTextureReference(texture[n])
  /\ source' = [source EXCEPT ![n] = Empty]
  /\ texture' = [texture EXCEPT ![n] = 0]
  /\ mesh' = [mesh EXCEPT ![n] = "none"]
  /\ UNCHANGED <<maxId, key, loaded, loaderVars, preloads, phase, visited>>

(* Mutant of PurgeTextures: containers that were never loaded are freed.    *)
PurgeUnloadedTextures ==
  /\ phase = "purge" /\ marked = {}
  /\ key' = [i \in Ids |-> IF refCount[i] = 0 \/ i \notin loaded THEN NoKey ELSE key[i]]
  /\ loaded' = {i \in loaded : refCount[i] > 0}
  /\ phase' = "apply"
  /\ UNCHANGED <<maxId, refCount, loaderVars, nodeVars, preloads, visited>>

(* OpenGLRenderingHelper::PurgeTextures.                                    *)
PurgeTextures ==
  /\ phase = "purge" /\ marked = {}
  /\ key' = [i \in Ids |-> IF refCount[i] = 0 THEN NoKey ELSE key[i]]
  /\ loaded' = {i \in loaded : refCount[i] > 0}
  /\ phase' = "apply"
  /\ UNCHANGED <<maxId, refCount, loaderVars, nodeVars, preloads, visited>>

(* TextureManager::ApplyTextures with a first request that is marked: its   *)
(* pixels fill the container, if it has any and there still is one, and it  *)
(* is erased.  They are its file's, unless a bad file was marked before:    *)
(* then a late mark may have reached it unread.                             *)
ServeRequest ==
  /\ phase = "apply"
  /\ processed
  /\ LET first == Head(queue)
     IN  IF spoiled
           THEN loaded' = loaded \/ loaded' = loaded \union ({first.id} \intersect Containers)
           ELSE loaded' = loaded \union ({first.id} \intersect Containers)
  /\ queue' = Tail(queue)
  /\ processed' = FALSE
  /\ phase' = "poll"
  /\ UNCHANGED <<stalled, spoiled, maxId, key, refCount, nodeVars, preloads, visited>>

(* ... and with none, or one that is still being loaded.                    *)
ServeNothing ==
  /\ phase = "apply"
  /\ ~processed
  /\ phase' = "poll"
  /\ UNCHANGED <<tableVars, loaderVars, nodeVars, preloads, visited>>

BeginFrame ==
  /\ phase = "poll"
  /\ phase' = "update"
  /\ visited' = {}
  /\ UNCHANGED <<tableVars, loaderVars, nodeVars, preloads>>

-----------------------------------------------------------------------------
(* The loader's thread.                                                     *)

(* Mutant of LoaderProcesses: only a file that was read is marked.          *)
LoaderProcessesGood ==
  /\ queue # <<>> /\ ~processed /\ ~stalled
  /\ Head(queue).path \in Loadable
  /\ processed' = TRUE
  /\ UNCHANGED <<queue, stalled, spoiled, tableVars, nodeVars, preloads, phase, visited>>

(* A pass of TextureManager::ProcessThread: the first request gets its      *)
(* pixels, if its file is good, and its mark.                               *)
LoaderProcesses ==
  /\ queue # <<>> /\ ~processed /\ ~stalled
  /\ processed' = TRUE
  /\ spoiled' = (spoiled \/ Head(queue).path \notin Loadable)
  /\ UNCHANGED <<queue, stalled, tableVars, nodeVars, preloads, phase, visited>>

-----------------------------------------------------------------------------
Script ==
  \/ \E n \in Nodes : Create(n) \/ Delete(n) \/ SetFont(n)
  \/ \E n \in Sprites, p \in Paths : SetSource(n, p)
  \/ \E n \in Texts, w \in Words : SetSource(n, w)
  \/ \E p \in Paths : LoadTexture(p) \/ UnLoadTexture(p)

Frame ==
  \/ \E n \in Sprites : UpdateSprite(n)
  \/ \E n \in Texts, painted \in BOOLEAN : UpdateText(n, painted)
  \/ EndUpdate \/ EndScript \/ EndRender
  \/ \E n \in Nodes : FreeNode(n)
  \/ PurgeTextures \/ ServeRequest \/ ServeNothing \/ BeginFrame

Next == Script \/ Frame \/ LoaderProcesses

Spec == Init /\ [][Next]_vars

(* RenderLoop keeps turning, script callbacks return, and the loader's      *)
(* thread keeps turning too.                                                *)
FairSpec ==
  /\ Spec
  /\ WF_vars(EndUpdate) /\ WF_vars(EndScript) /\ WF_vars(EndRender)
  /\ \A n \in Nodes : WF_vars(FreeNode(n))
  /\ WF_vars(PurgeTextures) /\ WF_vars(ServeRequest) /\ WF_vars(ServeNothing) /\ WF_vars(BeginFrame)
  /\ WF_vars(LoaderProcesses)

-----------------------------------------------------------------------------
TypeOK ==
  /\ maxId \in 0..MaxIds
  /\ key \in [Ids -> Keys \union {NoKey}]
  /\ \A i \in Ids : i > maxId => key[i] = NoKey
  /\ refCount \in [Ids -> Nat]
  /\ loaded \subseteq Containers
  /\ queue \in Seq([id : 1..maxId, path : Paths])
  /\ processed \in BOOLEAN /\ stalled \in BOOLEAN /\ spoiled \in BOOLEAN
  /\ processed \/ stalled => queue # <<>>
  /\ ~(processed /\ stalled)
  /\ marked \subseteq alive /\ alive \subseteq Nodes
  /\ dirty \subseteq alive /\ wants \subseteq alive \intersect Sprites
  /\ source \in [Nodes -> Keys]
  /\ texture \in [Nodes -> 0..maxId]
  /\ mesh \in [Nodes -> {"none", "blank", "fitted"}]
  /\ preloads \subseteq Paths
  /\ phase \in {"update", "script", "render", "purge", "apply", "poll"}
  /\ visited \subseteq Nodes

Holders(i) == {n \in alive : texture[n] = i}

(* Those who ask for one path at different times share one container, and   *)
(* its count is the number of nodes and preloads that refer to it, through  *)
(* every re-pathing, deletion and unloading: nothing leaks and nothing is   *)
(* freed early.                                                             *)
RefCountsAreHolders ==
  /\ TypeOK
  /\ \A i, j \in Containers : key[i] = key[j] => i = j
  /\ \A i \in Containers :
       refCount[i] = Cardinality(Holders(i)) + (IF key[i] \in preloads THEN 1 ELSE 0)

(* What a node or the preloader refers to is in the table, under the key    *)
(* the node asked for when it was last updated.                             *)
HeldTexturesStay ==
  /\ \A n \in alive : texture[n] # 0 =>
       texture[n] \in Containers /\ (n \notin dirty => key[texture[n]] = source[n])
  /\ \A p \in preloads : TextureExists(p)

(* A path's container is loaded, or its request is still queued, or its     *)
(* file is bad: whoever came second and made no request of its own does not *)
(* wait in vain, and no request is dropped, until a bad file has been tried *)
(* (spoiled), after which the request behind it may go unread.  A path that *)
(* is also a text's words is left out: a text that comes first makes the    *)
(* container and requests nothing.                                          *)
PendingIsQueued ==
  \A i \in Containers : key[i] \in Loadable \ Words =>
    i \in loaded \/ spoiled \/ \E q \in DOMAIN queue : queue[q].id = i

(* A sprite updated in this frame is never drawn with the texture           *)
(* coordinates of a container that was empty when its mesh was built, as    *)
(* long as its path is no text's words.                                     *)
DrawnMeshIsFitted ==
  phase = "render" =>
    \A n \in visited \intersect alive \intersect Sprites :
      texture[n] \in loaded /\ key[texture[n]] \notin Words => mesh[n] = "fitted"

(* A preloaded path with a good file becomes loaded, for as long as the     *)
(* script does not unload it (PreLoader::AllTexturesLoaded), unless a mark  *)
(* was lost or a bad file was tried before it.  A path that is also a       *)
(* text's words is left out as above.                                       *)
PreloadsFinish ==
  \A p \in Loadable \ Words :
    p \in preloads ~> \/ p \notin preloads \/ \E i \in loaded : key[i] = p
                      \/ spoiled \/ stalled
=============================================================================
