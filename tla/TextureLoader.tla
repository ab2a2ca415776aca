--------------------------- MODULE TextureLoader ----------------------------
(***************************************************************************)
(* The texture loader: the thread of TextureManager::ProcessThread, the    *)
(* main thread that requests textures and applies them once per frame, and *)
(* the vector of requests the two share                                    *)
(* (src/NexgenRedux-Shared/TextureManager.cpp).                            *)
(*                                                                         *)
(* The mutex covers only the thread's taking of front() and the main       *)
(* thread's erase, so each is one step here and the mutex needs no         *)
(* variable.  Between steps the thread holds a pointer to the first slot   *)
(* of the vector.  The pointer is modelled by the buffer it points into:   *)
(*   - buffer is the vector's current one: the slot is whatever request is *)
(*     first NOW (an erase moves the others down under the pointer), or,   *)
(*     with the vector empty, what the last erased request left there;     *)
(*   - the vector has grown since: the slot is freed memory, reads give    *)
(*     anything and writes are lost.                                       *)
(* A request's path is identified with its texture id: ids are never       *)
(* reused, and a path is requested again only under a new id.              *)
(***************************************************************************)
EXTENDS Integers, Sequences

CONSTANTS Textures,   \* the texture ids that are ever requested
          Doubtful,   \* those whose file may be missing or not an image
          NoTexture   \* NULL: no pixels, or a path that names no file

ASSUME DoubtfulAreTextures == Doubtful \subseteq Textures
ASSUME NoTextureIsNone == NoTexture \notin Textures

VARIABLES
  corrupt,        \* the textures whose file is bad, the same throughout
  spoiled,        \* history: the thread has marked a bad file
  requests,       \* m_textureRequestMap
  buffer,         \* number of the vector's current allocation
  capacity,       \* and how many requests it has room for
  leftover,       \* the first slot's contents while the vector is empty
  requested,      \* the ids requested so far
  containers,     \* ids that have a texture container
  content,        \* the image whose pixels each container holds
  mainPc,         \* where the main thread is
  threadPc,       \* where ProcessThread is
  slot,           \* the buffer the thread's textureRequest points into
  path,           \* the thread's mappedPath
  stopRequested   \* m_stopRequested

fileVars   == <<corrupt, spoiled>>
queueVars  == <<requests, buffer, capacity, leftover>>
mainVars   == <<requested, containers, content, mainPc, stopRequested>>
threadVars == <<threadPc, slot, path>>
vars == <<fileVars, queueVars, mainVars, threadVars>>

Loadable == Textures \ corrupt

MaybeTexture == Textures \union {NoTexture}

(* TextureManager::TextureRequest; data names the image it holds, width and *)
(* height go with it.                                                       *)
TextureRequest == [texture : Textures, processed : BOOLEAN, data : MaybeTexture]

Init ==
  /\ corrupt \in SUBSET Doubtful
  /\ spoiled = FALSE
  /\ requests = <<>>
  /\ buffer = 0
  /\ capacity = 0
  /\ leftover = [texture |-> NoTexture, processed |-> FALSE, data |-> NoTexture]
  /\ requested = {}
  /\ containers = {}
  /\ content = [t \in Textures |-> NoTexture]
  /\ mainPc = "frame"
  /\ stopRequested = FALSE
  /\ threadPc = "poll"
  /\ slot = 0
  /\ path = NoTexture

-----------------------------------------------------------------------------
(* The main thread.                                                         *)

(* How the library grows a full vector (by half, at least by one).          *)
Grown(c) == IF c < 2 THEN c + 1 ELSE c + (c \div 2)

(* TextureManager::Request, by a caller that has just created the container *)
(* (Sprite::Update and PreLoader::LoadTexture).  push_back moves a full     *)
(* vector to a new buffer.                                                  *)
Request(t) ==
  /\ mainPc = "frame"
  /\ t \notin requested
  /\ requested' = requested \union {t}
  /\ containers' = containers \union {t}
  /\ requests' = Append(requests, [texture |-> t, processed |-> FALSE, data |-> NoTexture])
  /\ IF Len(requests) < capacity
       THEN UNCHANGED <<buffer, capacity>>
       ELSE /\ buffer' = buffer + 1
            /\ capacity' = Grown(capacity)
  /\ UNCHANGED <<leftover, content, mainPc, stopRequested, threadVars, fileVars>>

(* RenderStateManager::PurgeTextures frees a container nobody refers to;    *)
(* its request, if any, stays in the queue.                                 *)
PurgeTexture(t) ==
  /\ mainPc = "frame"
  /\ t \in containers
  /\ containers' = containers \ {t}
  /\ content' = [content EXCEPT ![t] = NoTexture]
  /\ UNCHANGED <<requested, mainPc, stopRequested, queueVars, threadVars, fileVars>>

(* Mutant of ApplyTexture: the processed flag is not tested.                *)
ApplyUnprocessed ==
  /\ mainPc = "frame"
  /\ requests # <<>>
  /\ LET first == Head(requests)
     IN  content' = IF first.data # NoTexture /\ first.texture \in containers
                      THEN [content EXCEPT ![first.texture] = first.data]
                      ELSE content
  /\ mainPc' = "erase"
  /\ UNCHANGED <<requested, containers, stopRequested, queueVars, threadVars, fileVars>>

(* TextureManager::ApplyTextures, up to the lock: the first request, once   *)
(* processed, gives its pixels to its container, if it has pixels and the   *)
(* container still exists (LoadTextureData refuses unknown ids).            *)
ApplyTexture ==
  /\ mainPc = "frame"
  /\ requests # <<>>
  /\ Head(requests).processed
  /\ LET first == Head(requests)
     IN  content' = IF first.data # NoTexture /\ first.texture \in containers
                      THEN [content EXCEPT ![first.texture] = first.data]
                      ELSE content
  /\ mainPc' = "erase"
  /\ UNCHANGED <<requested, containers, stopRequested, queueVars, threadVars, fileVars>>

(* ApplyTextures under the lock: the first request is erased.               *)
EraseFirst ==
  /\ mainPc = "erase"
  /\ requests' = Tail(requests)
  /\ leftover' = Head(requests)
  /\ mainPc' = "frame"
  /\ UNCHANGED <<buffer, capacity, requested, containers, content, stopRequested, threadVars, fileVars>>

(* RenderLoop has ended and TextureManager::Close waits for the thread.     *)
BeginClose ==
  /\ mainPc = "frame"
  /\ stopRequested' = TRUE
  /\ mainPc' = "closing"
  /\ UNCHANGED <<requested, containers, content, queueVars, threadVars, fileVars>>

EndClose ==
  /\ mainPc = "closing"
  /\ threadPc = "stopped"
  /\ mainPc' = "closed"
  /\ UNCHANGED <<requested, containers, content, stopRequested, queueVars, threadVars, fileVars>>

-----------------------------------------------------------------------------
(* The loader thread.  The sleeps between passes need no step of their own. *)

SlotIsCurrent == slot = buffer

(* The thread stores through its pointer: into the first request, or into   *)
(* the empty vector's first slot (which the next request overwrites), or    *)
(* into freed memory.                                                       *)
StoreProcessed ==
  requests' = IF SlotIsCurrent /\ requests # <<>>
                THEN [requests EXCEPT ![1].processed = TRUE]
                ELSE requests

StoreData(d) ==
  requests' = IF SlotIsCurrent /\ requests # <<>>
                THEN [requests EXCEPT ![1].data = d]
                ELSE requests

(* Mutant of SeeRequest: a waiting request keeps the thread from stopping.  *)
SeeRequestFirst ==
  /\ threadPc = "poll"
  /\ requests # <<>>
  /\ threadPc' = "front"
  /\ UNCHANGED <<slot, path, queueVars, mainVars, fileVars>>

(* The loop condition and the size test, which takes no lock.               *)
SeeRequest ==
  /\ threadPc = "poll"
  /\ ~stopRequested
  /\ requests # <<>>
  /\ threadPc' = "front"
  /\ UNCHANGED <<slot, path, queueVars, mainVars, fileVars>>

Stop ==
  /\ threadPc = "poll"
  /\ stopRequested
  /\ threadPc' = "stopped"
  /\ UNCHANGED <<slot, path, queueVars, mainVars, fileVars>>

(* Under the lock, the address of the first request.                        *)
TakeFront ==
  /\ threadPc = "front"
  /\ slot' = buffer
  /\ threadPc' = "test"
  /\ UNCHANGED <<path, queueVars, mainVars, fileVars>>

(* Mutant of TestData: the test is made the wrong way round.                *)
TestDataInverted ==
  /\ threadPc = "test"
  /\ IF SlotIsCurrent
       THEN LET first == IF requests # <<>> THEN Head(requests) ELSE leftover
            IN  threadPc' = IF first.data = NoTexture THEN "poll" ELSE "map"
       ELSE threadPc' \in {"poll", "map"}
  /\ UNCHANGED <<slot, path, queueVars, mainVars, fileVars>>

(* A first request that has its pixels waits for the main thread.           *)
TestData ==
  /\ threadPc = "test"
  /\ IF SlotIsCurrent
       THEN LET first == IF requests # <<>> THEN Head(requests) ELSE leftover
            IN  threadPc' = IF first.data # NoTexture THEN "poll" ELSE "map"
       ELSE threadPc' \in {"poll", "map"}
  /\ UNCHANGED <<slot, path, queueVars, mainVars, fileVars>>

(* ConfigLoader::MapPath on the request's path.  It refuses a path only     *)
(* when the media directory is unknown, which no supported platform         *)
(* reports, so that branch of the loop is left out.  A slot that is no      *)
(* request any more holds a destroyed string, which names no file.          *)
MapPath ==
  /\ threadPc = "map"
  /\ path' = IF SlotIsCurrent /\ requests # <<>> THEN Head(requests).texture ELSE NoTexture
  /\ threadPc' = "decode"
  /\ UNCHANGED <<slot, queueVars, mainVars, fileVars>>

(* stbi_load reads the file named by the path taken before, then the result *)
(* is stored in whatever the slot is by then.                               *)
Decode ==
  /\ threadPc = "decode"
  /\ StoreData(IF path \in Loadable THEN path ELSE NoTexture)
  /\ threadPc' = "mark"
  /\ UNCHANGED <<slot, path, buffer, capacity, leftover, mainVars, fileVars>>

(* Mutant of MarkProcessed: only a request with pixels is marked.           *)
MarkLoaded ==
  /\ threadPc = "mark"
  /\ IF path \in Loadable THEN StoreProcessed ELSE UNCHANGED requests
  /\ threadPc' = "poll"
  /\ UNCHANGED <<slot, path, buffer, capacity, leftover, mainVars, fileVars>>

(* The request that is marked may be another than the one whose file was    *)
(* read: an erase has brought it under the pointer.                         *)
MarkProcessed ==
  /\ threadPc = "mark"
  /\ StoreProcessed
  /\ spoiled' = (spoiled \/ (SlotIsCurrent /\ requests # <<>> /\ Head(requests).texture \in corrupt))
  /\ threadPc' = "poll"
  /\ UNCHANGED <<slot, path, buffer, capacity, leftover, mainVars, corrupt>>

-----------------------------------------------------------------------------
ThreadStep ==
  \/ SeeRequest \/ Stop \/ TakeFront \/ TestData \/ MapPath
  \/ Decode \/ MarkProcessed

(* The process runs on to exit with the thread gone.                        *)
Terminated ==
  /\ mainPc = "closed"
  /\ UNCHANGED vars

Next ==
  \/ \E t \in Textures : Request(t) \/ PurgeTexture(t)
  \/ ApplyTexture
  \/ EraseFirst
  \/ BeginClose
  \/ EndClose
  \/ ThreadStep
  \/ Terminated

Spec == Init /\ [][Next]_vars

(* The thread's loop keeps running, and RenderLoop calls ApplyTextures in   *)
(* every frame.  Nothing makes a script request, release or leave.          *)
FairSpec ==
  /\ Spec
  /\ WF_vars(ThreadStep)
  /\ WF_vars(ApplyTexture)
  /\ WF_vars(EraseFirst)
  /\ WF_vars(EndClose)

-----------------------------------------------------------------------------
(* The tables have their types, and the vector never outgrows its buffer.   *)
TypeOK ==
  /\ corrupt \subseteq Doubtful /\ spoiled \in BOOLEAN
  /\ requests \in Seq(TextureRequest)
  /\ buffer \in Nat /\ capacity \in Nat
  /\ Len(requests) <= capacity
  /\ leftover \in [texture : MaybeTexture, processed : BOOLEAN, data : MaybeTexture]
  /\ requested \subseteq Textures
  /\ containers \subseteq requested
  /\ content \in [Textures -> MaybeTexture]
  /\ mainPc \in {"frame", "erase", "closing", "closed"}
  /\ threadPc \in {"poll", "front", "test", "map", "decode", "mark", "stopped"}
  /\ slot \in Nat /\ slot <= buffer
  /\ path \in MaybeTexture
  /\ stopRequested \in BOOLEAN

(* TextureManager is the loading queue of LoadQueue, although the thread    *)
(* stores through a pointer whose target the main thread moves: no request  *)
(* is overtaken or dropped, no image reaches a texture that is not being    *)
(* served, and until a bad file was marked each texture that is served gets *)
(* its own image; the queue stands still only if a push has taken the mark  *)
(* of a good first request.  Between upload and erase the request counts as *)
(* served.                                                                  *)
Ids(s) == [i \in 1..Len(s) |-> s[i].texture]

Unserved == IF mainPc = "erase" THEN Tail(requests) ELSE requests

Queue == INSTANCE LoadQueue WITH
  bad       <- corrupt,
  waiting   <- Ids(Unserved),
  processed <- Unserved # <<>> /\ Head(Unserved).processed,
  stalled   <- /\ Unserved # <<>> /\ ~Head(Unserved).processed
               /\ Head(Unserved).data # NoTexture
               /\ ~(threadPc = "mark" /\ SlotIsCurrent),
  present   <- containers,
  filled    <- {t \in Textures : content[t] = t}

ImplementsLoadQueue ==
  /\ []TypeOK
  /\ Queue!Spec

(* t has its image, or nobody waits for it any more.                        *)
Loads(t) == content[t] = t \/ t \notin containers \/ stopRequested

(* The vector grew between the thread's two stores: its first request has   *)
(* pixels, so the thread leaves it alone, and is not marked, so the main    *)
(* thread does too.                                                         *)
MarkLost ==
  /\ requests # <<>>
  /\ Head(requests).data # NoTexture
  /\ ~Head(requests).processed
  /\ threadPc = "poll"

(* While the loop runs, a texture that was requested and stays referenced   *)
(* gets its image (PreLoader::AllTexturesLoaded polled from the render loop *)
(* becomes true), unless a mark is lost or a bad file is tried before it:   *)
(* those are the two ways for a texture to wait for ever.                   *)
LoadedOrMarkLost ==
  \A t \in Textures : t \in requested ~> Loads(t) \/ MarkLost \/ spoiled

(* A file that cannot be loaded does not block the queue: while the loop    *)
(* runs and no mark is lost, every request leaves it.                       *)
Waits(t) == \E i \in DOMAIN requests : requests[i].texture = t

QueueDrains ==
  \A t \in Textures : Waits(t) ~> ~Waits(t) \/ stopRequested \/ MarkLost

(* TextureManager::Close returns whatever the thread was doing.             *)
CloseReturns == mainPc = "closing" ~> mainPc = "closed"
=============================================================================
