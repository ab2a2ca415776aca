------------------------ MODULE TextureLoaderProofs -------------------------
(***************************************************************************)
(* TextureLoader implements LoadQueue, for any number of textures.         *)
(*                                                                         *)
(* The refinement needs to know that nobody has touched the requests       *)
(* behind the first (Untouched), that a thread about to store pixels finds *)
(* none (StoresAreFirst), and that a first request that is processed holds *)
(* its own image until a bad file was marked.  RightSoFar says so, and     *)
(* why: a thread whose pointer is still into the current buffer stores     *)
(* into the request whose path it has read (StoresAreRight), because the   *)
(* main thread erases only a request that is processed, and one with an    *)
(* image keeps the thread away.                                            *)
(***************************************************************************)
EXTENDS TextureLoader, SequenceTheorems, TLAPS

First == requests[1]

(* The requests behind the first are as they were pushed.                   *)
Untouched == \A k \in 2..Len(requests) : requests[k].data = NoTexture /\ ~requests[k].processed

(* The first has no pixels but its own, and has them once it is processed.  *)
FirstIsRight ==
  requests # <<>> =>
    /\ First.data \in {NoTexture, First.texture}
    /\ First.processed => First.texture \notin corrupt /\ First.data = First.texture
    /\ mainPc = "erase" => First.processed

(* A thread that is to store through a pointer which is still good stores   *)
(* into the request it has read the path of.                                *)
StoresAreRight ==
  slot = buffer /\ threadPc \in {"map", "decode", "mark"} =>
    /\ requests # <<>> /\ ~First.processed
    /\ threadPc = "map" \/ threadPc = "decode" => First.data = NoTexture
    /\ threadPc = "decode" \/ threadPc = "mark" => path = First.texture
    /\ threadPc = "mark" => First.data = IF First.texture \in corrupt THEN NoTexture ELSE First.texture

(* What the last erase left in the first slot keeps the thread from it.     *)
NothingIsLeft ==
  /\ mainPc = "erase" => requests # <<>>
  /\ requests = <<>> /\ threadPc \in {"front", "test"} => leftover.data # NoTexture

RightSoFar == ~spoiled => FirstIsRight /\ StoresAreRight /\ NothingIsLeft

(* Whatever was marked, the thread stores pixels where there are none yet.  *)
StoresAreFirst ==
  slot = buffer /\ threadPc \in {"map", "decode"} /\ requests # <<>> => First.data = NoTexture

IInv ==
  /\ TypeOK /\ (mainPc = "erase" => requests # <<>>)
  /\ Untouched /\ StoresAreFirst /\ RightSoFar
-----------------------------------------------------------------------------
(* What a sequence of requests is made of.                                  *)
LEMMA RequestsSeq ==
  ASSUME NEW s \in Seq(TextureRequest)
  PROVE  /\ Len(s) \in Nat
         /\ s = <<>> <=> Len(s) = 0
         /\ \A k \in 1..Len(s) : s[k] \in TextureRequest
<1>1. Len(s) \in Nat /\ (s # <<>> => Len(s) \in Nat \ {0}) /\ Len(<<>>) = 0
  BY EmptySeq
<1>2. \A k \in 1..Len(s) : s[k] \in TextureRequest
  BY ElementOfSeq
<1> QED  BY <1>1, <1>2

(* A request that is pushed comes last and moves no other.                  *)
LEMMA PushProperties ==
  ASSUME NEW s \in Seq(TextureRequest), NEW r \in TextureRequest
  PROVE  /\ Append(s, r) \in Seq(TextureRequest)
         /\ Append(s, r) # <<>>
         /\ Len(Append(s, r)) = Len(s) + 1
         /\ \A k \in 1..Len(s) : Append(s, r)[k] = s[k]
         /\ Append(s, r)[Len(s) + 1] = r
<1>1. /\ Append(s, r) \in Seq(TextureRequest)
      /\ Len(Append(s, r)) = Len(s) + 1
      /\ \A k \in 1..Len(s) : Append(s, r)[k] = s[k]
      /\ Append(s, r)[Len(s) + 1] = r
  BY AppendProperties
<1>2. Append(s, r) # <<>>
  BY <1>1, RequestsSeq
<1> QED  BY <1>1, <1>2

(* The texture ids of the requests, in order.                               *)
LEMMA IdsProperties ==
  ASSUME NEW s \in Seq(TextureRequest)
  PROVE  /\ Ids(s) \in Seq(Textures)
         /\ Len(Ids(s)) = Len(s)
         /\ \A k \in 1..Len(s) : Ids(s)[k] = s[k].texture
<1> DEFINE p == Ids(s)
<1>1. Len(s) \in Nat /\ \A k \in 1..Len(s) : s[k].texture \in Textures
  BY RequestsSeq DEF TextureRequest
<1>2. p \in [1..Len(s) -> Textures] /\ \A k \in 1..Len(s) : p[k] = s[k].texture
  BY <1>1 DEF Ids
<1> HIDE DEF p
<1>3. p \in Seq(Textures)
  BY <1>1, <1>2
<1>4. Len(p) = Len(s)
  <2>1. 1..Len(p) = 1..Len(s) /\ Len(p) \in Nat
    BY <1>2, <1>3, LenProperties
  <2> QED  BY <1>1, <2>1
<1> QED  BY <1>2, <1>3, <1>4 DEF p

(* Pushing a request appends its id; erasing the first drops its id.        *)
LEMMA IdsOfPush ==
  ASSUME NEW s \in Seq(TextureRequest), NEW r \in TextureRequest
  PROVE  Ids(Append(s, r)) = Append(Ids(s), r.texture)
<1>1. r.texture \in Textures
  BY DEF TextureRequest
<1>2. /\ Ids(s) \in Seq(Textures) /\ Len(Ids(s)) = Len(s) /\ Len(s) \in Nat
      /\ \A k \in 1..Len(s) : Ids(s)[k] = s[k].texture
  BY IdsProperties, RequestsSeq
<1>3. /\ Ids(Append(s, r)) \in Seq(Textures)
      /\ Len(Ids(Append(s, r))) = Len(s) + 1
      /\ \A k \in 1..(Len(s) + 1) : Ids(Append(s, r))[k] = Append(s, r)[k].texture
  BY PushProperties, IdsProperties
<1>4. /\ Append(Ids(s), r.texture) \in Seq(Textures)
      /\ Len(Append(Ids(s), r.texture)) = Len(s) + 1
      /\ \A k \in 1..Len(s) : Append(Ids(s), r.texture)[k] = Ids(s)[k]
      /\ Append(Ids(s), r.texture)[Len(s) + 1] = r.texture
  BY <1>1, <1>2, AppendProperties
<1>5. \A k \in 1..(Len(s) + 1) : Ids(Append(s, r))[k] = Append(Ids(s), r.texture)[k]
  <2> TAKE k \in 1..(Len(s) + 1)
  <2>1. CASE k = Len(s) + 1
    BY <1>3, <1>4, <2>1, PushProperties
  <2>2. CASE k # Len(s) + 1
    <3>1. k \in 1..Len(s)
      BY <1>2, <2>2
    <3> QED  BY <1>2, <1>3, <1>4, <3>1, PushProperties
  <2> QED  BY <2>1, <2>2
<1> QED  BY <1>3, <1>4, <1>5, SeqEqual

LEMMA IdsOfTail ==
  ASSUME NEW s \in Seq(TextureRequest), s # <<>>
  PROVE  /\ Ids(Tail(s)) = Tail(Ids(s))
         /\ Ids(s) # <<>> /\ Head(Ids(s)) = s[1].texture
<1>1. /\ Ids(s) \in Seq(Textures) /\ Len(Ids(s)) = Len(s)
      /\ \A k \in 1..Len(s) : Ids(s)[k] = s[k].texture
      /\ Len(s) \in Nat \ {0}
  BY IdsProperties, RequestsSeq
<1>2. Ids(s) # <<>> /\ 1 \in 1..Len(s)
  BY <1>1, EmptySeq
<1>3. /\ Tail(s) \in Seq(TextureRequest) /\ Len(Tail(s)) = Len(s) - 1
      /\ \A k \in 1..Len(Tail(s)) : Tail(s)[k] = s[k + 1]
  BY HeadTailProperties
<1>4. /\ Tail(Ids(s)) \in Seq(Textures) /\ Len(Tail(Ids(s))) = Len(s) - 1
      /\ \A k \in 1..Len(Tail(Ids(s))) : Tail(Ids(s))[k] = Ids(s)[k + 1]
      /\ Head(Ids(s)) = Ids(s)[1]
  BY <1>1, <1>2, HeadTailProperties
<1>5. /\ Ids(Tail(s)) \in Seq(Textures) /\ Len(Ids(Tail(s))) = Len(s) - 1
      /\ \A k \in 1..Len(Tail(s)) : Ids(Tail(s))[k] = Tail(s)[k].texture
  BY <1>3, IdsProperties
<1>6. \A k \in 1..(Len(s) - 1) : Ids(Tail(s))[k] = Tail(Ids(s))[k]
  <2> TAKE k \in 1..(Len(s) - 1)
  <2>1. k + 1 \in 1..Len(s)
    BY <1>1
  <2> QED  BY <1>1, <1>3, <1>4, <1>5, <2>1
<1>7. Ids(Tail(s)) = Tail(Ids(s))
  BY <1>4, <1>5, <1>6, SeqEqual
<1> QED  BY <1>1, <1>2, <1>4, <1>7

(* A store into the first request changes no other, and no id.              *)
LEMMA StoreProperties ==
  ASSUME NEW s \in Seq(TextureRequest), s # <<>>, NEW r \in TextureRequest, r.texture = s[1].texture
  PROVE  LET u == [s EXCEPT ![1] = r]
         IN  /\ u \in Seq(TextureRequest) /\ u # <<>> /\ Len(u) = Len(s)
             /\ u[1] = r
             /\ \A k \in 2..Len(s) : u[k] = s[k]
             /\ Ids(u) = Ids(s)
<1> DEFINE u == [s EXCEPT ![1] = r]
<1>1. Len(s) \in Nat \ {0} /\ 1 \in 1..Len(s)
  BY RequestsSeq
<1>2. /\ u \in Seq(TextureRequest) /\ Len(u) = Len(s)
      /\ \A k \in 1..Len(s) : u[k] = IF k = 1 THEN r ELSE s[k]
  BY <1>1, ExceptSeq
<1> HIDE DEF u
<1>3. u # <<>> /\ u[1] = r /\ \A k \in 2..Len(s) : u[k] = s[k]
  BY <1>1, <1>2, RequestsSeq
<1>4. Ids(u) = Ids(s)
  <2>1. \A k \in 1..Len(s) : u[k].texture = s[k].texture
    BY <1>2
  <2> QED  BY <1>2, <2>1 DEF Ids
<1> QED  BY <1>2, <1>3, <1>4 DEF u
-----------------------------------------------------------------------------
(* The initial state.                                                       *)
LEMMA InitHolds == ASSUME Init PROVE IInv
<1> USE DEF Init
<1>1. TypeOK
  <2>1. requests \in Seq(TextureRequest) /\ Len(requests) = 0
    BY EmptySeq
  <2>2. /\ corrupt \subseteq Doubtful /\ buffer \in Nat /\ capacity \in Nat /\ capacity = 0
        /\ requested \subseteq Textures /\ containers \subseteq requested
        /\ mainPc = "frame" /\ threadPc = "poll"
        /\ slot \in Nat /\ slot <= buffer
    OBVIOUS
  <2>4. stopRequested \in BOOLEAN /\ spoiled \in BOOLEAN
    OBVIOUS
  <2>3. /\ leftover \in [texture : MaybeTexture, processed : BOOLEAN, data : MaybeTexture]
        /\ content \in [Textures -> MaybeTexture] /\ path \in MaybeTexture
    BY DEF MaybeTexture
  <2> HIDE DEF Init
  <2> QED  BY <2>1, <2>2, <2>3, <2>4 DEF TypeOK
<1>2. Untouched /\ StoresAreFirst /\ RightSoFar
  <2>1. requests = <<>> /\ Len(<<>>) = 0 /\ threadPc = "poll" /\ mainPc = "frame"
    OBVIOUS
  <2> QED  BY <2>1 DEF RightSoFar, Untouched, StoresAreFirst, FirstIsRight, StoresAreRight, NothingIsLeft
<1> QED  BY <1>1, <1>2 DEF IInv

(* The first of some requests.                                              *)
LEMMA FirstFacts ==
  ASSUME TypeOK, requests # <<>>
  PROVE  /\ Len(requests) \in Nat \ {0} /\ 1 \in 1..Len(requests)
         /\ First \in TextureRequest /\ First.texture \in Textures
         /\ First.processed \in BOOLEAN /\ First.data \in MaybeTexture
         /\ Head(requests) = First
<1>1. requests \in Seq(TextureRequest)
  BY DEF TypeOK
<1>2. Len(requests) \in Nat \ {0} /\ 1 \in 1..Len(requests) /\ First \in TextureRequest
  BY <1>1, RequestsSeq DEF First
<1>3. Head(requests) = First
  BY <1>1, HeadTailProperties DEF First
<1> QED  BY <1>2, <1>3 DEF TextureRequest

(* A request adds one at the end, and leaves the thread's pointer behind    *)
(* when it makes the vector grow.                                           *)
LEMMA RequestKeeps ==
  ASSUME IInv, NEW t \in Textures, Request(t)
  PROVE  IInv'
<1> DEFINE r == [texture |-> t, processed |-> FALSE, data |-> NoTexture]
<1>0. /\ r \in TextureRequest /\ r.data = NoTexture /\ ~r.processed
      /\ requests' = Append(requests, r) /\ requests \in Seq(TextureRequest)
      /\ mainPc = "frame" /\ UNCHANGED <<mainPc, threadPc, slot, path, corrupt, spoiled>>
  BY DEF IInv, TypeOK, Request, TextureRequest, MaybeTexture, threadVars, fileVars
<1>1. /\ requests' \in Seq(TextureRequest) /\ requests' # <<>>
      /\ Len(requests') = Len(requests) + 1 /\ Len(requests) \in Nat
      /\ \A k \in 1..Len(requests) : requests'[k] = requests[k]
      /\ requests'[Len(requests) + 1] = r
  BY <1>0, PushProperties, RequestsSeq
<1> HIDE DEF r
<1>2. buffer' \in Nat /\ capacity' \in Nat /\ Len(requests') <= capacity' /\ slot <= buffer'
  <2>1. capacity \in Nat /\ Grown(capacity) \in Nat /\ capacity + 1 <= Grown(capacity)
    BY DEF IInv, TypeOK, Grown
  <2>2. /\ buffer \in Nat /\ slot \in Nat /\ slot <= buffer /\ Len(requests) <= capacity
        /\ IF Len(requests) < capacity
             THEN buffer' = buffer /\ capacity' = capacity
             ELSE buffer' = buffer + 1 /\ capacity' = Grown(capacity)
    BY DEF IInv, TypeOK, Request
  <2> QED  BY <1>1, <2>1, <2>2
<1>3. TypeOK'
  <2>1. requested' \subseteq Textures /\ containers' \subseteq requested' /\ content' \in [Textures -> MaybeTexture]
    BY DEF IInv, TypeOK, Request
  <2>2. UNCHANGED <<corrupt, spoiled, leftover, mainPc, stopRequested, threadPc, slot, path>>
    BY DEF Request, threadVars, fileVars
  <2> QED  BY <1>1, <1>2, <2>1, <2>2 DEF IInv, TypeOK
<1>5. Untouched'
  <2> SUFFICES ASSUME NEW k \in 2..Len(requests')
               PROVE  requests'[k].data = NoTexture /\ ~requests'[k].processed
    BY DEF Untouched
  <2>1. CASE k = Len(requests) + 1
    BY <2>1, <1>0, <1>1
  <2>2. CASE k # Len(requests) + 1
    <3>1. k \in 2..Len(requests) /\ requests'[k] = requests[k]
      BY <2>2, <1>1
    <3> QED  BY <3>1 DEF IInv, Untouched
  <2> QED  BY <2>1, <2>2
<1>6. StoresAreFirst'
  <2>1. slot' = buffer' => buffer' = buffer
    BY <1>0 DEF IInv, TypeOK, Request
  <2>2. requests = <<>> => First' = r
    BY <1>0, <1>1, RequestsSeq DEF First
  <2>3. requests # <<>> => First' = First
    BY <1>0, <1>1, RequestsSeq DEF First
  <2> QED  BY <1>0, <2>1, <2>2, <2>3 DEF IInv, StoresAreFirst
<1>4. RightSoFar'
  <2> SUFFICES ASSUME ~spoiled PROVE (FirstIsRight /\ StoresAreRight /\ NothingIsLeft)'
    BY <1>0 DEF RightSoFar
  <2>0. FirstIsRight /\ StoresAreRight
    BY DEF IInv, RightSoFar
  <2>2. CASE requests = <<>>
    <3>1. requests'[1] = r
      BY <2>2, <1>0, <1>1, RequestsSeq
    <3>2. FirstIsRight'
      BY <3>1, <1>0 DEF FirstIsRight, First
    <3>3. StoresAreRight'
      <4>1. slot' = buffer' => buffer' = buffer
        BY <1>0 DEF IInv, TypeOK, Request
      <4> QED  BY <4>1, <2>0, <2>2, <1>0 DEF StoresAreRight
    <3>4. NothingIsLeft'
      BY <1>0, <1>1 DEF NothingIsLeft
    <3> QED  BY <3>2, <3>3, <3>4
  <2>3. CASE requests # <<>>
    <3>1. First' = First
      BY <2>3, <1>0, <1>1, RequestsSeq DEF First
    <3>2. FirstIsRight'
      BY <3>1, <2>0, <2>3, <1>0 DEF FirstIsRight
    <3>3. StoresAreRight'
      <4>1. slot' = buffer' => buffer' = buffer
        BY <1>0 DEF IInv, TypeOK, Request
      <4> QED  BY <4>1, <3>1, <2>0, <1>0, <1>1 DEF StoresAreRight
    <3>4. NothingIsLeft'
      BY <1>0, <1>1 DEF NothingIsLeft
    <3> QED  BY <3>2, <3>3, <3>4
  <2> QED  BY <2>2, <2>3
<1> QED  BY <1>0, <1>3, <1>4, <1>5, <1>6 DEF IInv

(* The erase brings the next request forward, untouched; no thread is to    *)
(* store into the one that goes, which was processed.                       *)
LEMMA EraseFirstKeeps ==
  ASSUME IInv, EraseFirst
  PROVE  IInv'
<1>0. /\ mainPc = "erase" /\ mainPc' = "frame" /\ requests # <<>> /\ requests \in Seq(TextureRequest)
      /\ requests' = Tail(requests) /\ leftover' = Head(requests)
      /\ UNCHANGED <<buffer, capacity, threadPc, slot, path, corrupt, spoiled>>
  BY DEF IInv, TypeOK, EraseFirst, threadVars, fileVars
<1>1. /\ requests' \in Seq(TextureRequest) /\ Len(requests') = Len(requests) - 1
      /\ Len(requests) \in Nat \ {0}
      /\ \A k \in 1..Len(requests') : requests'[k] = requests[k + 1]
  BY <1>0, HeadTailProperties, RequestsSeq
<1>2. /\ leftover' = First /\ First \in TextureRequest
      /\ First.texture \in Textures /\ First.texture # NoTexture
  BY <1>0, FirstFacts, NoTextureIsNone DEF IInv
<1>3. TypeOK'
  <2>1. leftover' \in [texture : MaybeTexture, processed : BOOLEAN, data : MaybeTexture]
    BY <1>2 DEF TextureRequest, MaybeTexture
  <2>2. Len(requests') <= capacity'
    BY <1>0, <1>1 DEF IInv, TypeOK
  <2>3. UNCHANGED <<requested, containers, content, stopRequested>>
    BY DEF EraseFirst
  <2> QED  BY <1>0, <1>1, <2>1, <2>2, <2>3 DEF IInv, TypeOK
<1>5. Untouched'
  <2> SUFFICES ASSUME NEW k \in 2..Len(requests')
               PROVE  requests'[k].data = NoTexture /\ ~requests'[k].processed
    BY DEF Untouched
  <2>1. k \in 1..Len(requests') /\ k + 1 \in 2..Len(requests)
    BY <1>1
  <2> QED  BY <2>1, <1>1 DEF IInv, Untouched
<1>6. requests' # <<>> => First'.data = NoTexture /\ ~First'.processed
  <2> SUFFICES ASSUME requests' # <<>>
               PROVE  First'.data = NoTexture /\ ~First'.processed
    OBVIOUS
  <2>1. 1 \in 1..Len(requests') /\ 2 \in 2..Len(requests)
    BY <1>1, RequestsSeq
  <2>2. First' = requests[2]
    BY <2>1, <1>1 DEF First
  <2> QED  BY <2>1, <2>2 DEF IInv, Untouched
<1>7. StoresAreFirst'
  BY <1>6 DEF StoresAreFirst
<1>4. RightSoFar'
  <2> SUFFICES ASSUME ~spoiled PROVE (FirstIsRight /\ StoresAreRight /\ NothingIsLeft)'
    BY <1>0 DEF RightSoFar
  <2>0. FirstIsRight /\ StoresAreRight
    BY DEF IInv, RightSoFar
  <2>2. First.processed /\ First.data = First.texture
    BY <1>0, <2>0 DEF FirstIsRight
  <2>3. FirstIsRight'
    BY <1>0, <1>6 DEF FirstIsRight
  <2>4. StoresAreRight'
    <3>1. ~(slot = buffer /\ threadPc \in {"map", "decode", "mark"})
      BY <2>0, <2>2 DEF StoresAreRight
    <3> QED  BY <3>1, <1>0 DEF StoresAreRight
  <2>5. NothingIsLeft'
    BY <1>0, <1>2, <2>2 DEF NothingIsLeft
  <2> QED  BY <2>3, <2>4, <2>5
<1> QED  BY <1>0, <1>3, <1>4, <1>5, <1>7 DEF IInv

(* The other steps of the main thread leave the queue alone.                *)
LEMMA MainKeeps ==
  ASSUME IInv, (\E t \in Textures : PurgeTexture(t)) \/ ApplyTexture \/ BeginClose \/ EndClose
  PROVE  IInv'
<1>1. UNCHANGED <<corrupt, spoiled, requests, buffer, capacity, leftover, requested, threadPc, slot, path>>
  BY DEF PurgeTexture, ApplyTexture, BeginClose, EndClose, queueVars, threadVars, fileVars
<1>2. /\ mainPc' \in {"frame", "erase", "closing", "closed"}
      /\ mainPc' = "erase" => requests # <<>> /\ First.processed
  <2>1. CASE ApplyTexture
    BY <2>1, FirstFacts DEF ApplyTexture, IInv
  <2>2. CASE ~ApplyTexture
    BY <2>2 DEF PurgeTexture, BeginClose, EndClose
  <2> QED  BY <2>1, <2>2
<1>3. TypeOK'
  <2>1. containers' \subseteq requested' /\ content' \in [Textures -> MaybeTexture]
    <3>1. CASE ApplyTexture
      <4>1. requests # <<>>
        BY <3>1 DEF ApplyTexture
      <4>2. First.texture \in Textures /\ First.data \in MaybeTexture /\ Head(requests) = First
        BY <4>1, FirstFacts DEF IInv
      <4> QED  BY <1>1, <3>1, <4>2 DEF ApplyTexture, IInv, TypeOK
    <3>2. CASE \E t \in Textures : PurgeTexture(t)
      BY <1>1, <3>2 DEF PurgeTexture, IInv, TypeOK, MaybeTexture
    <3>3. CASE BeginClose \/ EndClose
      BY <1>1, <3>3 DEF BeginClose, EndClose, IInv, TypeOK
    <3> QED  BY <3>1, <3>2, <3>3
  <2>2. stopRequested' \in BOOLEAN
    BY DEF PurgeTexture, ApplyTexture, BeginClose, EndClose, IInv, TypeOK
  <2> QED  BY <1>1, <1>2, <2>1, <2>2 DEF IInv, TypeOK
<1>4. Untouched' /\ StoresAreFirst'
  BY <1>1 DEF IInv, Untouched, StoresAreFirst, First
<1>5. RightSoFar'
  BY <1>1, <1>2 DEF IInv, RightSoFar, FirstIsRight, First, StoresAreRight, NothingIsLeft
<1> QED  BY <1>1, <1>2, <1>3, <1>4, <1>5 DEF IInv

(* The thread's steps up to its stores write nothing the queue is made of.  *)
LEMMA LookKeeps ==
  ASSUME IInv, SeeRequest \/ Stop \/ TakeFront \/ TestData \/ MapPath
  PROVE  IInv'
<1>1. /\ UNCHANGED <<corrupt, spoiled, requests, buffer, capacity, leftover>>
      /\ UNCHANGED <<requested, containers, content, mainPc, stopRequested>>
  BY DEF SeeRequest, Stop, TakeFront, TestData, MapPath, queueVars, mainVars, fileVars
<1>2. TypeOK'
  <2>1. slot' \in Nat /\ slot' <= buffer
    BY DEF SeeRequest, Stop, TakeFront, TestData, MapPath, IInv, TypeOK
  <2>2. threadPc' \in {"poll", "front", "test", "map", "decode", "mark", "stopped"}
    BY DEF SeeRequest, Stop, TakeFront, TestData, MapPath
  <2>3. path' \in MaybeTexture
    <3>1. CASE MapPath
      <4>1. CASE requests # <<>>
        BY <3>1, <4>1, FirstFacts DEF MapPath, IInv, MaybeTexture
      <4>2. CASE requests = <<>>
        BY <3>1, <4>2 DEF MapPath, MaybeTexture
      <4> QED  BY <4>1, <4>2
    <3>2. CASE ~MapPath
      BY <3>2 DEF SeeRequest, Stop, TakeFront, TestData, IInv, TypeOK
    <3> QED  BY <3>1, <3>2
  <2> QED  BY <1>1, <2>1, <2>2, <2>3 DEF IInv, TypeOK
<1>4. Untouched'
  BY <1>1 DEF IInv, Untouched
<1>5. StoresAreFirst'
  <2>1. CASE TestData
    <3>1. slot = buffer /\ threadPc' = "map" /\ requests # <<>> => First.data = NoTexture
      BY <2>1, FirstFacts DEF TestData, SlotIsCurrent, IInv
    <3> QED  BY <1>1, <2>1, <3>1 DEF TestData, StoresAreFirst, First
  <2>2. CASE MapPath
    BY <1>1, <2>2 DEF MapPath, StoresAreFirst, First, IInv
  <2>3. CASE SeeRequest \/ Stop \/ TakeFront
    BY <2>3 DEF SeeRequest, Stop, TakeFront, StoresAreFirst
  <2> QED  BY <2>1, <2>2, <2>3
<1>3. RightSoFar'
  <2> SUFFICES ASSUME ~spoiled PROVE (FirstIsRight /\ StoresAreRight /\ NothingIsLeft)'
    BY <1>1 DEF RightSoFar
  <2>0. FirstIsRight /\ StoresAreRight /\ NothingIsLeft
    BY DEF IInv, RightSoFar
  <2>1. FirstIsRight'
    BY <1>1, <2>0 DEF FirstIsRight, First
  <2>2. CASE SeeRequest \/ Stop \/ TakeFront
    <3>1. StoresAreRight'
      BY <2>2 DEF SeeRequest, Stop, TakeFront, StoresAreRight
    <3>2. NothingIsLeft'
      BY <1>1, <2>0, <2>2 DEF SeeRequest, Stop, TakeFront, NothingIsLeft
    <3> QED  BY <2>1, <3>1, <3>2
  <2>3. CASE TestData
    <3>1. NothingIsLeft'
      BY <1>1, <2>0, <2>3 DEF TestData, NothingIsLeft
    <3>2. StoresAreRight'
      <4>1. CASE slot = buffer /\ threadPc' = "map"
        <5>1. requests # <<>>
          BY <2>0, <2>3, <4>1 DEF TestData, SlotIsCurrent, NothingIsLeft
        <5>2. Head(requests) = First /\ First.texture # NoTexture
          BY <5>1, FirstFacts, NoTextureIsNone DEF IInv
        <5>3. First.data = NoTexture
          BY <2>3, <4>1, <5>1, <5>2 DEF TestData, SlotIsCurrent
        <5>4. ~First.processed
          BY <2>0, <5>1, <5>2, <5>3 DEF FirstIsRight
        <5> QED  BY <1>1, <4>1, <5>1, <5>3, <5>4 DEF StoresAreRight, First
      <4>2. CASE ~(slot = buffer /\ threadPc' = "map")
        BY <1>1, <2>3, <4>2 DEF TestData, StoresAreRight
      <4> QED  BY <4>1, <4>2
    <3> QED  BY <2>1, <3>1, <3>2
  <2>4. CASE MapPath
    <3>1. NothingIsLeft'
      BY <1>1, <2>0, <2>4 DEF MapPath, NothingIsLeft
    <3>2. StoresAreRight'
      <4>1. CASE slot = buffer
        <5>1. requests # <<>> /\ ~First.processed /\ First.data = NoTexture
          BY <2>0, <2>4, <4>1 DEF MapPath, StoresAreRight
        <5>2. path' = First.texture
          BY <2>4, <4>1, <5>1, FirstFacts DEF MapPath, SlotIsCurrent, IInv
        <5> QED  BY <1>1, <2>4, <5>1, <5>2 DEF MapPath, StoresAreRight, First
      <4>2. CASE slot # buffer
        BY <1>1, <2>4, <4>2 DEF MapPath, StoresAreRight
      <4> QED  BY <4>1, <4>2
    <3> QED  BY <2>1, <3>1, <3>2
  <2> QED  BY <2>2, <2>3, <2>4
<1> QED  BY <1>1, <1>2, <1>3, <1>4, <1>5 DEF IInv

(* The thread's stores reach no request but the one whose path it has read; *)
(* they change no id.                                                       *)
LEMMA StoresKeep ==
  ASSUME IInv, Decode \/ MarkProcessed
  PROVE  IInv' /\ Ids(requests') = Ids(requests)
<1>1. /\ UNCHANGED <<corrupt, buffer, capacity, leftover, slot, path>>
      /\ UNCHANGED <<requested, containers, content, mainPc, stopRequested>>
      /\ requests \in Seq(TextureRequest)
      /\ spoiled' \in BOOLEAN /\ (spoiled => spoiled')
  BY DEF Decode, MarkProcessed, mainVars, fileVars, IInv, TypeOK
<1>2. /\ Decode => threadPc = "decode" /\ threadPc' = "mark"
      /\ MarkProcessed => threadPc = "mark" /\ threadPc' = "poll"
  BY DEF Decode, MarkProcessed
<1>3. CASE ~(slot = buffer /\ requests # <<>>)
  <2>1. requests' = requests
    BY <1>3 DEF Decode, MarkProcessed, StoreData, StoreProcessed, SlotIsCurrent
  <2>2. TypeOK'
    BY <1>1, <1>2, <2>1 DEF IInv, TypeOK
  <2>3. Untouched' /\ StoresAreFirst'
    BY <1>1, <1>2, <1>3, <2>1 DEF IInv, Untouched, StoresAreFirst, First
  <2>4. RightSoFar'
    BY <1>1, <1>2, <1>3, <2>1
       DEF IInv, RightSoFar, FirstIsRight, First, StoresAreRight, NothingIsLeft
  <2> QED  BY <1>1, <2>1, <2>2, <2>3, <2>4 DEF IInv
<1>4. CASE slot = buffer /\ requests # <<>>
  <2> DEFINE d == IF path \in Loadable THEN path ELSE NoTexture
             r == IF Decode THEN [First EXCEPT !.data = d] ELSE [First EXCEPT !.processed = TRUE]
  <2>1. /\ Len(requests) \in Nat \ {0} /\ 1 \in DOMAIN requests
        /\ First \in TextureRequest /\ First.texture # NoTexture /\ First.texture \in Textures
    BY <1>1, <1>4, FirstFacts, NoTextureIsNone DEF IInv
  <2>2. requests' = [requests EXCEPT ![1] = r]
    BY <1>1, <1>2, <1>4, <2>1 DEF Decode, MarkProcessed, StoreData, StoreProcessed, SlotIsCurrent, First
  <2>3. /\ r \in TextureRequest /\ r.texture = First.texture
        /\ Decode => r.data = d /\ r.processed = First.processed
        /\ MarkProcessed => r.data = First.data /\ r.processed = TRUE
    <3>1. d \in MaybeTexture
      BY DEF Loadable, MaybeTexture
    <3> HIDE DEF d
    <3> QED  BY <1>2, <2>1, <3>1 DEF TextureRequest
  <2> HIDE DEF r
  <2>4. /\ requests' \in Seq(TextureRequest) /\ requests' # <<>> /\ Len(requests') = Len(requests)
        /\ First' = r /\ \A k \in 2..Len(requests) : requests'[k] = requests[k]
        /\ Ids(requests') = Ids(requests)
    <3>1. r.texture = requests[1].texture
      BY <2>3 DEF First
    <3> QED  BY <1>1, <1>4, <2>2, <2>3, <3>1, StoreProperties DEF First
  <2>5. TypeOK'
    BY <1>1, <1>2, <2>4 DEF IInv, TypeOK
  <2>6. Untouched' /\ StoresAreFirst'
    <3>1. Untouched'
      BY <2>4 DEF IInv, Untouched
    <3>2. StoresAreFirst'
      BY <1>2 DEF StoresAreFirst
    <3> QED  BY <3>1, <3>2
  <2>7. RightSoFar'
    <3> SUFFICES ASSUME ~spoiled' PROVE (FirstIsRight /\ StoresAreRight /\ NothingIsLeft)'
      BY DEF RightSoFar
    <3>0. FirstIsRight /\ StoresAreRight /\ NothingIsLeft
      BY <1>1 DEF IInv, RightSoFar
    <3>2. /\ ~First.processed /\ path = First.texture
          /\ Decode => First.data = NoTexture
          /\ MarkProcessed => First.data = IF First.texture \in corrupt THEN NoTexture ELSE First.texture
      BY <1>2, <1>4, <3>0 DEF StoresAreRight
    <3>3. MarkProcessed => First.texture \notin corrupt
      BY <1>4, FirstFacts DEF MarkProcessed, SlotIsCurrent, IInv
    <3>4. /\ First'.texture = First.texture
          /\ First'.data = IF First.texture \in corrupt THEN NoTexture ELSE First.texture
          /\ Decode => ~First'.processed
      BY <2>1, <2>3, <2>4, <3>2 DEF Loadable
    <3>5. mainPc # "erase"
      BY <1>4, <3>0, <3>2 DEF FirstIsRight
    <3>6. FirstIsRight'
      BY <1>1, <3>3, <3>4, <3>5 DEF FirstIsRight
    <3>7. StoresAreRight'
      BY <1>1, <1>2, <2>4, <3>2, <3>4 DEF StoresAreRight
    <3>8. NothingIsLeft'
      BY <1>1, <1>2, <2>4 DEF NothingIsLeft
    <3> QED  BY <3>6, <3>7, <3>8
  <2> QED  BY <1>1, <2>4, <2>5, <2>6, <2>7 DEF IInv
<1> QED  BY <1>3, <1>4

(* Every step keeps the invariant.                                          *)
LEMMA NextKeeps == ASSUME IInv, [Next]_vars PROVE IInv'
<1>1. ASSUME NEW t \in Textures, Request(t) PROVE IInv'
  BY <1>1, RequestKeeps
<1>2. CASE EraseFirst
  BY <1>2, EraseFirstKeeps
<1>3. CASE (\E t \in Textures : PurgeTexture(t)) \/ ApplyTexture \/ BeginClose \/ EndClose
  BY <1>3, MainKeeps
<1>4. CASE SeeRequest \/ Stop \/ TakeFront \/ TestData \/ MapPath
  BY <1>4, LookKeeps
<1>5. CASE Decode \/ MarkProcessed
  BY <1>5, StoresKeep
<1>6. CASE UNCHANGED vars
  BY <1>6 DEF vars, fileVars, queueVars, mainVars, threadVars, IInv, TypeOK, RightSoFar, Untouched,
              StoresAreFirst, FirstIsRight, First, StoresAreRight, NothingIsLeft
<1> QED  BY <1>1, <1>2, <1>3, <1>4, <1>5, <1>6 DEF Next, ThreadStep, Terminated
-----------------------------------------------------------------------------
(* The abstract queue's variables, as the refinement maps them.             *)
Waiting == Ids(Unserved)
Marked  == Unserved # <<>> /\ Head(Unserved).processed
Stalled ==
  /\ Unserved # <<>> /\ ~Head(Unserved).processed
  /\ Head(Unserved).data # NoTexture
  /\ ~(threadPc = "mark" /\ SlotIsCurrent)
Filled  == {t \in Textures : content[t] = t}

queue == <<corrupt, Waiting, Marked, Stalled, spoiled, containers, Filled>>

(* The initial states are initial states of the abstract queue.             *)
LEMMA InitRefines == ASSUME Init PROVE Queue!Init
<1>1. Unserved = <<>> /\ Ids(Unserved) = <<>>
  <2>0. Unserved = <<>>
    BY DEF Init, Unserved
  <2>1. Unserved \in Seq(TextureRequest) /\ Len(Unserved) = 0
    BY <2>0, EmptySeq
  <2>2. Ids(Unserved) \in Seq(Textures) /\ Len(Ids(Unserved)) = 0
    BY <2>1, IdsProperties
  <2> QED  BY <2>0, <2>2, EmptySeq
<1>2. Filled = {} /\ containers = {} /\ corrupt \subseteq Textures /\ spoiled = FALSE
  BY NoTextureIsNone, DoubtfulAreTextures DEF Init, Filled
<1>3. Marked = FALSE /\ Stalled = FALSE
  BY <1>1 DEF Marked, Stalled
<1> QED  BY <1>1, <1>2, <1>3 DEF Queue!Init, Filled, Marked, Stalled

(* Behind an untouched request comes an untouched one.                      *)
LEMMA TailIsBlank ==
  ASSUME NEW s \in Seq(TextureRequest), s # <<>>,
         \A k \in 2..Len(s) : s[k].data = NoTexture /\ ~s[k].processed,
         Tail(s) # <<>>
  PROVE  /\ Head(Tail(s)) \in TextureRequest
         /\ ~Head(Tail(s)).processed /\ Head(Tail(s)).data = NoTexture
<1>1. /\ Tail(s) \in Seq(TextureRequest) /\ Len(Tail(s)) = Len(s) - 1 /\ Len(s) \in Nat \ {0}
      /\ \A k \in 1..Len(Tail(s)) : Tail(s)[k] = s[k + 1]
  BY HeadTailProperties, RequestsSeq
<1>2. 1 \in 1..Len(Tail(s)) /\ 2 \in 2..Len(s)
  BY <1>1, RequestsSeq
<1>3. Head(Tail(s)) = s[2] /\ s[2] \in TextureRequest
  BY <1>1, <1>2, HeadTailProperties, RequestsSeq
<1> QED  BY <1>2, <1>3

(* A push may move the buffer under a thread that has stored the first      *)
(* one's pixels and is to mark it.                                          *)
LEMMA RequestEnqueues ==
  ASSUME IInv, NEW t \in Textures, Request(t)
  PROVE  Queue!Enqueue(t)
<1> DEFINE r == [texture |-> t, processed |-> FALSE, data |-> NoTexture]
<1>1. /\ r \in TextureRequest /\ r.texture = t /\ r.data = NoTexture /\ ~r.processed
      /\ requests' = Append(requests, r) /\ requests \in Seq(TextureRequest)
      /\ mainPc = "frame" /\ mainPc' = mainPc /\ content' = content
      /\ containers' = containers \union {t}
      /\ UNCHANGED <<corrupt, spoiled, threadPc, slot>>
  BY DEF IInv, TypeOK, Request, TextureRequest, MaybeTexture, threadVars, fileVars
<1>2. buffer' # buffer \/ (slot = buffer <=> slot' = buffer')
  BY <1>1
<1>3. slot' = buffer' => buffer' = buffer
  BY <1>1 DEF IInv, TypeOK, Request
<1> HIDE DEF r
<1>4. Unserved = requests /\ Unserved' = requests'
  BY <1>1 DEF Unserved
<1>5. Waiting' = Append(Waiting, t)
  BY <1>1, <1>4, IdsOfPush DEF Waiting
<1>6. /\ requests' \in Seq(TextureRequest) /\ requests' # <<>> /\ Head(requests') = requests'[1]
      /\ requests = <<>> => requests'[1] = r
      /\ requests # <<>> => requests'[1] = First /\ Head(requests) = First
  <2>1. /\ requests' \in Seq(TextureRequest) /\ requests' # <<>>
        /\ \A k \in 1..Len(requests) : requests'[k] = requests[k]
        /\ requests'[Len(requests) + 1] = r
    BY <1>1, PushProperties
  <2>2. Head(requests') = requests'[1]
    BY <2>1, HeadTailProperties
  <2>3. requests # <<>> => 1 \in 1..Len(requests) /\ Head(requests) = First
    BY FirstFacts DEF IInv
  <2>4. requests = <<>> => Len(requests) = 0
    BY <1>1, RequestsSeq
  <2> QED  BY <2>1, <2>2, <2>3, <2>4 DEF First
<1>7. CASE requests = <<>>
  <2>1. Marked = FALSE /\ Marked' = FALSE /\ Stalled = FALSE /\ Stalled' = FALSE
    BY <1>1, <1>4, <1>6, <1>7 DEF Marked, Stalled
  <2> QED  BY <1>1, <1>4, <1>5, <2>1 DEF Queue!Enqueue, Waiting, Marked, Stalled, Filled
<1>8. CASE requests # <<>>
  <2>1. Waiting # <<>> /\ Head(Waiting) = First.texture
    BY <1>1, <1>4, <1>8, IdsOfTail DEF Waiting, First
  <2>2. First \in TextureRequest /\ First.processed \in BOOLEAN
    BY <1>8, FirstFacts DEF IInv
  <2>3. Marked' = Marked /\ (Marked <=> First.processed)
    BY <1>4, <1>6, <1>8, <2>2 DEF Marked
  <2>4. CASE Stalled' = Stalled
    BY <1>1, <1>5, <2>3, <2>4 DEF Queue!Enqueue, Waiting, Marked, Stalled, Filled
  <2>5. CASE Stalled' # Stalled
    <3>1. /\ ~First.processed /\ First.data # NoTexture /\ threadPc = "mark" /\ slot = buffer
          /\ Stalled' = TRUE
      BY <1>1, <1>3, <1>4, <1>6, <1>8, <2>5 DEF Stalled, SlotIsCurrent
    <3>2. First.texture \notin corrupt \/ spoiled
      BY <3>1 DEF IInv, RightSoFar, StoresAreRight
    <3> QED  BY <1>1, <1>5, <2>1, <2>3, <3>1, <3>2 DEF Queue!Enqueue, Waiting, Marked, Stalled, Filled
  <2> QED  BY <2>4, <2>5
<1> QED  BY <1>7, <1>8

(* Uploading the first request serves it: until a bad file was marked, what *)
(* it holds is its own image.                                               *)
LEMMA ApplyServes ==
  ASSUME IInv, ApplyTexture
  PROVE  Queue!Serve
<1>1. /\ requests # <<>> /\ requests \in Seq(TextureRequest) /\ First.processed /\ Head(requests) = First
      /\ mainPc = "frame" /\ mainPc' = "erase" /\ UNCHANGED <<requests, containers, corrupt, spoiled>>
  BY FirstFacts DEF IInv, TypeOK, ApplyTexture, queueVars, fileVars
<1>2. First.texture \in Textures /\ First.texture # NoTexture /\ First.data \in MaybeTexture
  BY <1>1, FirstFacts, NoTextureIsNone DEF IInv
<1>3. ~spoiled => First.data = First.texture
  BY <1>1 DEF IInv, RightSoFar, FirstIsRight
<1>4. Unserved = requests /\ Unserved' = Tail(requests)
  BY <1>1 DEF Unserved
<1>5. Waiting # <<>> /\ Head(Waiting) = First.texture /\ Waiting' = Tail(Waiting)
  BY <1>1, <1>4, IdsOfTail DEF Waiting, First
<1>6. Marked = TRUE /\ Stalled = FALSE
  BY <1>1, <1>4 DEF Marked, Stalled
<1>7. Marked' = FALSE /\ Stalled' = FALSE
  <2>1. Tail(requests) # <<>> => ~Head(Tail(requests)).processed /\ Head(Tail(requests)).data = NoTexture
    BY <1>1, TailIsBlank DEF IInv, Untouched
  <2> QED  BY <1>4, <2>1 DEF Marked, Stalled
<1>8. content' = IF First.data # NoTexture /\ First.texture \in containers
                   THEN [content EXCEPT ![First.texture] = First.data]
                   ELSE content
  BY <1>1 DEF ApplyTexture
<1>9. content \in [Textures -> MaybeTexture]
  BY DEF IInv, TypeOK
<1>10. IF spoiled
         THEN /\ Filled \ {First.texture} \subseteq Filled'
              /\ Filled' \subseteq Filled \union ({First.texture} \intersect containers)
         ELSE Filled' = Filled \union ({First.texture} \intersect containers)
  BY <1>2, <1>3, <1>8, <1>9 DEF Filled
<1> QED  BY <1>1, <1>5, <1>6, <1>7, <1>10 DEF Queue!Serve, Waiting, Marked, Stalled, Filled

(* The thread's stores: pixels show once the mark is theirs to make, and    *)
(* the mark is the abstract one, unless it goes to freed memory or to a     *)
(* request that has it.                                                     *)
LEMMA StoresRefine ==
  ASSUME IInv, Decode \/ MarkProcessed
  PROVE  Queue!Mark \/ UNCHANGED queue
<1>1. /\ UNCHANGED <<corrupt, buffer, slot, mainPc, containers, content>>
      /\ Decode => spoiled' = spoiled /\ threadPc = "decode" /\ threadPc' = "mark"
      /\ MarkProcessed => threadPc = "mark" /\ threadPc' = "poll"
  BY DEF Decode, MarkProcessed, mainVars, fileVars
<1>2. Filled' = Filled
  BY <1>1 DEF Filled
<1>3. IInv' /\ Ids(requests') = Ids(requests) /\ requests \in Seq(TextureRequest) /\ requests' \in Seq(TextureRequest)
  BY StoresKeep DEF IInv, TypeOK
<1>4. CASE ~(slot = buffer /\ requests # <<>>)
  <2>1. requests' = requests /\ spoiled' = spoiled
    <3>1. requests' = requests
      BY <1>4 DEF Decode, MarkProcessed, StoreData, StoreProcessed, SlotIsCurrent
    <3>2. MarkProcessed => spoiled' = spoiled
      BY <1>4, Zenon DEF MarkProcessed, SlotIsCurrent, IInv, TypeOK
    <3> QED  BY <1>1, <3>1, <3>2
  <2>2. Unserved' = Unserved
    BY <1>1, <2>1 DEF Unserved
  <2>3. Waiting' = Waiting /\ Marked' = Marked
    BY <2>2 DEF Waiting, Marked
  <2>4. Stalled' = Stalled
    <3>1. CASE Unserved = <<>>
      BY <2>2, <3>1 DEF Stalled
    <3>2. CASE Unserved # <<>>
      <4>1. requests # <<>>
        BY <3>2 DEF Unserved, IInv
      <4>2. slot # buffer
        BY <1>4, <4>1
      <4> QED  BY <1>1, <2>2, <4>2 DEF Stalled, SlotIsCurrent
    <3> QED  BY <3>1, <3>2
  <2> QED  BY <1>1, <1>2, <2>1, <2>3, <2>4 DEF queue
<1>5. CASE slot = buffer /\ requests # <<>> /\ mainPc = "erase"
  <2>1. spoiled' = spoiled
    <3>1. CASE spoiled
      BY <1>1, <3>1 DEF MarkProcessed, IInv, TypeOK
    <3>2. CASE ~spoiled
      BY <1>1, <1>5, <3>2 DEF IInv, RightSoFar, FirstIsRight, StoresAreRight
    <3> QED  BY <3>1, <3>2
  <2>2. Ids(Tail(requests')) = Ids(Tail(requests))
    <3>1. requests' # <<>>
      BY <1>1, <1>3, <1>5 DEF IInv
    <3> QED  BY <1>3, <1>5, <3>1, IdsOfTail
  <2>3. Waiting' = Waiting
    BY <1>1, <1>5, <2>2 DEF Waiting, Unserved
  <2>4. /\ Unserved = Tail(requests) /\ Unserved' = Tail(requests') /\ requests' # <<>>
        /\ Untouched /\ Untouched'
    BY <1>1, <1>3, <1>5 DEF Unserved, IInv
  <2>6. /\ Unserved # <<>> => ~Head(Unserved).processed /\ Head(Unserved).data = NoTexture
        /\ Unserved' # <<>> => ~Head(Unserved').processed /\ Head(Unserved').data = NoTexture
    BY <1>3, <1>5, <2>4, TailIsBlank DEF Untouched
  <2>5. Marked' = Marked /\ Stalled' = Stalled
    BY <2>6 DEF Marked, Stalled
  <2> QED  BY <1>1, <1>2, <2>1, <2>3, <2>5 DEF queue
<1>6. CASE slot = buffer /\ requests # <<>> /\ mainPc # "erase"
  <2>1. Unserved = requests /\ Unserved' = requests' /\ Waiting' = Waiting
    BY <1>1, <1>3, <1>6 DEF Unserved, Waiting
  <2>2. /\ First \in TextureRequest /\ Head(requests) = First /\ 1 \in DOMAIN requests
        /\ Waiting # <<>> /\ Head(Waiting) = First.texture
    BY <1>3, <1>6, <2>1, FirstFacts, IdsOfTail DEF Waiting, First, IInv
  <2>3. requests' # <<>> /\ Head(requests') = First'
    <3>1. Len(requests') = Len(requests)
      BY <1>3, IdsProperties
    <3>2. requests' # <<>>
      BY <1>3, <1>6, <3>1, RequestsSeq
    <3> QED  BY <1>3, <3>2, HeadTailProperties DEF First
  <2>4. CASE Decode
    <3>1. First.data = NoTexture
      BY <1>1, <1>6, <2>4 DEF IInv, StoresAreFirst
    <3>2. First'.processed = First.processed
      BY <1>6, <2>2, <2>4 DEF Decode, StoreData, SlotIsCurrent, First, TextureRequest
    <3>3. Marked' = Marked
      BY <1>6, <2>1, <2>2, <2>3, <3>2 DEF Marked
    <3>4. Stalled' = FALSE /\ Stalled = FALSE
      BY <1>1, <1>6, <2>1, <2>2, <2>4, <3>1 DEF Stalled, SlotIsCurrent
    <3> QED  BY <1>1, <1>2, <2>1, <2>4, <3>3, <3>4 DEF queue
  <2>5. CASE MarkProcessed
    <3>1. First'.processed = TRUE
      BY <1>6, <2>2, <2>5 DEF MarkProcessed, StoreProcessed, SlotIsCurrent, First, TextureRequest
    <3>2. Marked' = TRUE /\ Stalled' = FALSE /\ Stalled = FALSE
      BY <1>1, <1>6, <2>1, <2>2, <2>3, <2>5, <3>1 DEF Marked, Stalled, SlotIsCurrent
    <3>3. spoiled' = (spoiled \/ First.texture \in corrupt)
      BY <1>6, <2>2, <2>5 DEF MarkProcessed, SlotIsCurrent
    <3>4. CASE ~First.processed
      <4>1. Marked = FALSE
        BY <2>1, <2>2, <3>4 DEF Marked
      <4>2. Queue!Mark
        BY <1>1, <1>2, <2>1, <2>2, <3>2, <3>3, <4>1 DEF Queue!Mark, Waiting, Marked, Stalled, Filled
      <4> QED  BY <4>2
    <3>5. CASE First.processed
      <4>1. Marked = TRUE
        BY <1>6, <2>1, <2>2, <3>5 DEF Marked
      <4>2. spoiled' = spoiled
        <5>1. CASE spoiled
          BY <3>3, <5>1 DEF IInv, TypeOK
        <5>2. CASE ~spoiled
          BY <1>1, <1>6, <2>5, <3>5, <5>2 DEF IInv, RightSoFar, StoresAreRight
        <5> QED  BY <5>1, <5>2
      <4> QED  BY <1>1, <1>2, <2>1, <3>2, <4>1, <4>2 DEF queue
    <3> QED  BY <3>4, <3>5
  <2> QED  BY <2>4, <2>5
<1> QED  BY <1>4, <1>5, <1>6

(* Every step is a step of the abstract queue or leaves it as it is.        *)
LEMMA StepRefines ==
  ASSUME IInv, [Next]_vars
  PROVE  Queue!Next \/ UNCHANGED queue
<1>0. requests \in Seq(TextureRequest) /\ content \in [Textures -> MaybeTexture]
  BY DEF IInv, TypeOK
<1>1. ASSUME NEW t \in Textures, Request(t) PROVE Queue!Next
  BY <1>1, RequestEnqueues DEF Queue!Next
<1>2. ASSUME NEW t \in Textures, PurgeTexture(t) PROVE Queue!Next
  <2>1. /\ mainPc' = mainPc /\ requests' = requests /\ containers' = containers \ {t}
        /\ UNCHANGED <<corrupt, spoiled, threadPc, slot, buffer>>
    BY <1>2 DEF PurgeTexture, queueVars, threadVars, fileVars
  <2>2. Filled' = Filled \ {t}
    BY <1>0, <1>2, NoTextureIsNone DEF PurgeTexture, Filled
  <2>3. Waiting' = Waiting /\ Marked' = Marked /\ Stalled' = Stalled
    BY <2>1 DEF Waiting, Marked, Stalled, Unserved, SlotIsCurrent
  <2>4. Queue!Discard(t)
    BY <2>1, <2>2, <2>3 DEF Queue!Discard, Waiting, Marked, Stalled, Filled
  <2> QED  BY <2>4 DEF Queue!Next
<1>3. CASE ApplyTexture
  BY <1>3, ApplyServes DEF Queue!Next
<1>4. CASE EraseFirst
  <2>1. /\ requests' = Tail(requests) /\ mainPc = "erase" /\ mainPc' = "frame"
        /\ UNCHANGED <<containers, content, corrupt, spoiled, threadPc, slot, buffer>>
    BY <1>4 DEF EraseFirst, threadVars, fileVars
  <2>2. Unserved' = Unserved
    BY <2>1 DEF Unserved
  <2> QED  BY <2>1, <2>2 DEF queue, Waiting, Marked, Stalled, Filled, SlotIsCurrent
<1>5. CASE BeginClose \/ EndClose
  <2>1. /\ UNCHANGED <<requests, containers, content, corrupt, spoiled, threadPc, slot, buffer>>
        /\ mainPc # "erase" /\ mainPc' # "erase"
    BY <1>5 DEF BeginClose, EndClose, queueVars, threadVars, fileVars
  <2>2. Unserved' = Unserved
    BY <2>1 DEF Unserved
  <2> QED  BY <2>1, <2>2 DEF queue, Waiting, Marked, Stalled, Filled, SlotIsCurrent
<1>6. CASE SeeRequest \/ Stop \/ TakeFront \/ TestData \/ MapPath
  <2>1. /\ UNCHANGED <<requests, buffer, mainPc, containers, content, corrupt, spoiled>>
        /\ threadPc # "mark" /\ threadPc' # "mark"
    BY <1>6 DEF SeeRequest, Stop, TakeFront, TestData, MapPath, queueVars, mainVars, fileVars
  <2>2. Unserved' = Unserved
    BY <2>1 DEF Unserved
  <2>3. Stalled' = Stalled
    BY <2>1, <2>2 DEF Stalled
  <2> QED  BY <2>1, <2>2, <2>3 DEF queue, Waiting, Marked, Filled
<1>7. CASE Decode \/ MarkProcessed
  BY <1>7, StoresRefine DEF Queue!Next
<1>8. CASE UNCHANGED vars
  BY <1>8 DEF vars, fileVars, queueVars, mainVars, threadVars, queue, Waiting, Marked, Stalled, Filled,
              Unserved, SlotIsCurrent
<1> QED  BY <1>1, <1>2, <1>3, <1>4, <1>5, <1>6, <1>7, <1>8 DEF Next, ThreadStep, Terminated
-----------------------------------------------------------------------------
(* The invariant holds in every state the loader and the main thread can   *)
(* reach together.                                                          *)
THEOREM InvHolds == Spec => []IInv
<1>1. Init => IInv
  BY InitHolds
<1>2. IInv /\ [Next]_vars => IInv'
  BY NextKeeps
<1> QED  BY <1>1, <1>2, PTL DEF Spec

(* The tables keep their types, and the vector never outgrows its buffer.   *)
THEOREM TypesHold == Spec => []TypeOK
<1>1. IInv => TypeOK
  BY DEF IInv
<1> QED  BY <1>1, InvHolds, PTL

(* TextureManager::Request, ApplyTextures and ProcessThread together are    *)
(* the queue of LoadQueue, however the loader's stores and the main         *)
(* thread's pushes and erases interleave and whichever files are bad:       *)
(* requests are served in order, none is dropped, no image reaches a        *)
(* texture that is not being served, each gets its own until a bad file was *)
(* marked, and only the mark of a good first request can be lost.           *)
THEOREM LoadsInOrder == Spec => ImplementsLoadQueue
<1>1. Init => Queue!Init
  BY InitRefines
<1>2. IInv /\ [Next]_vars => [Queue!Next]_(Queue!vars)
  <2> SUFFICES ASSUME IInv, [Next]_vars
               PROVE  Queue!Next \/ UNCHANGED Queue!vars
    OBVIOUS
  <2>1. Queue!Next \/ UNCHANGED queue
    BY StepRefines
  <2> QED  BY <2>1 DEF Queue!vars, queue, Waiting, Marked, Stalled, Filled
<1> QED  BY <1>1, <1>2, InvHolds, TypesHold, PTL DEF Spec, ImplementsLoadQueue, Queue!Spec
=============================================================================
