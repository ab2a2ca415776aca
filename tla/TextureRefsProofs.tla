-------------------------- MODULE TextureRefsProofs -------------------------
(***************************************************************************)
(* Proofs about TextureRefs, for any sprites, texts, paths and words.      *)
(*                                                                         *)
(* IInv: the four invariants of the module say what the table holds at     *)
(* every step.  They are kept because every dirty node still has an id to  *)
(* take (IdsSuffice), a name without a node refers to nothing (NamesFree), *)
(* texts ask for words only (TextsAskWords), and a sprite whose mesh is    *)
(* not built on a texture still waits for one (MeshesWait), so that one    *)
(* that was updated in this frame is as FrameIsFitted says from then on    *)
(* until it is drawn.                                                      *)
(***************************************************************************)
EXTENDS TextureRefs, FiniteSetTheorems, SequenceTheorems, TLAPS

IdsSuffice ==
  /\ IsFiniteSet(alive)
  /\ maxId + Cardinality(dirty) <= MaxIds

NamesFree == \A n \in Nodes : n \notin alive => texture[n] = 0

TextsAskWords == \A n \in Texts : source[n] \in Words

SpritesAskPaths == \A n \in Sprites : source[n] \in Paths

MeshesWait ==
  \A n \in alive \intersect Sprites : n \in dirty \/ n \in wants \/ mesh[n] = "fitted"

FrameIsFitted ==
  phase \in {"update", "script", "render"} =>
    \A n \in visited \intersect alive \intersect Sprites :
      texture[n] \in loaded /\ key[texture[n]] \notin Words => mesh[n] = "fitted"

KeysAreUnique == \A i, j \in Containers : key[i] = key[j] => i = j

CountsAreHolders ==
  \A i \in Containers :
    refCount[i] = Cardinality(Holders(i)) + (IF key[i] \in preloads THEN 1 ELSE 0)

LoaderOK ==
  /\ queue \in Seq([id : 1..maxId, path : Paths])
  /\ processed \in BOOLEAN /\ stalled \in BOOLEAN /\ spoiled \in BOOLEAN
  /\ processed \/ stalled => queue # <<>>
  /\ ~(processed /\ stalled)

(* The step drops no request.                                               *)
RequestsStay ==
  /\ LoaderOK' /\ spoiled' = spoiled
  /\ \A q \in DOMAIN queue : q \in DOMAIN queue' /\ queue'[q] = queue[q]

IInv ==
  /\ TypeOK /\ KeysAreUnique /\ CountsAreHolders
  /\ HeldTexturesStay /\ PendingIsQueued
  /\ IdsSuffice /\ NamesFree /\ TextsAskWords /\ SpritesAskPaths
  /\ MeshesWait /\ FrameIsFitted
-----------------------------------------------------------------------------
(* The initial state has the invariant.                                     *)
LEMMA InitHolds == Init => IInv
<1> SUFFICES ASSUME Init PROVE IInv
  OBVIOUS
<1>1. Containers = {}
  BY DEF Init, Containers
<1>2. TypeOK
  <2>1. <<>> \in Seq([id : 1..0, path : Paths])
    OBVIOUS
  <2>2. queue \in Seq([id : 1..maxId, path : Paths])
    BY <2>1 DEF Init
  <2>3. Empty \in Keys
    BY KeysAreDistinct DEF Keys
  <2>4. /\ processed \in BOOLEAN /\ stalled \in BOOLEAN /\ spoiled \in BOOLEAN
        /\ ~processed /\ ~stalled
    BY Zenon DEF Init
  <2> QED  BY <1>1, <2>2, <2>3, <2>4, KeysAreDistinct DEF Init, TypeOK
<1>3. IdsSuffice
  BY FS_EmptySet, KeysAreDistinct DEF Init, IdsSuffice
<1>4. TextsAskWords /\ SpritesAskPaths /\ NamesFree
  BY KeysAreDistinct DEF Init, TextsAskWords, SpritesAskPaths, NamesFree, Nodes
<1>5. MeshesWait /\ FrameIsFitted
  BY DEF Init, MeshesWait, FrameIsFitted
<1>6. KeysAreUnique /\ CountsAreHolders /\ PendingIsQueued /\ HeldTexturesStay
  BY <1>1 DEF Init, KeysAreUnique, CountsAreHolders, PendingIsQueued, HeldTexturesStay
<1> QED  BY <1>2, <1>3, <1>4, <1>5, <1>6 DEF IInv

-----------------------------------------------------------------------------
(* The container table.                                                     *)

(* The id a key is given is its container's, or the next new one.           *)
LEMMA IdForIsTheKeys ==
  ASSUME IInv, NEW k \in Keys, maxId < MaxIds
  PROVE  /\ IdFor(k) \in Ids
         /\ TextureExists(k) => IdFor(k) \in Containers /\ key[IdFor(k)] = k /\ IdFor(k) <= maxId
         /\ ~TextureExists(k) => IdFor(k) = maxId + 1 /\ IdFor(k) \notin Containers
<1>1. maxId \in Nat /\ MaxIds \in Nat
  BY KeysAreDistinct DEF IInv, TypeOK
<1>2. \A i \in Containers : i \in Ids /\ i <= maxId
  BY <1>1 DEF IInv, TypeOK, Containers, Ids
<1>3. CASE TextureExists(k)
  <2>1. IdFor(k) \in Containers /\ key[IdFor(k)] = k
    BY <1>3 DEF TextureExists, IdFor
  <2> QED  BY <1>2, <1>3, <2>1
<1>4. CASE ~TextureExists(k)
  <2>1. IdFor(k) = maxId + 1
    BY <1>4 DEF IdFor
  <2> QED  BY <1>1, <1>2, <1>4, <2>1 DEF Ids
<1> QED  BY <1>3, <1>4

(* What Rereference does to the table: the key's container is there, no     *)
(* other comes or goes, and one count moves from old to it.                 *)
LEMMA RereferenceMoves ==
  ASSUME IInv, NEW k \in Keys, maxId < MaxIds, NEW old \in 0..maxId, Rereference(old, k)
  PROVE  /\ maxId' \in 0..MaxIds /\ maxId' \in {maxId, maxId + 1} /\ IdFor(k) <= maxId'
         /\ key' \in [Ids -> Keys \union {NoKey}]
         /\ \A i \in Ids : i > maxId' => key'[i] = NoKey
         /\ Containers' = Containers \union {IdFor(k)}
         /\ key'[IdFor(k)] = k
         /\ \A i \in Ids : i # IdFor(k) => key'[i] = key[i]
         /\ \A i \in Containers : key'[i] = key[i]
         /\ KeysAreUnique'
         /\ refCount' \in [Ids -> Nat]
         /\ \A i \in Containers : i # IdFor(k) =>
              refCount'[i] = IF i = old /\ refCount[i] > 0 THEN refCount[i] - 1 ELSE refCount[i]
         /\ TextureExists(k) =>
              refCount'[IdFor(k)] = 1 + IF IdFor(k) = old /\ refCount[old] > 0
                                          THEN refCount[old] - 1 ELSE refCount[IdFor(k)]
         /\ ~TextureExists(k) => refCount'[IdFor(k)] = 1
<1> DEFINE id == IdFor(k)
           released == [i \in Ids |-> IF i = old /\ refCount[i] > 0 THEN refCount[i] - 1 ELSE refCount[i]]
<1>1. /\ id \in Ids /\ maxId \in Nat /\ MaxIds \in Nat
      /\ TextureExists(k) => id \in Containers /\ key[id] = k /\ id <= maxId
      /\ ~TextureExists(k) => id = maxId + 1 /\ id \notin Containers
  BY IdForIsTheKeys, KeysAreDistinct DEF IInv, TypeOK
<1>2. /\ key \in [Ids -> Keys \union {NoKey}] /\ refCount \in [Ids -> Nat]
      /\ \A i \in Ids : i > maxId => key[i] = NoKey
      /\ \A i, j \in Containers : key[i] = key[j] => i = j
      /\ k # NoKey /\ NoKey \notin Keys
      /\ Containers \subseteq Ids
  BY KeysAreDistinct DEF IInv, TypeOK, KeysAreUnique, Keys, Containers
<1>3. /\ released \in [Ids -> Nat]
      /\ \A i \in Ids : released[i] = IF i = old /\ refCount[i] > 0 THEN refCount[i] - 1 ELSE refCount[i]
  BY <1>2
<1>4. IF TextureExists(k)
        THEN refCount' = [released EXCEPT ![id] = @ + 1] /\ maxId' = maxId /\ key' = key
        ELSE /\ refCount' = [released EXCEPT ![id] = 1]
             /\ key' = [key EXCEPT ![id] = k]
             /\ maxId' = id
  BY DEF Rereference
<1> HIDE DEF id, released
<1>5. CASE TextureExists(k)
  <2>1. Containers' = Containers /\ KeysAreUnique'
    BY <1>2, <1>4, <1>5 DEF Containers, KeysAreUnique
  <2>2. refCount' \in [Ids -> Nat]
    BY <1>1, <1>3, <1>4, <1>5
  <2>3. \A i \in Ids : refCount'[i] = IF i = id THEN released[i] + 1 ELSE released[i]
    BY <1>1, <1>3, <1>4, <1>5
  <2>4. \A i \in Containers : key'[i] = key[i]
    BY <1>4, <1>5
  <2> QED  BY <1>1, <1>2, <1>3, <1>4, <1>5, <2>1, <2>2, <2>3, <2>4 DEF id
<1>6. CASE ~TextureExists(k)
  <2>1. key' \in [Ids -> Keys \union {NoKey}] /\ key'[id] = k /\ \A i \in Ids : i # id => key'[i] = key[i]
    BY <1>1, <1>2, <1>4, <1>6
  <2>2. Containers' = Containers \union {id}
    BY <1>1, <1>2, <2>1 DEF Containers
  <2>3. \A i \in Containers : key[i] # k
    BY <1>6 DEF TextureExists
  <2>4. KeysAreUnique'
    BY <1>1, <1>2, <1>6, <2>1, <2>2, <2>3 DEF KeysAreUnique
  <2>5. refCount' \in [Ids -> Nat]
    BY <1>1, <1>3, <1>4, <1>6
  <2>6. \A i \in Ids : refCount'[i] = IF i = id THEN 1 ELSE released[i]
    BY <1>1, <1>3, <1>4, <1>6
  <2>7. \A i \in Containers : key'[i] = key[i]
    BY <1>1, <1>2, <1>6, <2>1
  <2>8. maxId' = maxId + 1 /\ \A i \in Ids : i > maxId' => key'[i] = NoKey
    BY <1>1, <1>2, <1>4, <1>6, <2>1 DEF Ids
  <2> QED  BY <1>1, <1>2, <1>3, <1>4, <1>6, <2>1, <2>2, <2>4, <2>5, <2>6, <2>7, <2>8 DEF id
<1> QED  BY <1>5, <1>6

(* There is an id left for a dirty node.                                    *)
LEMMA DirtyHasId ==
  ASSUME IInv, NEW n \in dirty
  PROVE  /\ maxId < MaxIds
         /\ IsFiniteSet(dirty) /\ IsFiniteSet(dirty \ {n})
         /\ Cardinality(dirty) \in Nat
         /\ Cardinality(dirty \ {n}) = Cardinality(dirty) - 1
<1>1. IsFiniteSet(dirty)
  BY FS_Subset DEF IInv, TypeOK, IdsSuffice
<1>2. Cardinality(dirty) \in Nat /\ Cardinality(dirty) # 0
  BY <1>1, FS_CardinalityType, FS_EmptySet
<1>3. IsFiniteSet(dirty \ {n}) /\ Cardinality(dirty \ {n}) = Cardinality(dirty) - 1
  BY <1>1, FS_RemoveElement
<1>4. maxId \in Nat /\ MaxIds \in Nat /\ maxId + Cardinality(dirty) <= MaxIds
  BY KeysAreDistinct DEF IInv, TypeOK, IdsSuffice
<1> QED  BY <1>1, <1>2, <1>3, <1>4

(* The holders of a container are finitely many.                            *)
LEMMA HoldersAreFinite ==
  ASSUME IInv, NEW i
  PROVE  /\ IsFiniteSet(Holders(i)) /\ Cardinality(Holders(i)) \in Nat
         /\ Cardinality(Holders(i)) = 0 <=> Holders(i) = {}
<1>1. Holders(i) \in SUBSET alive
  BY DEF Holders
<1> QED  BY <1>1, FS_Subset, FS_CardinalityType, FS_EmptySet DEF IInv, IdsSuffice

(* A node that gives its texture up for its source's moves one count.       *)
LEMMA NodeMovesKeepsCounts ==
  ASSUME IInv, NEW n \in dirty, Rereference(texture[n], source[n]),
         texture' = [texture EXCEPT ![n] = IdFor(source[n])],
         UNCHANGED <<alive, preloads>>
  PROVE  CountsAreHolders'
<1> DEFINE k == source[n]
           id == IdFor(k)
           old == texture[n]
<1>1. /\ n \in alive /\ n \in Nodes /\ k \in Keys /\ old \in 0..maxId /\ maxId \in Nat
      /\ texture \in [Nodes -> 0..maxId] /\ refCount \in [Ids -> Nat] /\ alive \subseteq Nodes
      /\ Containers \subseteq Ids
  BY DEF IInv, TypeOK, Containers
<1>2. maxId < MaxIds
  BY DirtyHasId
<1>3. /\ id \in Ids
      /\ TextureExists(k) => id \in Containers /\ key[id] = k /\ id <= maxId
      /\ ~TextureExists(k) => id = maxId + 1 /\ id \notin Containers
  BY <1>1, <1>2, IdForIsTheKeys
<1>4. /\ Containers' = Containers \union {id}
      /\ key'[id] = k
      /\ \A i \in Containers : key'[i] = key[i]
      /\ \A i \in Containers : i # id =>
           refCount'[i] = IF i = old /\ refCount[i] > 0 THEN refCount[i] - 1 ELSE refCount[i]
      /\ TextureExists(k) =>
           refCount'[id] = 1 + IF id = old /\ refCount[old] > 0 THEN refCount[old] - 1 ELSE refCount[id]
      /\ ~TextureExists(k) => refCount'[id] = 1
  BY <1>1, <1>2, RereferenceMoves
<1>5. /\ \A i \in Containers : refCount[i] = Cardinality(Holders(i)) + (IF key[i] \in preloads THEN 1 ELSE 0)
      /\ \A p \in preloads : TextureExists(p)
  BY DEF IInv, CountsAreHolders, HeldTexturesStay
<1>6. \A m \in Nodes : texture'[m] = IF m = n THEN id ELSE texture[m]
  BY <1>1
<1>7. \A i : Holders(i)' = {m \in alive : texture'[m] = i}
  BY DEF Holders
<1> HIDE DEF k, id, old
<1>8. SUFFICES ASSUME NEW i \in Containers'
               PROVE  refCount'[i] = Cardinality(Holders(i)') + (IF key'[i] \in preloads THEN 1 ELSE 0)
  BY DEF CountsAreHolders
<1>9. CASE i # id
  <2>1. i \in Containers /\ key'[i] = key[i]
    BY <1>4, <1>8, <1>9
  <2>2. CASE i = old
    <3>1. n \in Holders(i) /\ Holders(i)' = Holders(i) \ {n}
      BY <1>1, <1>6, <1>7, <1>9, <2>2 DEF Holders, old
    <3>2. Cardinality(Holders(i)') = Cardinality(Holders(i)) - 1 /\ Cardinality(Holders(i)) \in Nat \ {0}
      BY <3>1, HoldersAreFinite, FS_RemoveElement
    <3>3. refCount[i] > 0 /\ refCount'[i] = refCount[i] - 1
      BY <1>1, <1>4, <1>5, <1>9, <2>1, <2>2, <3>2
    <3> QED  BY <1>1, <1>5, <2>1, <3>2, <3>3
  <2>3. CASE i # old
    <3>1. Holders(i)' = Holders(i)
      BY <1>1, <1>6, <1>7, <1>9, <2>3 DEF Holders, old
    <3> QED  BY <1>4, <1>5, <1>9, <2>1, <2>3, <3>1
  <2> QED  BY <2>2, <2>3
<1>10. CASE i = id /\ TextureExists(k)
  <2>1. i \in Containers /\ key'[i] = key[i] /\ refCount[i] \in Nat
    BY <1>1, <1>3, <1>4, <1>10
  <2>2. CASE i = old
    <3>1. n \in Holders(i) /\ Holders(i)' = Holders(i)
      BY <1>1, <1>6, <1>7, <1>10, <2>2 DEF Holders, old
    <3>2. Cardinality(Holders(i)) \in Nat \ {0}
      BY <3>1, HoldersAreFinite
    <3> QED  BY <1>4, <1>5, <1>10, <2>1, <2>2, <3>1, <3>2
  <2>3. CASE i # old
    <3>1. n \notin Holders(i) /\ Holders(i)' = Holders(i) \union {n}
      BY <1>1, <1>6, <1>7, <1>10, <2>3 DEF Holders, old
    <3>2. Cardinality(Holders(i)') = Cardinality(Holders(i)) + 1 /\ Cardinality(Holders(i)) \in Nat
      BY <3>1, HoldersAreFinite, FS_AddElement
    <3> QED  BY <1>4, <1>5, <1>10, <2>1, <2>3, <3>2
  <2> QED  BY <2>2, <2>3
<1>11. CASE i = id /\ ~TextureExists(k)
  <2>1. Holders(i)' = {n}
    <3>1. \A m \in alive : texture[m] # i
      BY <1>1, <1>3, <1>11
    <3> QED  BY <1>1, <1>6, <1>7, <1>11, <3>1
  <2>2. Cardinality(Holders(i)') = 1 /\ k \notin preloads
    BY <1>5, <1>11, <2>1, FS_Singleton
  <2> QED  BY <1>4, <1>11, <2>2
<1> QED  BY <1>9, <1>10, <1>11

(* ... and refers to what its source asks for.                              *)
LEMMA NodeMovesKeepsHeld ==
  ASSUME IInv, NEW n \in dirty, Rereference(texture[n], source[n]),
         texture' = [texture EXCEPT ![n] = IdFor(source[n])], dirty' = dirty \ {n},
         UNCHANGED <<alive, preloads, source>>
  PROVE  /\ HeldTexturesStay' /\ NamesFree' /\ IdsSuffice'
         /\ texture' \in [Nodes -> 0..maxId']
<1>1. /\ n \in alive /\ n \in Nodes /\ source[n] \in Keys /\ texture[n] \in 0..maxId /\ maxId \in Nat
      /\ texture \in [Nodes -> 0..maxId] /\ alive \subseteq Nodes
  BY DEF IInv, TypeOK
<1>2. maxId < MaxIds /\ MaxIds \in Nat
  BY DirtyHasId, KeysAreDistinct
<1>3. IdFor(source[n]) \in Ids
  BY <1>1, <1>2, IdForIsTheKeys
<1>4. /\ maxId' \in {maxId, maxId + 1} /\ IdFor(source[n]) <= maxId'
      /\ Containers' = Containers \union {IdFor(source[n])}
      /\ key'[IdFor(source[n])] = source[n]
      /\ \A i \in Containers : key'[i] = key[i]
  BY <1>1, <1>2, RereferenceMoves
<1>5. texture' \in [Nodes -> 0..maxId']
  BY <1>1, <1>3, <1>4 DEF Ids
<1>6. IdsSuffice'
  <2>1. IsFiniteSet(alive')
    BY DEF IInv, IdsSuffice
  <2>2. /\ Cardinality(dirty') = Cardinality(dirty) - 1 /\ Cardinality(dirty) \in Nat
        /\ maxId + Cardinality(dirty) <= MaxIds
    BY DirtyHasId DEF IInv, IdsSuffice
  <2>3. maxId' + Cardinality(dirty') <= MaxIds
    BY <1>1, <1>2, <1>4, <2>2
  <2> QED  BY <2>1, <2>3 DEF IdsSuffice
<1>7. NamesFree'
  BY <1>1 DEF IInv, NamesFree
<1>8. HeldTexturesStay'
  <2>1. ASSUME NEW m \in alive, texture'[m] # 0
        PROVE  texture'[m] \in Containers' /\ (m \notin dirty' => key'[texture'[m]] = source[m])
    <3>1. CASE m = n
      BY <1>1, <1>4, <3>1
    <3>2. CASE m # n
      <4>1. texture'[m] = texture[m]
        BY <1>1, <3>2
      <4> QED  BY <1>4, <2>1, <3>2, <4>1 DEF IInv, HeldTexturesStay
    <3> QED  BY <3>1, <3>2
  <2>2. ASSUME NEW p \in preloads PROVE TextureExists(p)'
    <3>1. PICK i \in Containers : key[i] = p
      BY <2>2 DEF IInv, HeldTexturesStay, TextureExists
    <3>2. i \in Containers' /\ key'[i] = p
      BY <1>4, <3>1
    <3> QED  BY <3>2 DEF TextureExists
  <2> QED  BY <2>1, <2>2 DEF HeldTexturesStay
<1> QED  BY <1>5, <1>6, <1>7, <1>8

(* A step that leaves the table and every node's texture alone keeps the    *)
(* counts; what it makes dirty may ask for something else.                  *)
LEMMA TableStays ==
  ASSUME IInv, UNCHANGED <<tableVars, loaderVars, texture, preloads>>,
         alive \subseteq alive', \A n \in alive' : n \notin alive => texture[n] = 0,
         dirty \subseteq dirty', \A n \in alive : n \notin dirty' => source'[n] = source[n]
  PROVE  KeysAreUnique' /\ CountsAreHolders' /\ HeldTexturesStay' /\ PendingIsQueued'
<1>1. Containers' = Containers /\ Containers \subseteq Ids /\ \A i \in Ids : i # 0
  BY DEF tableVars, Containers, Ids
<1>2. KeysAreUnique' /\ PendingIsQueued'
  BY <1>1 DEF IInv, tableVars, loaderVars, KeysAreUnique, PendingIsQueued
<1>3. CountsAreHolders'
  <2>1. ASSUME NEW i \in Containers PROVE Holders(i)' = Holders(i)
    BY <1>1, <2>1 DEF Holders
  <2> QED  BY <1>1, <2>1 DEF IInv, CountsAreHolders, tableVars
<1>4. HeldTexturesStay'
  <2>1. ASSUME NEW n \in alive', texture[n] # 0
        PROVE  texture[n] \in Containers /\ (n \notin dirty' => key[texture[n]] = source'[n])
    BY <2>1 DEF IInv, HeldTexturesStay
  <2>2. ASSUME NEW p \in preloads PROVE TextureExists(p)'
    BY <1>1, <2>2 DEF IInv, HeldTexturesStay, TextureExists, tableVars
  <2> QED  BY <1>1, <2>1, <2>2 DEF HeldTexturesStay, tableVars
<1> QED  BY <1>2, <1>3, <1>4

-----------------------------------------------------------------------------
(* What scripts do.                                                         *)

(* A script's request for a new dirty node leaves it an id.                 *)
LEMMA OneMoreDirty ==
  ASSUME IInv, NEW n, IdIsLeft \/ n \in dirty, UNCHANGED maxId,
         dirty' = dirty \union {n}, alive' \in {alive, alive \union {n}}
  PROVE  IdsSuffice'
<1>1. IsFiniteSet(dirty) /\ IsFiniteSet(alive)
  BY FS_Subset DEF IInv, TypeOK, IdsSuffice
<1>2. /\ Cardinality(dirty) \in Nat /\ IsFiniteSet(alive')
      /\ Cardinality(dirty') = IF n \in dirty THEN Cardinality(dirty) ELSE Cardinality(dirty) + 1
  BY <1>1, FS_CardinalityType, FS_AddElement
<1>3. maxId \in Nat /\ MaxIds \in Nat /\ maxId + Cardinality(dirty) <= MaxIds
  BY KeysAreDistinct DEF IInv, TypeOK, IdsSuffice
<1>4. maxId' + Cardinality(dirty') <= MaxIds
  BY <1>2, <1>3 DEF IdIsLeft
<1> QED  BY <1>2, <1>4 DEF IdsSuffice

(* Create, SetSource, SetFont and Delete keep the invariant.                *)
LEMMA NodeCallsKeep ==
  ASSUME IInv,
         \/ \E n \in Nodes : Create(n) \/ Delete(n) \/ SetFont(n)
         \/ \E n \in Sprites, p \in Paths : SetSource(n, p)
         \/ \E n \in Texts, w \in Words : SetSource(n, w)
  PROVE  IInv'
<1> USE DEF tableVars, loaderVars
<1>1. ASSUME NEW n \in Nodes, Create(n) PROVE IInv'
  <2>1. KeysAreUnique' /\ CountsAreHolders' /\ HeldTexturesStay' /\ PendingIsQueued'
    BY <1>1, TableStays DEF Create, IInv, NamesFree
  <2>2. IdsSuffice'
    BY <1>1, OneMoreDirty DEF Create
  <2>3. TypeOK'
    BY <1>1 DEF IInv, TypeOK, Create, Containers
  <2>4. NamesFree' /\ TextsAskWords' /\ SpritesAskPaths' /\ MeshesWait'
    BY <1>1 DEF IInv, NamesFree, TextsAskWords, SpritesAskPaths, MeshesWait, Create
  <2>5. FrameIsFitted'
    <3>1. texture[n] = 0 /\ 0 \notin loaded
      BY <1>1 DEF IInv, NamesFree, Create, TypeOK, Containers, Ids
    <3> QED  BY <1>1, <3>1 DEF IInv, FrameIsFitted, Create
  <2> QED  BY <2>1, <2>2, <2>3, <2>4, <2>5 DEF IInv
<1>2. ASSUME NEW n \in Nodes, NEW k \in Keys, SetSource(n, k), n \in Texts => k \in Words, n \in Sprites => k \in Paths PROVE IInv'
  <2>0. source \in [Nodes -> Keys]
    BY DEF IInv, TypeOK
  <2>1. KeysAreUnique' /\ CountsAreHolders' /\ HeldTexturesStay' /\ PendingIsQueued'
    <3>1. \A m \in alive : m \notin dirty' => source'[m] = source[m]
      BY <1>2, <2>0 DEF SetSource
    <3> QED  BY <1>2, <3>1, TableStays DEF SetSource
  <2>2. IdsSuffice'
    BY <1>2, OneMoreDirty DEF SetSource
  <2>3. TypeOK'
    BY <1>2, <2>0 DEF IInv, TypeOK, SetSource, Containers
  <2>4. NamesFree' /\ TextsAskWords' /\ SpritesAskPaths' /\ MeshesWait'
    BY <1>2, <2>0 DEF IInv, NamesFree, TextsAskWords, SpritesAskPaths, MeshesWait, SetSource, Nodes
  <2>5. FrameIsFitted'
    BY <1>2 DEF IInv, FrameIsFitted, SetSource
  <2> QED  BY <2>1, <2>2, <2>3, <2>4, <2>5 DEF IInv
<1>3. ASSUME NEW n \in Nodes, SetFont(n) PROVE IInv'
  <2>1. KeysAreUnique' /\ CountsAreHolders' /\ HeldTexturesStay' /\ PendingIsQueued'
    BY <1>3, TableStays DEF SetFont
  <2>2. IdsSuffice'
    BY <1>3, OneMoreDirty DEF SetFont
  <2>3. TypeOK'
    BY <1>3 DEF IInv, TypeOK, SetFont, Containers
  <2>4. NamesFree' /\ TextsAskWords' /\ SpritesAskPaths' /\ MeshesWait' /\ FrameIsFitted'
    BY <1>3 DEF IInv, NamesFree, TextsAskWords, SpritesAskPaths, MeshesWait, FrameIsFitted, SetFont
  <2> QED  BY <2>1, <2>2, <2>3, <2>4 DEF IInv
<1>4. ASSUME NEW n \in Nodes, Delete(n) PROVE IInv'
  <2>1. KeysAreUnique' /\ CountsAreHolders' /\ HeldTexturesStay' /\ PendingIsQueued'
    BY <1>4, TableStays DEF Delete
  <2>2. TypeOK'
    BY <1>4 DEF IInv, TypeOK, Delete, Containers
  <2>3. IdsSuffice' /\ NamesFree' /\ TextsAskWords' /\ SpritesAskPaths' /\ MeshesWait' /\ FrameIsFitted'
    BY <1>4 DEF IInv, IdsSuffice, NamesFree, TextsAskWords, SpritesAskPaths, MeshesWait, FrameIsFitted, Delete
  <2> QED  BY <2>1, <2>2, <2>3 DEF IInv
<1>5. Sprites \union Texts = Nodes /\ Paths \union Words = Keys /\ Sprites \intersect Texts = {}
  BY KeysAreDistinct DEF Nodes, Keys
<1> QED  BY <1>1, <1>2, <1>3, <1>4, <1>5

(* A sequence over a set is one over a larger set.                          *)
LEMMA QueueWidens ==
  ASSUME NEW S, NEW T, S \subseteq T, NEW q \in Seq(S)
  PROVE  q \in Seq(T)
<1>1. Len(q) \in Nat /\ q \in [1..Len(q) -> T]
  BY LenProperties
<1> QED  BY <1>1, SeqDef

(* The loader's part stays what it is when there are more ids ...           *)
LEMMA LoaderWidens ==
  ASSUME IInv, UNCHANGED loaderVars, maxId' \in Nat, maxId <= maxId'
  PROVE  RequestsStay
<1>1. maxId \in Nat /\ queue \in Seq([id : 1..maxId, path : Paths])
  BY KeysAreDistinct DEF IInv, TypeOK
<1>2. [id : 1..maxId, path : Paths] \subseteq [id : 1..maxId', path : Paths]
  BY <1>1
<1>3. queue \in Seq([id : 1..maxId', path : Paths])
  BY <1>1, <1>2, QueueWidens
<1>4. LoaderOK'
  BY <1>3 DEF IInv, TypeOK, LoaderOK, loaderVars
<1> QED  BY <1>4 DEF RequestsStay, loaderVars

(* ... and when one of them is requested, which is then in the queue.       *)
LEMMA RequestJoins ==
  ASSUME IInv, maxId' \in Nat, maxId <= maxId',
         NEW i \in 1..maxId', NEW p \in Paths, Request(i, p)
  PROVE  RequestsStay /\ \E q \in DOMAIN queue' : queue'[q].id = i
<1> DEFINE request == [id |-> i, path |-> p]
           S == [id : 1..maxId', path : Paths]
<1>1. maxId \in Nat /\ queue \in Seq([id : 1..maxId, path : Paths])
  BY KeysAreDistinct DEF IInv, TypeOK
<1>2. [id : 1..maxId, path : Paths] \subseteq S /\ request \in S /\ request.id = i
  BY <1>1
<1>3. queue \in Seq(S)
  BY <1>1, <1>2, QueueWidens
<1>4. queue' = Append(queue, request)
  BY DEF Request
<1> HIDE DEF request, S
<1>5. /\ queue' \in Seq(S) /\ Len(queue') = Len(queue) + 1 /\ Len(queue) \in Nat
      /\ \A q \in 1..Len(queue) : queue'[q] = queue[q]
      /\ queue'[Len(queue) + 1] = request
      /\ DOMAIN queue' = 1..Len(queue') /\ DOMAIN queue = 1..Len(queue)
  BY <1>2, <1>3, <1>4, AppendProperties, LenProperties
<1>6. queue' # <<>>
  BY <1>3, <1>5, EmptySeq
<1>7. LoaderOK'
  <2>1. queue' \in Seq([id : 1..maxId', path : Paths])
    BY <1>5 DEF S
  <2>2. /\ processed' = processed /\ spoiled' = spoiled
        /\ \/ stalled' = stalled
           \/ ~processed /\ stalled' = TRUE
    BY DEF Request
  <2>3. /\ processed \in BOOLEAN /\ stalled \in BOOLEAN /\ spoiled \in BOOLEAN
        /\ ~(processed /\ stalled)
    BY DEF IInv, TypeOK
  <2>4. stalled' \in BOOLEAN /\ ~(processed' /\ stalled')
    <3>1. CASE stalled' = stalled
      BY <2>2, <2>3, <3>1, Zenon
    <3>2. CASE ~processed /\ stalled' = TRUE
      <4>1. ~processed'
        BY <2>2, <3>2, Zenon
      <4> QED  BY <3>2, <4>1, Zenon
    <3> QED  BY <2>2, <3>1, <3>2
  <2>5. processed' \in BOOLEAN /\ spoiled' \in BOOLEAN
    BY <2>2, <2>3, Zenon
  <2>6. processed' \/ stalled' => queue' # <<>>
    BY <1>6
  <2> QED  BY <2>1, <2>4, <2>5, <2>6 DEF LoaderOK
<1>8. \A q \in DOMAIN queue : q \in DOMAIN queue' /\ queue'[q] = queue[q]
  BY <1>5
<1>9. Len(queue) + 1 \in DOMAIN queue' /\ queue'[Len(queue) + 1].id = i
  BY <1>2, <1>5
<1> QED  BY <1>7, <1>8, <1>9 DEF RequestsStay, Request

(* A preload counts once, and a new container is requested.                 *)
LEMMA LoadTextureKeeps ==
  ASSUME IInv, NEW p \in Paths, LoadTexture(p)
  PROVE  IInv'
<1> DEFINE id == IdFor(p)
<1>1. /\ p \in Keys /\ p \notin preloads /\ maxId \in Nat /\ MaxIds \in Nat /\ 0 \in 0..maxId
      /\ Rereference(0, p) /\ Containers \subseteq Ids /\ refCount \in [Ids -> Nat]
      /\ texture \in [Nodes -> 0..maxId] /\ alive \subseteq Nodes
  BY KeysAreDistinct DEF LoadTexture, Keys, IInv, TypeOK, Containers
<1>2. /\ IsFiniteSet(alive) /\ Cardinality(dirty) \in Nat
      /\ maxId + Cardinality(dirty) < MaxIds /\ maxId < MaxIds
  <2>1. IsFiniteSet(alive) /\ IsFiniteSet(dirty)
    BY FS_Subset DEF IInv, TypeOK, IdsSuffice
  <2>2. Cardinality(dirty) \in Nat
    BY <2>1, FS_CardinalityType
  <2> QED  BY <1>1, <2>1, <2>2 DEF LoadTexture, IdIsLeft
<1>3. /\ id \in Ids
      /\ TextureExists(p) => id \in Containers /\ key[id] = p /\ id <= maxId
      /\ ~TextureExists(p) => id = maxId + 1 /\ id \notin Containers
  BY <1>1, <1>2, IdForIsTheKeys
<1>4. /\ maxId' \in 0..MaxIds /\ maxId' \in {maxId, maxId + 1} /\ id <= maxId'
      /\ key' \in [Ids -> Keys \union {NoKey}]
      /\ \A i \in Ids : i > maxId' => key'[i] = NoKey
      /\ Containers' = Containers \union {id}
      /\ key'[id] = p
      /\ \A i \in Containers : key'[i] = key[i]
      /\ KeysAreUnique'
      /\ refCount' \in [Ids -> Nat]
      /\ \A i \in Containers : i # id =>
           refCount'[i] = IF i = 0 /\ refCount[i] > 0 THEN refCount[i] - 1 ELSE refCount[i]
      /\ TextureExists(p) =>
           refCount'[id] = 1 + IF id = 0 /\ refCount[0] > 0 THEN refCount[0] - 1 ELSE refCount[id]
      /\ ~TextureExists(p) => refCount'[id] = 1
  BY <1>1, <1>2, RereferenceMoves
<1>5. /\ preloads' = preloads \union {p}
      /\ IF TextureExists(p) THEN UNCHANGED loaderVars ELSE Request(maxId + 1, p)
      /\ UNCHANGED <<loaded, alive, marked, source, dirty, texture, wants, mesh, phase, visited>>
  BY DEF LoadTexture, nodeVars
<1>6. \A i \in Ids : i # 0
  BY DEF Ids
<1> HIDE DEF id
<1>7. ~TextureExists(p) => maxId' = maxId + 1
  BY <1>1, <1>3, <1>4
<1>15. RequestsStay /\ (~TextureExists(p) => \E q \in DOMAIN queue' : queue'[q].id = maxId + 1)
  <2>1. maxId' \in Nat /\ maxId <= maxId'
    BY <1>1, <1>4
  <2>2. CASE TextureExists(p)
    BY <1>5, <2>1, <2>2, LoaderWidens
  <2>3. CASE ~TextureExists(p)
    <3>1. maxId + 1 \in 1..maxId' /\ Request(maxId + 1, p)
      BY <1>1, <1>5, <1>7, <2>3
    <3> QED  BY <2>1, <3>1, RequestJoins
  <2> QED  BY <2>2, <2>3
<1>8. TypeOK'
  <2>2. texture' \in [Nodes -> 0..maxId']
    BY <1>1, <1>4, <1>5
  <2>3. loaded' \subseteq Containers' /\ preloads' \subseteq Paths
    BY <1>4, <1>5 DEF IInv, TypeOK
  <2> QED  BY <1>4, <1>5, <1>15, <2>2, <2>3 DEF IInv, TypeOK, RequestsStay, LoaderOK
<1>9. CountsAreHolders'
  <2>1. ASSUME NEW i \in Containers'
        PROVE  refCount'[i] = Cardinality(Holders(i)') + (IF key'[i] \in preloads' THEN 1 ELSE 0)
    <3>1. Holders(i)' = Holders(i) /\ Cardinality(Holders(i)) \in Nat
      BY <1>5, HoldersAreFinite DEF Holders
    <3>2. CASE i \in Containers /\ i # id
      <4>1. refCount'[i] = refCount[i] /\ key'[i] = key[i] /\ key[i] # p
        BY <1>1, <1>4, <1>6, <3>2 DEF KeysAreUnique
      <4> QED  BY <1>5, <3>1, <3>2, <4>1 DEF IInv, CountsAreHolders
    <3>3. CASE i = id /\ TextureExists(p)
      <4>1. refCount'[i] = refCount[i] + 1 /\ refCount[i] = Cardinality(Holders(i))
        BY <1>1, <1>3, <1>4, <1>6, <3>1, <3>3 DEF IInv, CountsAreHolders
      <4> QED  BY <1>4, <1>5, <3>1, <3>3, <4>1
    <3>4. CASE i = id /\ ~TextureExists(p)
      <4>1. Holders(i) = {}
        BY <1>1, <1>3, <3>4 DEF Holders
      <4> QED  BY <1>4, <1>5, <3>1, <3>4, <4>1, FS_EmptySet
    <3> QED  BY <1>4, <2>1, <3>2, <3>3, <3>4
  <2> QED  BY <2>1 DEF CountsAreHolders
<1>10. HeldTexturesStay'
  <2>1. ASSUME NEW n \in alive, texture[n] # 0
        PROVE  texture[n] \in Containers' /\ (n \notin dirty => key'[texture[n]] = source[n])
    BY <1>4, <2>1 DEF IInv, HeldTexturesStay
  <2>2. ASSUME NEW q \in preloads' PROVE TextureExists(q)'
    <3>1. PICK i \in Containers' : key'[i] = q
      BY <1>4, <1>5, <2>2 DEF IInv, HeldTexturesStay, TextureExists
    <3> QED  BY <3>1 DEF TextureExists
  <2> QED  BY <1>5, <2>1, <2>2 DEF HeldTexturesStay
<1>11. PendingIsQueued'
  <2>1. ASSUME NEW i \in Containers', key'[i] \in Loadable \ Words, i \notin loaded, ~spoiled
        PROVE  \E q \in DOMAIN queue' : queue'[q].id = i
    <3>1. CASE i \in Containers
      <4>1. PICK q \in DOMAIN queue : queue[q].id = i
        BY <1>4, <2>1, <3>1 DEF IInv, PendingIsQueued
      <4> QED  BY <1>15, <4>1 DEF RequestsStay
    <3>2. CASE i \notin Containers
      BY <1>3, <1>4, <1>15, <2>1, <3>2
    <3> QED  BY <3>1, <3>2
  <2> QED  BY <1>5, <1>15, <2>1 DEF PendingIsQueued, RequestsStay
<1>12. IdsSuffice'
  BY <1>1, <1>2, <1>4, <1>5 DEF IdsSuffice
<1>13. NamesFree' /\ TextsAskWords' /\ SpritesAskPaths' /\ MeshesWait'
  BY <1>5 DEF IInv, NamesFree, TextsAskWords, SpritesAskPaths, MeshesWait
<1>14. FrameIsFitted'
  <2>1. \A i \in loaded : key'[i] = key[i]
    BY <1>4 DEF IInv, TypeOK
  <2> QED  BY <1>5, <2>1 DEF IInv, FrameIsFitted
<1> QED  BY <1>4, <1>8, <1>9, <1>10, <1>11, <1>12, <1>13, <1>14 DEF IInv

(* The preloader gives up the reference it has.                             *)
LEMMA UnLoadTextureKeeps ==
  ASSUME IInv, NEW p \in Paths, UnLoadTexture(p)
  PROVE  IInv'
<1>1. TextureExists(p) /\ p \in preloads
  BY DEF UnLoadTexture, IInv, HeldTexturesStay
<1>2. PICK id \in Containers : key[id] = p /\ DeleteTextureReference(id)
  BY <1>1 DEF UnLoadTexture, TextureExists, IdFor
<1>3. /\ refCount' = [i \in Ids |-> IF i = id /\ refCount[i] > 0 THEN refCount[i] - 1 ELSE refCount[i]]
      /\ preloads' = preloads \ {p}
      /\ UNCHANGED <<maxId, key, loaded, queue, processed, stalled, spoiled, alive, marked, source, dirty, texture,
                     wants, mesh, phase, visited>>
  BY <1>2 DEF UnLoadTexture, DeleteTextureReference, nodeVars, loaderVars
<1>4. /\ refCount \in [Ids -> Nat] /\ Containers \subseteq Ids /\ Containers' = Containers
      /\ \A i, j \in Containers : key[i] = key[j] => i = j
  BY <1>3 DEF IInv, TypeOK, KeysAreUnique, Containers
<1>5. TypeOK'
  <2>1. refCount' \in [Ids -> Nat]
    BY <1>3, <1>4
  <2> QED  BY <1>3, <1>4, <2>1 DEF IInv, TypeOK
<1>6. CountsAreHolders'
  <2>1. ASSUME NEW i \in Containers
        PROVE  refCount'[i] = Cardinality(Holders(i)') + (IF key[i] \in preloads' THEN 1 ELSE 0)
    <3>1. Holders(i)' = Holders(i) /\ Cardinality(Holders(i)) \in Nat
      BY <1>3, HoldersAreFinite DEF Holders
    <3>2. refCount[i] = Cardinality(Holders(i)) + (IF key[i] \in preloads THEN 1 ELSE 0)
      BY DEF IInv, CountsAreHolders
    <3> QED  BY <1>1, <1>2, <1>3, <1>4, <3>1, <3>2
  <2> QED  BY <1>3, <1>4, <2>1 DEF CountsAreHolders
<1>7. HeldTexturesStay'
  BY <1>3, <1>4 DEF IInv, HeldTexturesStay, TextureExists
<1>8. KeysAreUnique' /\ PendingIsQueued'
  BY <1>3, <1>4 DEF IInv, KeysAreUnique, PendingIsQueued
<1>9. IdsSuffice' /\ NamesFree' /\ TextsAskWords' /\ SpritesAskPaths' /\ MeshesWait' /\ FrameIsFitted'
  BY <1>3 DEF IInv, IdsSuffice, NamesFree, TextsAskWords, SpritesAskPaths, MeshesWait, FrameIsFitted
<1> QED  BY <1>5, <1>6, <1>7, <1>8, <1>9 DEF IInv

-----------------------------------------------------------------------------
(* The frame.                                                               *)

(* A sprite moves to its path's container, and a new one is requested; it   *)
(* then has a mesh built on a texture, or waits for one.                    *)
LEMMA UpdateSpriteKeeps ==
  ASSUME IInv, NEW n \in Sprites, UpdateSprite(n)
  PROVE  IInv'
<1> DEFINE id == IF n \in dirty THEN IdFor(source[n]) ELSE texture[n]
           waits == n \in dirty \/ n \in wants
           fits == waits /\ id \in loaded
<1>1. /\ phase = "update" /\ n \in alive /\ n \in Nodes
      /\ IF n \in dirty
           THEN /\ Rereference(texture[n], source[n])
                /\ IF TextureExists(source[n]) THEN UNCHANGED loaderVars ELSE Request(id, source[n])
           ELSE UNCHANGED <<maxId, key, refCount, loaderVars>>
      /\ texture' = [texture EXCEPT ![n] = id]
      /\ wants' = IF waits /\ ~fits THEN wants \union {n} ELSE wants \ {n}
      /\ mesh' = [mesh EXCEPT ![n] = IF fits THEN "fitted" ELSE IF n \in dirty THEN "blank" ELSE @]
      /\ dirty' = dirty \ {n}
      /\ visited' = visited \union {n}
      /\ UNCHANGED <<loaded, alive, marked, source, preloads, phase>>
  BY DEF UpdateSprite, Nodes
<1>2. /\ maxId \in Nat /\ MaxIds \in Nat /\ texture \in [Nodes -> 0..maxId]
      /\ mesh \in [Nodes -> {"none", "blank", "fitted"}]
      /\ loaded \subseteq Containers /\ Containers \subseteq Ids
      /\ alive \subseteq Nodes
  BY KeysAreDistinct DEF IInv, TypeOK, Containers
<1>3. waits \in BOOLEAN /\ fits \in BOOLEAN
  OBVIOUS
<1>4. /\ texture'[n] = id /\ \A m \in Nodes : m # n => texture'[m] = texture[m]
      /\ \A m \in Nodes : m # n => mesh'[m] = mesh[m]
      /\ mesh' \in [Nodes -> {"none", "blank", "fitted"}]
      /\ fits => mesh'[n] = "fitted"
      /\ n \notin dirty /\ ~fits => mesh'[n] = mesh[n]
  BY <1>1, <1>2
<1>5. /\ maxId' \in 0..MaxIds /\ maxId' \in {maxId, maxId + 1}
      /\ key' \in [Ids -> Keys \union {NoKey}]
      /\ \A i \in Ids : i > maxId' => key'[i] = NoKey
      /\ Containers \subseteq Containers' /\ Containers' \subseteq Containers \union {id}
      /\ \A i \in Containers : key'[i] = key[i]
      /\ KeysAreUnique' /\ CountsAreHolders' /\ HeldTexturesStay' /\ NamesFree' /\ IdsSuffice'
      /\ refCount' \in [Ids -> Nat]
      /\ texture' \in [Nodes -> 0..maxId']
      /\ RequestsStay
      /\ id \notin Containers /\ id \in Containers' => \E q \in DOMAIN queue' : queue'[q].id = id
  <2>1. CASE n \in dirty
    <3>1. /\ maxId < MaxIds /\ source[n] \in Keys /\ texture[n] \in 0..maxId /\ id = IdFor(source[n])
          /\ Rereference(texture[n], source[n])
      BY <1>1, <2>1, DirtyHasId DEF IInv, TypeOK
    <3>2. /\ TextureExists(source[n]) => id \in Containers
          /\ ~TextureExists(source[n]) => id = maxId + 1
      BY <3>1, IdForIsTheKeys
    <3>3. /\ maxId' \in 0..MaxIds /\ maxId' \in {maxId, maxId + 1} /\ id <= maxId'
          /\ key' \in [Ids -> Keys \union {NoKey}]
          /\ \A i \in Ids : i > maxId' => key'[i] = NoKey
          /\ Containers' = Containers \union {id}
          /\ \A i \in Containers : key'[i] = key[i]
          /\ KeysAreUnique'
          /\ refCount' \in [Ids -> Nat]
      BY <3>1, RereferenceMoves
    <3>4. CountsAreHolders' /\ HeldTexturesStay' /\ NamesFree' /\ IdsSuffice' /\ texture' \in [Nodes -> 0..maxId']
      BY <1>1, <2>1, <3>1, NodeMovesKeepsCounts, NodeMovesKeepsHeld
    <3>5. maxId' \in Nat /\ maxId <= maxId' /\ source[n] \in Paths
      BY <1>2, <3>3 DEF IInv, SpritesAskPaths
    <3>6. CASE TextureExists(source[n])
      <4>1. RequestsStay
        BY <1>1, <2>1, <3>5, <3>6, LoaderWidens
      <4> QED  BY <3>2, <3>3, <3>4, <3>6, <4>1
    <3>7. CASE ~TextureExists(source[n])
      <4>1. id \in 1..maxId' /\ Request(id, source[n])
        BY <1>1, <1>2, <2>1, <3>1, <3>2, <3>3, <3>7
      <4> HIDE DEF id
      <4>2. RequestsStay /\ \E q \in DOMAIN queue' : queue'[q].id = id
        BY <3>5, <4>1, RequestJoins
      <4> QED  BY <3>3, <3>4, <4>2
    <3> QED  BY <3>6, <3>7
  <2>2. CASE n \notin dirty
    <3>1. UNCHANGED <<maxId, key, refCount, loaderVars, texture, dirty>>
      BY <1>1, <1>2, <2>2
    <3>5. RequestsStay
      BY <1>2, <3>1, LoaderWidens
    <3>2. CountsAreHolders' /\ KeysAreUnique' /\ HeldTexturesStay'
      BY <1>1, <3>1, TableStays DEF tableVars
    <3>3. NamesFree' /\ IdsSuffice'
      BY <1>1, <3>1 DEF IInv, NamesFree, IdsSuffice
    <3>4. Containers' = Containers
      BY <3>1 DEF Containers
    <3> QED  BY <3>1, <3>2, <3>3, <3>4, <3>5 DEF IInv, TypeOK
  <2> QED  BY <2>1, <2>2
<1> HIDE DEF id, waits, fits
<1>6. TypeOK'
  <2>1. wants' \subseteq alive' \intersect Sprites /\ dirty' \subseteq alive' /\ visited' \subseteq Nodes
    BY <1>1 DEF IInv, TypeOK
  <2>2. loaded' \subseteq Containers'
    BY <1>1, <1>2, <1>5
  <2> QED  BY <1>1, <1>4, <1>5, <2>1, <2>2 DEF IInv, TypeOK, RequestsStay, LoaderOK
<1>7. PendingIsQueued'
  <2> SUFFICES ASSUME NEW i \in Containers', key'[i] \in Loadable \ Words, i \notin loaded', ~spoiled'
               PROVE  \E q \in DOMAIN queue' : queue'[q].id = i
    BY DEF PendingIsQueued
  <2>1. CASE i \in Containers
    <3>1. PICK q \in DOMAIN queue : queue[q].id = i
      BY <1>1, <1>5, <2>1 DEF IInv, PendingIsQueued, RequestsStay
    <3> QED  BY <1>5, <2>1, <3>1 DEF RequestsStay
  <2>2. CASE i \notin Containers
    BY <1>5, <2>2
  <2> QED  BY <2>1, <2>2
<1>8. TextsAskWords' /\ SpritesAskPaths'
  BY <1>1 DEF IInv, TextsAskWords, SpritesAskPaths
<1>9. waits => n \in wants' \/ mesh'[n] = "fitted"
  BY <1>1, <1>3, <1>4
<1>10. ~waits => mesh[n] = "fitted" /\ mesh'[n] = "fitted"
  BY <1>1, <1>3, <1>4 DEF IInv, MeshesWait, waits, fits
<1>11. MeshesWait'
  <2>1. ASSUME NEW m \in alive \intersect Sprites, m # n
        PROVE  m \in dirty' \/ m \in wants' \/ mesh'[m] = "fitted"
    BY <1>1, <1>4, <2>1 DEF IInv, MeshesWait
  <2> QED  BY <1>1, <1>3, <1>9, <1>10, <2>1 DEF MeshesWait
<1>12. FrameIsFitted'
  <2>1. texture'[n] \in loaded /\ mesh'[n] # "fitted" => FALSE
    BY <1>3, <1>4, <1>10 DEF fits
  <2>2. ASSUME NEW m \in visited \intersect alive \intersect Sprites, m # n,
               texture'[m] \in loaded, key'[texture'[m]] \notin Words
        PROVE  mesh'[m] = "fitted"
    <3>1. texture'[m] = texture[m] /\ mesh'[m] = mesh[m] /\ key'[texture[m]] = key[texture[m]]
      BY <1>1, <1>2, <1>4, <1>5, <2>2
    <3> QED  BY <1>1, <2>2, <3>1 DEF IInv, FrameIsFitted
  <2> QED  BY <1>1, <2>1, <2>2 DEF FrameIsFitted
<1> QED  BY <1>5, <1>6, <1>7, <1>8, <1>11, <1>12 DEF IInv

(* A text moves to its words' container and paints it at once.              *)
LEMMA UpdateTextKeeps ==
  ASSUME IInv, NEW n \in Texts, NEW painted \in BOOLEAN, UpdateText(n, painted)
  PROVE  IInv'
<1> DEFINE id == IdFor(source[n])
<1>1. /\ n \in alive /\ n \in Nodes /\ n \notin Sprites
      /\ phase = "update"
      /\ dirty' = dirty \ {n}
      /\ visited' = visited \union {n}
      /\ UNCHANGED <<loaderVars, alive, marked, source, wants, preloads, phase>>
  BY KeysAreDistinct DEF UpdateText, Nodes
<1>2. /\ maxId \in Nat /\ MaxIds \in Nat /\ texture \in [Nodes -> 0..maxId] /\ alive \subseteq Nodes
      /\ mesh \in [Nodes -> {"none", "blank", "fitted"}]
      /\ loaded \subseteq Containers /\ Containers \subseteq Ids
      /\ visited \subseteq Nodes /\ wants \subseteq Sprites
  BY KeysAreDistinct DEF IInv, TypeOK, Containers
<1>3. CASE n \in dirty
  <2>1. /\ Rereference(texture[n], source[n])
        /\ texture' = [texture EXCEPT ![n] = id]
        /\ loaded' = IF painted THEN loaded \union {id} ELSE loaded
        /\ mesh' = IF painted THEN [mesh EXCEPT ![n] = "fitted"] ELSE mesh
    BY <1>3 DEF UpdateText
  <2>2. /\ maxId < MaxIds /\ source[n] \in Keys /\ texture[n] \in 0..maxId /\ source[n] \in Words
    BY <1>3, DirtyHasId DEF IInv, TypeOK, TextsAskWords, SpritesAskPaths
  <2>3. /\ maxId' \in 0..MaxIds /\ maxId' \in {maxId, maxId + 1}
        /\ key' \in [Ids -> Keys \union {NoKey}]
        /\ \A i \in Ids : i > maxId' => key'[i] = NoKey
        /\ Containers' = Containers \union {id} /\ key'[id] = source[n]
        /\ \A i \in Containers : key'[i] = key[i]
        /\ KeysAreUnique'
        /\ refCount' \in [Ids -> Nat]
    BY <2>1, <2>2, RereferenceMoves
  <2>4. CountsAreHolders' /\ HeldTexturesStay' /\ NamesFree' /\ IdsSuffice' /\ texture' \in [Nodes -> 0..maxId']
    BY <1>1, <1>3, <2>1, NodeMovesKeepsCounts, NodeMovesKeepsHeld
  <2>5. /\ \A m \in Nodes : m # n => texture'[m] = texture[m] /\ mesh'[m] = mesh[m]
        /\ mesh' \in [Nodes -> {"none", "blank", "fitted"}]
        /\ loaded' \subseteq loaded \union {id} /\ loaded \subseteq loaded'
    BY <1>1, <1>2, <2>1
  <2> HIDE DEF id
  <2>6. TypeOK'
    <3>1. RequestsStay
      BY <1>1, <1>2, <2>3, LoaderWidens
    <3>2. dirty' \subseteq alive' /\ wants' \subseteq alive' \intersect Sprites /\ visited' \subseteq Nodes
      BY <1>1 DEF IInv, TypeOK
    <3>3. loaded' \subseteq Containers'
      BY <1>2, <2>3, <2>5
    <3> QED  BY <1>1, <2>3, <2>4, <2>5, <3>1, <3>2, <3>3 DEF IInv, TypeOK, RequestsStay, LoaderOK
  <2>7. PendingIsQueued'
    BY <1>1, <2>2, <2>3, <2>5 DEF IInv, PendingIsQueued, loaderVars
  <2>8. MeshesWait'
    BY <1>1, <1>2, <2>5 DEF IInv, MeshesWait
  <2>9. FrameIsFitted'
    <3>1. ASSUME NEW m \in visited' \intersect alive' \intersect Sprites,
                 texture'[m] \in loaded', key'[texture'[m]] \notin Words
          PROVE  mesh'[m] = "fitted"
      <4>1. m # n /\ m \in Nodes /\ m \in visited \intersect alive \intersect Sprites
        BY <1>1, <1>2, <3>1
      <4>2. texture[m] \in loaded /\ key'[texture[m]] = key[texture[m]]
        BY <1>2, <2>2, <2>3, <2>5, <3>1, <4>1
      <4> QED  BY <1>1, <2>5, <3>1, <4>1, <4>2 DEF IInv, FrameIsFitted
    <3> QED  BY <3>1 DEF FrameIsFitted
  <2>10. TextsAskWords' /\ SpritesAskPaths'
    BY <1>1 DEF IInv, TextsAskWords, SpritesAskPaths
  <2> QED  BY <2>3, <2>4, <2>6, <2>7, <2>8, <2>9, <2>10 DEF IInv
<1>4. CASE n \notin dirty
  <2>1. UNCHANGED <<tableVars, texture, mesh, dirty>>
    BY <1>1, <1>4 DEF UpdateText
  <2>2. KeysAreUnique' /\ CountsAreHolders' /\ HeldTexturesStay' /\ PendingIsQueued'
    BY <1>1, <2>1, TableStays
  <2>3. TypeOK'
    BY <1>1, <2>1 DEF IInv, TypeOK, tableVars, loaderVars, Containers
  <2>4. IdsSuffice' /\ NamesFree' /\ TextsAskWords' /\ SpritesAskPaths' /\ MeshesWait'
    BY <1>1, <2>1 DEF IInv, IdsSuffice, NamesFree, TextsAskWords, SpritesAskPaths, MeshesWait, tableVars
  <2>5. FrameIsFitted'
    BY <1>1, <2>1 DEF IInv, FrameIsFitted, tableVars
  <2> QED  BY <2>2, <2>3, <2>4, <2>5 DEF IInv
<1> QED  BY <1>3, <1>4

(* A purged node's reference goes with it.                                  *)
LEMMA FreeNodeKeeps ==
  ASSUME IInv, NEW n \in Nodes, FreeNode(n)
  PROVE  IInv'
<1>1. /\ phase = "purge" /\ n \in marked /\ alive' = alive \ {n} /\ marked' = marked \ {n}
      /\ dirty' = dirty \ {n} /\ wants' = wants \ {n}
      /\ refCount' = [i \in Ids |-> IF i = texture[n] /\ refCount[i] > 0 THEN refCount[i] - 1 ELSE refCount[i]]
      /\ source' = [source EXCEPT ![n] = Empty]
      /\ texture' = [texture EXCEPT ![n] = 0]
      /\ mesh' = [mesh EXCEPT ![n] = "none"]
      /\ UNCHANGED <<maxId, key, loaded, queue, processed, stalled, spoiled, preloads, phase, visited>>
  BY DEF FreeNode, DeleteTextureReference, loaderVars
<1>2. /\ maxId \in Nat /\ texture \in [Nodes -> 0..maxId] /\ source \in [Nodes -> Keys]
      /\ mesh \in [Nodes -> {"none", "blank", "fitted"}] /\ refCount \in [Ids -> Nat]
      /\ marked \subseteq alive /\ alive \subseteq Nodes /\ dirty \subseteq alive
      /\ Empty \in Keys /\ Empty \in Words /\ Empty \in Paths
  BY KeysAreDistinct DEF IInv, TypeOK, Keys
<1>3. Containers' = Containers /\ Containers \subseteq Ids /\ \A i \in Ids : i # 0
  BY <1>1 DEF Containers, Ids
<1>4. TypeOK'
  <2>1. refCount' \in [Ids -> Nat]
    BY <1>1, <1>2
  <2>2. texture' \in [Nodes -> 0..maxId] /\ source' \in [Nodes -> Keys]
        /\ mesh' \in [Nodes -> {"none", "blank", "fitted"}]
    BY <1>1, <1>2
  <2> QED  BY <1>1, <1>3, <2>1, <2>2 DEF IInv, TypeOK
<1>5. CountsAreHolders'
  <2>1. ASSUME NEW i \in Containers
        PROVE  refCount'[i] = Cardinality(Holders(i)') + (IF key[i] \in preloads THEN 1 ELSE 0)
    <3>1. refCount[i] = Cardinality(Holders(i)) + (IF key[i] \in preloads THEN 1 ELSE 0)
      BY DEF IInv, CountsAreHolders
    <3>2. CASE i = texture[n]
      <4>1. n \in Holders(i) /\ Holders(i)' = Holders(i) \ {n}
        BY <1>1, <1>2, <1>3, <3>2 DEF Holders
      <4>2. Cardinality(Holders(i)') = Cardinality(Holders(i)) - 1 /\ Cardinality(Holders(i)) \in Nat \ {0}
        BY <4>1, HoldersAreFinite, FS_RemoveElement
      <4> QED  BY <1>1, <1>2, <1>3, <3>1, <3>2, <4>2
    <3>3. CASE i # texture[n]
      <4>1. Holders(i)' = Holders(i)
        BY <1>1, <1>2, <1>3, <3>3 DEF Holders
      <4> QED  BY <1>1, <1>3, <3>1, <3>3, <4>1
    <3> QED  BY <3>2, <3>3
  <2> QED  BY <1>1, <1>3, <2>1 DEF CountsAreHolders
<1>6. HeldTexturesStay'
  <2>1. \A m \in alive' : texture'[m] = texture[m] /\ source'[m] = source[m] /\ (m \in dirty' <=> m \in dirty)
    BY <1>1, <1>2
  <2> QED  BY <1>1, <1>3, <2>1 DEF IInv, HeldTexturesStay, TextureExists
<1>7. IdsSuffice'
  <2>1. IsFiniteSet(alive') /\ IsFiniteSet(dirty)
    BY <1>1, <1>2, FS_RemoveElement, FS_Subset DEF IInv, IdsSuffice
  <2>2. Cardinality(dirty) \in Nat /\ Cardinality(dirty') \in {Cardinality(dirty), Cardinality(dirty) - 1}
    BY <1>1, <2>1, FS_CardinalityType, FS_RemoveElement
  <2>3. maxId' + Cardinality(dirty') <= MaxIds
    BY <1>1, <1>2, <2>2, KeysAreDistinct DEF IInv, IdsSuffice
  <2> QED  BY <2>1, <2>3 DEF IdsSuffice
<1>8. KeysAreUnique' /\ PendingIsQueued'
  BY <1>1, <1>3 DEF IInv, KeysAreUnique, PendingIsQueued
<1>9. NamesFree' /\ TextsAskWords' /\ SpritesAskPaths'
  BY <1>1, <1>2 DEF IInv, NamesFree, TextsAskWords, SpritesAskPaths, Nodes
<1>10. MeshesWait' /\ FrameIsFitted'
  BY <1>1, <1>2 DEF IInv, MeshesWait, FrameIsFitted
<1> QED  BY <1>4, <1>5, <1>6, <1>7, <1>8, <1>9, <1>10 DEF IInv

(* What PurgeTextures frees has no holder.                                  *)
LEMMA PurgeTexturesKeeps ==
  ASSUME IInv, PurgeTextures
  PROVE  IInv'
<1>1. /\ key' = [i \in Ids |-> IF refCount[i] = 0 THEN NoKey ELSE key[i]]
      /\ loaded' = {i \in loaded : refCount[i] > 0}
      /\ phase' = "apply"
      /\ UNCHANGED <<maxId, refCount, queue, processed, stalled, spoiled, alive, marked, source, dirty, texture,
                     wants, mesh, preloads, visited>>
  BY DEF PurgeTextures, nodeVars, loaderVars
<1>2. /\ key \in [Ids -> Keys \union {NoKey}] /\ refCount \in [Ids -> Nat] /\ Containers \subseteq Ids
      /\ loaded \subseteq Containers
  BY DEF IInv, TypeOK, Containers
<1>3. Containers' = {i \in Containers : refCount[i] # 0}
  BY <1>1, <1>2 DEF Containers
<1>4. /\ \A i \in Containers' : key'[i] = key[i]
      /\ \A i \in loaded' : i \in loaded /\ key'[i] = key[i]
      /\ loaded' = loaded \intersect Containers'
  BY <1>1, <1>2, <1>3
<1>5. TypeOK'
  <2>1. key' \in [Ids -> Keys \union {NoKey}]
    BY <1>1, <1>2
  <2>2. \A i \in Ids : i > maxId => key'[i] = NoKey
    BY <1>1 DEF IInv, TypeOK
  <2> QED  BY <1>1, <1>4, <2>1, <2>2 DEF IInv, TypeOK
<1>6. KeysAreUnique' /\ PendingIsQueued'
  BY <1>1, <1>3, <1>4 DEF IInv, KeysAreUnique, PendingIsQueued
<1>7. CountsAreHolders'
  <2>1. \A i : Holders(i)' = Holders(i)
    BY <1>1 DEF Holders
  <2> QED  BY <1>1, <1>3, <1>4, <2>1 DEF IInv, CountsAreHolders
<1>8. HeldTexturesStay'
  <2>1. ASSUME NEW n \in alive, texture[n] # 0 PROVE texture[n] \in Containers'
    <3>1. texture[n] \in Containers /\ n \in Holders(texture[n])
      BY <2>1 DEF IInv, HeldTexturesStay, Holders
    <3>2. Cardinality(Holders(texture[n])) \in Nat \ {0}
      BY <3>1, HoldersAreFinite
    <3> QED  BY <1>3, <3>1, <3>2 DEF IInv, CountsAreHolders
  <2>2. ASSUME NEW p \in preloads PROVE TextureExists(p)'
    <3>1. PICK i \in Containers : key[i] = p
      BY <2>2 DEF IInv, HeldTexturesStay, TextureExists
    <3>2. refCount[i] # 0
      BY <2>2, <3>1, HoldersAreFinite DEF IInv, CountsAreHolders
    <3>3. i \in Containers' /\ key'[i] = p
      BY <1>3, <1>4, <3>1, <3>2
    <3> QED  BY <3>3 DEF TextureExists
  <2> QED  BY <1>1, <1>4, <2>1, <2>2 DEF IInv, HeldTexturesStay
<1>9. IdsSuffice' /\ NamesFree' /\ TextsAskWords' /\ SpritesAskPaths' /\ MeshesWait' /\ FrameIsFitted'
  BY <1>1 DEF IInv, IdsSuffice, NamesFree, TextsAskWords, SpritesAskPaths, MeshesWait, FrameIsFitted
<1> QED  BY <1>5, <1>6, <1>7, <1>8, <1>9 DEF IInv

(* A request leaves the queue when its container, if it is there, is        *)
(* loaded, or a bad file was tried before.                                  *)
LEMMA ServeRequestKeeps ==
  ASSUME IInv, ServeRequest
  PROVE  IInv'
<1> DEFINE first == Head(queue)
           S == [id : 1..maxId, path : Paths]
<1>1. /\ processed /\ queue' = Tail(queue)
      /\ loaded' = loaded \/ loaded' = loaded \union ({first.id} \intersect Containers)
      /\ ~spoiled => loaded' = loaded \union ({first.id} \intersect Containers)
      /\ processed' \in BOOLEAN /\ (processed' => queue' # <<>>)
      /\ phase' = "poll"
      /\ UNCHANGED <<stalled, spoiled, maxId, key, refCount, alive, marked, source, dirty, texture, wants, mesh,
                     preloads, visited>>
  BY DEF ServeRequest, nodeVars
<1>2. queue \in Seq(S) /\ queue # <<>> /\ ~stalled /\ Containers' = Containers
  BY <1>1 DEF IInv, TypeOK, Containers
<1> HIDE DEF S
<1>3. /\ Tail(queue) \in Seq(S)
      /\ first = queue[1] /\ Len(queue) \in Nat \ {0} /\ Len(Tail(queue)) = Len(queue) - 1
      /\ \A q \in 1..Len(Tail(queue)) : Tail(queue)[q] = queue[q + 1]
      /\ DOMAIN queue = 1..Len(queue) /\ DOMAIN Tail(queue) = 1..Len(Tail(queue))
  <2>1. /\ Tail(queue) \in Seq(S) /\ Len(queue) \in Nat /\ Len(queue) # 0
        /\ Len(Tail(queue)) = Len(queue) - 1
    BY <1>2, HeadTailProperties, EmptySeq, LenProperties
  <2>2. first = queue[1]
    BY <1>2, HeadTailProperties
  <2>3. \A q \in 1..Len(Tail(queue)) : Tail(queue)[q] = queue[q + 1]
    BY <1>2, HeadTailProperties
  <2>4. DOMAIN queue = 1..Len(queue) /\ DOMAIN Tail(queue) = 1..Len(Tail(queue))
    BY <1>2, <2>1, LenProperties
  <2> QED  BY <2>1, <2>2, <2>3, <2>4
<1>4. TypeOK'
  <2>1. loaded' \subseteq Containers'
    BY <1>1, <1>2 DEF IInv, TypeOK
  <2>2. queue' \in Seq([id : 1..maxId', path : Paths])
    BY <1>1, <1>3 DEF S
  <2> HIDE DEF first
  <2> QED  BY <1>1, <1>2, <2>1, <2>2 DEF IInv, TypeOK
<1>5. PendingIsQueued'
  <2> SUFFICES ASSUME NEW i \in Containers, key[i] \in Loadable \ Words, i \notin loaded', ~spoiled
               PROVE  \E q \in DOMAIN queue' : queue'[q].id = i
    BY <1>1, <1>2 DEF PendingIsQueued
  <2>1. PICK q \in DOMAIN queue : queue[q].id = i
    BY <1>1 DEF IInv, PendingIsQueued
  <2>2. q # 1
    BY <1>1, <1>3, <2>1
  <2>3. q - 1 \in 1..Len(Tail(queue)) /\ (q - 1) + 1 = q
    BY <1>3, <2>1, <2>2
  <2>4. q - 1 \in DOMAIN queue' /\ queue'[q - 1].id = i
    BY <1>1, <1>3, <2>1, <2>3
  <2> QED  BY <2>4
<1>6. KeysAreUnique' /\ CountsAreHolders'
  <2>1. \A i : Holders(i)' = Holders(i)
    BY <1>1 DEF Holders
  <2> QED  BY <1>1, <1>2, <2>1 DEF IInv, KeysAreUnique, CountsAreHolders
<1>7. HeldTexturesStay'
  BY <1>1, <1>2 DEF IInv, HeldTexturesStay, TextureExists
<1>8. IdsSuffice' /\ NamesFree' /\ TextsAskWords' /\ SpritesAskPaths' /\ MeshesWait' /\ FrameIsFitted'
  BY <1>1 DEF IInv, IdsSuffice, NamesFree, TextsAskWords, SpritesAskPaths, MeshesWait, FrameIsFitted
<1> QED  BY <1>4, <1>5, <1>6, <1>7, <1>8 DEF IInv

(* The loader's mark takes no request away.                                 *)
LEMMA LoaderProcessesKeeps ==
  ASSUME IInv, LoaderProcesses
  PROVE  IInv'
<1>1. /\ queue # <<>> /\ ~stalled /\ processed' = TRUE
      /\ spoiled' \in BOOLEAN /\ (spoiled => spoiled')
      /\ UNCHANGED <<queue, stalled, maxId, key, refCount, loaded, alive, marked, source, dirty, texture, wants, mesh,
                     preloads, phase, visited>>
  BY DEF LoaderProcesses, tableVars, nodeVars, IInv, TypeOK
<1>2. Containers' = Containers /\ \A i : Holders(i)' = Holders(i)
  BY <1>1 DEF Containers, Holders
<1>3. TypeOK'
  BY <1>1, <1>2 DEF IInv, TypeOK
<1>4. KeysAreUnique' /\ CountsAreHolders' /\ HeldTexturesStay'
  BY <1>1, <1>2 DEF IInv, KeysAreUnique, CountsAreHolders, HeldTexturesStay, TextureExists
<1>5. PendingIsQueued'
  BY <1>1, <1>2 DEF IInv, PendingIsQueued
<1>6. IdsSuffice' /\ NamesFree' /\ TextsAskWords' /\ SpritesAskPaths' /\ MeshesWait' /\ FrameIsFitted'
  BY <1>1 DEF IInv, IdsSuffice, NamesFree, TextsAskWords, SpritesAskPaths, MeshesWait, FrameIsFitted
<1> QED  BY <1>3, <1>4, <1>5, <1>6 DEF IInv

(* RenderLoop's other steps only move on.                                   *)
LEMMA LoopKeeps ==
  ASSUME IInv, EndUpdate \/ EndScript \/ EndRender \/ ServeNothing \/ BeginFrame \/ UNCHANGED vars
  PROVE  IInv'
<1>1. /\ UNCHANGED <<tableVars, loaderVars, alive, marked, source, dirty, texture, wants, mesh, preloads>>
      /\ \/ phase' \in {"script", "render"} /\ phase \in {"update", "script"} /\ visited' = visited
         \/ phase' \in {"purge", "poll"} /\ visited' = visited
         \/ phase' = "update" /\ visited' = {}
         \/ phase' = phase /\ visited' = visited
  BY DEF EndUpdate, EndScript, EndRender, ServeNothing, BeginFrame, vars, nodeVars
<1>2. KeysAreUnique' /\ CountsAreHolders' /\ HeldTexturesStay' /\ PendingIsQueued'
  BY <1>1, TableStays
<1>3. TypeOK'
  BY <1>1 DEF IInv, TypeOK, tableVars, loaderVars, Containers
<1>4. IdsSuffice' /\ NamesFree' /\ TextsAskWords' /\ SpritesAskPaths' /\ MeshesWait'
  BY <1>1 DEF IInv, IdsSuffice, NamesFree, TextsAskWords, SpritesAskPaths, MeshesWait, tableVars
<1>5. FrameIsFitted'
  BY <1>1 DEF IInv, FrameIsFitted, tableVars
<1> QED  BY <1>2, <1>3, <1>4, <1>5 DEF IInv

(* Every step keeps the invariant.                                          *)
LEMMA NextKeeps == IInv /\ [Next]_vars => IInv'
<1> SUFFICES ASSUME IInv, [Next]_vars PROVE IInv'
  OBVIOUS
<1>1. CASE Script
  BY <1>1, NodeCallsKeep, LoadTextureKeeps, UnLoadTextureKeeps DEF Script
<1>2. CASE Frame
  BY <1>2, UpdateSpriteKeeps, UpdateTextKeeps, FreeNodeKeeps, PurgeTexturesKeeps, ServeRequestKeeps, LoopKeeps
     DEF Frame
<1>3. CASE LoaderProcesses
  BY <1>3, LoaderProcessesKeeps
<1>4. CASE UNCHANGED vars
  BY <1>4, LoopKeeps
<1> QED  BY <1>1, <1>2, <1>3, <1>4 DEF Next

-----------------------------------------------------------------------------
(* Whatever scripts create, re-path, preload and delete, and whenever the   *)
(* loader answers, the table is as IInv says.                               *)
THEOREM InvHolds == Spec => []IInv
<1>1. Init => IInv
  BY InitHolds
<1>2. IInv /\ [Next]_vars => IInv'
  BY NextKeeps
<1> QED  BY <1>1, <1>2, PTL DEF Spec

(* Every container's count is the number of nodes and preloads that refer   *)
(* to it, and one key has one container.                                    *)
THEOREM CountsHold == Spec => []RefCountsAreHolders
<1>1. IInv => RefCountsAreHolders
  BY DEF IInv, KeysAreUnique, CountsAreHolders, RefCountsAreHolders
<1> QED  BY <1>1, InvHolds, PTL

(* What a node or the preloader refers to stays in the table, under its key. *)
THEOREM TexturesStay == Spec => []HeldTexturesStay
<1>1. IInv => HeldTexturesStay
  BY DEF IInv
<1> QED  BY <1>1, InvHolds, PTL

(* The container of a good path is loaded, or its request is queued, or a   *)
(* bad file was marked.                                                     *)
THEOREM PendingStays == Spec => []PendingIsQueued
<1>1. IInv => PendingIsQueued
  BY DEF IInv
<1> QED  BY <1>1, InvHolds, PTL

(* A sprite drawn in the frame that updated it has the texture coordinates  *)
(* of its texture.                                                          *)
THEOREM MeshesFit == Spec => []DrawnMeshIsFitted
<1>1. IInv => DrawnMeshIsFitted
  BY DEF IInv, FrameIsFitted, DrawnMeshIsFitted
<1> QED  BY <1>1, InvHolds, PTL
=============================================================================
