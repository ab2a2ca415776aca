-------------------------- MODULE SceneGraphProofs --------------------------
(***************************************************************************)
(* Theorems about SceneGraph, for every number of nodes and scenes:        *)
(*   Typing            the type invariant;                                 *)
(*   ListsAreOwned     child and scene lists partition the assigned nodes  *)
(*                     they hold, and hold live nodes only;                *)
(*   RenderIsSafe      the render walk never meets an id without a node;   *)
(*   PictureHolds      a frame draws the visible nodes, each once, parents *)
(*                     first;                                              *)
(*   FamiliesAreKept   what hung under a parent goes when the parent goes; *)
(*   NoneIsOrphaned    it is never left behind, to the end of its life;    *)
(* and about Transforms:                                                   *)
(*   DrawingIsInPlace  a drawn node stands where its chain of places puts  *)
(*                     it, unless something above changed behind its back. *)
(***************************************************************************)
EXTENDS Transforms, WellFoundedInduction, FiniteSetTheorems, TLAPS

(***************************************************************************)
(* What the two list operations return.                                    *)
(***************************************************************************)

(* Elements of a sequence are in the set it is a sequence over.             *)
LEMMA ElementsType ==
  ASSUME NEW S, NEW s \in Seq(S)
  PROVE  Elements(s) \subseteq S
BY DEF Elements

(* EraseFirst returns a sequence over the same set.                         *)
LEMMA EraseFirstType ==
  ASSUME NEW S, NEW s \in Seq(S), NEW e
  PROVE  EraseFirst(s, e) \in Seq(S)
<1>1. CASE e \notin Elements(s)
  BY <1>1 DEF EraseFirst
<1>2. CASE e \in Elements(s)
  <2> DEFINE before(i) == \A j \in 1..i : s[j] # e
             r == [i \in 1..(Len(s) - 1) |-> IF before(i) THEN s[i] ELSE s[i + 1]]
  <2>1. Len(s) - 1 \in Nat
    BY <1>2 DEF Elements
  <2>2. \A i \in 1..(Len(s) - 1) : r[i] \in S
    BY <2>1
  <2>3. r \in [1..(Len(s) - 1) -> S]
    BY <2>2
  <2> HIDE DEF r
  <2>4. r \in Seq(S)
    BY <2>1, <2>3
  <2>5. EraseFirst(s, e) = r
    BY <1>2 DEF EraseFirst, r
  <2> QED
    BY <2>4, <2>5
<1> QED
  BY <1>1, <1>2
(* EraseFirst removes nothing but e; it removes e itself when s has no      *)
(* repetitions; and it introduces none.                                     *)
LEMMA EraseFirstElements ==
  ASSUME NEW S, NEW s \in Seq(S), NEW e, Distinct(s)
  PROVE  /\ Distinct(EraseFirst(s, e))
         /\ Elements(EraseFirst(s, e)) = Elements(s) \ {e}
<1>1. CASE e \notin Elements(s)
  BY <1>1 DEF EraseFirst
<1>2. CASE e \in Elements(s)
  <2> DEFINE before(i) == \A j \in 1..i : s[j] # e
             r == [i \in 1..(Len(s) - 1) |-> IF before(i) THEN s[i] ELSE s[i + 1]]
  <2>0. PICK k \in 1..Len(s) : s[k] = e
    BY <1>2 DEF Elements
  <2>1. \A i \in 1..Len(s) : before(i) <=> i < k
    BY <2>0 DEF Distinct
  <2>2. DOMAIN r = 1..(Len(s) - 1)
    OBVIOUS
  <2>3. \A i \in 1..(Len(s) - 1) : r[i] = IF i < k THEN s[i] ELSE s[i + 1]
    BY <2>1
  <2>4. EraseFirst(s, e) = r
    BY <1>2 DEF EraseFirst
  <2> HIDE DEF r, before
  <2>5. Distinct(r)
    BY <2>0, <2>2, <2>3 DEF Distinct
  <2>6. ASSUME NEW x \in Elements(r) PROVE x \in Elements(s) \ {e}
    BY <2>0, <2>2, <2>3, <2>6 DEF Distinct, Elements
  <2>7. ASSUME NEW x \in Elements(s) \ {e} PROVE x \in Elements(r)
    <3>1. PICK i \in 1..Len(s) : s[i] = x
      BY DEF Elements
    <3>2. CASE i < k
      BY <2>0, <2>2, <2>3, <3>1, <3>2 DEF Elements
    <3>3. CASE i > k
      <4>1. i - 1 \in 1..(Len(s) - 1) /\ r[i - 1] = s[i]
        BY <2>0, <2>3, <3>1, <3>3
      <4> QED
        BY <4>1, <2>2, <3>1 DEF Elements
    <3> QED
      BY <2>0, <3>1, <3>2, <3>3
  <2> QED
    BY <2>4, <2>5, <2>6, <2>7
<1> QED
  BY <1>1, <1>2

(* InsertBefore returns a sequence over the same set.                       *)
LEMMA InsertBeforeType ==
  ASSUME NEW S, NEW s \in Seq(S), NEW e \in S, NEW at
  PROVE  InsertBefore(s, e, at) \in Seq(S)
<1>1. CASE at \notin Elements(s)
  BY <1>1 DEF InsertBefore
<1>2. CASE at \in Elements(s)
  <2> DEFINE before(i) == \A j \in 1..i : s[j] # at
             r == [i \in 1..(Len(s) + 1) |->
                     IF i <= Len(s) /\ before(i) THEN s[i]
                     ELSE IF i = 1 \/ before(i - 1) THEN e ELSE s[i - 1]]
  <2>1. \A i \in 1..(Len(s) + 1) : r[i] \in S
    OBVIOUS
  <2>2. r \in [1..(Len(s) + 1) -> S]
    BY <2>1
  <2> HIDE DEF r
  <2>3. r \in Seq(S)
    BY <2>2
  <2>4. InsertBefore(s, e, at) = r
    BY <1>2 DEF InsertBefore, r
  <2> QED
    BY <2>3, <2>4
<1> QED
  BY <1>1, <1>2

(* Inserting an element that s does not hold adds it at most, loses none    *)
(* and keeps s free of repetitions.                                         *)
LEMMA InsertBeforeElements ==
  ASSUME NEW S, NEW s \in Seq(S), NEW e, NEW at, Distinct(s), e \notin Elements(s)
  PROVE  /\ Distinct(InsertBefore(s, e, at))
         /\ Elements(InsertBefore(s, e, at)) \subseteq Elements(s) \union {e}
         /\ Elements(s) \subseteq Elements(InsertBefore(s, e, at))
<1>1. CASE at \notin Elements(s)
  BY <1>1 DEF InsertBefore
<1>2. CASE at \in Elements(s)
  <2> DEFINE before(i) == \A j \in 1..i : s[j] # at
             r == [i \in 1..(Len(s) + 1) |->
                     IF i <= Len(s) /\ before(i) THEN s[i]
                     ELSE IF i = 1 \/ before(i - 1) THEN e ELSE s[i - 1]]
  <2>0. PICK k \in 1..Len(s) : s[k] = at
    BY <1>2 DEF Elements
  <2>1. \A i \in 0..Len(s) : before(i) <=> i < k
    BY <2>0 DEF Distinct
  <2>2. DOMAIN r = 1..(Len(s) + 1)
    OBVIOUS
  <2>3. ASSUME NEW i \in 1..(Len(s) + 1)
        PROVE  r[i] = IF i < k THEN s[i] ELSE IF i = k THEN e ELSE s[i - 1]
    BY <2>0, <2>1
  <2>4. InsertBefore(s, e, at) = r
    BY <1>2 DEF InsertBefore
  <2> HIDE DEF r, before
  <2>5. \A i \in 1..Len(s) : s[i] # e
    BY DEF Elements
  <2>6. Distinct(r)
    BY <2>0, <2>2, <2>3, <2>5 DEF Distinct
  <2>7. Elements(r) \subseteq Elements(s) \union {e}
    BY <2>0, <2>2, <2>3 DEF Elements
  <2>8. ASSUME NEW j \in 1..Len(s) PROVE s[j] \in Elements(r)
    <3>1. CASE j < k
      <4>1. r[j] = s[j]
        BY <2>3, <3>1
      <4> QED
        BY <2>2, <4>1 DEF Elements
    <3>2. CASE ~(j < k)
      <4>1. j + 1 \in 1..(Len(s) + 1) /\ ~(j + 1 < k) /\ j + 1 # k /\ (j + 1) - 1 = j
        BY <2>0, <3>2
      <4>2. r[j + 1] = s[j]
        BY <2>3, <4>1
      <4> QED
        BY <2>2, <4>1, <4>2 DEF Elements
    <3> QED
      BY <3>1, <3>2
  <2>9. Elements(s) \subseteq Elements(r)
    BY <2>8 DEF Elements
  <2> QED
    BY <2>4, <2>6, <2>7, <2>9
<1> QED
  BY <1>1, <1>2

(* Appending to a sequence and walking into one.                            *)
LEMMA AppendElements ==
  ASSUME NEW S, NEW s \in Seq(S), NEW e
  PROVE  /\ Elements(Append(s, e)) = Elements(s) \union {e}
         /\ Distinct(s) /\ e \notin Elements(s) => Distinct(Append(s, e))
<1> DEFINE r == Append(s, e)
<1>1. DOMAIN r = 1..(Len(s) + 1) /\ r[Len(s) + 1] = e
  OBVIOUS
<1>2. \A i \in 1..Len(s) : r[i] = s[i]
  OBVIOUS
<1> HIDE DEF r
<1>3. Elements(r) = Elements(s) \union {e}
  BY <1>1, <1>2 DEF Elements
<1>4. Distinct(s) /\ e \notin Elements(s) => Distinct(r)
  BY <1>1, <1>2 DEF Elements, Distinct
<1> QED
  BY <1>3, <1>4 DEF r

(* Visiting a node: what comes next in the walk is what is left of the walk *)
(* and the node's children.                                                 *)
LEMMA WalkElements ==
  ASSUME NEW S, NEW s \in Seq(S), NEW t \in Seq(S), t # <<>>
  PROVE  /\ Head(t) \in Elements(t)
         /\ Tail(t) \in Seq(S) /\ Elements(Tail(t)) \subseteq Elements(t)
         /\ s \o Tail(t) \in Seq(S)
         /\ Elements(s \o Tail(t)) \subseteq Elements(s) \union Elements(t)
<1>1. Len(t) >= 1 /\ Head(t) = t[1]
  OBVIOUS
<1>2. Elements(Tail(t)) \subseteq Elements(t)
  BY <1>1 DEF Elements
<1>3. Elements(s \o Tail(t)) \subseteq Elements(s) \union Elements(Tail(t))
  BY <1>1 DEF Elements
<1> QED
  BY <1>1, <1>2, <1>3 DEF Elements

(***************************************************************************)
(* Types.                                                                  *)
(***************************************************************************)

(* Every id in the node map is one the bounds allow.                        *)
LEMMA LiveAreNodes == TypeOK => live \subseteq NodeIds
BY BoundsAreNaturals DEF TypeOK, NodeIds

(* Before the first call the tables are empty.                              *)
LEMMA InitTypes == Init => TypeOK
<1> SUFFICES ASSUME Init PROVE TypeOK
  OBVIOUS
<1>1. <<>> \in Seq(NodeIds)
  OBVIOUS
<1> QED
  BY <1>1, BoundsAreNaturals DEF Init, TypeOK, NodeIds, SceneIds, Phases, Faults

(* No call of a script breaks a type.                                       *)
LEMMA ScriptCallTypes == TypeOK /\ ScriptCall => TypeOK'
<1> SUFFICES ASSUME TypeOK, ScriptCall PROVE TypeOK'
  OBVIOUS
<1> USE BoundsAreNaturals DEF TypeOK
<1>0. live \subseteq NodeIds
  BY DEF NodeIds
<1>1. CASE CreateNode
  BY <1>1 DEF CreateNode, sceneVars, frameVars
<1>2. ASSUME NEW b \in BOOLEAN, CreateScene(b) PROVE TypeOK'
  BY <1>2 DEF CreateScene, nodeVars, frameVars
<1>3. ASSUME NEW s \in 0..MaxScenes, SetCurrentScene(s) PROVE TypeOK'
  BY <1>3 DEF SetCurrentScene, nodeVars, frameVars
<1>4. ASSUME NEW n \in NodeIds, NEW p \in NodeIds, AssignNode(n, p) PROVE TypeOK'
  <2>1. parentID' \in [NodeIds -> 0..MaxNodes]
    BY <1>4 DEF AssignNode, NodeIds
  <2>2. childNodes' \in [NodeIds -> Seq(NodeIds)]
    BY <1>4 DEF AssignNode
  <2> QED
    BY <1>4, <2>1, <2>2 DEF AssignNode, sceneVars, frameVars
<1>5. ASSUME NEW n \in NodeIds, NEW p \in NodeIds, NEW at \in NodeIds,
             AssignNodeAt(n, p, at)
      PROVE  TypeOK'
  <2>1. InsertBefore(childNodes[p], n, at) \in Seq(NodeIds)
    BY <1>5, InsertBeforeType
  <2>2. parentID' \in [NodeIds -> 0..MaxNodes]
    BY <1>5 DEF AssignNodeAt, NodeIds
  <2>3. childNodes' \in [NodeIds -> Seq(NodeIds)]
    BY <1>5, <2>1 DEF AssignNodeAt
  <2> QED
    BY <1>5, <2>2, <2>3 DEF AssignNodeAt, sceneVars, frameVars
<1>6. ASSUME NEW n \in NodeIds, NEW s \in SceneIds, AssignToScene(n, s) PROVE TypeOK'
  <2>1. sceneMap' \in [SceneIds -> Seq(NodeIds)]
    BY <1>6 DEF AssignToScene
  <2> QED
    BY <1>6, <2>1 DEF AssignToScene, frameVars
<1>7. ASSUME NEW n \in NodeIds, DeleteNode(n) PROVE TypeOK'
  <2>1. Heirs(n) \subseteq live
    BY DEF Heirs
  <2> QED
    BY <1>7, <2>1 DEF DeleteNode, sceneVars, frameVars, Faults
<1> QED
  BY <1>1, <1>2, <1>3, <1>4, <1>5, <1>6, <1>7 DEF ScriptCall

(* The types that the end of a node disturbs.                               *)
LEMMA ForgetTypes ==
  ASSUME TypeOK, cursor \in marked, Forget(cursor), UNCHANGED maxNodeID
  PROVE  /\ live' \subseteq 1..maxNodeID'
         /\ assigned' \subseteq live' /\ marked' \subseteq live'
         /\ parentID' \in [NodeIds -> 0..MaxNodes]
         /\ cursor' \in 1..(MaxNodes + 1)
BY BoundsAreNaturals DEF TypeOK, Forget, NodeIds

(* No step of a frame breaks a type.                                        *)
LEMMA FrameTypes == TypeOK /\ Frame => TypeOK'
<1> SUFFICES ASSUME TypeOK, Frame PROVE TypeOK'
  OBVIOUS
<1> USE BoundsAreNaturals DEF TypeOK, Phases
<1>0. CurrentList \in Seq(NodeIds)
  <2>1. <<>> \in Seq(NodeIds)
    OBVIOUS
  <2>2. currentScene \in 1..maxSceneID => currentScene \in SceneIds
    BY DEF SceneIds
  <2> QED
    BY <2>1, <2>2 DEF CurrentList
<1>1. CASE BeginFrame
  BY <1>0, <1>1 DEF BeginFrame, nodeVars, sceneVars
<1>2. CASE UpdateStep
  <2>1. \A n \in NodeIds : childNodes[n] \o Tail(pending) \in Seq(NodeIds)
    BY <1>2, WalkElements DEF UpdateStep
  <2>2. Tail(pending) \in Seq(NodeIds) /\ Head(pending) \in NodeIds
    BY <1>2 DEF UpdateStep
  <2> QED
    BY <1>2, <2>1, <2>2 DEF UpdateStep, nodeVars, sceneVars
<1>3. CASE UpdateDone
  BY <1>3 DEF UpdateDone, nodeVars, sceneVars
<1>4. CASE ScriptReturns
  BY <1>0, <1>4 DEF ScriptReturns, nodeVars, sceneVars
<1>5. CASE RenderStep
  <2>0. pending # <<>>
    BY <1>5 DEF RenderStep
  <2>1. \A n \in NodeIds : childNodes[n] \o Tail(pending) \in Seq(NodeIds)
    BY <2>0, WalkElements
  <2>2. Tail(pending) \in Seq(NodeIds) /\ Head(pending) \in NodeIds
    BY <2>0
  <2>3. drawn' \in Seq(NodeIds)
    <3>1. Append(drawn, Head(pending)) \in Seq(NodeIds)
      BY <2>2
    <3> QED
      BY <1>5, <3>1 DEF RenderStep
  <2>4. pending' \in Seq(NodeIds)
    BY <1>5, <2>1, <2>2 DEF RenderStep
  <2>5. fault' \in Faults
    BY <1>5 DEF RenderStep, Faults
  <2> QED
    BY <1>5, <2>3, <2>4, <2>5 DEF RenderStep, nodeVars, sceneVars
<1>6. CASE RenderDone
  BY <1>6 DEF RenderDone, nodeVars, sceneVars
<1>7. CASE PurgeSkip
  BY <1>7 DEF PurgeSkip, nodeVars, sceneVars
<1>8. CASE PurgeRoot
  <2>1. sceneMap' \in [SceneIds -> Seq(NodeIds)]
    BY <1>8, EraseFirstType DEF PurgeRoot, ScenesWithout
  <2>2. childNodes' \in [NodeIds -> Seq(NodeIds)]
    <3>1. <<>> \in Seq(NodeIds)
      OBVIOUS
    <3> QED
      BY <1>8, <3>1 DEF PurgeRoot
  <2> QED
    BY <1>8, <2>1, <2>2, ForgetTypes DEF PurgeRoot
<1>9. CASE PurgeChild
  <2>1. childNodes' \in [NodeIds -> Seq(NodeIds)]
    BY <1>9, EraseFirstType DEF PurgeChild
  <2> QED
    BY <1>9, <2>1, ForgetTypes DEF PurgeChild, sceneVars
<1>10. CASE PurgeWithoutParent
  BY <1>10 DEF PurgeWithoutParent, nodeVars, sceneVars, frameVars, Faults
<1>11. CASE PurgeDone
  BY <1>11 DEF PurgeDone, nodeVars, sceneVars
<1> QED
  BY <1>1, <1>2, <1>3, <1>4, <1>5, <1>6, <1>7, <1>8, <1>9, <1>10, <1>11 DEF Frame

(* Nor does a step that changes nothing.                                    *)
LEMMA StutterTypes == TypeOK /\ UNCHANGED vars => TypeOK'
BY DEF TypeOK, vars, nodeVars, sceneVars, frameVars

(* The tables, the counters and the state of the frame keep their types in  *)
(* every run, however many nodes and scenes scripts create.                 *)
THEOREM Typing == Spec => []TypeOK
<1>1. Init => TypeOK
  BY InitTypes
<1>2. TypeOK /\ [Next]_vars => TypeOK'
  BY ScriptCallTypes, FrameTypes, StutterTypes DEF Next
<1> QED
  BY <1>1, <1>2, PTL DEF Spec

(***************************************************************************)
(* Ownership of the lists.  One lemma per action that changes a list or    *)
(* what the invariant says of its elements.                                *)
(***************************************************************************)

(* Empty lists own nothing.                                                 *)
LEMMA InitOwns == Init => Inv
<1> SUFFICES ASSUME Init PROVE Inv
  OBVIOUS
<1>1. Elements(<<>>) = {} /\ Distinct(<<>>)
  BY DEF Elements, Distinct
<1>2. ListsOwnTheirNodes
  BY <1>1 DEF Init, ListsOwnTheirNodes, ChildListsOwn, SceneListsOwn
<1>3. UnassignedAreRoots /\ WalkIsLive /\ RenderNeverMissesANode
  BY <1>1 DEF Init, UnassignedAreRoots, WalkIsLive, RenderNeverMissesANode
<1> QED
  BY <1>2, <1>3, InitTypes DEF Inv

(* A step that leaves lists, parents and flags alone and lets the tables    *)
(* only grow leaves the ownership alone.                                    *)
LEMMA ListsUntouched ==
  ASSUME Inv, UNCHANGED <<parentID, assigned, childNodes, sceneMap>>,
         live \subseteq live', maxSceneID' >= maxSceneID, maxSceneID' \in Int
  PROVE  ListsOwnTheirNodes' /\ UnassignedAreRoots'
<1>1. ChildListsOwn'
  BY DEF Inv, ListsOwnTheirNodes, ChildListsOwn
<1>2. SceneListsOwn'
  BY DEF Inv, TypeOK, ListsOwnTheirNodes, SceneListsOwn, SceneIds
<1> QED
  BY <1>1, <1>2 DEF Inv, ListsOwnTheirNodes, UnassignedAreRoots

(* The walk of a frame is not running while scripts run.                    *)
LEMMA ScriptsRunBetweenWalks ==
  ASSUME Inv, ScriptRuns
  PROVE  pending = <<>> /\ Elements(pending) = {}
BY DEF Inv, WalkIsLive, ScriptRuns, Elements

(* A node that no list holds yet enters one child list.                     *)
LEMMA AdoptionOwns ==
  ASSUME Inv, NEW n \in live \ assigned, NEW p \in live,
         parentID' = [parentID EXCEPT ![n] = p],
         assigned' = assigned \union {n},
         UNCHANGED <<live, sceneMap, maxSceneID>>,
         childNodes' \in [NodeIds -> Seq(NodeIds)],
         \A q \in NodeIds \ {p} : childNodes'[q] = childNodes[q],
         Distinct(childNodes'[p]),
         Elements(childNodes'[p]) \subseteq Elements(childNodes[p]) \union {n}
  PROVE  ListsOwnTheirNodes' /\ UnassignedAreRoots'
<1>0. live \subseteq NodeIds /\ parentID \in [NodeIds -> 0..MaxNodes]
  BY LiveAreNodes DEF Inv, TypeOK
<1>1. ChildListsOwn'
  <2> SUFFICES ASSUME NEW q \in NodeIds
               PROVE  /\ Distinct(childNodes'[q])
                      /\ \A c \in Elements(childNodes'[q]) :
                           c \in assigned' /\ parentID'[c] = q /\ q \in live'
    BY DEF ChildListsOwn, Distinct, Elements
  <2>1. n \notin Elements(childNodes[q])
    BY DEF Inv, ListsOwnTheirNodes, ChildListsOwn
  <2>2. \A c \in Elements(childNodes[q]) : c \in NodeIds /\ c # n
    BY <1>0, <2>1 DEF Inv, TypeOK, ListsOwnTheirNodes, ChildListsOwn
  <2>3. CASE q = p
    BY <1>0, <2>2, <2>3 DEF Inv, ListsOwnTheirNodes, ChildListsOwn
  <2>4. CASE q # p
    BY <1>0, <2>2, <2>4 DEF Inv, ListsOwnTheirNodes, ChildListsOwn
  <2> QED
    BY <2>3, <2>4
<1>2. SceneListsOwn'
  <2>1. \A s \in SceneIds : \A c \in Elements(sceneMap[s]) : c \in NodeIds /\ c # n
    BY <1>0 DEF Inv, TypeOK, ListsOwnTheirNodes, SceneListsOwn
  <2> QED
    BY <1>0, <2>1 DEF Inv, ListsOwnTheirNodes, SceneListsOwn
<1>3. UnassignedAreRoots'
  BY <1>0 DEF Inv, UnassignedAreRoots
<1> QED
  BY <1>1, <1>2, <1>3 DEF ListsOwnTheirNodes

(* A node that no list holds yet enters one scene.                          *)
LEMMA SceneAdoptionOwns ==
  ASSUME Inv, NEW n \in NodeIds, NEW s \in SceneIds, AssignToScene(n, s)
  PROVE  ListsOwnTheirNodes' /\ UnassignedAreRoots'
<1>0. /\ parentID[n] = 0
      /\ \A p \in NodeIds : n \notin Elements(childNodes[p])
      /\ \A t \in SceneIds : n \notin Elements(sceneMap[t])
  BY DEF Inv, AssignToScene, UnassignedAreRoots, ListsOwnTheirNodes, ChildListsOwn,
         SceneListsOwn
<1>1. /\ Elements(sceneMap'[s]) = Elements(sceneMap[s]) \union {n}
      /\ Distinct(sceneMap'[s])
  <2>1. sceneMap[s] \in Seq(NodeIds) /\ Distinct(sceneMap[s])
    BY DEF Inv, TypeOK, ListsOwnTheirNodes, SceneListsOwn
  <2>2. sceneMap'[s] = Append(sceneMap[s], n)
    BY DEF Inv, TypeOK, AssignToScene
  <2> QED
    BY <1>0, <2>1, <2>2, AppendElements
<1>2. \A t \in SceneIds \ {s} : sceneMap'[t] = sceneMap[t]
  BY DEF Inv, TypeOK, AssignToScene
<1>3. SceneListsOwn'
  <2> SUFFICES ASSUME NEW t \in SceneIds
               PROVE  /\ Distinct(sceneMap'[t])
                      /\ \A c \in Elements(sceneMap'[t]) :
                           /\ c \in assigned' /\ parentID'[c] = 0 /\ t <= maxSceneID'
                           /\ \A u \in SceneIds \ {t} : c \notin Elements(sceneMap'[u])
    BY DEF SceneListsOwn, Distinct, Elements
  <2>1. CASE t = s
    BY <1>0, <1>1, <1>2, <2>1 DEF Inv, ListsOwnTheirNodes, SceneListsOwn, AssignToScene
  <2>2. CASE t # s
    BY <1>0, <1>1, <1>2, <2>2 DEF Inv, ListsOwnTheirNodes, SceneListsOwn, AssignToScene
  <2> QED
    BY <2>1, <2>2
<1>4. ChildListsOwn' /\ UnassignedAreRoots'
  BY DEF Inv, ListsOwnTheirNodes, ChildListsOwn, UnassignedAreRoots, AssignToScene
<1> QED
  BY <1>3, <1>4 DEF ListsOwnTheirNodes

(* The node under the cursor of the purge is forgotten; what is left to     *)
(* show is that it leaves every list that holds it.                         *)
LEMMA ForgettingOwns ==
  ASSUME Inv, cursor \in marked, Forget(cursor), UNCHANGED maxSceneID,
         childNodes'[cursor] = <<>>,
         \A p \in NodeIds : /\ Distinct(childNodes'[p])
                            /\ Elements(childNodes'[p]) \subseteq
                                 Elements(childNodes[p]) \ {cursor},
         \A s \in SceneIds : /\ Distinct(sceneMap'[s])
                             /\ Elements(sceneMap'[s]) \subseteq
                                  Elements(sceneMap[s]) \ {cursor}
  PROVE  ListsOwnTheirNodes' /\ UnassignedAreRoots'
<1>0. /\ cursor \in NodeIds
      /\ \A m \in NodeIds \ {cursor} : parentID'[m] = parentID[m]
      /\ parentID'[cursor] = 0
  BY LiveAreNodes DEF Inv, TypeOK, Forget
<1>1. Elements(childNodes'[cursor]) = {}
  BY DEF Elements
<1>2. ChildListsOwn'
  <2> SUFFICES ASSUME NEW p \in NodeIds
               PROVE  /\ Distinct(childNodes'[p])
                      /\ \A c \in Elements(childNodes'[p]) :
                           c \in assigned' /\ parentID'[c] = p /\ p \in live'
    BY DEF ChildListsOwn, Distinct, Elements
  <2> SUFFICES ASSUME NEW c \in Elements(childNodes'[p])
               PROVE  c \in assigned' /\ parentID'[c] = p /\ p \in live'
    OBVIOUS
  <2>1. /\ c \in Elements(childNodes[p]) /\ c # cursor /\ p # cursor
        /\ c \in assigned /\ parentID[c] = p /\ p \in live
    BY <1>1 DEF Inv, ListsOwnTheirNodes, ChildListsOwn
  <2> QED
    BY <1>0, <2>1, LiveAreNodes DEF Forget, Inv, TypeOK
<1>3. SceneListsOwn'
  <2> SUFFICES ASSUME NEW s \in SceneIds, NEW c \in Elements(sceneMap'[s])
               PROVE  /\ c \in assigned' /\ parentID'[c] = 0 /\ s <= maxSceneID'
                      /\ \A t \in SceneIds \ {s} : c \notin Elements(sceneMap'[t])
    BY DEF SceneListsOwn, Distinct, Elements
  <2>1. /\ c \in Elements(sceneMap[s]) /\ c # cursor
        /\ c \in assigned /\ parentID[c] = 0 /\ s <= maxSceneID
        /\ \A t \in SceneIds \ {s} : c \notin Elements(sceneMap[t])
    BY DEF Inv, ListsOwnTheirNodes, SceneListsOwn
  <2> QED
    BY <1>0, <2>1, LiveAreNodes DEF Forget, Inv, TypeOK
<1>4. UnassignedAreRoots'
  BY <1>0 DEF Inv, UnassignedAreRoots, Forget
<1> QED
  BY <1>2, <1>3, <1>4 DEF ListsOwnTheirNodes

(* A purged root leaves the scene that held it.                             *)
LEMMA PurgeRootOwns ==
  ASSUME Inv, PurgeRoot
  PROVE  ListsOwnTheirNodes' /\ UnassignedAreRoots'
<1>0. cursor \in NodeIds /\ parentID[cursor] = 0
  BY LiveAreNodes DEF Inv, TypeOK, PurgeRoot
<1>1. childNodes'[cursor] = <<>> /\ \A p \in NodeIds \ {cursor} : childNodes'[p] = childNodes[p]
  BY <1>0 DEF Inv, TypeOK, PurgeRoot
<1>2. ASSUME NEW p \in NodeIds
      PROVE  /\ Distinct(childNodes'[p])
             /\ Elements(childNodes'[p]) \subseteq Elements(childNodes[p]) \ {cursor}
  <2>1. CASE p = cursor
    BY <1>1, <2>1 DEF Distinct, Elements
  <2>2. CASE p # cursor
    <3>1. p # 0
      BY BoundsAreNaturals DEF NodeIds
    <3> QED
      BY <1>0, <1>1, <2>2, <3>1 DEF Inv, ListsOwnTheirNodes, ChildListsOwn
  <2> QED
    BY <2>1, <2>2
<1>3. ASSUME NEW s \in SceneIds
      PROVE  /\ Distinct(sceneMap'[s])
             /\ Elements(sceneMap'[s]) \subseteq Elements(sceneMap[s]) \ {cursor}
  <2>1. sceneMap[s] \in Seq(NodeIds) /\ Distinct(sceneMap[s])
    BY DEF Inv, TypeOK, ListsOwnTheirNodes, SceneListsOwn
  <2>2. sceneMap'[s] = IF \A t \in 1..(s - 1) : cursor \notin Elements(sceneMap[t])
                       THEN EraseFirst(sceneMap[s], cursor) ELSE sceneMap[s]
    BY DEF PurgeRoot, ScenesWithout
  <2>3. (\E t \in 1..(s - 1) : cursor \in Elements(sceneMap[t]))
          => cursor \notin Elements(sceneMap[s])
    BY BoundsAreNaturals DEF Inv, ListsOwnTheirNodes, SceneListsOwn, SceneIds
  <2> QED
    BY <2>1, <2>2, <2>3, EraseFirstElements
<1> QED
  BY <1>1, <1>2, <1>3, ForgettingOwns DEF PurgeRoot

(* A purged child leaves its parent's list.                                 *)
LEMMA PurgeChildOwns ==
  ASSUME Inv, PurgeChild
  PROVE  ListsOwnTheirNodes' /\ UnassignedAreRoots'
<1>0. cursor \in NodeIds /\ parentID[cursor] \in NodeIds
  BY LiveAreNodes DEF Inv, TypeOK, PurgeChild
<1>1. childNodes'[cursor] = <<>>
  BY <1>0 DEF PurgeChild
<1>2. ASSUME NEW p \in NodeIds
      PROVE  /\ Distinct(childNodes'[p])
             /\ Elements(childNodes'[p]) \subseteq Elements(childNodes[p]) \ {cursor}
  <2>1. CASE p = cursor
    BY <1>1, <2>1 DEF Distinct, Elements
  <2>2. CASE p # cursor /\ p = parentID[cursor]
    <3>1. childNodes'[p] = EraseFirst(childNodes[p], cursor)
      BY <2>2 DEF PurgeChild
    <3>2. childNodes[p] \in Seq(NodeIds) /\ Distinct(childNodes[p])
      BY DEF Inv, TypeOK, ListsOwnTheirNodes, ChildListsOwn
    <3> QED
      BY <3>1, <3>2, EraseFirstElements
  <2>3. CASE p # cursor /\ p # parentID[cursor]
    BY <2>3 DEF PurgeChild, Inv, ListsOwnTheirNodes, ChildListsOwn
  <2> QED
    BY <2>1, <2>2, <2>3
<1>3. ASSUME NEW s \in SceneIds
      PROVE  /\ Distinct(sceneMap'[s])
             /\ Elements(sceneMap'[s]) \subseteq Elements(sceneMap[s]) \ {cursor}
  <2>1. parentID[cursor] # 0
    BY <1>0, BoundsAreNaturals DEF NodeIds
  <2> QED
    BY <2>1 DEF PurgeChild, sceneVars, Inv, ListsOwnTheirNodes, SceneListsOwn
<1> QED
  BY <1>1, <1>2, <1>3, ForgettingOwns DEF PurgeChild, sceneVars

(***************************************************************************)
(* Every step.                                                             *)
(***************************************************************************)

(* Every call of a script keeps the lists' ownership.                       *)
LEMMA ScriptCallOwns == Inv /\ ScriptCall => Inv'
<1> SUFFICES ASSUME Inv, ScriptCall PROVE Inv'
  OBVIOUS
<1>0. TypeOK' /\ ScriptRuns
  BY ScriptCallTypes DEF Inv, ScriptCall, CreateNode, CreateScene, SetCurrentScene,
     AssignNode, AssignNodeAt, AssignToScene, DeleteNode
<1>1. pending = <<>> /\ Elements(pending) = {}
  BY <1>0, ScriptsRunBetweenWalks
<1>2. UNCHANGED frameVars
  BY DEF ScriptCall, CreateNode, CreateScene, SetCurrentScene,
     AssignNode, AssignNodeAt, AssignToScene, DeleteNode
<1>3. WalkIsLive'
  BY <1>1, <1>2 DEF WalkIsLive, frameVars, Elements
<1>4. RenderNeverMissesANode'
  BY <1>0 DEF Inv, RenderNeverMissesANode, ScriptRuns, ScriptCall, CreateNode,
     CreateScene, SetCurrentScene, AssignNode, AssignNodeAt, AssignToScene, DeleteNode
<1>5. ListsOwnTheirNodes' /\ UnassignedAreRoots'
  <2>1. CASE CreateNode
    BY <2>1, ListsUntouched DEF CreateNode, sceneVars, Inv, TypeOK
  <2>2. ASSUME NEW b \in BOOLEAN, CreateScene(b)
        PROVE  ListsOwnTheirNodes' /\ UnassignedAreRoots'
    BY <2>2, ListsUntouched DEF CreateScene, nodeVars, Inv, TypeOK
  <2>3. ASSUME NEW s \in 0..MaxScenes, SetCurrentScene(s)
        PROVE  ListsOwnTheirNodes' /\ UnassignedAreRoots'
    BY <2>3, ListsUntouched DEF SetCurrentScene, nodeVars, Inv, TypeOK
  <2>4. ASSUME NEW n \in NodeIds, NEW p \in NodeIds,
               AssignNode(n, p) \/ \E at \in NodeIds : AssignNodeAt(n, p, at)
        PROVE  ListsOwnTheirNodes' /\ UnassignedAreRoots'
    <3>1. /\ n \in live \ assigned /\ p \in live
          /\ parentID' = [parentID EXCEPT ![n] = p]
          /\ assigned' = assigned \union {n}
          /\ UNCHANGED <<live, sceneMap, maxSceneID>>
          /\ \A q \in NodeIds \ {p} : childNodes'[q] = childNodes[q]
      BY <2>4 DEF AssignNode, AssignNodeAt, sceneVars, Inv, TypeOK
    <3>2. /\ childNodes[p] \in Seq(NodeIds) /\ Distinct(childNodes[p])
          /\ n \notin Elements(childNodes[p])
      BY <3>1 DEF Inv, TypeOK, ListsOwnTheirNodes, ChildListsOwn
    <3>3. /\ Distinct(childNodes'[p])
          /\ Elements(childNodes'[p]) \subseteq Elements(childNodes[p]) \union {n}
      <4>1. CASE AssignNode(n, p)
        <5>1. childNodes'[p] = Append(childNodes[p], n)
          BY <4>1 DEF AssignNode, Inv, TypeOK
        <5> QED
          BY <5>1, <3>2, AppendElements
      <4>2. ASSUME NEW at \in NodeIds, AssignNodeAt(n, p, at)
            PROVE  <3>3
        <5>1. childNodes'[p] = InsertBefore(childNodes[p], n, at)
          BY <4>2 DEF AssignNodeAt, Inv, TypeOK
        <5> QED
          BY <5>1, <3>2, InsertBeforeElements
      <4> QED
        BY <2>4, <4>1, <4>2
    <3> QED
      BY <1>0, <3>1, <3>3, AdoptionOwns DEF TypeOK
  <2>5. ASSUME NEW n \in NodeIds, NEW s \in SceneIds, AssignToScene(n, s)
        PROVE  ListsOwnTheirNodes' /\ UnassignedAreRoots'
    BY <2>5, SceneAdoptionOwns
  <2>6. ASSUME NEW n \in NodeIds, DeleteNode(n)
        PROVE  ListsOwnTheirNodes' /\ UnassignedAreRoots'
    <3>1. UNCHANGED <<parentID, assigned, childNodes, sceneMap, live, maxSceneID>>
      BY <2>6 DEF DeleteNode, sceneVars
    <3> QED
      BY <3>1, ListsUntouched DEF Inv, TypeOK
  <2> QED
    BY <2>1, <2>2, <2>3, <2>4, <2>5, <2>6 DEF ScriptCall
<1> QED
  BY <1>0, <1>3, <1>4, <1>5 DEF Inv

(* Every step of a frame keeps the lists' ownership.                        *)
LEMMA FrameOwns == Inv /\ Frame => Inv'
<1> SUFFICES ASSUME Inv, Frame PROVE Inv'
  OBVIOUS
<1>0. TypeOK' /\ fault = "none"
  BY FrameTypes DEF Inv, Frame, BeginFrame, UpdateStep, UpdateDone, ScriptReturns,
     RenderStep, RenderDone, PurgeSkip, PurgeRoot, PurgeChild, PurgeWithoutParent, PurgeDone
<1>1. ListsOwnTheirNodes' /\ UnassignedAreRoots'
  <2>1. CASE PurgeRoot
    BY <2>1, PurgeRootOwns
  <2>2. CASE PurgeChild
    BY <2>2, PurgeChildOwns
  <2>3. CASE UNCHANGED <<nodeVars, sceneVars>>
    BY <2>3, ListsUntouched DEF nodeVars, sceneVars, Inv, TypeOK
  <2> QED
    BY <2>1, <2>2, <2>3 DEF Frame, BeginFrame, UpdateStep, UpdateDone, ScriptReturns,
       RenderStep, RenderDone, PurgeSkip, PurgeWithoutParent, PurgeDone
<1>2. Elements(CurrentList) \subseteq live /\ Elements(<<>>) = {}
  <2>1. Elements(<<>>) = {}
    BY DEF Elements
  <2>2. ASSUME currentScene \in 1..maxSceneID
        PROVE  Elements(sceneMap[currentScene]) \subseteq live
    <3>1. currentScene \in SceneIds
      BY <2>2, BoundsAreNaturals DEF Inv, TypeOK, SceneIds
    <3> QED
      BY <3>1 DEF Inv, TypeOK, ListsOwnTheirNodes, SceneListsOwn
  <2> QED
    BY <2>1, <2>2 DEF CurrentList
<1>3. WalkIsLive'
  <2>1. CASE BeginFrame \/ ScriptReturns
    BY <1>2, <2>1 DEF BeginFrame, ScriptReturns, nodeVars, WalkIsLive, Elements
  <2>2. CASE UpdateStep \/ RenderStep
    <3>1. /\ pending # <<>> /\ live' = live /\ phase' \in {"update", "render"}
          /\ pending' \in {childNodes[Head(pending)] \o Tail(pending), Tail(pending)}
      BY <2>2 DEF UpdateStep, RenderStep, nodeVars
    <3>2. pending \in Seq(NodeIds) /\ Head(pending) \in NodeIds
      BY <3>1 DEF Inv, TypeOK
    <3>3. Elements(childNodes[Head(pending)]) \subseteq live
      BY <3>2 DEF Inv, TypeOK, ListsOwnTheirNodes, ChildListsOwn
    <3>4. childNodes[Head(pending)] \in Seq(NodeIds)
      BY <3>2 DEF Inv, TypeOK
    <3>5. Elements(pending') \subseteq live
      BY <3>1, <3>2, <3>3, <3>4, WalkElements DEF Inv, WalkIsLive
    <3> QED
      BY <3>1, <3>5 DEF WalkIsLive, Elements
  <2>3. CASE UpdateDone \/ RenderDone
    BY <1>2, <2>3 DEF UpdateDone, RenderDone, nodeVars, WalkIsLive, Elements
  <2>4. CASE PurgeSkip \/ PurgeRoot \/ PurgeChild \/ PurgeWithoutParent \/ PurgeDone
    <3>1. pending' = <<>>
      BY <2>4 DEF Inv, WalkIsLive, PurgeSkip, PurgeRoot, PurgeChild, PurgeWithoutParent,
         PurgeDone, frameVars
    <3> QED
      BY <3>1, <1>2 DEF WalkIsLive, Elements
  <2> QED
    BY <2>1, <2>2, <2>3, <2>4 DEF Frame
<1>4. RenderNeverMissesANode'
  <2>1. CASE RenderStep
    <3>1. pending # <<>> /\ pending \in Seq(NodeIds)
      BY <2>1 DEF RenderStep, Inv, TypeOK
    <3>2. Head(pending) \in live
      BY <3>1, WalkElements DEF Inv, WalkIsLive
    <3> QED
      BY <2>1, <3>2 DEF RenderStep, RenderNeverMissesANode
  <2>2. CASE ~RenderStep
    BY <1>0, <2>2 DEF Frame, RenderNeverMissesANode, BeginFrame, UpdateStep, UpdateDone,
       ScriptReturns, RenderDone, PurgeSkip, PurgeRoot, PurgeChild, PurgeWithoutParent,
       PurgeDone
  <2> QED
    BY <2>1, <2>2
<1> QED
  BY <1>0, <1>1, <1>3, <1>4 DEF Inv

(* A step that changes nothing keeps it.                                    *)
LEMMA StutterOwns == Inv /\ UNCHANGED vars => Inv'
<1> SUFFICES ASSUME Inv, UNCHANGED vars PROVE Inv'
  OBVIOUS
<1>1. TypeOK'
  BY StutterTypes DEF Inv
<1>2. ListsOwnTheirNodes' /\ UnassignedAreRoots'
  BY ListsUntouched DEF vars, nodeVars, sceneVars, Inv, TypeOK
<1> QED
  BY <1>1, <1>2 DEF Inv, WalkIsLive, RenderNeverMissesANode, vars, nodeVars, frameVars, Elements

(* The inductive invariant holds in every run.                              *)
THEOREM InvHolds == Spec => []Inv
<1>1. Init => Inv
  BY InitOwns
<1>2. Inv /\ [Next]_vars => Inv'
  BY ScriptCallOwns, FrameOwns, StutterOwns DEF Next
<1> QED
  BY <1>1, <1>2, PTL DEF Spec

(* Whatever scripts create, assign, delete and re-assign: every child list  *)
(* and every scene list holds live nodes only, each of them once, and no    *)
(* node is in two lists (NodeManager::AssignNode, AssignNodeAt, PurgeNodes, *)
(* SceneManager::AssignNode, DeleteSceneNode).                              *)
THEOREM ListsAreOwned == Spec => []ListsOwnTheirNodes
BY InvHolds, PTL DEF Inv

(* NodeManager::Render may leave GetNode's result untested: the walk never  *)
(* meets the id of a node that is gone.                                     *)
THEOREM RenderIsSafe == Spec => []RenderNeverMissesANode
BY InvHolds, PTL DEF Inv

(***************************************************************************)
(* What is above a node: the sets ChainOf and, later, Recomputed go        *)
(* through are values of recursive functions, reached here by least        *)
(* counterexamples.                                                        *)
(***************************************************************************)

(* A set of numbers that has a member has a least one.                      *)
LEMMA LeastNumber ==
  ASSUME NEW S \in SUBSET Nat, S # {}
  PROVE  \E x \in S : \A y \in S : x <= y
<1> DEFINE R == OpToRel(<, Nat)
<1>1. IsWellFoundedOn(R, Nat)
  BY NatLessThanWellFounded
<1>2. \A x, y \in Nat : x < y => <<x, y>> \in R
  BY DEF OpToRel
<1> HIDE DEF R
<1>3. PICK x \in S : \A y \in S : <<y, x>> \notin R
  BY <1>1, WFMin
<1>4. \A y \in S : x <= y
  <2> TAKE y \in S
  <2>1. x \in Nat /\ y \in Nat
    OBVIOUS
  <2>2. ~(y < x)
    BY <1>2, <1>3, <2>1
  <2> QED  BY <2>1, <2>2
<1> QED  BY <1>4

(* A function applied again and again.                                      *)
Iterated(f, U, z, h, k) ==
  f \in [0..k -> U] /\ f[0] = z /\ \A i \in 1..k : f[i] = h[f[i - 1]]

(* It can be applied any number of times.                                   *)
LEMMA IterationExists ==
  ASSUME NEW U, NEW z \in U, NEW h \in [U -> U], NEW k \in Nat
  PROVE  \E f : Iterated(f, U, z, h, k)
<1> DEFINE stuck == {i \in Nat : ~\E f : Iterated(f, U, z, h, i)}
<1>1. SUFFICES ASSUME stuck # {} PROVE FALSE
  OBVIOUS
<1>0. stuck \in SUBSET Nat
  OBVIOUS
<1>2. PICK x \in stuck : \A y \in stuck : x <= y
  BY <1>0, <1>1, LeastNumber
<1>3. CASE x = 0
  <2> DEFINE f == [i \in 0..0 |-> z]
  <2>1. f \in [0..0 -> U]
    OBVIOUS
  <2>2. f[0] = z
    OBVIOUS
  <2>3. \A j \in 1..0 : f[j] = h[f[j - 1]]
    OBVIOUS
  <2> HIDE DEF f
  <2>4. Iterated(f, U, z, h, 0)
    BY <2>1, <2>2, <2>3 DEF Iterated
  <2>5. \E e : Iterated(e, U, z, h, 0)
    BY <2>4
  <2> QED
    BY <1>2, <1>3, <2>5
<1>4. CASE x # 0
  <2>1. x - 1 \in Nat /\ ~(x <= x - 1)
    BY <1>2, <1>4
  <2>2. PICK f : Iterated(f, U, z, h, x - 1)
    BY <1>2, <2>1
  <2> DEFINE g == [i \in 0..x |-> IF i = x THEN h[f[x - 1]] ELSE f[i]]
  <2>3. /\ f \in [0..(x - 1) -> U] /\ f[0] = z
        /\ \A j \in 1..(x - 1) : f[j] = h[f[j - 1]]
    BY <2>2 DEF Iterated
  <2>4. g \in [0..x -> U] /\ g[0] = z
    BY <1>4, <2>1, <2>3
  <2>5. ASSUME NEW i \in 1..x PROVE g[i] = h[g[i - 1]]
    <3>1. CASE i = x
      <4>1. g[i - 1] = f[x - 1]
        BY <1>4, <2>1, <3>1
      <4> QED
        BY <3>1, <4>1
    <3>2. CASE i # x
      <4>1. i \in 1..(x - 1) /\ i \in 0..x /\ i - 1 \in 0..x /\ i - 1 # x
        BY <2>1, <3>2
      <4> QED
        BY <2>3, <3>2, <4>1
    <3> QED
      BY <3>1, <3>2
  <2> HIDE DEF g
  <2>6. Iterated(g, U, z, h, x)
    BY <2>4, <2>5 DEF Iterated
  <2> QED
    BY <1>2, <2>6
<1> QED
  BY <1>3, <1>4

(* A set of nodes and their parents.                                        *)
More(par, s) == s \union {par[m] : m \in s \ {0}}

(* up lists the sets that ChainOf goes through, for any parents.            *)
Climbs(par, up, n, k) ==
  up = [i \in 0..k |-> IF i = 0 THEN {n} ELSE More(par, up[i - 1])]

(* There is exactly one climb from a node.                                  *)
LEMMA ClimbExists ==
  ASSUME NEW par, NEW n, NEW k \in Nat
  PROVE  \E up : Climbs(par, up, n, k)
<1> DEFINE stuck == {i \in Nat : ~\E up : Climbs(par, up, n, i)}
<1>1. SUFFICES ASSUME stuck # {} PROVE FALSE
  OBVIOUS
<1>2. PICK x \in stuck : \A y \in stuck : x <= y
  BY <1>1, LeastNumber
<1>3. CASE x = 0
  <2> DEFINE f == [i \in 0..0 |-> {n}]
  <2>1. f = [i \in 0..0 |-> IF i = 0 THEN {n} ELSE More(par, f[i - 1])]
    OBVIOUS
  <2>2. Climbs(par, f, n, 0) BY <2>1 DEF Climbs
  <2> QED BY <1>3, <2>2
<1>4. CASE x # 0
  <2>1. x - 1 \in Nat /\ x - 1 \notin stuck
    BY <1>2, <1>4
  <2>2. PICK f : Climbs(par, f, n, x - 1)
    BY <2>1
  <2> DEFINE g == [i \in 0..x |-> IF i = x THEN More(par, f[x - 1]) ELSE f[i]]
  <2>3. f = [i \in 0..(x - 1) |-> IF i = 0 THEN {n} ELSE More(par, f[i - 1])]
    BY <2>2 DEF Climbs
  <2>4. ASSUME NEW i \in 0..x
        PROVE  g[i] = IF i = 0 THEN {n} ELSE More(par, g[i - 1])
    <3>1. CASE i = x
      <4>1. g[i - 1] = f[x - 1] BY <3>1, <1>4, <2>1
      <4> QED BY <3>1, <1>4, <4>1
    <3>2. CASE i = 0
      <4>1. g[i] = f[0] /\ f[0] = {n} BY <3>2, <1>4, <2>1, <2>3
      <4> QED BY <3>2, <4>1
    <3>3. CASE i # x /\ i # 0
      <4>1. i \in 0..(x - 1) /\ i - 1 \in 0..x /\ i - 1 # x BY <3>3, <2>1
      <4>2. g[i] = f[i] /\ g[i - 1] = f[i - 1] BY <3>3, <4>1
      <4>3. f[i] = More(par, f[i - 1]) BY <2>3, <3>3, <4>1
      <4> QED BY <3>3, <4>2, <4>3
    <3> QED BY <3>1, <3>2, <3>3
  <2>5. g = [i \in 0..x |-> g[i]] OBVIOUS
  <2> HIDE DEF g
  <2>6. Climbs(par, g, n, x) BY <2>4, <2>5 DEF Climbs
  <2> QED BY <2>6
<1> QED BY <1>3, <1>4

(* And no other.                                                            *)
LEMMA ClimbIsOne ==
  ASSUME NEW par, NEW n, NEW k \in Nat, NEW f, NEW g, Climbs(par, f, n, k), Climbs(par, g, n, k)
  PROVE  f = g
<1>1. \A i \in 0..k : /\ f[i] = IF i = 0 THEN {n} ELSE More(par, f[i - 1])
                      /\ g[i] = IF i = 0 THEN {n} ELSE More(par, g[i - 1])
  BY DEF Climbs
<1>2. f = [i \in 0..k |-> f[i]] /\ g = [i \in 0..k |-> g[i]]
  BY DEF Climbs
<1> DEFINE bad == {i \in 0..k : f[i] # g[i]}
<1>3. SUFFICES ASSUME bad # {} PROVE FALSE
  BY <1>2
<1>4. bad \in SUBSET Nat
  OBVIOUS
<1> HIDE DEF bad
<1>5. PICK x \in bad : \A y \in bad : x <= y
  BY <1>3, <1>4, LeastNumber
<1> USE DEF bad
<1>6. x # 0
  <2>1. f[0] = {n} /\ g[0] = {n} BY <1>1
  <2> QED BY <1>5, <2>1
<1>7. x \in 0..k /\ x - 1 \in 0..k /\ ~(x <= x - 1)
  BY <1>5, <1>6
<1>8. f[x - 1] = g[x - 1]
  BY <1>5, <1>7
<1>9. f[x] = g[x]
  BY <1>1, <1>6, <1>7, <1>8
<1> QED BY <1>5, <1>9

(* ChainOf is what the climb reaches.                                       *)
LEMMA ChainClimbs ==
  ASSUME NEW n
  PROVE  \E up : Climbs(parentID, up, n, MaxNodes) /\ ChainOf(n) = up[MaxNodes] \ {0}
<1> DEFINE up == CHOOSE f : Climbs(parentID, f, n, MaxNodes)
<1>1. Climbs(parentID, up, n, MaxNodes)
  BY ClimbExists, BoundsAreNaturals, Zenon
<1>2. ChainOf(n) = up[MaxNodes] \ {0}
  BY DEF ChainOf, Climbs, More
<1> QED BY <1>1, <1>2

(* The steps of a climb, one by one, and that what was reached stays.       *)
LEMMA ClimbSteps ==
  ASSUME NEW n, NEW up, Climbs(parentID, up, n, MaxNodes)
  PROVE  /\ up[0] = {n}
         /\ \A k \in 1..MaxNodes : up[k] = More(parentID, up[k - 1]) /\ up[k - 1] \subseteq up[k]
         /\ \A k \in 0..MaxNodes : up[k] \subseteq up[MaxNodes]
<1> USE BoundsAreNaturals
<1>1. \A k \in 0..MaxNodes : up[k] = IF k = 0 THEN {n} ELSE More(parentID, up[k - 1])
  BY DEF Climbs
<1>2. up[0] = {n}
  BY <1>1
<1>3. \A k \in 1..MaxNodes : up[k] = More(parentID, up[k - 1])
  BY <1>1
<1>4. \A k \in 1..MaxNodes : up[k - 1] \subseteq up[k]
  BY <1>3 DEF More
<1> DEFINE bad == {j \in 0..MaxNodes : ~(up[MaxNodes - j] \subseteq up[MaxNodes])}
<1>5. bad = {}
  <2> SUFFICES ASSUME bad # {} PROVE FALSE
    OBVIOUS
  <2>0. bad \in SUBSET Nat
    OBVIOUS
  <2> HIDE DEF bad
  <2>1. PICK x \in bad : \A y \in bad : x <= y
    BY <2>0, LeastNumber
  <2> USE DEF bad
  <2>2. x # 0 /\ x \in 0..MaxNodes
    BY <2>1
  <2>3. x - 1 \in 0..MaxNodes /\ x - 1 \notin bad
    BY <2>1, <2>2
  <2>4. up[MaxNodes - (x - 1)] \subseteq up[MaxNodes]
    BY <2>3
  <2>5. (MaxNodes - x) + 1 \in 1..MaxNodes /\ ((MaxNodes - x) + 1) - 1 = MaxNodes - x
        /\ (MaxNodes - x) + 1 = MaxNodes - (x - 1)
    BY <2>2
  <2>6. up[MaxNodes - x] \subseteq up[MaxNodes - (x - 1)]
    BY <1>4, <2>5
  <2> QED
    BY <2>1, <2>4, <2>6
<1>6. ASSUME NEW k \in 0..MaxNodes PROVE up[k] \subseteq up[MaxNodes]
  <2>1. MaxNodes - k \in 0..MaxNodes /\ MaxNodes - (MaxNodes - k) = k
    OBVIOUS
  <2> QED
    BY <1>5, <2>1
<1> QED
  BY <1>2, <1>3, <1>4, <1>6

(* A step that leaves the parents of a chain alone leaves the chain alone.  *)
LEMMA ChainStays ==
  ASSUME NEW n, \A m \in ChainOf(n) : parentID'[m] = parentID[m]
  PROVE  ChainOf(n)' = ChainOf(n)
<1>1. PICK up : Climbs(parentID, up, n, MaxNodes) /\ ChainOf(n) = up[MaxNodes] \ {0}
  BY ChainClimbs
<1>2. \A k \in 0..MaxNodes : up[k] \subseteq up[MaxNodes]
  BY <1>1, ClimbSteps
<1>3. \A k \in 0..MaxNodes : up[k] = IF k = 0 THEN {n} ELSE More(parentID, up[k - 1])
  BY <1>1 DEF Climbs
<1>4. ASSUME NEW k \in 1..MaxNodes PROVE More(parentID', up[k - 1]) = More(parentID, up[k - 1])
  <2>1. k - 1 \in 0..MaxNodes BY BoundsAreNaturals
  <2>2. \A m \in up[k - 1] \ {0} : parentID'[m] = parentID[m]
    BY <1>1, <1>2, <2>1
  <2> QED BY <2>2 DEF More
<1>5. \A k \in 0..MaxNodes : up[k] = IF k = 0 THEN {n} ELSE More(parentID', up[k - 1])
  BY <1>3, <1>4, BoundsAreNaturals
<1>6. up = [k \in 0..MaxNodes |-> up[k]]
  BY <1>1 DEF Climbs
<1>7. Climbs(parentID', up, n, MaxNodes)
  BY <1>5, <1>6 DEF Climbs
<1> DEFINE other == CHOOSE f : Climbs(parentID', f, n, MaxNodes)
<1>8. Climbs(parentID', other, n, MaxNodes)
  BY <1>7, Zenon
<1>9. ChainOf(n)' = other[MaxNodes] \ {0}
  BY DEF ChainOf, Climbs, More
<1> HIDE DEF other
<1>10. other = up
  BY <1>7, <1>8, ClimbIsOne, BoundsAreNaturals
<1> QED BY <1>1, <1>9, <1>10

(* Induction up the chain of n: a set that holds n, and the parent of each  *)
(* of the chain's nodes it holds, holds the chain.                          *)
LEMMA ChainInduction ==
  ASSUME NEW n, NEW S, n \in S, \A m \in S \intersect ChainOf(n) : parentID[m] \in S
  PROVE  ChainOf(n) \subseteq S
<1>1. PICK up : Climbs(parentID, up, n, MaxNodes) /\ ChainOf(n) = up[MaxNodes] \ {0}
  BY ChainClimbs
<1>2. /\ up[0] = {n}
      /\ \A k \in 1..MaxNodes : up[k] = More(parentID, up[k - 1])
      /\ \A k \in 0..MaxNodes : up[k] \subseteq up[MaxNodes]
  BY <1>1, ClimbSteps
<1> DEFINE bad == {k \in 0..MaxNodes : ~(up[k] \subseteq S)}
<1>3. bad = {}
  <2> SUFFICES ASSUME bad # {} PROVE FALSE
    OBVIOUS
  <2>0. bad \in SUBSET Nat
    OBVIOUS
  <2> HIDE DEF bad
  <2>1. PICK x \in bad : \A y \in bad : x <= y
    BY <2>0, LeastNumber
  <2> USE DEF bad
  <2>6. up[0] \subseteq S
    BY <1>2
  <2>2. x # 0 /\ x \in 1..MaxNodes
    BY <2>1, <2>6
  <2>3. x - 1 \in 0..MaxNodes /\ ~(x <= x - 1)
    BY <2>2, BoundsAreNaturals
  <2>4. up[x - 1] \subseteq S
    BY <2>1, <2>3
  <2>7. up[x - 1] \ {0} \subseteq ChainOf(n)
    BY <1>1, <1>2, <2>3
  <2>5. More(parentID, up[x - 1]) \subseteq S
    <3> SUFFICES ASSUME NEW m \in up[x - 1], m # 0 PROVE parentID[m] \in S
      BY <2>4 DEF More
    <3> QED
      BY <2>4, <2>7
  <2> QED
    BY <1>2, <2>1, <2>2, <2>5
<1>4. MaxNodes \in 0..MaxNodes
  BY BoundsAreNaturals
<1> QED
  BY <1>1, <1>3, <1>4

(* The chain starts at n and follows the parents.                           *)
LEMMA ChainStarts ==
  ASSUME NEW n, n # 0
  PROVE  n \in ChainOf(n)
<1>1. PICK up : Climbs(parentID, up, n, MaxNodes) /\ ChainOf(n) = up[MaxNodes] \ {0}
  BY ChainClimbs
<1>2. up[0] = {n} /\ up[0] \subseteq up[MaxNodes]
  BY <1>1, ClimbSteps, BoundsAreNaturals
<1> QED
  BY <1>1, <1>2

(* A list without repetitions is no longer than there are nodes.            *)
LEMMA ListsAreShort ==
  ASSUME NEW d \in Seq(NodeIds), Distinct(d)
  PROVE  Len(d) \in 0..MaxNodes
<1>1. d \in [1..Len(d) -> NodeIds] /\ Len(d) \in Nat
  OBVIOUS
<1>2. /\ IsFiniteSet(NodeIds) /\ Cardinality(NodeIds) = MaxNodes
      /\ IsFiniteSet(1..Len(d)) /\ Cardinality(1..Len(d)) = Len(d)
  <2>1. IsFiniteSet(1..MaxNodes) /\ Cardinality(1..MaxNodes) = IF 1 > MaxNodes THEN 0 ELSE MaxNodes - 1 + 1
    BY FS_Interval, BoundsAreNaturals
  <2>2. IsFiniteSet(1..Len(d)) /\ Cardinality(1..Len(d)) = IF 1 > Len(d) THEN 0 ELSE Len(d) - 1 + 1
    BY <1>1, FS_Interval
  <2> QED
    BY <1>1, <2>1, <2>2, BoundsAreNaturals DEF NodeIds
<1>3. ASSUME Len(d) > MaxNodes PROVE FALSE
  <2>1. \E x, y \in 1..Len(d) : x # y /\ d[x] = d[y]
    BY <1>1, <1>2, <1>3, FS_PigeonHole
  <2> QED
    BY <1>1, <2>1 DEF Distinct
<1> QED
  BY <1>1, <1>3, BoundsAreNaturals

(* If every node of a list without repetitions is a root or has its parent  *)
(* before it, the chain of each leads to a root.                            *)
LEMMA ChainReachesRoot ==
  ASSUME NEW d \in Seq(NodeIds), Distinct(d),
         \A i \in 1..Len(d) : parentID[d[i]] # 0 => \E j \in 1..(i - 1) : d[j] = parentID[d[i]],
         NEW n \in Elements(d)
  PROVE  \E m \in ChainOf(n) : parentID[m] = 0
<1>0. Len(d) \in Nat /\ Len(d) <= MaxNodes /\ MaxNodes \in Nat
  BY ListsAreShort, BoundsAreNaturals
<1>1. PICK up : Climbs(parentID, up, n, MaxNodes) /\ ChainOf(n) = up[MaxNodes] \ {0}
  BY ChainClimbs
<1>2. /\ up[0] = {n}
      /\ \A k \in 1..MaxNodes : up[k] = More(parentID, up[k - 1]) /\ up[k - 1] \subseteq up[k]
      /\ \A k \in 0..MaxNodes : up[k] \subseteq up[MaxNodes]
  BY <1>1, ClimbSteps
<1>3. 0 \notin NodeIds
  BY BoundsAreNaturals DEF NodeIds
<1>4. SUFFICES ASSUME \A m \in up[MaxNodes] \ {0} : parentID[m] # 0 PROVE FALSE
  BY <1>1
<1> DEFINE bad == {k \in 0..MaxNodes : \A i \in 1..Len(d) : d[i] \in up[k] => i > Len(d) - k}
<1>5. bad # {}
  <2>1. MaxNodes \in 0..MaxNodes /\ \A i \in 1..Len(d) : i > Len(d) - MaxNodes
    BY <1>0
  <2> QED
    BY <2>1
<1>14. bad \in SUBSET Nat
  OBVIOUS
<1> HIDE DEF bad
<1>6. PICK x \in bad : \A y \in bad : x <= y
  BY <1>5, <1>14, LeastNumber
<1> USE DEF bad
<1>7. x # 0
  <2>1. PICK i \in 1..Len(d) : d[i] = n
    BY DEF Elements
  <2>2. 0 \notin bad
    BY <1>0, <1>2, <2>1
  <2> QED
    BY <1>6, <2>2
<1>15. x \in 1..MaxNodes /\ x - 1 \in 0..MaxNodes /\ ~(x <= x - 1)
  BY <1>0, <1>6, <1>7
<1>8. x \in 1..MaxNodes /\ x - 1 \in 0..MaxNodes /\ x - 1 \notin bad
  <2> HIDE DEF bad
  <2> QED
    BY <1>6, <1>15
<1>9. PICK i \in 1..Len(d) : d[i] \in up[x - 1] /\ i <= Len(d) - (x - 1)
  BY <1>0, <1>8
<1>10. d[i] \in up[MaxNodes] \ {0}
  BY <1>2, <1>3, <1>8, <1>9
<1>11. PICK j \in 1..(i - 1) : d[j] = parentID[d[i]]
  BY <1>4, <1>10
<1>12. d[j] \in up[x]
  BY <1>2, <1>8, <1>9, <1>10, <1>11 DEF More
<1>13. j \in 1..Len(d) /\ ~(j > Len(d) - x)
  BY <1>0, <1>8, <1>9
<1> QED
  BY <1>6, <1>12, <1>13

(* What is left of a list without its first element.                        *)
LEMMA TailElements ==
  ASSUME NEW S, NEW t \in Seq(S), t # <<>>, Distinct(t)
  PROVE  /\ Tail(t) \in Seq(S) /\ Distinct(Tail(t))
         /\ Head(t) \in Elements(t) /\ Elements(Tail(t)) = Elements(t) \ {Head(t)}
<1>1. /\ Len(t) \in Nat /\ Len(t) >= 1 /\ Head(t) = t[1] /\ Tail(t) \in Seq(S)
      /\ Len(Tail(t)) = Len(t) - 1 /\ DOMAIN Tail(t) = 1..(Len(t) - 1)
      /\ \A i \in 1..(Len(t) - 1) : Tail(t)[i] = t[i + 1]
  OBVIOUS
<1>2. Distinct(Tail(t))
  BY <1>1 DEF Distinct
<1>3. ASSUME NEW x \in Elements(Tail(t)) PROVE x \in Elements(t) \ {Head(t)}
  BY <1>1 DEF Distinct, Elements
<1>4. ASSUME NEW x \in Elements(t) \ {Head(t)} PROVE x \in Elements(Tail(t))
  <2>1. PICK i \in 1..Len(t) : t[i] = x
    BY DEF Elements
  <2>2. i - 1 \in 1..(Len(t) - 1) /\ (i - 1) + 1 = i
    BY <1>1, <2>1
  <2>3. Tail(t)[i - 1] = x
    BY <1>1, <2>1, <2>2
  <2> QED
    BY <1>1, <2>2, <2>3 DEF Elements
<1>5. Head(t) \in Elements(t)
  BY <1>1 DEF Elements
<1> QED
  BY <1>1, <1>2, <1>3, <1>4, <1>5

(* Two lists one after the other.                                           *)
LEMMA ConcatElements ==
  ASSUME NEW S, NEW s \in Seq(S), NEW t \in Seq(S)
  PROVE  /\ Elements(s \o t) = Elements(s) \union Elements(t)
         /\ Distinct(s) /\ Distinct(t) /\ Elements(s) \intersect Elements(t) = {}
              => Distinct(s \o t)
<1>1. /\ Len(s) \in Nat /\ Len(t) \in Nat /\ DOMAIN (s \o t) = 1..(Len(s) + Len(t))
      /\ \A i \in 1..Len(s) : (s \o t)[i] = s[i]
      /\ \A i \in (Len(s) + 1)..(Len(s) + Len(t)) : (s \o t)[i] = t[i - Len(s)]
      /\ DOMAIN s = 1..Len(s) /\ DOMAIN t = 1..Len(t)
  OBVIOUS
<1> DEFINE r == s \o t
<1> HIDE DEF r
<1>2. ASSUME NEW i \in DOMAIN r
      PROVE  \/ i \in 1..Len(s) /\ r[i] = s[i]
             \/ i - Len(s) \in 1..Len(t) /\ r[i] = t[i - Len(s)] /\ ~(i \in 1..Len(s))
  BY <1>1 DEF r
<1>3. Elements(r) = Elements(s) \union Elements(t)
  <2>1. ASSUME NEW x \in Elements(r) PROVE x \in Elements(s) \union Elements(t)
    BY <1>1, <1>2 DEF Elements
  <2>2. ASSUME NEW x \in Elements(s) PROVE x \in Elements(r)
    <3>1. PICK i \in 1..Len(s) : s[i] = x BY DEF Elements
    <3>2. i \in DOMAIN r /\ r[i] = x BY <1>1, <3>1 DEF r
    <3> QED BY <3>2 DEF Elements
  <2>3. ASSUME NEW x \in Elements(t) PROVE x \in Elements(r)
    <3>1. PICK i \in 1..Len(t) : t[i] = x BY DEF Elements
    <3>2. i + Len(s) \in DOMAIN r /\ r[i + Len(s)] = x BY <1>1, <3>1 DEF r
    <3> QED BY <3>2 DEF Elements
  <2> QED BY <2>1, <2>2, <2>3
<1>4. ASSUME Distinct(s), Distinct(t), Elements(s) \intersect Elements(t) = {}
      PROVE  Distinct(r)
  <2> SUFFICES ASSUME NEW i \in DOMAIN r, NEW j \in DOMAIN r, r[i] = r[j] PROVE i = j
    BY DEF Distinct
  <2>0. i \in Int /\ j \in Int BY <1>1 DEF r
  <2>1. CASE i \in 1..Len(s) /\ j \in 1..Len(s)
    BY <1>1, <1>2, <1>4, <2>1 DEF Distinct
  <2>2. CASE i \in 1..Len(s) /\ ~(j \in 1..Len(s))
    <3>1. r[i] \in Elements(s) /\ r[j] \in Elements(t) BY <1>1, <1>2, <2>2 DEF Elements
    <3> QED BY <1>4, <3>1
  <2>3. CASE ~(i \in 1..Len(s)) /\ j \in 1..Len(s)
    <3>1. r[j] \in Elements(s) /\ r[i] \in Elements(t) BY <1>1, <1>2, <2>3 DEF Elements
    <3> QED BY <1>4, <3>1
  <2>4. CASE ~(i \in 1..Len(s)) /\ ~(j \in 1..Len(s))
    <3>1. i - Len(s) \in 1..Len(t) /\ j - Len(s) \in 1..Len(t) /\ t[i - Len(s)] = t[j - Len(s)]
      BY <1>2, <2>4
    <3>2. i - Len(s) = j - Len(s) BY <1>1, <1>4, <3>1 DEF Distinct
    <3> QED BY <1>1, <2>0, <3>2
  <2> QED BY <2>1, <2>2, <2>3, <2>4
<1> QED BY <1>3, <1>4 DEF r

(***************************************************************************)
(* The picture a frame draws.                                              *)
(***************************************************************************)

(* The nodes this frame's walk has drawn or has still to visit.             *)
Met == Elements(drawn) \union Elements(pending)

(* The walk has drawn the parent of m, or m has none.                       *)
Reached(m) == parentID[m] \in Elements(drawn) \union {0}

(* No node is drawn before its parent.                                      *)
ParentsFirst ==
  \A i \in 1..Len(drawn) :
    parentID[drawn[i]] # 0 => \E j \in 1..(i - 1) : drawn[j] = parentID[drawn[i]]

(* What SceneManager::Render can answer for in the middle of its walk: what *)
(* it has met hangs in a list below what it has drawn, and a node that can  *)
(* be seen and hangs there has been met; nothing is met twice.              *)
Account ==
  /\ phase # "render" => drawn = <<>>
  /\ phase = "render" =>
       /\ Distinct(drawn) /\ Distinct(pending)
       /\ Elements(drawn) \intersect Elements(pending) = {}
       /\ Elements(drawn) \subseteq live \ marked
       /\ \A m \in Met : Listed(m) /\ Reached(m)
       /\ ParentsFirst
       /\ \A m \in live \ marked : Listed(m) /\ Reached(m) => m \in Met

(* An empty list holds nothing.                                             *)
LEMMA NothingIsMet == Elements(<<>>) = {} /\ Distinct(<<>>) /\ Len(<<>>) = 0
BY DEF Elements, Distinct

(* The walk begins with the current scene's list.                           *)
LEMMA RenderBegins ==
  ASSUME Inv, Account, ScriptReturns
  PROVE  Account'
<1>1. /\ phase' = "render" /\ phase = "script" /\ drawn' = <<>> /\ pending' = CurrentList
      /\ UNCHANGED <<live, marked, parentID, childNodes, sceneMap, maxSceneID, currentScene>>
  BY DEF ScriptReturns, Account, nodeVars, sceneVars
<1>2. CurrentList' = CurrentList /\ \A m : Listed(m)' <=> Listed(m)
  BY <1>1 DEF CurrentList, Listed, Elements
<1>3. Distinct(CurrentList) /\ \A m \in Elements(CurrentList) : parentID[m] = 0
  <2>1. CASE currentScene \in 1..maxSceneID
    <3>1. currentScene \in SceneIds /\ CurrentList = sceneMap[currentScene]
      BY <2>1, BoundsAreNaturals DEF Inv, TypeOK, SceneIds, CurrentList
    <3> QED
      BY <3>1 DEF Inv, ListsOwnTheirNodes, SceneListsOwn
  <2>2. CASE currentScene \notin 1..maxSceneID
    BY <2>2, NothingIsMet DEF CurrentList
  <2> QED BY <2>1, <2>2
<1>4. Elements(drawn') = {} /\ Distinct(drawn') /\ Len(drawn') = 0
  BY <1>1, NothingIsMet
<1>5. Met' = Elements(CurrentList)
  <2>1. Elements(drawn)' = Elements(drawn') /\ Elements(pending)' = Elements(CurrentList)
    BY <1>1 DEF Elements
  <2> QED BY <1>4, <2>1 DEF Met
<1>6. ASSUME NEW m PROVE (Listed(m) /\ Reached(m))' <=> m \in Elements(CurrentList)
  <2>1. Reached(m)' <=> parentID[m] = 0
    BY <1>1, <1>4 DEF Reached, Elements
  <2> QED BY <1>2, <1>3, <2>1 DEF Listed
<1>7. ParentsFirst'
  BY <1>4 DEF ParentsFirst
<1>8. Distinct(pending') /\ Elements(drawn') \intersect Elements(pending') = {}
  BY <1>1, <1>3, <1>4
<1>9. Elements(drawn') \subseteq live' \ marked'
  BY <1>4
<1>10. Distinct(drawn)' /\ Distinct(pending)' /\ (Elements(drawn) \intersect Elements(pending) = {})'
       /\ (Elements(drawn) \subseteq live \ marked)'
  BY <1>4, <1>8, <1>9 DEF Distinct, Elements
<1>11. \A m \in Met' : Listed(m)' /\ Reached(m)'
  BY <1>5, <1>6
<1>12. \A m \in live' \ marked' : Listed(m)' /\ Reached(m)' => m \in Met'
  BY <1>5, <1>6
<1> QED BY <1>1, <1>7, <1>10, <1>11, <1>12 DEF Account

(* Each visit keeps the account: a marked node is passed over, another is   *)
(* drawn and its children come next.                                        *)
LEMMA VisitKeeps ==
  ASSUME Inv, Account, RenderStep
  PROVE  Account'
<1> DEFINE n == Head(pending)
           rest == Tail(pending)
<1>1. /\ phase = "render" /\ phase' = "render" /\ pending # <<>>
      /\ pending \in Seq(NodeIds) /\ drawn \in Seq(NodeIds) /\ childNodes \in [NodeIds -> Seq(NodeIds)]
      /\ UNCHANGED <<live, marked, parentID, childNodes, sceneMap, maxSceneID, currentScene>>
  BY DEF RenderStep, Inv, TypeOK, nodeVars, sceneVars
<1>2. CurrentList' = CurrentList /\ \A m : Listed(m)' <=> Listed(m)
  BY <1>1 DEF CurrentList, Listed, Elements
<1>3. /\ Distinct(drawn) /\ Distinct(pending)
      /\ Elements(drawn) \intersect Elements(pending) = {}
      /\ Elements(drawn) \subseteq live \ marked
      /\ \A m \in Met : Listed(m) /\ Reached(m)
      /\ ParentsFirst
      /\ \A m \in live \ marked : Listed(m) /\ Reached(m) => m \in Met
  BY <1>1 DEF Account
<1>4. /\ rest \in Seq(NodeIds) /\ Distinct(rest)
      /\ n \in Elements(pending) /\ Elements(rest) = Elements(pending) \ {n}
  BY <1>1, <1>3, TailElements
<1>5. n \in NodeIds /\ n \in live /\ n # 0
  <2>1. n \in live BY <1>4 DEF Inv, WalkIsLive
  <2>2. Elements(pending) \subseteq NodeIds BY <1>1, ElementsType
  <2> QED BY <1>4, <2>1, <2>2, BoundsAreNaturals DEF NodeIds
<1>6. CASE n \in marked
  <2>1. drawn' = drawn /\ pending' = rest
    BY <1>5, <1>6 DEF RenderStep
  <2>2. Elements(drawn)' = Elements(drawn) /\ Elements(pending)' = Elements(pending) \ {n}
    BY <1>4, <2>1 DEF Elements
  <2>3. Distinct(drawn)' /\ Distinct(pending)'
    BY <1>3, <1>4, <2>1 DEF Distinct
  <2>4. \A m : Reached(m)' <=> Reached(m)
    BY <1>1, <2>2 DEF Reached
  <2>5. Met' = Elements(drawn) \union (Elements(pending) \ {n})
    BY <2>2 DEF Met
  <2>6. \A m \in Met' : Listed(m)' /\ Reached(m)'
    BY <1>2, <1>3, <2>4, <2>5 DEF Met
  <2>7. \A m \in live' \ marked' : Listed(m)' /\ Reached(m)' => m \in Met'
    BY <1>1, <1>2, <1>3, <1>6, <2>4, <2>5 DEF Met
  <2>8. ParentsFirst'
    BY <1>1, <1>3, <2>1 DEF ParentsFirst
  <2>9. (Elements(drawn) \intersect Elements(pending) = {})' /\ (Elements(drawn) \subseteq live \ marked)'
    BY <1>1, <1>3, <2>2
  <2> QED BY <1>1, <2>3, <2>6, <2>7, <2>8, <2>9 DEF Account
<1>7. CASE n \notin marked
  <2> DEFINE cs == childNodes[n]
  <2>1. drawn' = Append(drawn, n) /\ pending' = cs \o rest
    BY <1>5, <1>7 DEF RenderStep
  <2>2. cs \in Seq(NodeIds) /\ Distinct(cs) /\ \A c \in Elements(cs) : parentID[c] = n /\ c \in live
    BY <1>1, <1>5 DEF Inv, TypeOK, ListsOwnTheirNodes, ChildListsOwn
  <2>3. n \notin Elements(drawn)
    BY <1>3, <1>4
  <2>4. \A c \in Elements(cs) : c \notin Met
    <3> SUFFICES ASSUME NEW c \in Elements(cs), c \in Met PROVE FALSE
      OBVIOUS
    <3>1. Reached(c) BY <1>3
    <3> QED BY <1>5, <2>2, <2>3, <3>1 DEF Reached
  <2>5. Elements(drawn') = Elements(drawn) \union {n} /\ Distinct(drawn')
    BY <1>1, <1>3, <2>1, <2>3, AppendElements
  <2>6. Elements(cs) \intersect Elements(rest) = {} /\ n \notin Elements(cs)
    BY <1>4, <2>4 DEF Met
  <2> HIDE DEF cs, rest
  <2>7. Elements(pending') = Elements(cs) \union (Elements(pending) \ {n}) /\ Distinct(pending')
    BY <1>4, <2>1, <2>2, <2>6, ConcatElements
  <2>8. /\ Elements(drawn)' = Elements(drawn) \union {n}
        /\ Elements(pending)' = Elements(cs) \union (Elements(pending) \ {n})
        /\ Distinct(drawn)' /\ Distinct(pending)'
    BY <2>5, <2>7 DEF Elements, Distinct
  <2>9. Met' = Met \union Elements(cs)
    BY <1>4, <2>8 DEF Met
  <2>10. \A m : Reached(m)' <=> Reached(m) \/ parentID[m] = n
    BY <1>1, <2>8 DEF Reached
  <2>11. \A m : parentID[m] = n => (Listed(m) <=> m \in Elements(cs))
    BY <1>5 DEF Listed, cs
  <2>12. \A m \in Met' : Listed(m)' /\ Reached(m)'
    BY <1>2, <1>3, <2>2, <2>9, <2>10, <2>11
  <2>13. \A m \in live' \ marked' : Listed(m)' /\ Reached(m)' => m \in Met'
    BY <1>1, <1>2, <1>3, <2>9, <2>10, <2>11
  <2>14. (Elements(drawn) \intersect Elements(pending) = {})' /\ (Elements(drawn) \subseteq live \ marked)'
    BY <1>1, <1>3, <1>5, <1>7, <2>3, <2>4, <2>6, <2>8 DEF Met
  <2>15. ParentsFirst'
    <3>1. /\ Len(drawn) \in Nat /\ Len(drawn') = Len(drawn) + 1 /\ drawn'[Len(drawn) + 1] = n
          /\ \A i \in 1..Len(drawn) : drawn'[i] = drawn[i]
      BY <1>1, <2>1
    <3>2. ASSUME NEW i \in 1..(Len(drawn) + 1), parentID[drawn'[i]] # 0
          PROVE  \E j \in 1..(i - 1) : drawn'[j] = parentID[drawn'[i]]
      <4>1. CASE i = Len(drawn) + 1
        <5>1. parentID[n] \in Elements(drawn)
          <6>1. Reached(n) BY <1>3, <1>4 DEF Met
          <6> QED BY <3>1, <3>2, <4>1, <6>1 DEF Reached
        <5>3. DOMAIN drawn = 1..Len(drawn)
          BY <1>1
        <5>2. PICK j \in 1..Len(drawn) : drawn[j] = parentID[n]
          BY <5>1, <5>3 DEF Elements
        <5> QED BY <3>1, <4>1, <5>2
      <4>2. CASE i # Len(drawn) + 1
        <5>1. i \in 1..Len(drawn) /\ drawn'[i] = drawn[i] BY <3>1, <4>2
        <5>2. PICK j \in 1..(i - 1) : drawn[j] = parentID[drawn[i]]
          BY <1>3, <3>2, <5>1 DEF ParentsFirst
        <5>3. j \in 1..Len(drawn) BY <3>1, <5>1
        <5> QED BY <3>1, <5>1, <5>2, <5>3
      <4> QED BY <4>1, <4>2
    <3> QED BY <1>1, <3>1, <3>2 DEF ParentsFirst
  <2> QED BY <1>1, <2>8, <2>12, <2>13, <2>14, <2>15 DEF Account
<1> QED BY <1>6, <1>7

(* No other step disturbs the account: scripts, which change lists and      *)
(* marks, run between the walks.                                            *)
LEMMA AccountKept ==
  ASSUME Inv, Account, [Next]_vars
  PROVE  Account'
<1>1. CASE ScriptReturns BY <1>1, RenderBegins
<1>2. CASE RenderStep BY <1>2, VisitKeeps
<1>3. CASE RenderDone
  <2>1. phase' # "render" /\ drawn' = <<>> BY <1>3 DEF RenderDone
  <2> QED BY <2>1 DEF Account
<1>4. ASSUME phase # "render", phase' # "render", drawn' = drawn
      PROVE  Account'
  BY <1>4 DEF Account
<1>5. CASE ScriptCall
  <2>1. ScriptRuns /\ UNCHANGED frameVars
    BY <1>5 DEF ScriptCall, CreateNode, CreateScene, SetCurrentScene,
       AssignNode, AssignNodeAt, AssignToScene, DeleteNode
  <2> QED BY <1>4, <2>1 DEF ScriptRuns, frameVars
<1>6. CASE \/ BeginFrame \/ UpdateStep \/ UpdateDone \/ PurgeSkip \/ PurgeRoot \/ PurgeChild
           \/ PurgeWithoutParent \/ PurgeDone
  <2>1. phase # "render" /\ phase' # "render" /\ drawn' = drawn
    BY <1>6 DEF BeginFrame, UpdateStep, UpdateDone, PurgeSkip, PurgeRoot, PurgeChild,
                PurgeWithoutParent, PurgeDone, frameVars
  <2> QED BY <1>4, <2>1
<1>7. CASE UNCHANGED vars
  BY <1>7 DEF Account, Met, Reached, ParentsFirst, Listed, CurrentList, Elements, Distinct,
              vars, nodeVars, sceneVars, frameVars
<1> QED BY <1>1, <1>2, <1>3, <1>5, <1>6, <1>7 DEF Next, Frame

(* When nothing is left to visit, the nodes drawn are the visible ones.     *)
LEMMA WholeWalk ==
  ASSUME Inv, Account
  PROVE  PictureIsRight
<1> SUFFICES ASSUME phase = "render", pending = <<>>
             PROVE  /\ Distinct(drawn)
                    /\ Elements(drawn) = Visible
                    /\ \A i, j \in DOMAIN drawn : parentID[drawn[i]] = drawn[j] => j < i
  BY DEF PictureIsRight
<1>1. /\ Distinct(drawn) /\ drawn \in Seq(NodeIds)
      /\ Elements(drawn) \subseteq live \ marked
      /\ Elements(drawn) \subseteq NodeIds /\ 0 \notin NodeIds /\ live \subseteq NodeIds
      /\ Met = Elements(drawn) /\ ParentsFirst
  <2>1. drawn \in Seq(NodeIds) /\ live \subseteq NodeIds
    BY LiveAreNodes DEF Inv, TypeOK
  <2>2. Elements(drawn) \subseteq NodeIds
    BY <2>1, ElementsType
  <2>3. 0 \notin NodeIds
    BY BoundsAreNaturals DEF NodeIds
  <2>4. Elements(pending) = {}
    BY NothingIsMet
  <2> QED BY <2>1, <2>2, <2>3, <2>4 DEF Account, Met
<1>2. /\ \A m \in Elements(drawn) : Listed(m) /\ Reached(m)
      /\ \A m \in live \ marked : Listed(m) /\ Reached(m) => m \in Elements(drawn)
  BY <1>1 DEF Account
<1>3. ASSUME NEW n \in Visible PROVE n \in Elements(drawn)
  <2> SUFFICES ASSUME n \notin Elements(drawn) PROVE FALSE
    OBVIOUS
  <2>1. /\ n \in live /\ \A m \in ChainOf(n) : m \in live \ marked /\ Listed(m)
        /\ \E m \in ChainOf(n) : parentID[m] = 0
    BY DEF Visible
  <2> DEFINE S == (0..MaxNodes) \ Elements(drawn)
  <2>2. n \in S /\ 0 \in S
    BY <1>1, <2>1, BoundsAreNaturals DEF NodeIds
  <2>3. ASSUME NEW m \in S \intersect ChainOf(n) PROVE parentID[m] \in S
    <3>1. m \in live \ marked /\ Listed(m) /\ m \notin Elements(drawn) BY <2>1
    <3>2. ~Reached(m) BY <1>2, <3>1
    <3>3. parentID[m] \in 0..MaxNodes BY <1>1, <3>1 DEF Inv, TypeOK
    <3> QED BY <3>2, <3>3 DEF Reached
  <2>4. ChainOf(n) \subseteq S
    <3> HIDE DEF S
    <3> QED BY <2>2, <2>3, ChainInduction
  <2>5. PICK m \in ChainOf(n) : parentID[m] = 0 BY <2>1
  <2>6. m \in live \ marked /\ Listed(m) /\ Reached(m) BY <2>1, <2>5 DEF Reached
  <2> QED BY <1>2, <2>4, <2>5, <2>6
<1>4. ASSUME NEW n \in Elements(drawn) PROVE n \in Visible
  <2> DEFINE S == Elements(drawn) \union {0}
  <2>1. ChainOf(n) \subseteq S
    <3>1. n \in S OBVIOUS
    <3>2. ASSUME NEW m \in S \intersect ChainOf(n) PROVE parentID[m] \in S
      <4>1. m # 0 BY DEF ChainOf
      <4>2. Reached(m) BY <1>2, <4>1
      <4> QED BY <4>2 DEF Reached
    <3> HIDE DEF S
    <3> QED BY <3>1, <3>2, ChainInduction
  <2>2. \A m \in ChainOf(n) : m \in Elements(drawn)
    <3>1. 0 \notin ChainOf(n) BY DEF ChainOf
    <3> QED BY <2>1, <3>1
  <2>3. \E m \in ChainOf(n) : parentID[m] = 0
    BY <1>1, ChainReachesRoot DEF ParentsFirst
  <2> QED BY <1>1, <1>2, <2>2, <2>3 DEF Visible
<1>5. ASSUME NEW i \in DOMAIN drawn, NEW j \in DOMAIN drawn, parentID[drawn[i]] = drawn[j]
      PROVE  j < i
  <2>1. DOMAIN drawn = 1..Len(drawn) /\ Len(drawn) \in Nat BY <1>1
  <2>2. parentID[drawn[i]] # 0 BY <1>1, <1>5
  <2>3. PICK k \in 1..(i - 1) : drawn[k] = parentID[drawn[i]] BY <2>1, <2>2, <1>1 DEF ParentsFirst
  <2>4. k \in DOMAIN drawn BY <2>1
  <2>5. k = j BY <1>1, <1>5, <2>3, <2>4 DEF Distinct
  <2> QED BY <2>1, <2>3, <2>5
<1> QED BY <1>1, <1>3, <1>4, <1>5

(* Whatever scripts did to nodes, scenes and marks before: when the walk of *)
(* SceneManager::Render ends, it has drawn every node that hangs from the   *)
(* current scene by unmarked ancestors and no other, once and after its     *)
(* parent.                                                                  *)
THEOREM PictureHolds == Spec => []PictureIsRight
<1>1. Init => Account
  BY DEF Init, Account
<1>2. Inv /\ Account /\ [Next]_vars => Account'
  BY AccountKept
<1>3. Inv /\ Account => PictureIsRight
  BY WholeWalk
<1> QED BY <1>1, <1>2, <1>3, InvHolds, PTL DEF Spec

(***************************************************************************)
(* What a purge takes and what it leaves.                                  *)
(***************************************************************************)

(* A set that grows by what a relation leads to has, after as many rounds   *)
(* as there are elements, all that the relation leads to.                   *)
LEMMA GrowthCloses ==
  ASSUME NEW M \in Nat, NEW U, IsFiniteSet(U), Cardinality(U) <= M + 1,
         NEW R, NEW G, \A k \in 0..M : G[k] \subseteq U,
         \A k \in 1..M : G[k] = G[k - 1] \union {v \in U : \E u \in G[k - 1] : <<u, v>> \in R}
  PROVE  \A u \in G[M], v \in U : <<u, v>> \in R => v \in G[M]
<1> DEFINE Closed(s) == \A u \in s, v \in U : <<u, v>> \in R => v \in s
<1>1. CASE \E k \in 1..M : G[k] = G[k - 1]
  <2>1. PICK k \in 1..M : G[k] = G[k - 1]
    BY <1>1
  <2>2. Closed(G[k])
    BY <2>1
  <2> DEFINE bad == {j \in k..M : G[j] # G[k]}
  <2>3. bad = {}
    <3> SUFFICES ASSUME bad # {} PROVE FALSE
      OBVIOUS
    <3>1. bad \in SUBSET Nat
      OBVIOUS
    <3> HIDE DEF bad
    <3>2. PICK x \in bad : \A y \in bad : x <= y
      BY <3>1, LeastNumber
    <3> USE DEF bad
    <3>3. x # k /\ x \in k..M
      BY <3>2
    <3>4. x - 1 \in k..M /\ ~(x <= x - 1) /\ x \in 1..M
      BY <3>3
    <3>5. G[x - 1] = G[k]
      BY <3>2, <3>4
    <3>6. {v \in U : \E u \in G[x - 1] : <<u, v>> \in R} \subseteq G[x - 1]
      BY <2>2, <3>5
    <3>7. G[x] = G[x - 1]
      BY <3>4, <3>6
    <3> QED
      BY <3>2, <3>5, <3>7
  <2>4. M \in k..M
    OBVIOUS
  <2>5. G[M] = G[k]
    BY <2>3, <2>4
  <2> QED
    BY <2>2, <2>5
<1>2. CASE M = 0 /\ G[0] = {}
  BY <1>2
<1>3. CASE (M # 0 \/ G[0] # {}) /\ \A k \in 1..M : G[k] # G[k - 1]
  <2>0. G[0] # {}
    <3>1. SUFFICES ASSUME G[0] = {}, M # 0 PROVE FALSE
      BY <1>3
    <3>2. 1 \in 1..M /\ 1 - 1 = 0
      BY <3>1
    <3>3. G[1] = G[0] \union {v \in U : \E u \in G[0] : <<u, v>> \in R} /\ G[1] # G[0]
      BY <1>3, <3>2
    <3> QED
      BY <3>1, <3>3
  <2>1. \A k \in 0..M : IsFiniteSet(G[k]) /\ Cardinality(G[k]) \in Nat
    BY FS_Subset, FS_CardinalityType
  <2> DEFINE bad == {k \in 0..M : Cardinality(G[k]) < k + 1}
  <2>2. bad = {}
    <3> SUFFICES ASSUME bad # {} PROVE FALSE
      OBVIOUS
    <3>1. bad \in SUBSET Nat
      OBVIOUS
    <3> HIDE DEF bad
    <3>2. PICK x \in bad : \A y \in bad : x <= y
      BY <3>1, LeastNumber
    <3> USE DEF bad
    <3>3. x # 0
      <4>1. 0 \in 0..M
        OBVIOUS
      <4>2. Cardinality(G[0]) \in Nat /\ Cardinality(G[0]) # 0
        BY <2>0, <2>1, <4>1, FS_EmptySet
      <4> QED
        BY <3>2, <4>2
    <3>4. x \in 1..M /\ x - 1 \in 0..M /\ ~(x <= x - 1) /\ x \in 0..M
      BY <3>2, <3>3
    <3>5. ~(Cardinality(G[x - 1]) < x)
      BY <3>2, <3>4
    <3>6. G[x - 1] \subseteq G[x] /\ G[x - 1] # G[x]
      BY <1>3, <3>4
    <3>7. Cardinality(G[x - 1]) <= Cardinality(G[x]) /\ Cardinality(G[x - 1]) # Cardinality(G[x])
      BY <2>1, <3>4, <3>6, FS_Subset
    <3>8. Cardinality(G[x - 1]) \in Nat /\ Cardinality(G[x]) \in Nat
      BY <2>1, <3>4
    <3> QED
      BY <3>2, <3>4, <3>5, <3>7, <3>8
  <2>3. M \in 0..M
    OBVIOUS
  <2>4. Cardinality(G[M]) >= M + 1 /\ Cardinality(G[M]) <= Cardinality(U)
    BY <2>1, <2>2, <2>3, FS_Subset
  <2>5. G[M] \in SUBSET U /\ Cardinality(G[M]) = Cardinality(U)
    BY <2>1, <2>3, <2>4, FS_CardinalityType
  <2>6. G[M] = U
    BY <2>5, FS_Subset
  <2> QED
    BY <2>6
<1> QED
  BY <1>1, <1>2, <1>3

(* What MarkForDelete has reached from n after each round.                  *)
Reaches(f, n) ==
  f = [k \in 0..MaxNodes |->
         IF k = 0 THEN Elements(childNodes[n])
         ELSE f[k - 1] \union
              UNION {Elements(childNodes[c]) : c \in f[k - 1] \intersect live}]

(* The rounds exist, and none reaches anything but nodes.                   *)
LEMMA HeirsReach ==
  ASSUME childNodes \in [NodeIds -> Seq(NodeIds)], live \subseteq NodeIds, NEW n \in NodeIds
  PROVE  \E up \in [0..MaxNodes -> SUBSET NodeIds] :
            Reaches(up, n) /\ Heirs(n) = up[MaxNodes] \intersect live
<1> DEFINE U == SUBSET NodeIds
           z == Elements(childNodes[n])
           h == [s \in U |-> s \union UNION {Elements(childNodes[c]) : c \in s \intersect live}]
<1>0. \A c \in NodeIds : Elements(childNodes[c]) \subseteq NodeIds
  BY ElementsType
<1>1. z \in U /\ h \in [U -> U] /\ MaxNodes \in Nat
  BY <1>0, BoundsAreNaturals
<1>2. PICK f : Iterated(f, U, z, h, MaxNodes)
  <2> HIDE DEF U, z, h
  <2> QED
    BY <1>1, IterationExists
<1>3. f \in [0..MaxNodes -> U] /\ f[0] = z /\ \A i \in 1..MaxNodes : f[i] = h[f[i - 1]]
  BY <1>2 DEF Iterated
<1>4. ASSUME NEW k \in 0..MaxNodes
      PROVE  f[k] = IF k = 0 THEN Elements(childNodes[n])
                    ELSE f[k - 1] \union
                         UNION {Elements(childNodes[c]) : c \in f[k - 1] \intersect live}
  <2>1. CASE k = 0
    BY <1>3, <2>1
  <2>2. CASE k # 0
    <3>1. k \in 1..MaxNodes /\ k - 1 \in 0..MaxNodes
      BY <1>1, <2>2
    <3>2. f[k - 1] \in SUBSET NodeIds
      BY <1>3, <3>1
    <3>3. f[k] = h[f[k - 1]]
      BY <1>3, <3>1
    <3> QED
      BY <2>2, <3>2, <3>3
  <2> QED
    BY <2>1, <2>2
<1>5. Reaches(f, n)
  <2>1. f = [k \in 0..MaxNodes |-> f[k]]
    BY <1>3
  <2> QED
    BY <1>4, <2>1 DEF Reaches
<1> DEFINE up == CHOOSE g : Reaches(g, n)
<1>6. Reaches(up, n)
  BY <1>5, Zenon
<1>7. Heirs(n) = up[MaxNodes] \intersect live
  BY DEF Heirs, Reaches
<1> HIDE DEF up
<1>8. up \in [0..MaxNodes -> SUBSET NodeIds]
  <2>1. /\ up = [k \in 0..MaxNodes |-> up[k]]
        /\ \A k \in 0..MaxNodes :
             up[k] = IF k = 0 THEN Elements(childNodes[n])
                     ELSE up[k - 1] \union
                          UNION {Elements(childNodes[c]) : c \in up[k - 1] \intersect live}
    BY <1>6 DEF Reaches
  <2> DEFINE bad == {k \in 0..MaxNodes : up[k] \notin SUBSET NodeIds}
  <2>2. bad = {}
    <3> SUFFICES ASSUME bad # {} PROVE FALSE
      OBVIOUS
    <3>1. bad \in SUBSET Nat
      OBVIOUS
    <3> HIDE DEF bad
    <3>2. PICK x \in bad : \A y \in bad : x <= y
      BY <3>1, LeastNumber
    <3> USE DEF bad
    <3>3. x # 0
      BY <1>0, <2>1, <3>2
    <3>4. x \in 0..MaxNodes /\ x - 1 \in 0..MaxNodes /\ ~(x <= x - 1)
      BY <1>1, <3>2, <3>3
    <3>5. up[x - 1] \in SUBSET NodeIds
      BY <3>2, <3>4
    <3>6. up[x] = up[x - 1] \union
                  UNION {Elements(childNodes[c]) : c \in up[x - 1] \intersect live}
      BY <2>1, <3>3, <3>4
    <3> QED
      BY <1>0, <3>2, <3>5, <3>6
  <2> QED
    BY <2>1, <2>2
<1> QED
  BY <1>6, <1>7, <1>8

(* MarkForDelete reaches the children of n and those of all it reaches.     *)
LEMMA HeirsAreWhole ==
  ASSUME Inv, NEW n \in NodeIds, NEW p \in {n} \union Heirs(n), NEW c \in Elements(childNodes[p])
  PROVE  c \in Heirs(n)
<1> USE BoundsAreNaturals
<1>1. /\ childNodes \in [NodeIds -> Seq(NodeIds)] /\ live \subseteq NodeIds
      /\ \A q \in NodeIds : Elements(childNodes[q]) \subseteq live
  BY LiveAreNodes DEF Inv, TypeOK, ListsOwnTheirNodes, ChildListsOwn
<1>2. PICK up \in [0..MaxNodes -> SUBSET NodeIds] :
        Reaches(up, n) /\ Heirs(n) = up[MaxNodes] \intersect live
  BY <1>1, HeirsReach
<1>3. /\ up[0] = Elements(childNodes[n])
      /\ \A k \in 1..MaxNodes :
           up[k] = up[k - 1] \union
                   UNION {Elements(childNodes[d]) : d \in up[k - 1] \intersect live}
  <2>1. \A k \in 0..MaxNodes :
          up[k] = IF k = 0 THEN Elements(childNodes[n])
                  ELSE up[k - 1] \union
                       UNION {Elements(childNodes[d]) : d \in up[k - 1] \intersect live}
    BY <1>2 DEF Reaches
  <2>2. up[0] = Elements(childNodes[n])
    BY <2>1
  <2>3. ASSUME NEW k \in 1..MaxNodes
        PROVE  up[k] = up[k - 1] \union
                       UNION {Elements(childNodes[d]) : d \in up[k - 1] \intersect live}
    BY <2>1
  <2> QED
    BY <2>2, <2>3
<1> DEFINE R == {w \in NodeIds \X NodeIds : w[1] \in live /\ w[2] \in Elements(childNodes[w[1]])}
<1>4. IsFiniteSet(NodeIds) /\ Cardinality(NodeIds) <= MaxNodes + 1
  <2>1. /\ IsFiniteSet(1..MaxNodes)
        /\ Cardinality(1..MaxNodes) = IF 1 > MaxNodes THEN 0 ELSE MaxNodes - 1 + 1
    BY FS_Interval
  <2> QED
    BY <2>1 DEF NodeIds
<1>5. ASSUME NEW k \in 1..MaxNodes
      PROVE  up[k] = up[k - 1] \union {v \in NodeIds : \E u \in up[k - 1] : <<u, v>> \in R}
  <2>1. k - 1 \in 0..MaxNodes
    OBVIOUS
  <2>2. up[k - 1] \subseteq NodeIds
    BY <2>1
  <2>3. UNION {Elements(childNodes[d]) : d \in up[k - 1] \intersect live}
          = {v \in NodeIds : \E u \in up[k - 1] : <<u, v>> \in R}
    <3>1. \A u \in NodeIds, v \in NodeIds :
            <<u, v>> \in R <=> u \in live /\ v \in Elements(childNodes[u])
      OBVIOUS
    <3> HIDE DEF R
    <3>2. \A d \in live : Elements(childNodes[d]) \subseteq NodeIds
      BY <1>1
    <3> QED
      BY <2>2, <3>1, <3>2
  <2> QED
    BY <1>3, <2>3
<1>6. \A k \in 0..MaxNodes : up[k] \subseteq NodeIds
  OBVIOUS
<1> HIDE DEF R
<1>7. \A u \in up[MaxNodes], v \in NodeIds : <<u, v>> \in R => v \in up[MaxNodes]
  BY <1>4, <1>5, <1>6, GrowthCloses
<1> DEFINE lost == {k \in 0..MaxNodes : ~(up[0] \subseteq up[k])}
<1>8. lost = {}
  <2> SUFFICES ASSUME lost # {} PROVE FALSE
    OBVIOUS
  <2>1. lost \in SUBSET Nat
    OBVIOUS
  <2> HIDE DEF lost
  <2>2. PICK x \in lost : \A y \in lost : x <= y
    BY <2>1, LeastNumber
  <2> USE DEF lost
  <2>3. x \in 0..MaxNodes /\ x # 0
    BY <2>2
  <2>4. x \in 1..MaxNodes /\ x - 1 \in 0..MaxNodes /\ ~(x <= x - 1)
    BY <2>3
  <2>5. up[0] \subseteq up[x - 1] /\ up[x - 1] \subseteq up[x]
    BY <1>3, <2>2, <2>4
  <2> QED
    BY <2>2, <2>5
<1>9. up[0] \subseteq up[MaxNodes]
  BY <1>8
<1>10. p \in NodeIds /\ c \in live /\ c \in NodeIds
  BY <1>1, <1>2
<1>11. CASE p = n
  BY <1>2, <1>3, <1>9, <1>10, <1>11
<1>12. CASE p \in Heirs(n)
  <2>1. p \in up[MaxNodes] /\ p \in live
    BY <1>2, <1>12
  <2>2. <<p, c>> \in R
    BY <1>10, <2>1 DEF R
  <2> QED
    BY <1>2, <1>7, <1>10, <2>1, <2>2
<1> QED
  BY <1>11, <1>12

(* PurgeNodes, going once through the ids in their order and erasing as it  *)
(* goes, leaves no marked node behind.                                      *)
LEMMA PurgeIsWhole == Spec => [][FreesTheMarked]_vars
<1> DEFINE Ahead == phase = "purge" => \A n \in marked : cursor <= n
<1>1. Init => Ahead
  BY DEF Init
<1>2. Inv /\ Ahead /\ [Next]_vars => Ahead'
  <2> SUFFICES ASSUME Inv, Ahead, [Next]_vars, phase' = "purge"
               PROVE  \A n \in marked' : cursor' <= n
    OBVIOUS
  <2>0. marked \subseteq NodeIds /\ NodeIds \subseteq Int /\ cursor \in Int
    BY LiveAreNodes DEF Inv, TypeOK, NodeIds
  <2>1. CASE RenderDone
    BY <2>0, <2>1 DEF RenderDone, nodeVars, NodeIds
  <2>2. CASE PurgeSkip
    BY <2>0, <2>2 DEF PurgeSkip, nodeVars
  <2>3. CASE PurgeRoot
    BY <2>0, <2>3 DEF PurgeRoot, Forget
  <2>4. CASE PurgeChild
    BY <2>0, <2>4 DEF PurgeChild, Forget
  <2>5. CASE PurgeWithoutParent \/ UNCHANGED vars
    BY <2>5 DEF PurgeWithoutParent, vars, nodeVars, frameVars
  <2>6. CASE ScriptCall
    <3>1. ScriptRuns /\ UNCHANGED frameVars
      BY <2>6 DEF ScriptCall, CreateNode, CreateScene, SetCurrentScene,
         AssignNode, AssignNodeAt, AssignToScene, DeleteNode
    <3> QED BY <3>1 DEF ScriptRuns, frameVars
  <2>7. CASE BeginFrame \/ UpdateStep \/ UpdateDone \/ ScriptReturns \/ RenderStep \/ PurgeDone
    BY <2>7 DEF BeginFrame, UpdateStep, UpdateDone, ScriptReturns, RenderStep, PurgeDone
  <2> QED BY <2>1, <2>2, <2>3, <2>4, <2>5, <2>6, <2>7 DEF Next, Frame
<1>3. Inv /\ Ahead /\ [Next]_vars => [FreesTheMarked]_vars
  <2> SUFFICES ASSUME Inv, Ahead, Next, phase = "purge", phase' = "poll"
               PROVE  marked = {}
    BY DEF FreesTheMarked
  <2>1. cursor > MaxNodes
    <3>1. ~ScriptCall
      BY DEF ScriptRuns, ScriptCall, CreateNode, CreateScene, SetCurrentScene,
         AssignNode, AssignNodeAt, AssignToScene, DeleteNode
    <3> QED BY <3>1 DEF Next, Frame, BeginFrame, UpdateStep, UpdateDone, ScriptReturns,
         RenderStep, RenderDone, PurgeSkip, PurgeRoot, PurgeChild, PurgeWithoutParent,
         PurgeDone, frameVars
  <2>2. marked \subseteq 1..MaxNodes /\ cursor \in Int
    BY LiveAreNodes, BoundsAreNaturals DEF Inv, TypeOK, NodeIds
  <2> QED BY <2>1, <2>2, BoundsAreNaturals
<1> HIDE DEF Ahead
<1> QED BY <1>1, <1>2, <1>3, InvHolds, PTL DEF Spec

(* No step takes a node out of its parent's fate.                           *)
LEMMA FateIsKept ==
  ASSUME Inv, [Next]_vars, NEW n \in live, SharesFate(n)
  PROVE  SharesFate(n)' \/ n \notin live'
<1>0. /\ n \in NodeIds /\ live \subseteq NodeIds /\ marked \subseteq live
      /\ parentID \in [NodeIds -> 0..MaxNodes] /\ childNodes \in [NodeIds -> Seq(NodeIds)]
      /\ n \notin assigned => parentID[n] = 0
      /\ \A q \in NodeIds : childNodes[q] \in Seq(NodeIds) /\ Distinct(childNodes[q])
  BY LiveAreNodes DEF Inv, TypeOK, ListsOwnTheirNodes, ChildListsOwn, UnassignedAreRoots
<1>00. parentID[n] # 0 => parentID[n] \in NodeIds
  BY <1>0, BoundsAreNaturals DEF NodeIds
<1>1. CASE UNCHANGED <<parentID, marked, childNodes>>
  BY <1>1 DEF SharesFate
<1>2. ASSUME NEW m \in NodeIds, NEW p \in NodeIds,
             AssignNode(m, p) \/ \E at \in NodeIds : AssignNodeAt(m, p, at)
      PROVE  SharesFate(n)'
  <2>1. /\ m \notin assigned /\ marked' = marked
        /\ parentID' = [parentID EXCEPT ![m] = p]
    BY <1>2 DEF AssignNode, AssignNodeAt
  <2>2. CASE n \in marked
    BY <2>1, <2>2 DEF SharesFate
  <2>3. CASE n \notin marked
    <3>1. /\ parentID[n] # 0 /\ parentID[n] \notin marked /\ parentID'[n] = parentID[n]
          /\ n \in Elements(childNodes[parentID[n]])
      BY <1>0, <2>1, <2>3 DEF SharesFate
    <3>2. \A q \in NodeIds \ {p} : childNodes'[q] = childNodes[q]
      BY <1>0, <1>2 DEF AssignNode, AssignNodeAt
    <3>3. Elements(childNodes[p]) \subseteq Elements(childNodes'[p])
      <4>1. m \notin Elements(childNodes[p])
        BY <2>1 DEF Inv, ListsOwnTheirNodes, ChildListsOwn
      <4>2. CASE AssignNode(m, p)
        <5>1. childNodes'[p] = Append(childNodes[p], m)
          BY <1>0, <4>2 DEF AssignNode
        <5> QED
          BY <1>0, <5>1, AppendElements
      <4>3. ASSUME NEW at \in NodeIds, AssignNodeAt(m, p, at)
            PROVE  <3>3
        <5>1. childNodes'[p] = InsertBefore(childNodes[p], m, at)
          BY <1>0, <4>3 DEF AssignNodeAt
        <5> QED
          BY <1>0, <4>1, <5>1, InsertBeforeElements
      <4> QED
        BY <1>2, <4>2, <4>3
    <3> QED
      BY <1>00, <2>1, <3>1, <3>2, <3>3 DEF SharesFate
  <2> QED
    BY <2>2, <2>3
<1>3. ASSUME NEW d \in NodeIds, DeleteNode(d)
      PROVE  SharesFate(n)'
  <2>1. UNCHANGED <<parentID, childNodes>>
    BY <1>3 DEF DeleteNode
  <2>2. marked' = marked \/ marked' = marked \union {d} \union Heirs(d)
    BY <1>3 DEF DeleteNode
  <2>3. CASE n \in marked
    BY <2>2, <2>3 DEF SharesFate
  <2>4. CASE n \notin marked
    <3>1. /\ parentID[n] # 0 /\ parentID[n] \notin marked
          /\ n \in Elements(childNodes[parentID[n]])
      BY <2>4 DEF SharesFate
    <3>2. parentID[n] \in {d} \union Heirs(d) => n \in Heirs(d)
      BY <3>1, HeirsAreWhole
    <3> QED
      BY <2>1, <2>2, <3>1, <3>2 DEF SharesFate
  <2> QED
    BY <2>3, <2>4
<1>4. CASE PurgeRoot \/ PurgeChild
  <2>1. /\ cursor \in marked /\ live' = live \ {cursor} /\ marked' = marked \ {cursor}
        /\ parentID' = [parentID EXCEPT ![cursor] = 0]
    BY <1>4 DEF PurgeRoot, PurgeChild, Forget
  <2>2. CASE n = cursor
    BY <2>1, <2>2
  <2>3. CASE n # cursor /\ n \in marked
    BY <2>1, <2>3 DEF SharesFate
  <2>4. CASE n # cursor /\ n \notin marked
    <3>1. /\ parentID[n] # 0 /\ parentID[n] \notin marked /\ parentID'[n] = parentID[n]
          /\ n \in Elements(childNodes[parentID[n]]) /\ parentID[n] # cursor
      BY <1>0, <2>1, <2>4 DEF SharesFate
    <3>2. n \in Elements(childNodes'[parentID[n]])
      <4>1. CASE PurgeRoot
        BY <1>0, <1>00, <3>1, <4>1 DEF PurgeRoot
      <4>2. CASE PurgeChild
        <5>1. \/ childNodes'[parentID[n]] = childNodes[parentID[n]]
              \/ childNodes'[parentID[n]] = EraseFirst(childNodes[parentID[n]], cursor)
          BY <1>00, <3>1, <4>2 DEF PurgeChild
        <5>2. Elements(EraseFirst(childNodes[parentID[n]], cursor))
                = Elements(childNodes[parentID[n]]) \ {cursor}
          BY <1>0, <1>00, <3>1, EraseFirstElements
        <5> QED
          BY <2>4, <3>1, <5>1, <5>2
      <4> QED
        BY <1>4, <4>1, <4>2
    <3> QED
      BY <2>1, <3>1, <3>2 DEF SharesFate
  <2> QED
    BY <2>2, <2>3, <2>4
<1>5. ASSUME ScriptCall PROVE SharesFate(n)'
  <2>1. CASE \/ CreateNode \/ \E b \in BOOLEAN : CreateScene(b)
             \/ \E s \in 0..MaxScenes : SetCurrentScene(s)
             \/ \E m \in NodeIds, s \in SceneIds : AssignToScene(m, s)
    BY <1>1, <2>1 DEF CreateNode, CreateScene, SetCurrentScene, AssignToScene, nodeVars
  <2> QED
    BY <1>2, <1>3, <1>5, <2>1 DEF ScriptCall
<1>6. CASE \/ BeginFrame \/ UpdateStep \/ UpdateDone \/ ScriptReturns \/ RenderStep \/ RenderDone
           \/ PurgeSkip \/ PurgeWithoutParent \/ PurgeDone
  BY <1>1, <1>6 DEF BeginFrame, UpdateStep, UpdateDone, ScriptReturns, RenderStep, RenderDone,
     PurgeSkip, PurgeWithoutParent, PurgeDone, nodeVars
<1>7. CASE UNCHANGED vars
  BY <1>1, <1>7 DEF vars, nodeVars
<1> QED
  BY <1>4, <1>5, <1>6, <1>7 DEF Next, Frame

(* A node that once hung under an unmarked parent keeps the parent's fate   *)
(* until it is freed, and a pass of PurgeNodes that comes to its end has    *)
(* freed all that was marked.                                               *)
THEOREM FamiliesAreKept == Spec => FamiliesGoTogether
<1>1. Inv /\ [Next]_vars => [KeepsFates]_vars
  BY FateIsKept DEF KeepsFates
<1>2. Spec => [][FreesTheMarked]_vars
  BY PurgeIsWhole
<1> QED
  BY <1>1, <1>2, InvHolds, PTL DEF Spec, FamiliesGoTogether

(* What is known of a node from the moment it hung under an unmarked        *)
(* parent.                                                                  *)
Accounted(n) ==
  /\ n <= maxNodeID
  /\ n \in live => SharesFate(n)
  /\ n \in live /\ parentID[n] \notin live \union {0} => phase = "purge" /\ n \in marked

(* It stays known.                                                          *)
LEMMA AccountedStays ==
  ASSUME Inv, [Next]_vars, FreesTheMarked,
         NEW n \in NodeIds, Accounted(n)
  PROVE  Accounted(n)'
<1>0. /\ maxNodeID \in Int /\ n \in Int /\ n <= maxNodeID /\ live \subseteq NodeIds
      /\ parentID \in [NodeIds -> 0..MaxNodes]
  <2>1. live \subseteq NodeIds
    BY LiveAreNodes DEF Inv
  <2>2. maxNodeID \in 0..MaxNodes /\ parentID \in [NodeIds -> 0..MaxNodes]
    BY DEF Inv, TypeOK
  <2> QED
    BY <2>1, <2>2, BoundsAreNaturals DEF NodeIds, Accounted
<1>1. CASE UNCHANGED <<maxNodeID, live, parentID, marked>>
  <2>1. n \in live => SharesFate(n)'
    BY <1>1, FateIsKept DEF Accounted
  <2>2. n \in marked => phase # "purge" \/ phase' = "purge"
    <3>1. phase = "purge" => phase' \in {"purge", "poll"}
      BY DEF Next, Frame, ScriptCall, ScriptRuns, CreateNode, CreateScene, SetCurrentScene,
         AssignNode, AssignNodeAt, AssignToScene, DeleteNode, BeginFrame, UpdateStep, UpdateDone,
         ScriptReturns, RenderStep, RenderDone, PurgeSkip, PurgeRoot, PurgeChild,
         PurgeWithoutParent, PurgeDone, vars, frameVars
    <3> QED
      BY <3>1 DEF FreesTheMarked
  <2> QED
    BY <1>1, <2>1, <2>2 DEF Accounted, FreesTheMarked
<1>2. CASE CreateNode
  <2>1. /\ live' = live \union {maxNodeID + 1} /\ maxNodeID' = maxNodeID + 1
        /\ parentID' = parentID /\ marked' = marked /\ phase' = phase
    BY <1>2 DEF CreateNode, frameVars
  <2>2. n \in live' => n \in live
    BY <1>0, <2>1
  <2>3. n \in live => SharesFate(n)'
    BY <2>1, FateIsKept DEF Accounted
  <2> QED
    BY <1>0, <2>1, <2>2, <2>3 DEF Accounted
<1>3. ASSUME NEW m \in NodeIds, NEW p \in NodeIds,
             AssignNode(m, p) \/ \E at \in NodeIds : AssignNodeAt(m, p, at)
      PROVE  Accounted(n)'
  <2>1. /\ UNCHANGED <<maxNodeID, live, marked>> /\ p \in live /\ phase # "purge"
        /\ parentID' = [parentID EXCEPT ![m] = p]
    BY <1>3 DEF AssignNode, AssignNodeAt, ScriptRuns
  <2>2. n \in live => SharesFate(n)'
    BY <2>1, FateIsKept DEF Accounted
  <2>3. n \in live => parentID'[n] \in live \union {0}
    BY <1>0, <2>1 DEF Accounted
  <2> QED
    BY <1>0, <2>1, <2>2, <2>3 DEF Accounted
<1>4. ASSUME NEW d \in NodeIds, DeleteNode(d)
      PROVE  Accounted(n)'
  <2>1. UNCHANGED <<maxNodeID, live, parentID>> /\ phase # "purge"
    BY <1>4 DEF DeleteNode, ScriptRuns
  <2>2. n \in live => SharesFate(n)'
    BY <2>1, FateIsKept DEF Accounted
  <2> QED
    BY <1>0, <2>1, <2>2 DEF Accounted
<1>5. CASE PurgeRoot \/ PurgeChild
  <2>1. /\ cursor \in marked /\ live' = live \ {cursor} /\ marked' = marked \ {cursor}
        /\ parentID' = [parentID EXCEPT ![cursor] = 0]
        /\ phase = "purge" /\ phase' = phase /\ maxNodeID' = maxNodeID
    BY <1>5 DEF PurgeRoot, PurgeChild, Forget
  <2>2. n \in live' => n \in live /\ SharesFate(n)' /\ n # cursor
    BY <2>1, FateIsKept DEF Accounted
  <2>3. ASSUME n \in live', parentID'[n] \notin live' \union {0}
        PROVE  n \in marked
    <3>1. parentID'[n] = parentID[n]
      BY <1>0, <2>1, <2>2, <2>3
    <3>2. CASE parentID[n] = cursor
      BY <2>1, <2>2, <2>3, <3>2 DEF Accounted, SharesFate
    <3>3. CASE parentID[n] # cursor
      BY <2>1, <2>2, <2>3, <3>1, <3>3 DEF Accounted
    <3> QED
      BY <3>2, <3>3
  <2> QED
    BY <1>0, <2>1, <2>2, <2>3 DEF Accounted
<1>6. CASE \/ \E b \in BOOLEAN : CreateScene(b)
           \/ \E s \in 0..MaxScenes : SetCurrentScene(s)
           \/ \E m \in NodeIds, s \in SceneIds : AssignToScene(m, s)
  BY <1>1, <1>6 DEF CreateScene, SetCurrentScene, AssignToScene, nodeVars
<1>7. CASE \/ BeginFrame \/ UpdateStep \/ UpdateDone \/ ScriptReturns \/ RenderStep \/ RenderDone
           \/ PurgeSkip \/ PurgeWithoutParent \/ PurgeDone
  BY <1>1, <1>7 DEF BeginFrame, UpdateStep, UpdateDone, ScriptReturns, RenderStep, RenderDone,
     PurgeSkip, PurgeWithoutParent, PurgeDone, nodeVars
<1>8. CASE UNCHANGED vars
  BY <1>1, <1>8 DEF vars, nodeVars
<1> QED
  BY <1>2, <1>3, <1>4, <1>5, <1>6, <1>7, <1>8 DEF Next, Frame, ScriptCall

(* What once hung under an unmarked parent is never the orphan that         *)
(* NodeManager::CheckForOrphans looks for, in that frame or a later one.    *)
THEOREM NoneIsOrphaned ==
  ASSUME NEW n \in NodeIds
  PROVE  Spec => []( /\ parentID[n] # 0 /\ parentID[n] \notin marked
                     /\ n \in Elements(childNodes[parentID[n]])
                     => []~Orphaned(n))
<1> DEFINE Hangs == /\ parentID[n] # 0 /\ parentID[n] \notin marked
                    /\ n \in Elements(childNodes[parentID[n]])
           Whole == FreesTheMarked
           Known == Accounted(n)
           Lost == Orphaned(n)
<1>1. Inv /\ Hangs => Known
  <2> SUFFICES ASSUME Inv, Hangs PROVE Accounted(n)
    OBVIOUS
  <2>1. parentID[n] \in NodeIds /\ live \subseteq 1..maxNodeID /\ assigned \subseteq live
    <3>1. parentID[n] \in 0..MaxNodes /\ parentID[n] # 0
      BY DEF Inv, TypeOK
    <3>2. live \subseteq 1..maxNodeID /\ assigned \subseteq live
      BY DEF Inv, TypeOK
    <3> QED
      BY <3>1, <3>2, BoundsAreNaturals DEF NodeIds
  <2>2. n \in live /\ parentID[n] \in live
    BY <2>1 DEF Inv, ListsOwnTheirNodes, ChildListsOwn
  <2>3. n <= maxNodeID
    BY <2>1, <2>2
  <2> QED
    BY <2>2, <2>3 DEF Accounted, SharesFate
<1>2. Inv /\ Known /\ [Next]_vars /\ [Whole]_vars => Known'
  <2> SUFFICES ASSUME Inv, Accounted(n), [Next]_vars, [Whole]_vars PROVE Accounted(n)'
    OBVIOUS
  <2>1. CASE UNCHANGED vars
    <3>1. phase' = phase
      BY <2>1 DEF vars, frameVars
    <3>2. FreesTheMarked
      BY <3>1 DEF FreesTheMarked
    <3> QED
      BY <3>2, AccountedStays
  <2>2. CASE Whole
    BY <2>2, AccountedStays
  <2> QED
    BY <2>1, <2>2
<1>3. Known => ~Lost
  BY DEF Accounted, Orphaned
<1>4. Spec => [][Whole]_vars
  BY PurgeIsWhole
<1> HIDE DEF Hangs, Whole, Known, Lost
<1>5. Spec => [](Hangs => []~Lost)
  BY <1>1, <1>2, <1>3, <1>4, InvHolds, PTL DEF Spec
<1> QED
  BY <1>5 DEF Hangs, Lost

(***************************************************************************)
(* The nodes' matrices.                                                    *)
(***************************************************************************)

(* The parent of a node on a chain is on the chain.                         *)
LEMMA ChainCloses ==
  ASSUME parentID \in [NodeIds -> 0..MaxNodes], NEW n \in NodeIds, NEW m \in ChainOf(n)
  PROVE  /\ m \in NodeIds /\ parentID[m] \in ChainOf(n) \union {0}
<1> USE BoundsAreNaturals
<1>1. PICK up : Climbs(parentID, up, n, MaxNodes) /\ ChainOf(n) = up[MaxNodes] \ {0}
  BY ChainClimbs
<1>2. /\ up[0] = {n}
      /\ \A k \in 1..MaxNodes : up[k] = More(parentID, up[k - 1])
      /\ \A k \in 0..MaxNodes : up[k] \subseteq up[MaxNodes]
  BY <1>1, ClimbSteps
<1> DEFINE U == 0..MaxNodes
           R == {<<u, parentID[u]>> : u \in NodeIds}
<1>3. IsFiniteSet(U) /\ Cardinality(U) <= MaxNodes + 1
  BY FS_Interval
<1>4. NodeIds \subseteq U /\ 0 \notin NodeIds /\ 0 \in U /\ \A u \in U : u # 0 => u \in NodeIds
  BY DEF NodeIds
<1>5. ChainOf(n) \subseteq U
  <2>1. n \in U /\ \A x \in U \intersect ChainOf(n) : parentID[x] \in U
    <3>1. 0 \notin ChainOf(n)
      BY DEF ChainOf
    <3> QED
      BY <1>4, <3>1
  <2> HIDE DEF U
  <2> QED
    BY <2>1, ChainInduction
<1>6. up[MaxNodes] \subseteq U
  BY <1>1, <1>4, <1>5
<1>7. \A k \in 0..MaxNodes : up[k] \subseteq U
  BY <1>2, <1>6
<1>8. \A u \in U, v \in U : <<u, v>> \in R <=> u # 0 /\ v = parentID[u]
  BY <1>4
<1>9. \A u \in U : u # 0 => parentID[u] \in U
  BY <1>4
<1> HIDE DEF U, R
<1>10. ASSUME NEW k \in 1..MaxNodes
       PROVE  up[k] = up[k - 1] \union {v \in U : \E u \in up[k - 1] : <<u, v>> \in R}
  <2>1. k - 1 \in 0..MaxNodes
    OBVIOUS
  <2>2. up[k - 1] \subseteq U
    BY <1>7, <2>1
  <2>3. {parentID[x] : x \in up[k - 1] \ {0}} = {v \in U : \E u \in up[k - 1] : <<u, v>> \in R}
    BY <1>8, <1>9, <2>2
  <2> QED
    BY <1>2, <2>3 DEF More
<1>11. \A u \in up[MaxNodes], v \in U : <<u, v>> \in R => v \in up[MaxNodes]
  BY <1>2, <1>3, <1>7, <1>10, GrowthCloses
<1>12. m \in up[MaxNodes] /\ m # 0 /\ m \in U
  BY <1>1, <1>6
<1> QED
  BY <1>1, <1>4, <1>8, <1>9, <1>11, <1>12

(* The chain of a node on a chain is a part of it.                          *)
LEMMA ChainContains ==
  ASSUME parentID \in [NodeIds -> 0..MaxNodes], NEW n \in NodeIds, NEW m \in ChainOf(n)
  PROVE  ChainOf(m) \subseteq ChainOf(n)
<1> DEFINE S == ChainOf(n) \union {0}
<1>1. m \in S /\ 0 \notin ChainOf(m)
  BY DEF ChainOf
<1>2. \A x \in S \intersect ChainOf(m) : parentID[x] \in S
  BY <1>1, ChainCloses
<1>3. ChainOf(m) \subseteq S
  <2> HIDE DEF S
  <2> QED
    BY <1>1, <1>2, ChainInduction
<1> QED
  BY <1>1, <1>3

(* What is above a node is above its parent, but for the node itself.       *)
LEMMA ChainDescends ==
  ASSUME parentID \in [NodeIds -> 0..MaxNodes], NEW n \in NodeIds
  PROVE  ChainOf(n) \subseteq {n} \union ChainOf(parentID[n])
<1> DEFINE p == parentID[n]
           S == {n, 0} \union ChainOf(p)
<1>1. ASSUME NEW m \in S \intersect ChainOf(n) PROVE parentID[m] \in S
  <2>1. m # 0
    BY DEF ChainOf
  <2>2. CASE m = n
    BY <2>2, ChainStarts
  <2>3. CASE m # n
    <3>1. m \in ChainOf(p)
      BY <2>1, <2>3
    <3>2. p \in NodeIds
      <4>1. CASE p = 0
        <5> DEFINE Z == {0}
        <5>1. 0 \in Z /\ \A x \in Z \intersect ChainOf(0) : parentID[x] \in Z
          BY DEF ChainOf
        <5> HIDE DEF Z
        <5>2. ChainOf(0) \subseteq Z
          BY <5>1, ChainInduction
        <5> QED
          BY <2>1, <3>1, <4>1, <5>2 DEF Z
      <4> QED
        BY <4>1, BoundsAreNaturals DEF NodeIds
    <3> QED
      BY <3>1, <3>2, ChainCloses
  <2> QED
    BY <2>2, <2>3
<1>2. n \in S
  OBVIOUS
<1>3. ChainOf(n) \subseteq S
  <2> HIDE DEF S
  <2> QED
    BY <1>1, <1>2, ChainInduction
<1> QED
  BY <1>3 DEF ChainOf

(* The sets of nodes that Recomputed goes through.                          *)
Asks(up, n) ==
  up = [k \in 0..MaxNodes |->
          IF k = 0 THEN {n} \intersect stale
          ELSE up[k - 1] \union ({parentID[m] : m \in up[k - 1]} \intersect stale)]

(* Recomputed is the last of them.                                          *)
LEMMA RecomputedAsks ==
  ASSUME stale \subseteq NodeIds, NEW n
  PROVE  \E up \in [0..MaxNodes -> SUBSET stale] : Asks(up, n) /\ Recomputed(n) = up[MaxNodes]
<1> DEFINE U == SUBSET stale
           z == {n} \intersect stale
           h == [s \in U |-> s \union ({parentID[m] : m \in s} \intersect stale)]
<1>1. z \in U /\ h \in [U -> U] /\ MaxNodes \in Nat
  BY BoundsAreNaturals
<1>2. PICK f : Iterated(f, U, z, h, MaxNodes)
  <2> HIDE DEF U, z, h
  <2> QED
    BY <1>1, IterationExists
<1>3. f \in [0..MaxNodes -> U] /\ f[0] = z /\ \A i \in 1..MaxNodes : f[i] = h[f[i - 1]]
  BY <1>2 DEF Iterated
<1>4. ASSUME NEW k \in 0..MaxNodes
      PROVE  f[k] = IF k = 0 THEN {n} \intersect stale
                    ELSE f[k - 1] \union ({parentID[m] : m \in f[k - 1]} \intersect stale)
  <2>1. CASE k = 0
    BY <1>3, <2>1
  <2>2. CASE k # 0
    <3>1. k \in 1..MaxNodes /\ k - 1 \in 0..MaxNodes
      BY <1>1, <2>2
    <3>2. f[k - 1] \in SUBSET stale
      BY <1>3, <3>1
    <3>3. f[k] = h[f[k - 1]]
      BY <1>3, <3>1
    <3> QED
      BY <2>2, <3>2, <3>3
  <2> QED
    BY <2>1, <2>2
<1>5. Asks(f, n)
  <2>1. f = [k \in 0..MaxNodes |-> f[k]]
    BY <1>3
  <2> QED
    BY <1>4, <2>1 DEF Asks
<1> DEFINE up == CHOOSE g : Asks(g, n)
<1>6. Asks(up, n)
  BY <1>5, Zenon
<1>7. Recomputed(n) = up[MaxNodes]
  BY DEF Recomputed, Asks
<1> HIDE DEF up
<1>8. up \in [0..MaxNodes -> SUBSET stale]
  <2>1. /\ up = [k \in 0..MaxNodes |-> up[k]]
        /\ \A k \in 0..MaxNodes :
             up[k] = IF k = 0 THEN {n} \intersect stale
                     ELSE up[k - 1] \union ({parentID[m] : m \in up[k - 1]} \intersect stale)
    BY <1>6 DEF Asks
  <2> DEFINE bad == {k \in 0..MaxNodes : up[k] \notin SUBSET stale}
  <2>2. bad = {}
    <3> SUFFICES ASSUME bad # {} PROVE FALSE
      OBVIOUS
    <3>1. bad \in SUBSET Nat
      OBVIOUS
    <3> HIDE DEF bad
    <3>2. PICK x \in bad : \A y \in bad : x <= y
      BY <3>1, LeastNumber
    <3> USE DEF bad
    <3>3. x # 0
      BY <2>1, <3>2
    <3>4. x \in 0..MaxNodes /\ x - 1 \in 0..MaxNodes /\ ~(x <= x - 1)
      BY <1>1, <3>2, <3>3
    <3>5. up[x - 1] \in SUBSET stale
      BY <3>2, <3>4
    <3>6. up[x] = up[x - 1] \union ({parentID[m] : m \in up[x - 1]} \intersect stale)
      BY <2>1, <3>3, <3>4
    <3> QED
      BY <3>2, <3>5, <3>6
  <2> QED
    BY <2>1, <2>2
<1> QED
  BY <1>6, <1>7, <1>8

(* A node of the set whose parent is not in the set is above all of it.     *)
TopIsAbove(s) == \A m, u \in s : parentID[u] \notin s => u \in ChainOf(m)

(* One more round keeps it so.                                              *)
LEMMA AskingOnKeepsTheTop ==
  ASSUME stale \subseteq NodeIds, parentID \in [NodeIds -> 0..MaxNodes],
         NEW s \in SUBSET stale, TopIsAbove(s)
  PROVE  TopIsAbove(s \union ({parentID[m] : m \in s} \intersect stale))
<1> DEFINE t == s \union ({parentID[m] : m \in s} \intersect stale)
<1>0. t \subseteq NodeIds /\ 0 \notin NodeIds
  <2>1. t \subseteq stale
    OBVIOUS
  <2>2. 0 \notin NodeIds
    BY BoundsAreNaturals DEF NodeIds
  <2> QED
    BY <2>1, <2>2
<1> SUFFICES ASSUME NEW m \in t, NEW u \in t, parentID[u] \notin t
             PROVE  u \in ChainOf(m)
  BY DEF TopIsAbove
<1>1. ASSUME NEW v \in s, NEW w \in s, parentID[w] \notin s, v # w
      PROVE  w \in ChainOf(parentID[v]) \/ parentID[v] \in s
  <2>1. w \in ChainOf(v)
    BY <1>1 DEF TopIsAbove
  <2> QED
    BY <1>0, <1>1, <2>1, ChainDescends
<1>2. CASE m \in s /\ u \in s
  BY <1>2 DEF TopIsAbove
<1>3. CASE m \in s /\ u \notin s
  <2>1. PICK w \in s : u = parentID[w]
    BY <1>3
  <2>2. w \in ChainOf(m)
    BY <1>3, <2>1 DEF TopIsAbove
  <2> QED
    BY <1>0, <1>3, <2>1, <2>2, ChainCloses
<1>4. CASE m \notin s /\ u \in s
  <2>1. PICK v \in s : m = parentID[v]
    BY <1>4
  <2>2. u # v
    BY <1>4, <2>1
  <2> QED
    BY <1>1, <1>4, <2>1, <2>2
<1>5. CASE m \notin s /\ u \notin s
  <2>1. PICK v \in s : m = parentID[v]
    BY <1>5
  <2>2. PICK w \in s : u = parentID[w]
    BY <1>5
  <2>3. CASE m = u
    BY <1>0, <2>3, ChainStarts
  <2>4. CASE m # u
    <3>1. w \in ChainOf(m)
      BY <1>1, <1>5, <2>1, <2>2, <2>4
    <3> QED
      BY <1>0, <2>2, <3>1, ChainCloses
  <2> QED
    BY <2>3, <2>4
<1> QED
  BY <1>2, <1>3, <1>4, <1>5

(* Every node whose matrix is made anew was stale, and the one ancestor     *)
(* that answers with the matrix it has is not, and is above all of them.    *)
LEMMA RecomputedSteps ==
  ASSUME stale \subseteq NodeIds, parentID \in [NodeIds -> 0..MaxNodes], NEW n \in NodeIds
  PROVE  /\ Recomputed(n) \subseteq stale \intersect ChainOf(n)
         /\ \A a \in Kept(Recomputed(n)), m \in Recomputed(n) : a \in NodeIds \ stale /\ a \in ChainOf(m)
<1>0. MaxNodes \in Nat /\ 0 \notin NodeIds
  BY BoundsAreNaturals DEF NodeIds
<1>1. PICK up \in [0..MaxNodes -> SUBSET stale] : Asks(up, n) /\ Recomputed(n) = up[MaxNodes]
  BY RecomputedAsks
<1>2. \A k \in 0..MaxNodes :
        up[k] = IF k = 0 THEN {n} \intersect stale
                ELSE up[k - 1] \union ({parentID[m] : m \in up[k - 1]} \intersect stale)
  BY <1>1 DEF Asks
<1>3. up[0] = {n} \intersect stale
  BY <1>0, <1>2
<1>4. ASSUME NEW k \in 1..MaxNodes
      PROVE  /\ k - 1 \in 0..MaxNodes
             /\ up[k] = up[k - 1] \union ({parentID[m] : m \in up[k - 1]} \intersect stale)
  BY <1>0, <1>2
<1>5. TopIsAbove(up[MaxNodes]) /\ up[MaxNodes] \subseteq ChainOf(n)
  <2> DEFINE bad == {k \in 0..MaxNodes : ~(TopIsAbove(up[k]) /\ up[k] \subseteq ChainOf(n))}
  <2> SUFFICES ASSUME bad # {} PROVE FALSE
    BY <1>0
  <2>1. bad \in SUBSET Nat
    OBVIOUS
  <2> HIDE DEF bad
  <2>2. PICK x \in bad : \A y \in bad : x <= y
    BY <2>1, LeastNumber
  <2> USE DEF bad
  <2>3. TopIsAbove(up[0]) /\ up[0] \subseteq ChainOf(n)
    BY <1>0, <1>3, ChainStarts DEF TopIsAbove
  <2>4. x \in 1..MaxNodes /\ x - 1 \in 0..MaxNodes /\ ~(x <= x - 1)
    BY <1>0, <2>2, <2>3
  <2>5. TopIsAbove(up[x - 1]) /\ up[x - 1] \subseteq ChainOf(n) /\ up[x - 1] \in SUBSET stale
    BY <2>2, <2>4
  <2>6. TopIsAbove(up[x])
    BY <1>4, <2>4, <2>5, AskingOnKeepsTheTop
  <2>7. up[x] \subseteq ChainOf(n)
    <3>1. \A m \in up[x - 1] : parentID[m] \in stale => parentID[m] \in ChainOf(n)
      BY <1>0, <2>5, ChainCloses
    <3> QED
      BY <1>4, <2>4, <2>5, <3>1
  <2> QED
    BY <2>2, <2>6, <2>7
<1>6. \A u \in up[MaxNodes] : parentID[u] \in stale => parentID[u] \in up[MaxNodes]
  <2> DEFINE R == {<<u, parentID[u]>> : u \in NodeIds}
  <2>1. IsFiniteSet(stale) /\ Cardinality(stale) <= MaxNodes + 1
    <3>1. IsFiniteSet(NodeIds) /\ Cardinality(NodeIds) = MaxNodes
      BY <1>0, FS_Interval DEF NodeIds
    <3>2. IsFiniteSet(stale) /\ Cardinality(stale) <= MaxNodes
      BY <3>1, FS_Subset
    <3>3. Cardinality(stale) \in Nat
      BY <3>2, FS_CardinalityType
    <3> QED
      BY <1>0, <3>2, <3>3
  <2>2. \A u \in stale, v \in stale : <<u, v>> \in R <=> v = parentID[u]
    OBVIOUS
  <2> HIDE DEF R
  <2>3. \A k \in 0..MaxNodes : up[k] \subseteq stale
    OBVIOUS
  <2>4. ASSUME NEW k \in 1..MaxNodes
        PROVE  up[k] = up[k - 1] \union {v \in stale : \E u \in up[k - 1] : <<u, v>> \in R}
    <3>1. up[k - 1] \subseteq stale
      BY <1>4, <2>3
    <3>2. {parentID[m] : m \in up[k - 1]} \intersect stale
            = {v \in stale : \E u \in up[k - 1] : <<u, v>> \in R}
      BY <2>2, <3>1
    <3> QED
      BY <1>4, <3>2
  <2>5. \A u \in up[MaxNodes], v \in stale : <<u, v>> \in R => v \in up[MaxNodes]
    BY <1>0, <2>1, <2>3, <2>4, GrowthCloses
  <2>6. up[MaxNodes] \subseteq stale
    BY <1>0
  <2> QED
    BY <2>2, <2>5, <2>6
<1> DEFINE set == up[MaxNodes]
<1>7. set \subseteq stale
  BY <1>0
<1>8. ASSUME NEW a \in Kept(set), NEW m \in set
      PROVE  a \in NodeIds \ stale /\ a \in ChainOf(m)
  <2>1. PICK u \in set : a = parentID[u]
    BY DEF Kept
  <2>2. a # 0 /\ a \notin set
    BY DEF Kept
  <2>3. a \in NodeIds
    BY <1>7, <2>1, <2>2, <1>0 DEF NodeIds
  <2>4. a \notin stale
    BY <1>6, <2>1, <2>2
  <2>5. u \in ChainOf(m)
    BY <1>5, <2>1, <2>2 DEF TopIsAbove
  <2>6. m \in NodeIds
    BY <1>7
  <2> QED
    BY <2>1, <2>2, <2>3, <2>4, <2>5, <2>6, ChainCloses
<1> QED
  BY <1>1, <1>5, <1>7, <1>8

(* The same in the state that follows.                                      *)
LEMMA ChainStartsNext ==
  ASSUME NEW n
  PROVE  n # 0 => n \in ChainOf(n)'
<1>1. n # 0 => n \in ChainOf(n)
  BY ChainStarts
<1>2. (n # 0 => n \in ChainOf(n))'
  BY <1>1, PTL
<1> QED
  BY <1>2

(* A node whose flag is down has the right matrix, unless something above   *)
(* it or above an ancestor changed without telling it.                      *)
Fresh == \A n \in live \ stale : n \in exact \/ ChainOf(n) \intersect late # {}

(* The inductive invariant of PlacedSpec, with Inv and Account.             *)
Placing == stale \subseteq NodeIds /\ Fresh

(* A change at one node: what hangs from it is late, or has its flag up.    *)
LEMMA ChangeKeepsFresh ==
  ASSUME Inv, Fresh, NEW c, NEW moved, moved \subseteq {c},
         live' \subseteq live, \A m \in live' \ stale' : m \notin stale /\ m \notin moved,
         exact' = exact \ Below(c),
         late' = (late \union (Below(c) \ stale)) \ moved,
         \A m \in NodeIds : m # c => parentID'[m] = parentID[m]
  PROVE  Fresh'
<1>0. live \subseteq NodeIds /\ 0 \notin NodeIds /\ parentID \in [NodeIds -> 0..MaxNodes]
  BY LiveAreNodes, BoundsAreNaturals DEF Inv, TypeOK, NodeIds
<1> SUFFICES ASSUME NEW n \in live' \ stale'
             PROVE  n \in exact' \/ ChainOf(n)' \intersect late' # {}
  BY DEF Fresh
<1>1. n \in live \ stale /\ n \notin moved /\ n \in NodeIds /\ n # 0
  BY <1>0
<1>2. CASE n \in Below(c)
  <2>1. n \in late'
    BY <1>1, <1>2
  <2>2. n \in ChainOf(n)'
    BY <1>1, ChainStartsNext
  <2> QED
    BY <2>1, <2>2
<1>3. CASE n \notin Below(c)
  <2>1. c \notin ChainOf(n)
    BY <1>1, <1>3 DEF Below
  <2>2. \A m \in ChainOf(n) : m \in NodeIds
    BY <1>0, <1>1, ChainCloses
  <2>3. \A m \in ChainOf(n) : parentID'[m] = parentID[m]
    BY <2>1, <2>2
  <2>4. ChainOf(n)' = ChainOf(n)
    BY <2>3, ChainStays
  <2>5. CASE n \in exact
    BY <1>3, <2>5
  <2>6. CASE n \notin exact
    <3>1. PICK x : x \in ChainOf(n) /\ x \in late
      BY <1>1, <2>6 DEF Fresh
    <3>2. x \notin moved
      BY <2>1, <3>1
    <3> QED
      BY <2>4, <3>1, <3>2
  <2> QED
    BY <2>5, <2>6
<1> QED
  BY <1>2, <1>3

(* A matrix that is made anew from an ancestor's is as right as that one.   *)
LEMMA CalculatingKeepsFresh ==
  ASSUME Inv, Placing, NEW n \in NodeIds, Kept(Recomputed(n)) \subseteq live,
         CalculateTransforms(n), UNCHANGED <<live, parentID>>
  PROVE  Placing'
<1>0. live \subseteq NodeIds /\ parentID \in [NodeIds -> 0..MaxNodes] /\ stale \subseteq NodeIds /\ Fresh
  BY LiveAreNodes DEF Inv, TypeOK, Placing
<1> DEFINE set == Recomputed(n)
<1>1. /\ set \subseteq stale
      /\ \A a \in Kept(set), m \in set : a \in NodeIds \ stale /\ a \in ChainOf(m)
  BY <1>0, RecomputedSteps
<1>2. /\ stale' = stale \ set
      /\ exact' = IF Kept(set) \subseteq exact THEN exact \union set ELSE exact
      /\ late' = late
  BY DEF CalculateTransforms
<1>3. Kept(set) \subseteq live
  OBVIOUS
<1> HIDE DEF set
<1>4. ASSUME NEW m \in live \ stale' PROVE m \in exact' \/ ChainOf(m) \intersect late # {}
  <2>1. CASE m \notin stale
    BY <1>0, <1>2, <2>1 DEF Fresh
  <2>2. CASE m \in stale
    <3>1. m \in set /\ m \in NodeIds
      BY <1>0, <1>2, <2>2
    <3>2. CASE Kept(set) \subseteq exact
      BY <1>2, <3>1, <3>2
    <3>3. CASE ~(Kept(set) \subseteq exact)
      <4>1. PICK a \in Kept(set) : a \notin exact
        BY <3>3
      <4>2. a \in live \ stale /\ a \in ChainOf(m)
        BY <1>1, <1>3, <3>1, <4>1
      <4>3. ChainOf(a) \intersect late # {}
        BY <1>0, <4>1, <4>2 DEF Fresh
      <4>4. ChainOf(a) \subseteq ChainOf(m)
        BY <1>0, <3>1, <4>2, ChainContains
      <4> QED
        BY <4>3, <4>4
    <3> QED
      BY <3>2, <3>3
  <2> QED
    BY <2>1, <2>2
<1>5. \A m : ChainOf(m)' = ChainOf(m)
  BY ChainStays
<1>6. Fresh'
  BY <1>2, <1>4, <1>5 DEF Fresh
<1> QED
  BY <1>0, <1>2, <1>6 DEF Placing

(* What the walk is about to draw hangs from nodes that have been drawn.    *)
LEMMA DrawnChains ==
  ASSUME Inv, Account, Placing, RenderStep, drawn' # drawn
  PROVE  /\ Head(pending) \in NodeIds
         /\ Kept(Recomputed(Head(pending))) \subseteq live
<1> DEFINE n == Head(pending)
           S == Elements(drawn) \union {n, 0}
<1>1. /\ phase = "render" /\ pending # <<>> /\ pending \in Seq(NodeIds)
      /\ live \subseteq NodeIds /\ parentID \in [NodeIds -> 0..MaxNodes] /\ stale \subseteq NodeIds
      /\ 0 \notin NodeIds
  <2>1. 0 \notin NodeIds
    BY BoundsAreNaturals DEF NodeIds
  <2> QED
    BY <2>1, LiveAreNodes DEF RenderStep, Inv, TypeOK, Placing
<1>10. n \in live
  BY DEF RenderStep
<1>2. /\ Elements(drawn) \subseteq live
      /\ \A m \in Met : Reached(m)
      /\ n \in Elements(pending)
  BY <1>1, WalkElements DEF Account
<1>3. \A m \in S \intersect ChainOf(n) : parentID[m] \in S
  BY <1>2 DEF Met, Reached, ChainOf
<1>4. ChainOf(n) \subseteq S
  <2>1. n \in S
    OBVIOUS
  <2> HIDE DEF S
  <2> QED
    BY <1>3, <2>1, ChainInduction
<1>5. n \in NodeIds
  BY <1>1, <1>10
<1>6. ASSUME NEW a \in Kept(Recomputed(n)) PROVE a \in live
  <2>1. PICK m \in Recomputed(n) : a = parentID[m]
    BY DEF Kept
  <2>2. m \in ChainOf(n) /\ a # 0
    BY <1>1, <1>5, RecomputedSteps DEF Kept
  <2>3. a \in ChainOf(n)
    BY <1>1, <1>5, <2>1, <2>2, ChainCloses
  <2> QED
    BY <1>2, <1>4, <1>10, <2>2, <2>3
<1> QED
  BY <1>5, <1>6

(* Every step of PlacedSpec but a failing hit test is a step of SceneGraph. *)
LEMMA PlacedStepsAreSteps ==
  ASSUME [Steps \/ Calls]_allVars
  PROVE  [Next]_vars \/ \E n \in NodeIds : HitTestFails(n)
<1>1. CASE Steps
  BY <1>1 DEF Steps, Draw, Purge, OtherStep, Next, Frame
<1>2. CASE Create \/ Assign \/ OtherCall
  BY <1>2 DEF Create, Assign, OtherCall, Next, ScriptCall
<1>3. CASE \E n \in NodeIds : SetPlace(n) \/ HitTest(n)
  BY <1>3 DEF SetPlace, HitTest
<1>4. CASE UNCHANGED allVars
  BY <1>4 DEF allVars
<1> QED
  BY <1>1, <1>2, <1>3, <1>4 DEF Calls

(* A failing hit test changes nothing that Inv or Account speaks of, but    *)
(* the reason why the program died.                                         *)
LEMMA FailingHarmsNothing ==
  ASSUME Inv, Account, NEW n \in NodeIds, HitTestFails(n)
  PROVE  Inv' /\ Account'
<1>1. /\ UNCHANGED <<nodeVars, sceneVars, frameVars>>
      /\ fault' \in {"null parent", "endless recursion"}
      /\ phase # "render"
  BY DEF HitTestFails, ScriptRuns
<1>2. TypeOK'
  BY <1>1 DEF Inv, TypeOK, Faults, nodeVars, sceneVars, frameVars
<1>3. ListsOwnTheirNodes' /\ UnassignedAreRoots'
  <2>1. /\ UNCHANGED <<parentID, assigned, childNodes, sceneMap>>
        /\ live \subseteq live' /\ maxSceneID' = maxSceneID
    BY <1>1 DEF nodeVars, sceneVars
  <2>2. maxSceneID \in Int
    BY BoundsAreNaturals DEF Inv, TypeOK
  <2> QED
    BY <2>1, <2>2, ListsUntouched
<1>4. WalkIsLive' /\ RenderNeverMissesANode'
  BY <1>1 DEF Inv, Elements, WalkIsLive, RenderNeverMissesANode, nodeVars, frameVars
<1>5. Account'
  BY <1>1 DEF Account, frameVars
<1> QED
  BY <1>2, <1>3, <1>4, <1>5 DEF Inv

(* A step that leaves flags, matrices, lives and parents alone.             *)
LEMMA NothingPlaced ==
  ASSUME Placing, UNCHANGED transformVars, UNCHANGED <<live, parentID>>
  PROVE  Placing'
<1>1. \A m : ChainOf(m)' = ChainOf(m)
  BY ChainStays
<1> QED
  BY <1>1 DEF Placing, Fresh, transformVars

(* Flags, matrices and the history keep to Fresh.                           *)
LEMMA PlacingKept ==
  ASSUME Inv, Account, Placing, [Steps \/ Calls]_allVars
  PROVE  Placing'
<1>0. /\ live \subseteq NodeIds /\ stale \subseteq NodeIds /\ Fresh
      /\ parentID \in [NodeIds -> 0..MaxNodes]
  BY LiveAreNodes DEF Inv, TypeOK, Placing
<1>1. ASSUME NEW n \in NodeIds, SetPlace(n) PROVE Placing'
  <2>1. /\ UNCHANGED <<live, parentID>> /\ stale' = stale \union {n}
        /\ exact' = exact \ Below(n)
        /\ late' = (late \union (Below(n) \ stale)) \ {n}
    BY <1>1 DEF SetPlace, Changed, vars, nodeVars
  <2>2. Fresh'
    BY <1>0, <2>1, ChangeKeepsFresh
  <2> QED
    BY <1>0, <2>1, <2>2 DEF Placing
<1>2. CASE Create
  <2>1. /\ parentID' = parentID /\ live' = live \union {maxNodeID'}
        /\ stale' = stale \union {maxNodeID'} /\ UNCHANGED <<exact, late>>
    BY <1>2 DEF Create, CreateNode
  <2>3. maxNodeID' \in NodeIds
    <3>1. maxNodeID' = maxNodeID + 1 /\ maxNodeID < MaxNodes
      BY <1>2 DEF Create, CreateNode
    <3> QED
      BY <3>1, BoundsAreNaturals DEF Inv, TypeOK, NodeIds
  <2>2. \A m : ChainOf(m)' = ChainOf(m)
    BY <2>1, ChainStays
  <2> QED
    BY <1>0, <2>1, <2>2, <2>3 DEF Placing, Fresh
<1>3. CASE Assign
  <2>1. PICK n \in NodeIds, p \in NodeIds :
          (AssignNode(n, p) \/ \E at \in NodeIds : AssignNodeAt(n, p, at)) /\ Changed(n, {})
    BY <1>3 DEF Assign
  <2>2. live' = live /\ parentID' = [parentID EXCEPT ![n] = p]
    BY <2>1 DEF AssignNode, AssignNodeAt
  <2> DEFINE moved == {}
  <2>3. /\ stale' = stale \union moved /\ exact' = exact \ Below(n)
        /\ late' = (late \union (Below(n) \ stale)) \ moved
    BY <2>1 DEF Changed
  <2>4. \A m \in NodeIds : m # n => parentID'[m] = parentID[m]
    BY <1>0, <2>2
  <2>5. stale' = stale /\ moved \subseteq {n} /\ \A m : m \notin moved
    BY <2>3
  <2> HIDE DEF moved
  <2>6. Fresh'
    BY <1>0, <2>2, <2>3, <2>4, <2>5, ChangeKeepsFresh
  <2> QED
    BY <1>0, <2>5, <2>6 DEF Placing
<1>4. CASE OtherCall
  BY <1>4, NothingPlaced DEF OtherCall, CreateScene, SetCurrentScene, AssignToScene,
                             DeleteNode, nodeVars
<1>5. ASSUME NEW n \in NodeIds, HitTest(n) PROVE Placing'
  <2>1. /\ Kept(Recomputed(n)) \subseteq live /\ CalculateTransforms(n)
        /\ UNCHANGED <<live, parentID>>
    BY <1>5 DEF HitTest, MissesParent, vars, nodeVars
  <2> QED
    BY <2>1, CalculatingKeepsFresh
<1>6. ASSUME NEW n \in NodeIds, HitTestFails(n) PROVE Placing'
  BY <1>6, NothingPlaced DEF HitTestFails, nodeVars
<1>7. CASE Draw
  <2>1. RenderStep /\ UNCHANGED <<live, parentID>>
    BY <1>7 DEF Draw, RenderStep, nodeVars
  <2>2. CASE drawn' # drawn /\ CalculateTransforms(Head(pending))
    BY <2>1, <2>2, DrawnChains, CalculatingKeepsFresh
  <2>3. CASE UNCHANGED transformVars
    BY <2>1, <2>3, NothingPlaced
  <2> QED
    BY <1>7, <2>2, <2>3 DEF Draw
<1>8. CASE Purge
  <2>1. live' = live \ {cursor} /\ parentID' = [parentID EXCEPT ![cursor] = 0]
    BY <1>8 DEF Purge, PurgeRoot, PurgeChild, Forget
  <2>2. /\ stale' = stale \ {cursor} /\ exact' = exact \ Below(cursor)
        /\ late' = (late \union (Below(cursor) \ stale)) \ {cursor}
    BY <1>8 DEF Purge
  <2>3. \A m \in NodeIds : m # cursor => parentID'[m] = parentID[m]
    BY <1>0, <2>1
  <2>4. Fresh'
    BY <1>0, <2>1, <2>2, <2>3, ChangeKeepsFresh
  <2> QED
    BY <1>0, <2>2, <2>4 DEF Placing
<1>9. CASE OtherStep
  <2>1. UNCHANGED <<live, parentID>> /\ UNCHANGED transformVars
    BY <1>9 DEF OtherStep, BeginFrame, UpdateStep, UpdateDone, ScriptReturns, RenderDone,
                PurgeSkip, PurgeWithoutParent, PurgeDone, nodeVars
  <2> QED
    BY <2>1, NothingPlaced
<1>10. CASE UNCHANGED allVars
  BY <1>10, NothingPlaced DEF allVars, vars, nodeVars
<1> QED
  BY <1>1, <1>2, <1>3, <1>4, <1>5, <1>6, <1>7, <1>8, <1>9, <1>10 DEF Steps, Calls

(* Whatever scripts move, assign and hit-test, in whatever order: a node    *)
(* that Render has drawn stands where it and its ancestors stand, unless    *)
(* something above was changed without its being told.                      *)
THEOREM DrawingIsInPlace == PlacedSpec => []DrawnInPlace
<1>1. Placed => Inv /\ Account /\ Placing
  <2>1. Init => Inv /\ Account
    BY InitOwns DEF Init, Account
  <2>2. Placed => Placing
    BY DEF Placed, Init, Placing, Fresh
  <2> QED
    BY <2>1, <2>2 DEF Placed
<1>2. Inv /\ Account /\ Placing /\ [Steps \/ Calls]_allVars => (Inv /\ Account /\ Placing)'
  <2> SUFFICES ASSUME Inv, Account, Placing, [Steps \/ Calls]_allVars
               PROVE  (Inv /\ Account /\ Placing)'
    OBVIOUS
  <2>1. CASE [Next]_vars
    BY <2>1, ScriptCallOwns, FrameOwns, StutterOwns, AccountKept, PlacingKept DEF Next
  <2>2. CASE \E n \in NodeIds : HitTestFails(n)
    BY <2>2, FailingHarmsNothing, PlacingKept
  <2> QED
    BY <2>1, <2>2, PlacedStepsAreSteps
<1>3. Inv /\ Account /\ Placing => DrawnInPlace
  <2>1. Inv /\ Account => Elements(drawn) \subseteq live
    BY NothingIsMet DEF Account
  <2> QED
    BY <2>1 DEF Placing, Fresh, DrawnInPlace
<1> QED
  BY <1>1, <1>2, <1>3, PTL DEF PlacedSpec
=============================================================================
