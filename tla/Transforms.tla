----------------------------- MODULE Transforms -----------------------------
(***************************************************************************)
(* The matrices of the nodes of SceneGraph                                 *)
(* (src/NexgenRedux-Shared/EntityEngine/Node.cpp).  Each node keeps the    *)
(* product of its parent's matrix and its own place.  The setters of Node  *)
(* raise the node's m_transformIsDirty; CalculateTransforms, which         *)
(* GetTransform calls, makes the product anew when that flag is up, asking *)
(* the parent for its matrix in the same way.                              *)
(*                                                                         *)
(* Of a matrix only this is kept: is it the product of the places that the *)
(* node and its ancestors have now?  Any move is taken to make a           *)
(* difference.                                                             *)
(***************************************************************************)
EXTENDS SceneGraph

CONSTANTS Movable,  \* the nodes that scripts move
          Probed    \* the sprites and texts that scripts hit-test

ASSUME ScriptsKnowNodes == Movable \subseteq NodeIds /\ Probed \subseteq NodeIds

VARIABLES
  stale,  \* m_transformIsDirty, as the set of nodes whose flag is set
  exact,  \* nodes whose m_transform is what their chain of places gives now
  late    \* history: nodes whose flag was down when something above them
          \* changed, and that have not been moved since

transformVars == <<stale, exact, late>>
allVars == <<vars, transformVars>>

Placed == Init /\ stale = {} /\ exact = {} /\ late = {}

Below(n) == {m \in live : n \in ChainOf(m)}

-----------------------------------------------------------------------------
(* Script calls.                                                            *)

(* What follows from a change of n's chain: n and what hangs from it have   *)
(* other places, and only the nodes in moved are told.                      *)
Changed(n, moved) ==
  /\ stale' = stale \union moved
  /\ exact' = exact \ Below(n)
  /\ late' = (late \union (Below(n) \ stale)) \ moved

(* SetAnchor, SetRotation, SetSkew, SetScale and SetPosition with a value   *)
(* that is not the one the node has.                                        *)
SetPlace(n) ==
  /\ ScriptRuns
  /\ n \in live \intersect Movable
  /\ Changed(n, {n})
  /\ UNCHANGED vars

Create ==
  /\ CreateNode
  /\ stale' = stale \union {maxNodeID'}
  /\ UNCHANGED <<exact, late>>

(* A new parent raises no flag.                                             *)
Assign ==
  \E n, p \in NodeIds :
    /\ AssignNode(n, p) \/ \E at \in NodeIds : AssignNodeAt(n, p, at)
    /\ Changed(n, {})

OtherCall ==
  /\ \/ \E b \in BOOLEAN : CreateScene(b)
     \/ \E s \in 0..MaxScenes : SetCurrentScene(s)
     \/ \E n \in NodeIds, s \in SceneIds : AssignToScene(n, s)
     \/ \E n \in NodeIds : DeleteNode(n)
  /\ UNCHANGED transformVars

-----------------------------------------------------------------------------
(* GetTransform.                                                            *)

(* Mutant of Recomputed: the parent's matrix is read, not asked for.        *)
RecomputedAlone(n) == {n} \intersect stale

(* The nodes whose matrix is made anew when n is asked for its own: n and   *)
(* its ancestors up to the first whose flag is down.                        *)
Recomputed(n) ==
  LET up[k \in 0..MaxNodes] ==
        IF k = 0 THEN {n} \intersect stale
        ELSE up[k - 1] \union ({parentID[m] : m \in up[k - 1]} \intersect stale)
  IN  up[MaxNodes]

(* The ancestors that answer with the matrix they have.                     *)
Kept(set) == {parentID[m] : m \in set} \ (set \union {0})

CalculateTransforms(n) ==
  LET set == Recomputed(n)
  IN  /\ stale' = stale \ set
      /\ exact' = IF Kept(set) \subseteq exact THEN exact \union set ELSE exact
      /\ UNCHANGED late

(* An ancestor that was purged is followed all the same.                    *)
MissesParent(n) == ~(Kept(Recomputed(n)) \subseteq live)

(* No ancestor stops the recursion: scripts can make parents a cycle.       *)
Endless(n) ==
  LET set == Recomputed(n)
  IN  set # {} /\ Kept(set) = {} /\ \A m \in set : parentID[m] # 0

(* Sprite::HitTest and Text::HitTest, which scripts call at any time.       *)
HitTest(n) ==
  /\ ScriptRuns
  /\ n \in live \intersect Probed
  /\ ~MissesParent(n) /\ ~Endless(n)
  /\ CalculateTransforms(n)
  /\ UNCHANGED vars

HitTestFails(n) ==
  /\ ScriptRuns
  /\ n \in live \intersect Probed
  /\ \/ MissesParent(n) /\ fault' = "null parent"
     \/ Endless(n) /\ fault' = "endless recursion"
  /\ UNCHANGED <<nodeVars, sceneVars, frameVars, transformVars>>

-----------------------------------------------------------------------------
(* The frame.                                                               *)

(* The next node of the walk asks for its matrix if it has anything to      *)
(* show: fog, lights and invisible or unloaded sprites and texts do not.    *)
Draw ==
  /\ RenderStep
  /\ \/ drawn' # drawn /\ CalculateTransforms(Head(pending))
     \/ UNCHANGED transformVars

(* A purged node takes its flag along.  Children that it was given after it *)
(* had been marked stay, below a node that is gone.                         *)
Purge ==
  /\ PurgeRoot \/ PurgeChild
  /\ stale' = stale \ {cursor}
  /\ exact' = exact \ Below(cursor)
  /\ late' = (late \union (Below(cursor) \ stale)) \ {cursor}

OtherStep ==
  /\ \/ BeginFrame \/ UpdateStep \/ UpdateDone \/ ScriptReturns
     \/ RenderDone \/ PurgeSkip \/ PurgeWithoutParent \/ PurgeDone
  /\ UNCHANGED transformVars

Steps == Draw \/ Purge \/ OtherStep

Calls ==
  \/ \E n \in NodeIds : SetPlace(n) \/ HitTest(n) \/ HitTestFails(n)
  \/ Create \/ Assign \/ OtherCall

PlacedSpec == Placed /\ [][Steps \/ Calls]_allVars

(* As FairSpec of SceneGraph: the loop keeps turning.                       *)
FairPlacedSpec == PlacedSpec /\ WF_allVars(Steps)

-----------------------------------------------------------------------------
(* A node that shows its matrix is drawn where it and its ancestors stand,  *)
(* whatever was moved, given a parent or hit-tested before, and in whatever *)
(* order; except when something above it, or above an ancestor, changed     *)
(* while that one's flag was down: nothing tells a child that its parent    *)
(* has moved.                                                               *)
DrawnInPlace ==
  \A n \in Elements(drawn) \ stale : n \in exact \/ ChainOf(n) \intersect late # {}
=============================================================================
