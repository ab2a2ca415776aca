----------------------------- MODULE SceneGraph -----------------------------
(***************************************************************************)
(* The entity engine's node and scene tables and the frame that walks      *)
(* them: NodeManager, SceneManager and the structural half of Node         *)
(* (src/NexgenRedux-Shared/EntityEngine), driven in the order of           *)
(* WindowManager::RenderLoop.                                              *)
(*                                                                         *)
(* A frame updates the current scene, runs the script's update callback,   *)
(* renders the scene, purges the nodes the script marked for deletion and  *)
(* polls the window's events, whose callbacks run script code again.  All  *)
(* of it happens on one thread; what interleaves is script calls with the  *)
(* phases, and the ids stored in child and scene lists with the deletion   *)
(* of the nodes they name.                                                 *)
(*                                                                         *)
(* Nodes and scenes are named by their ids.  An id is never used twice     *)
(* (the counters only grow; their 32-bit wrap is outside the bounds), and  *)
(* a script names a node by an id or a handle obtained in the same         *)
(* callback, so the calls below take live nodes where the code takes a     *)
(* Node pointer and any id where the code takes an id.                     *)
(***************************************************************************)
EXTENDS Integers, Sequences

CONSTANTS MaxNodes,   \* how many nodes scripts create (bounds m_maxNodeID)
          MaxScenes   \* how many scenes scripts create (bounds m_maxSceneID)

ASSUME BoundsAreNaturals == MaxNodes \in Nat /\ MaxScenes \in Nat

NodeIds == 1..MaxNodes
SceneIds == 1..MaxScenes

VARIABLES
  maxNodeID,     \* m_maxNodeID of NodeManager
  live,          \* the keys of m_nodeMap
  parentID,      \* Node::m_parentNodeID, 0 when the node has no parent
  assigned,      \* Node::m_assigned, as the set of nodes whose flag is set
  marked,        \* Node::m_deleteFlag, as the set of nodes whose flag is set
  childNodes,    \* Node::m_childNodes
  maxSceneID,    \* m_maxSceneID of SceneManager
  sceneMap,      \* m_sceneMap; scenes above maxSceneID do not exist yet
  currentScene,  \* m_currentSceneID
  phase,         \* where RenderLoop is
  pending,       \* nodes the walk of the current phase has still to visit
  drawn,         \* nodes whose Render has run in this frame, in order
  cursor,        \* the iterator of PurgeNodes
  fault          \* why the process died, "none" while it runs

nodeVars  == <<maxNodeID, live, parentID, assigned, marked, childNodes>>
sceneVars == <<maxSceneID, sceneMap, currentScene>>
frameVars == <<phase, pending, drawn, cursor>>
vars == <<nodeVars, sceneVars, frameVars, fault>>

Phases == {"update", "script", "render", "purge", "poll"}
Faults == {"none", "null node", "null parent", "endless recursion"}

Elements(s) == {s[i] : i \in DOMAIN s}

(* The first occurrence of e leaves s: std::find, then erase.  Written      *)
(* position by position, it needs no choice of an index.                    *)
EraseFirst(s, e) ==
  LET before(i) == \A j \in 1..i : s[j] # e
  IN  IF e \notin Elements(s) THEN s
      ELSE [i \in 1..(Len(s) - 1) |-> IF before(i) THEN s[i] ELSE s[i + 1]]

(* e enters s just before the first occurrence of at; nothing happens when  *)
(* s does not hold at (Node::AddChildNodeAt returns silently).              *)
InsertBefore(s, e, at) ==
  LET before(i) == \A j \in 1..i : s[j] # at
  IN  IF at \notin Elements(s) THEN s
      ELSE [i \in 1..(Len(s) + 1) |->
              IF i <= Len(s) /\ before(i) THEN s[i]
              ELSE IF i = 1 \/ before(i - 1) THEN e ELSE s[i - 1]]

Init ==
  /\ maxNodeID = 0
  /\ live = {}
  /\ parentID = [n \in NodeIds |-> 0]
  /\ assigned = {}
  /\ marked = {}
  /\ childNodes = [n \in NodeIds |-> <<>>]
  /\ maxSceneID = 0
  /\ sceneMap = [s \in SceneIds |-> <<>>]
  /\ currentScene = 0
  /\ phase = "poll"        \* ExecuteInit runs before the first frame
  /\ pending = <<>>
  /\ drawn = <<>>
  /\ cursor = 1
  /\ fault = "none"

-----------------------------------------------------------------------------
(* Script calls: in the update callback and in the window's callbacks.      *)

ScriptRuns == phase \in {"script", "poll"} /\ fault = "none"

(* NodeManager::CreateSprite and the five other Create functions.           *)
CreateNode ==
  /\ ScriptRuns
  /\ maxNodeID < MaxNodes
  /\ maxNodeID' = maxNodeID + 1
  /\ live' = live \union {maxNodeID + 1}
  /\ UNCHANGED <<parentID, assigned, marked, childNodes, sceneVars, frameVars, fault>>

CreateScene(setAsCurrent) ==
  /\ ScriptRuns
  /\ maxSceneID < MaxScenes
  /\ maxSceneID' = maxSceneID + 1
  /\ currentScene' = IF setAsCurrent THEN maxSceneID + 1 ELSE currentScene
  /\ UNCHANGED <<nodeVars, sceneMap, frameVars, fault>>

SetCurrentScene(s) ==
  /\ ScriptRuns
  /\ currentScene' = s
  /\ UNCHANGED <<nodeVars, maxSceneID, sceneMap, frameVars, fault>>

(* NodeManager::AssignNode: refused when n is assigned already or when no   *)
(* node has the id p.                                                       *)
AssignNode(n, p) ==
  /\ ScriptRuns
  /\ n \in live \ assigned
  /\ p \in live
  /\ parentID' = [parentID EXCEPT ![n] = p]
  /\ childNodes' = [childNodes EXCEPT ![p] = Append(@, n)]
  /\ assigned' = assigned \union {n}
  /\ UNCHANGED <<maxNodeID, live, marked, sceneVars, frameVars, fault>>

(* NodeManager::AssignNodeAt: as AssignNode, but the node enters the list   *)
(* only if p really has the child at; parent and flag are set regardless.   *)
AssignNodeAt(n, p, at) ==
  /\ ScriptRuns
  /\ n \in live \ assigned
  /\ p \in live
  /\ parentID' = [parentID EXCEPT ![n] = p]
  /\ childNodes' = [childNodes EXCEPT ![p] = InsertBefore(@, n, at)]
  /\ assigned' = assigned \union {n}
  /\ UNCHANGED <<maxNodeID, live, marked, sceneVars, frameVars, fault>>

(* Mutant of AssignToScene: the assigned flag is not tested.                *)
AssignToSceneUnchecked(n, s) ==
  /\ ScriptRuns
  /\ n \in live
  /\ s <= maxSceneID
  /\ sceneMap' = [sceneMap EXCEPT ![s] = Append(@, n)]
  /\ assigned' = assigned \union {n}
  /\ UNCHANGED <<maxNodeID, live, parentID, marked, childNodes, maxSceneID,
                 currentScene, frameVars, fault>>

(* SceneManager::AssignNode: refused when n is assigned already or when the *)
(* scene does not exist.  The node keeps the parent id 0.                   *)
AssignToScene(n, s) ==
  /\ ScriptRuns
  /\ n \in live \ assigned
  /\ s <= maxSceneID
  /\ sceneMap' = [sceneMap EXCEPT ![s] = Append(@, n)]
  /\ assigned' = assigned \union {n}
  /\ UNCHANGED <<maxNodeID, live, parentID, marked, childNodes, maxSceneID,
                 currentScene, frameVars, fault>>

(* Mutant of Heirs: the recursion ends at the children.                     *)
Children(n) == Elements(childNodes[n]) \intersect live

(* The nodes MarkForDelete reaches from n through the child lists.          *)
Heirs(n) ==
  LET reach[k \in 0..MaxNodes] ==
        IF k = 0 THEN Elements(childNodes[n])
        ELSE reach[k - 1] \union
             UNION {Elements(childNodes[c]) : c \in reach[k - 1] \intersect live}
  IN  reach[MaxNodes] \intersect live

(* NodeManager::DeleteNode: marks the node after all its heirs.  The        *)
(* recursion keeps no record of where it has been: on a cycle it never      *)
(* returns.  Nothing happens for an id no node has.                         *)
DeleteNode(n) ==
  /\ ScriptRuns
  /\ n \in live
  /\ IF \E m \in {n} \union Heirs(n) : m \in Heirs(m)
     THEN fault' = "endless recursion" /\ UNCHANGED marked
     ELSE marked' = marked \union {n} \union Heirs(n) /\ UNCHANGED fault
  /\ UNCHANGED <<maxNodeID, live, parentID, assigned, childNodes, sceneVars, frameVars>>

ScriptCall ==
  \/ CreateNode
  \/ \E b \in BOOLEAN : CreateScene(b)
  \/ \E s \in 0..MaxScenes : SetCurrentScene(s)
  \/ \E n, p \in NodeIds : AssignNode(n, p)
  \/ \E n, p, at \in NodeIds : AssignNodeAt(n, p, at)
  \/ \E n \in NodeIds, s \in SceneIds : AssignToScene(n, s)
  \/ \E n \in NodeIds : DeleteNode(n)

-----------------------------------------------------------------------------
(* The frame.                                                               *)

(* What the walk starts from: nothing when the current scene does not exist.*)
CurrentList == IF currentScene \in 1..maxSceneID THEN sceneMap[currentScene] ELSE <<>>

(* PollEvents returns and the next frame begins with SceneManager::Update.  *)
BeginFrame ==
  /\ phase = "poll" /\ fault = "none"
  /\ phase' = "update"
  /\ pending' = CurrentList
  /\ UNCHANGED <<nodeVars, sceneVars, drawn, cursor, fault>>

(* Mutant of UpdateStep: the walk does not move past a marked node.         *)
UpdateStepStuck ==
  /\ phase = "update" /\ fault = "none"
  /\ pending # <<>>
  /\ Head(pending) \notin marked
  /\ pending' = childNodes[Head(pending)] \o Tail(pending)
  /\ UNCHANGED <<nodeVars, sceneVars, phase, drawn, cursor, fault>>

(* NodeManager::Update on the next node: skipped when there is no such node *)
(* or it is marked, otherwise its children come next.                       *)
UpdateStep ==
  /\ phase = "update" /\ fault = "none"
  /\ pending # <<>>
  /\ LET n == Head(pending)
     IN  pending' = IF n \in live \ marked THEN childNodes[n] \o Tail(pending)
                                           ELSE Tail(pending)
  /\ UNCHANGED <<nodeVars, sceneVars, phase, drawn, cursor, fault>>

UpdateDone ==
  /\ phase = "update" /\ fault = "none"
  /\ pending = <<>>
  /\ phase' = "script"
  /\ UNCHANGED <<nodeVars, sceneVars, pending, drawn, cursor, fault>>

(* ExecuteUpdate returns and SceneManager::Render begins.                   *)
ScriptReturns ==
  /\ phase = "script" /\ fault = "none"
  /\ phase' = "render"
  /\ pending' = CurrentList
  /\ UNCHANGED <<nodeVars, sceneVars, drawn, cursor, fault>>

(* Mutant of RenderStep: the delete flag is not tested.                     *)
RenderStepMarkedToo ==
  /\ phase = "render" /\ fault = "none"
  /\ pending # <<>>
  /\ drawn' = Append(drawn, Head(pending))
  /\ pending' = childNodes[Head(pending)] \o Tail(pending)
  /\ UNCHANGED <<nodeVars, sceneVars, phase, cursor, fault>>

(* NodeManager::Render on the next node.  Unlike Update it does not test    *)
(* the pointer GetNode returned.                                            *)
RenderStep ==
  /\ phase = "render" /\ fault = "none"
  /\ pending # <<>>
  /\ LET n == Head(pending)
     IN  /\ fault' = IF n \in live THEN "none" ELSE "null node"
         /\ drawn' = IF n \in live \ marked THEN Append(drawn, n) ELSE drawn
         /\ pending' = IF n \in live \ marked THEN childNodes[n] \o Tail(pending)
                                               ELSE Tail(pending)
  /\ UNCHANGED <<nodeVars, sceneVars, phase, cursor>>

RenderDone ==
  /\ phase = "render" /\ fault = "none"
  /\ pending = <<>>
  /\ phase' = "purge"
  /\ cursor' = 1
  /\ drawn' = <<>>
  /\ UNCHANGED <<nodeVars, sceneVars, pending, fault>>

(* SceneManager::DeleteSceneNode: the first scene that holds n loses it.    *)
ScenesWithout(n) ==
  [s \in SceneIds |->
     IF \A t \in 1..(s - 1) : n \notin Elements(sceneMap[t])
     THEN EraseFirst(sceneMap[s], n) ELSE sceneMap[s]]

(* The node object is deleted and leaves the map.                           *)
Forget(n) ==
  /\ live' = live \ {n}
  /\ assigned' = assigned \ {n}
  /\ marked' = marked \ {n}
  /\ parentID' = [parentID EXCEPT ![n] = 0]
  /\ cursor' = cursor + 1

(* One turn of the loop of NodeManager::PurgeNodes, in the order of ids.    *)
PurgeSkip ==
  /\ phase = "purge" /\ fault = "none"
  /\ cursor <= MaxNodes
  /\ cursor \notin marked
  /\ cursor' = cursor + 1
  /\ UNCHANGED <<nodeVars, sceneVars, phase, pending, drawn, fault>>

PurgeRoot ==
  /\ phase = "purge" /\ fault = "none"
  /\ cursor \in marked
  /\ parentID[cursor] = 0
  /\ Forget(cursor)
  /\ sceneMap' = ScenesWithout(cursor)
  /\ childNodes' = [childNodes EXCEPT ![cursor] = <<>>]
  /\ UNCHANGED <<maxNodeID, maxSceneID, currentScene, phase, pending, drawn, fault>>

PurgeChild ==
  /\ phase = "purge" /\ fault = "none"
  /\ cursor \in marked
  /\ parentID[cursor] \in live
  /\ Forget(cursor)
  /\ childNodes' = [p \in NodeIds |->
                      IF p = cursor THEN <<>>
                      ELSE IF p = parentID[cursor] THEN EraseFirst(childNodes[p], cursor)
                      ELSE childNodes[p]]
  /\ UNCHANGED <<maxNodeID, sceneVars, phase, pending, drawn, fault>>

(* The parent has gone: parentNode->EraseChild is called on NULL.           *)
PurgeWithoutParent ==
  /\ phase = "purge" /\ fault = "none"
  /\ cursor \in marked
  /\ parentID[cursor] \notin live \union {0}
  /\ fault' = "null parent"
  /\ UNCHANGED <<nodeVars, sceneVars, frameVars>>

PurgeDone ==
  /\ phase = "purge" /\ fault = "none"
  /\ cursor > MaxNodes
  /\ phase' = "poll"
  /\ cursor' = 1
  /\ UNCHANGED <<nodeVars, sceneVars, pending, drawn, fault>>

Frame ==
  \/ BeginFrame \/ UpdateStep \/ UpdateDone \/ ScriptReturns
  \/ RenderStep \/ RenderDone
  \/ PurgeSkip \/ PurgeRoot \/ PurgeChild \/ PurgeWithoutParent \/ PurgeDone

Next == ScriptCall \/ Frame

Spec == Init /\ [][Next]_vars

(* The loop goes round as long as nothing faults: script callbacks return,  *)
(* and everything else of Frame is straight-line code of the same thread.   *)
FairSpec == Spec /\ WF_vars(Frame)

-----------------------------------------------------------------------------
(* Properties.                                                              *)

TypeOK ==
  /\ maxNodeID \in 0..MaxNodes
  /\ live \subseteq 1..maxNodeID
  /\ assigned \subseteq live
  /\ marked \subseteq live
  /\ parentID \in [NodeIds -> 0..MaxNodes]
  /\ childNodes \in [NodeIds -> Seq(NodeIds)]
  /\ maxSceneID \in 0..MaxScenes
  /\ sceneMap \in [SceneIds -> Seq(NodeIds)]
  /\ currentScene \in 0..MaxScenes
  /\ phase \in Phases
  /\ pending \in Seq(NodeIds)
  /\ drawn \in Seq(NodeIds)
  /\ cursor \in 1..(MaxNodes + 1)
  /\ fault \in Faults

Distinct(s) == \A i, j \in DOMAIN s : s[i] = s[j] => i = j

(* A child list holds live nodes whose parent it is, a scene list live      *)
(* nodes without a parent, each once and in no other list: what             *)
(* NodeManager::Render relies on when it does not test GetNode's result.    *)
ChildListsOwn ==
  \A p \in NodeIds :
    /\ Distinct(childNodes[p])
    /\ \A c \in Elements(childNodes[p]) :
         c \in assigned /\ parentID[c] = p /\ p \in live
SceneListsOwn ==
  \A s \in SceneIds :
    /\ Distinct(sceneMap[s])
    /\ \A c \in Elements(sceneMap[s]) :
         /\ c \in assigned /\ parentID[c] = 0 /\ s <= maxSceneID
         /\ \A t \in SceneIds \ {s} : c \notin Elements(sceneMap[t])
ListsOwnTheirNodes == ChildListsOwn /\ SceneListsOwn

(* SceneManager::Render never follows an id to a node that is gone, however *)
(* scripts created, assigned, deleted and re-assigned nodes before.         *)
RenderNeverMissesANode == fault # "null node"

(* The inductive strengthening of the two: a node nobody assigned has no    *)
(* parent yet, and what a walk has still to visit is live, because nothing  *)
(* deletes a node between the start of a walk and its end.                  *)
UnassignedAreRoots == \A n \in NodeIds \ assigned : parentID[n] = 0
WalkIsLive ==
  /\ Elements(pending) \subseteq live
  /\ phase \in {"script", "purge", "poll"} => pending = <<>>
Inv == /\ TypeOK
       /\ ListsOwnTheirNodes
       /\ UnassignedAreRoots
       /\ WalkIsLive
       /\ RenderNeverMissesANode

(* n hangs off the current scene through live, unmarked ancestors, judged   *)
(* by the parent ids and not by the child lists the walk follows.           *)
ChainOf(n) ==
  LET up[k \in 0..MaxNodes] ==
        IF k = 0 THEN {n} ELSE up[k - 1] \union {parentID[m] : m \in up[k - 1] \ {0}}
  IN  up[MaxNodes] \ {0}
Listed(n) == IF parentID[n] = 0 THEN n \in Elements(CurrentList)
             ELSE n \in Elements(childNodes[parentID[n]])
Visible == {n \in live : /\ \A m \in ChainOf(n) : m \in live \ marked /\ Listed(m)
                         /\ \E m \in ChainOf(n) : parentID[m] = 0}

(* When SceneManager::Render is through, every visible node and no other    *)
(* has been drawn, once, and after its parent.                              *)
PictureIsRight ==
  (phase = "render" /\ pending = <<>> /\ fault = "none") =>
    /\ Distinct(drawn)
    /\ Elements(drawn) = Visible
    /\ \A i, j \in DOMAIN drawn : parentID[drawn[i]] = drawn[j] => j < i

(* A node that hangs in the list of an unmarked parent shares the parent's  *)
(* fate, as a marked node shares that of all it hung under.                 *)
SharesFate(n) ==
  \/ n \in marked
  \/ /\ parentID[n] # 0 /\ parentID[n] \notin marked
     /\ n \in Elements(childNodes[parentID[n]])

(* The orphan NodeManager::CheckForOrphans looks for, between two passes.   *)
Orphaned(n) == phase # "purge" /\ n \in live /\ parentID[n] \notin live \union {0}

(* Families go together: a node that once hung under an unmarked parent     *)
(* keeps the parent's fate until it is freed, however far up the mark is    *)
(* made, and a pass of PurgeNodes that comes to its end has freed all that  *)
(* was marked.  So no such node is ever orphaned; orphans are only those    *)
(* that came under their parent after its mark, or that AssignNodeAt gave a *)
(* parent but no place in the parent's list.                                *)
KeepsFates == \A n \in live : SharesFate(n) => SharesFate(n)' \/ n \notin live'
FreesTheMarked == phase = "purge" /\ phase' = "poll" => marked = {}
FamiliesGoTogether == [][KeepsFates /\ FreesTheMarked]_vars

(* Both walks of a frame end: no cycle of child lists is reachable from a   *)
(* scene, although scripts can build cycles outside of every scene.         *)
FramesComplete == phase = "update" ~> (phase = "poll" \/ fault # "none")

(* PurgeNodes, NodeManager.cpp:160: "Delete this node from parent if        *)
(* exists".  A parent that does not exist any more is to be tolerated.      *)
PurgeToleratesMissingParent == fault # "null parent"
=============================================================================
