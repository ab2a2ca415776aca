--------------------------- MODULE ScriptCallbacks --------------------------
(***************************************************************************)
(* Who keeps a script function alive.  The Set...Callback functions of     *)
(* src/NexgenRedux-Shared/AngelScriptRunner.cpp store the function the     *)
(* script hands them in one of twelve pointers; Execute...Callback calls   *)
(* it; Close lets go of all of them and shuts the engine down.  The        *)
(* parameters are handles without "+", so that what is passed belongs to   *)
(* the function that is called.                                            *)
(*                                                                         *)
(* A global function belongs to its module; a delegate, made from a        *)
(* method and its object, lives by its external count alone.               *)
(***************************************************************************)
EXTENDS Integers, FiniteSets

CONSTANTS Globals, Delegates,  \* script functions of the two kinds
          Callbacks,           \* some of the twelve m_...Callback pointers
          NULL,
          MaxHandles           \* bounds a function's handles in script variables, and its calls

VARIABLES
  made,      \* functions that have come into being
  freed,     \* functions that have been deleted
  owned,     \* functions whose module holds its internal reference
  refs,      \* externalRefCount
  handles,   \* handles in the script's variables
  callback,  \* the function each m_...Callback points to, or NULL
  running,   \* contexts prepared to execute each function
  open       \* Close has not been called

vars == <<made, freed, owned, refs, handles, callback, running, open>>
Functions == Globals \cup Delegates
Live == made \ freed

(* Release deletes a function with the last reference of both kinds.        *)
Unreferenced(r, o) == {f \in made : r[f] = 0 /\ f \notin o}

Init ==
  /\ made = Globals /\ owned = Globals /\ freed = {}
  /\ refs = [f \in Functions |-> 0] /\ handles = refs /\ running = refs
  /\ callback = [c \in Callbacks |-> NULL]
  /\ open = TRUE

(* What the script can name: no function, its own, or one it has a handle of. *)
CanPass(f) == f \in {NULL} \cup owned \cup {g \in made : handles[g] > 0}

(* The script makes a delegate, stores a handle, and lets go of one.        *)
MakeDelegate(d) ==
  /\ open /\ d \in Delegates \ made
  /\ made' = made \cup {d}
  /\ refs' = [refs EXCEPT ![d] = 1] /\ handles' = [handles EXCEPT ![d] = 1]
  /\ UNCHANGED <<freed, owned, callback, running, open>>

StoreHandle(f) ==
  /\ open /\ f \in Live /\ CanPass(f) /\ handles[f] < MaxHandles
  /\ refs' = [refs EXCEPT ![f] = @ + 1] /\ handles' = [handles EXCEPT ![f] = @ + 1]
  /\ UNCHANGED <<made, freed, owned, callback, running, open>>

DropHandle(f) ==
  /\ open /\ handles[f] > 0
  /\ refs' = [refs EXCEPT ![f] = @ - 1] /\ handles' = [handles EXCEPT ![f] = @ - 1]
  /\ freed' = freed \cup Unreferenced(refs', owned)
  /\ UNCHANGED <<made, owned, callback, running, open>>

(* Mutants: the old function is deleted, not released; it is forgotten.      *)
SetCallbackDeleting(c, f) ==
  /\ open /\ CanPass(f)
  /\ refs' = [g \in Functions |-> IF g = f THEN refs[g] + 1 ELSE refs[g]]
  /\ freed' = freed \cup ({callback[c]} \ {NULL})
  /\ callback' = [callback EXCEPT ![c] = f]
  /\ UNCHANGED <<made, owned, handles, running, open>>

SetCallbackForgetting(c, f) ==
  /\ open /\ CanPass(f)
  /\ refs' = [g \in Functions |-> IF g = f THEN refs[g] + 1 ELSE refs[g]]
  /\ callback' = [callback EXCEPT ![c] = f]
  /\ UNCHANGED <<made, freed, owned, handles, running, open>>

(* Set...Callback: f's handle comes with a reference, which stays with the  *)
(* engine; the function stored before, perhaps the same, is released.       *)
SetCallback(c, f) ==
  LET gain(g) == IF g = f THEN 1 ELSE 0
      loss(g) == IF g = callback[c] THEN 1 ELSE 0
  IN  /\ open /\ CanPass(f)
      /\ refs' = [g \in Functions |-> refs[g] + gain(g) - loss(g)]
      /\ freed' = freed \cup Unreferenced(refs', owned)
      /\ callback' = [callback EXCEPT ![c] = f]
      /\ UNCHANGED <<made, owned, handles, running, open>>

(* Execute...Callback and createCoRoutine: Prepare takes a reference of f,  *)
(* which Unprepare gives back when the context returns to the pool, and     *)
(* releases what the context was prepared with before and still has (old).  *)
Prepare(f, old) ==
  LET gain(g) == IF g = f THEN 1 ELSE 0
      loss(g) == IF g = old THEN 1 ELSE 0
  IN  /\ open /\ (f \notin {old, NULL} => running[f] < MaxHandles)
      /\ refs' = [g \in Functions |-> refs[g] + gain(g) - loss(g)]
      /\ running' = [g \in Functions |-> running[g] + gain(g) - loss(g)]
      /\ freed' = freed \cup Unreferenced(refs', owned)
      /\ UNCHANGED <<made, owned, handles, callback, open>>

Fire(c, old) == callback[c] # NULL /\ Prepare(callback[c], old)

CreateCoRoutine(f, old) == CanPass(f) /\ Prepare(f, old)

Return(f) ==
  /\ running[f] > 0
  /\ refs' = [refs EXCEPT ![f] = @ - 1] /\ running' = [running EXCEPT ![f] = @ - 1]
  /\ freed' = freed \cup Unreferenced(refs', owned)
  /\ UNCHANGED <<made, owned, handles, callback, open>>

(* Close, from main when no script runs: each pointer's function is         *)
(* released, none is set to NULL; the engine's shutdown takes the module    *)
(* and its variables.                                                       *)
Pointers(f) == Cardinality({c \in Callbacks : callback[c] = f})

Close ==
  /\ open /\ \A f \in Functions : running[f] = 0
  /\ open' = FALSE
  /\ refs' = [f \in Functions |-> refs[f] - Pointers(f) - handles[f]]
  /\ handles' = [f \in Functions |-> 0]
  /\ owned' = {}
  /\ freed' = freed \cup Unreferenced(refs', {})
  /\ UNCHANGED <<made, callback, running>>

Next ==
  \/ \E d \in Delegates : MakeDelegate(d)
  \/ \E f \in Functions : StoreHandle(f) \/ DropHandle(f) \/ CreateCoRoutine(f, NULL) \/ Return(f)
  \/ \E c \in Callbacks, f \in Functions \cup {NULL} : SetCallback(c, f)
  \/ \E c \in Callbacks : Fire(c, NULL)
  \/ Close

Spec == Init /\ [][Next]_vars

----------------------------------------------------------------------------
TypeOK ==
  /\ Globals \subseteq made /\ made \subseteq Functions
  /\ freed \subseteq made /\ owned \subseteq Globals
  /\ refs \in [Functions -> Int]
  /\ handles \in [Functions -> 0..MaxHandles] /\ running \in [Functions -> 0..MaxHandles]
  /\ callback \in [Callbacks -> Functions \cup {NULL}]
  /\ open \in BOOLEAN

(* While the engine is open no callback pointer names a deleted function,   *)
(* and a function that is being executed is never deleted, even when it     *)
(* replaces itself as the callback and was held by nothing else.            *)
UsedFunctionsLive ==
  \A f \in Functions :
    running[f] > 0 \/ (open /\ \E c \in Callbacks : callback[c] = f) => f \in Live

(* After Close no function is left over.                                    *)
CloseFreesFunctions == ~open => made = freed

=============================================================================
