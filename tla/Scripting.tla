------------------------------ MODULE Scripting -----------------------------
(***************************************************************************)
(* Script calls and script callbacks together.  A context of               *)
(* ScriptContexts is prepared with a function of ScriptCallbacks, which it *)
(* keeps alive until it is back in the pool; and the script stores, drops  *)
(* and replaces functions while it runs, the ones that run among them.     *)
(***************************************************************************)
EXTENDS Integers, FiniteSets, SequencesExt

CONSTANTS MaxContexts, MaxSteps,                          \* of ScriptContexts
          Globals, Delegates, Callbacks, NULL, MaxHandles \* of ScriptCallbacks

ASSUME BoundsArePositive ==
  MaxContexts \in Nat \ {0} /\ MaxSteps \in Nat /\ MaxHandles \in Nat \ {0}
ASSUME KindsDiffer == Globals \cap Delegates = {} /\ NULL \notin Globals \cup Delegates
ASSUME CallbacksAreFinite == IsFiniteSet(Callbacks)

VARIABLES status, pool, info, threads, freeThreads, currentThread, calls, fault, steps, since, nested,
          made, freed, owned, refs, handles, callback, running, open,
          function  \* what each context was prepared with; NULL for none of the functions

Contexts == INSTANCE ScriptContexts
Functions == INSTANCE ScriptCallbacks

contextVars == <<status, pool, info, threads, freeThreads, currentThread, calls, fault, steps, since, nested>>
functionVars == <<made, freed, owned, refs, handles, callback, running, open>>
vars == <<contextVars, functionVars, function>>

Init == Contexts!Init /\ Functions!Init /\ function = <<>>

(* The context that is requested in this step gets f.  It may still have    *)
(* another function (Earlier): it was executing when it went to the pool.   *)
Earlier == IF Contexts!Requested \in DOMAIN status THEN function[Contexts!Requested] ELSE NULL

PreparedWith(f) ==
  function' = [c \in DOMAIN status' |-> IF c = Contexts!Requested THEN f ELSE function[c]]

(* The context that goes back to the pool in this step lets its function    *)
(* go, unless it is executing: Unprepare refuses then.                      *)
GivesBack ==
  LET back == {c \in DOMAIN status : status[c] # "pooled" /\ status'[c] = "pooled"}
      used == {function[c] : c \in back} \ {NULL}
  IN  /\ function' = [c \in DOMAIN status |-> IF c \in back THEN NULL ELSE function[c]]
      /\ \/ used = {} /\ UNCHANGED functionVars
         \/ \E f \in used : Functions!Return(f)

(* Execute... of a function main looks up by its name in the module, which  *)
(* owns it until Close; and of a callback.                                  *)
EngineCall == Contexts!EngineCall /\ PreparedWith(NULL) /\ Functions!Prepare(NULL, Earlier)
Callback == \E c \in Callbacks :
  Contexts!Callback /\ PreparedWith(callback[c]) /\ Functions!Fire(c, Earlier)

(* The context manager.                                                     *)
Turn == Contexts!Turn /\ GivesBack
NextRound == Contexts!NextRound /\ GivesBack
CallReturns == Contexts!CallReturns /\ GivesBack

(* The script that runs.                                                    *)
Running == calls # <<>> /\ Contexts!Script(Last(calls))
Spawn == \E f \in Globals \cup Delegates :
  Contexts!Spawn /\ PreparedWith(f) /\ Functions!CreateCoRoutine(f, Earlier)
SpawnFails == Contexts!SpawnFails /\ UNCHANGED <<functionVars, function>>
Yield == Contexts!Yield /\ GivesBack
Finish == Contexts!Finish /\ GivesBack

Handle ==
  /\ Running /\ UNCHANGED <<contextVars, function>>
  /\ \/ \E d \in Delegates : Functions!MakeDelegate(d)
     \/ \E f \in Globals \cup Delegates : Functions!StoreHandle(f) \/ Functions!DropHandle(f)
     \/ \E c \in Callbacks, f \in Globals \cup Delegates \cup {NULL} : Functions!SetCallback(c, f)

(* main closes the engine between two calls.                                *)
Close == calls = <<>> /\ Functions!Close /\ UNCHANGED <<contextVars, function>>

Next ==
  /\ ~fault
  /\ \/ EngineCall \/ Callback \/ Turn \/ NextRound \/ CallReturns
     \/ Spawn \/ SpawnFails \/ Yield \/ Finish \/ Handle \/ Close

Spec == Init /\ [][Next]_vars

(* The engine's thread runs on, and the script ends or yields in time.      *)
FairSpec ==
  /\ Spec
  /\ WF_vars(~fault /\ (Turn \/ NextRound \/ CallReturns))
  /\ WF_vars(~fault /\ (Yield \/ Finish))

----------------------------------------------------------------------------
TypeOK ==
  /\ Contexts!TypeOK /\ Functions!TypeOK
  /\ function \in [DOMAIN status -> Globals \cup Delegates \cup {NULL}]

(* No vector of the context manager is read outside its bounds and no       *)
(* erased (NULL) co-routine is executed, whatever the co-routines do, until *)
(* a callback comes inside a script's call.                                 *)
NeverFaults == nested \/ (TypeOK /\ ~fault)

(* Until then the pool holds each context that is neither a thread's        *)
(* co-routine nor kept for a caller, once; and the pooled contexts keep no  *)
(* function alive, the others the one they were prepared with.              *)
PoolIsTheRest ==
  ~nested =>
    /\ Contexts!PoolIsTheRest
    /\ \A f \in Globals \cup Delegates :
         running[f] = Cardinality({c \in DOMAIN status : c \notin ToSet(pool) /\ function[c] = f})

(* No callback pointer names a deleted function while the engine is open,   *)
(* and a function some context is to run or running is not deleted, even    *)
(* when the script that runs replaces it and drops its last handle, or a    *)
(* callback inside its call does; after Close nothing is left over.         *)
UsedFunctionsLive == Functions!UsedFunctionsLive /\ Functions!CloseFreesFunctions

(* A co-routine gets no second turn while another of its thread waits,      *)
(* until a callback comes inside a script's call.                           *)
NoSecondTurn == Contexts!NoSecondTurn

(* A call of the engine into the script returns once its co-routines have   *)
(* stopped creating others and yielding, unless a callback comes inside it. *)
CallsReturn == Contexts!CallsReturn
=============================================================================
