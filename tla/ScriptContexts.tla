--------------------------- MODULE ScriptContexts ---------------------------
(***************************************************************************)
(* How the engine calls its script.  Every ExecuteInit, ExecuteUpdate and  *)
(* Execute...Callback of src/NexgenRedux-Shared/AngelScriptRunner.cpp asks *)
(* the context manager for a context, runs ExecuteScripts until no thread  *)
(* is left and gives the context back.  The script creates co-routines and *)
(* steps between them; the contexts come from the pool kept in            *)
(* AngelScriptDebugger.cpp.                                                *)
(*                                                                         *)
(* The statements of the script, the garbage collector and the results of  *)
(* a call are left out.  A function the script calls may call back into    *)
(* the engine at once: glfw3.h says of the joystick callback, which        *)
(* OpenGLWindowHelper installs, that it may be "called by joystick         *)
(* functions", and the script polls joysticks.  ExecuteScripts then runs   *)
(* inside itself, over the threads of the outer call; nested remembers it. *)
(***************************************************************************)
EXTENDS Integers, SequencesExt

CONSTANTS MaxContexts,  \* bounds the contexts in existence
          MaxSteps      \* bounds the createCoRoutine and yield of one call

VARIABLES
  status,        \* of each context: "pooled", "prepared", "active", "suspended", "ended"
  pool,          \* m_contextPool
  info,          \* each SContextInfo ever made: its coRoutines, current, keep
  threads,       \* m_threads, indices of info
  freeThreads,   \* m_freeThreads
  currentThread, \* m_currentThread, counted from 1
  calls,         \* the engine's calls of Execute that have not returned
  fault,         \* an element outside a vector, or a NULL context, was used
  steps,         \* createCoRoutine and yield since the outermost call
  since,         \* history: who has had a turn since each context's last
  nested         \* history: a callback has come inside a script's call

vars == <<status, pool, info, threads, freeThreads, currentThread, calls, fault, steps, since, nested>>

NoContext == 0
Contexts == DOMAIN status
Top == Last(calls)
Script(fr) == fr.running # NoContext

(* RequestContextCallback: the pool's last context, or a new one.           *)
Requested == IF pool = <<>> THEN Len(status) + 1 ELSE Last(pool)
CanRequest == pool # <<>> \/ Len(status) < MaxContexts

(* Prepare refuses a context that is executing: it goes back to the pool.   *)
CanPrepare == pool # <<>> => status[Last(pool)] \notin {"active", "suspended"}

(* Request a context and prepare it; it has waited for nobody yet.          *)
Request ==
  LET c == Requested
  IN  /\ CanRequest /\ CanPrepare
      /\ pool' = IF pool = <<>> THEN pool ELSE Front(pool)
      /\ status' = [d \in Contexts \cup {c} |-> IF d = c THEN "prepared" ELSE status[d]]
      /\ since' = [d \in DOMAIN status' |-> IF d = c THEN {} ELSE since[d] \ {c}]

Init ==
  /\ status = <<>> /\ pool = <<>> /\ info = <<>> /\ threads = <<>> /\ freeThreads = <<>>
  /\ currentThread = 1 /\ calls = <<>> /\ fault = FALSE /\ steps = 0 /\ since = <<>>
  /\ nested = FALSE

(* The program has used what is not there: nothing after it is modelled.    *)
Fault ==
  /\ fault' = TRUE
  /\ UNCHANGED <<status, pool, info, threads, freeThreads, currentThread, calls, steps, since, nested>>

(* AddContext, then Execute and the start of ExecuteScripts.                *)
AddContext ==
  LET t == IF freeThreads = <<>> THEN Len(info) + 1 ELSE Last(freeThreads)
      old == IF freeThreads = <<>> THEN <<>> ELSE info[t].coRoutines
      new == [coRoutines |-> Append(old, Requested), current |-> 1, keep |-> Requested]
  IN  /\ Request
      /\ info' = IF freeThreads = <<>> THEN Append(info, new) ELSE [info EXCEPT ![t] = new]
      /\ freeThreads' = IF freeThreads = <<>> THEN freeThreads ELSE Front(freeThreads)
      /\ threads' = Append(threads, t)

Execute ==
  /\ AddContext
  /\ calls' = Append(calls, [held |-> Requested, thread |-> 0, slot |-> 0, running |-> NoContext])
  /\ currentThread' = 1
  /\ UNCHANGED fault

(* ExecuteOnWindowCreate, ExecuteInit and ExecuteUpdate come from main and  *)
(* the render loop, the callbacks from glfwPollEvents or, nested, from a    *)
(* joystick function the script has called.                                 *)
EngineCall == calls = <<>> /\ Execute /\ steps' = 0 /\ UNCHANGED nested

CallbackMayCome == calls # <<>> => Script(Top)
Callback ==
  /\ CallbackMayCome /\ Execute
  /\ steps' = IF calls = <<>> THEN 0 ELSE steps
  /\ nested' = (nested \/ calls # <<>>)

(* What ExecuteScripts does with thread t when the context in slot has      *)
(* "terminated execution (for one reason or other)".  NextCoRoutine may     *)
(* have moved t's current since slot was read: the erase goes by current.   *)
(* Unprepare, and so the return to the pool, leaves an active one active.   *)
Drop(t, slot) ==
  LET i == info[t]
      rest == RemoveAt([i.coRoutines EXCEPT ![slot] = NoContext], i.current)
  IN  /\ info' = [info EXCEPT ![t].coRoutines = rest,
                              ![t].current = IF i.current > Len(rest) THEN 1 ELSE i.current]
      /\ IF rest = <<>>
         THEN /\ freeThreads' = Append(freeThreads, t)
              /\ threads' = RemoveAt(threads, currentThread)
              /\ UNCHANGED currentThread
         ELSE /\ currentThread' = currentThread + 1
              /\ UNCHANGED <<freeThreads, threads>>

KeepsNothing(t, slot) == FALSE   \* mutant: the context is given back at once

KeepsContext(t, slot) == info[t].keep = info[t].coRoutines[slot]

(* Mutant: a context that has ended stays a co-routine.                     *)
TerminatedStays(t, slot, after) ==
  /\ status' = [status EXCEPT ![info[t].coRoutines[slot]] = after]
  /\ currentThread' = currentThread + 1
  /\ UNCHANGED <<pool, info, threads, freeThreads>>

Terminated(t, slot, after) ==
  LET c == info[t].coRoutines[slot]
  IN  /\ pool' = IF KeepsContext(t, slot) THEN pool ELSE Append(pool, c)
      /\ status' = [status EXCEPT ![c] = IF after = "ended" /\ ~KeepsContext(t, slot)
                                         THEN "pooled" ELSE after]
      /\ Drop(t, slot)

(* One turn of ExecuteScripts' loop: Execute on the current co-routine of   *)
(* the current thread.  A context that is neither prepared nor suspended    *)
(* refuses with asCONTEXT_NOT_PREPARED, which is not asEXECUTION_SUSPENDED. *)
Resume(t, slot, c) ==
  /\ status' = [status EXCEPT ![c] = "active"]
  /\ since' = [d \in Contexts |-> IF d = c THEN {} ELSE since[d] \cup {c}]
  /\ calls' = [calls EXCEPT ![Len(calls)] = [@ EXCEPT !.thread = t, !.slot = slot, !.running = c]]
  /\ UNCHANGED <<pool, info, threads, freeThreads, currentThread, steps, fault, nested>>

Turn ==
  /\ calls # <<>> /\ ~Script(Top) /\ currentThread <= Len(threads)
  /\ LET t == threads[currentThread]
         slot == info[t].current
         c == IF slot \in DOMAIN info[t].coRoutines THEN info[t].coRoutines[slot] ELSE NoContext
     IN  IF c = NoContext THEN Fault
         ELSE IF status[c] \in {"prepared", "suspended"} THEN Resume(t, slot, c)
         ELSE Terminated(t, slot, status[c]) /\ UNCHANGED <<calls, since, fault, steps, nested>>

(* The loop has seen every thread: Execute's while asks for another round   *)
(* as long as a thread is left.                                             *)
NextRound ==
  /\ calls # <<>> /\ ~Script(Top) /\ currentThread > Len(threads) /\ threads # <<>>
  /\ currentThread' = 1
  /\ UNCHANGED <<status, pool, info, threads, freeThreads, calls, fault, steps, since, nested>>

(* None is left: Execute returns and DoneWithContext gives the context back. *)
CallReturns ==
  /\ calls # <<>> /\ ~Script(Top) /\ threads = <<>>
  /\ pool' = Append(pool, Top.held)
  /\ status' = [status EXCEPT ![Top.held] = "pooled"]
  /\ calls' = Front(calls)
  /\ UNCHANGED <<info, threads, freeThreads, currentThread, fault, steps, since, nested>>

(* createCoRoutine: a context of its own for every thread whose current     *)
(* co-routine is the one that calls.                                        *)
Spawn ==
  /\ calls # <<>> /\ Script(Top) /\ steps < MaxSteps
  /\ steps' = steps + 1
  /\ Request
  /\ info' = [t \in DOMAIN info |->
                IF t \in ToSet(threads) /\ info[t].coRoutines[info[t].current] = Top.running
                THEN [info[t] EXCEPT !.coRoutines = Append(@, Requested)] ELSE info[t]]
  /\ UNCHANGED <<threads, freeThreads, currentThread, calls, fault, nested>>

(* ... and ScriptCreateCoRoutine passes its argument to NULL when the       *)
(* context could not be prepared.                                           *)
SpawnFails == calls # <<>> /\ Script(Top) /\ ~CanPrepare /\ Fault

(* yield: NextCoRoutine, then Suspend, on which Execute returns at once and *)
(* the loop goes on with the next thread.                                   *)
(* Mutants: the end of the list is not tested; it is met one too early.     *)
NextWithoutWrap(t) == info[t].current + 1
NextWrappingEarly(t) == IF info[t].current + 1 >= Len(info[t].coRoutines) THEN 1 ELSE info[t].current + 1

NextCoRoutine(t) == IF info[t].current + 1 > Len(info[t].coRoutines) THEN 1 ELSE info[t].current + 1

Suspended ==
  /\ status' = [status EXCEPT ![Top.running] = "suspended"]
  /\ calls' = [calls EXCEPT ![Len(calls)].running = NoContext]
  /\ currentThread' = currentThread + 1

Yield ==
  /\ calls # <<>> /\ Script(Top) /\ steps < MaxSteps
  /\ IF currentThread > Len(threads) THEN Fault
     ELSE /\ info' = [info EXCEPT ![threads[currentThread]].current = NextCoRoutine(threads[currentThread])]
          /\ Suspended
          /\ steps' = steps + 1
          /\ UNCHANGED <<pool, threads, freeThreads, fault, since, nested>>

(* The running function returns, throws or is aborted.                      *)
Finish ==
  LET coRoutines == info[Top.thread].coRoutines
      IsThere == Top.slot \in DOMAIN coRoutines /\ coRoutines[Top.slot] # NoContext
  IN  /\ calls # <<>> /\ Script(Top)
      /\ ~IsThere => Fault
      /\ IsThere =>
           /\ Terminated(Top.thread, Top.slot, "ended")
           /\ calls' = [calls EXCEPT ![Len(calls)].running = NoContext]
           /\ UNCHANGED <<fault, steps, since, nested>>

Next ==
  /\ ~fault
  /\ \/ EngineCall \/ Callback \/ Turn \/ NextRound \/ CallReturns
     \/ Spawn \/ SpawnFails \/ Yield \/ Finish

Spec == Init /\ [][Next]_vars

----------------------------------------------------------------------------
TypeOK ==
  /\ status \in Seq({"pooled", "prepared", "active", "suspended", "ended"})
  /\ pool \in Seq(Contexts) /\ Len(status) <= MaxContexts
  /\ info \in Seq([coRoutines : Seq(Contexts), current : Nat \ {0}, keep : Contexts])
  /\ threads \in Seq(DOMAIN info) /\ freeThreads \in Seq(DOMAIN info)
  /\ currentThread \in Nat \ {0}
  /\ calls \in Seq([held : Contexts, thread : Nat, slot : Nat, running : Contexts \cup {NoContext}])
  /\ fault \in BOOLEAN /\ steps \in 0..MaxSteps
  /\ DOMAIN since = Contexts /\ \A c \in Contexts : since[c] \subseteq Contexts

Listed == UNION {ToSet(info[threads[n]].coRoutines) : n \in DOMAIN threads}
Held == {calls[k].held : k \in DOMAIN calls}

(* No vector of the context manager is read outside its bounds and no       *)
(* erased (NULL) co-routine is executed, whatever the co-routines do, until *)
(* a callback comes inside a script's call.                                 *)
NeverFaults == nested \/ (TypeOK /\ ~fault)

(* The pool holds each context that is neither a thread's co-routine nor    *)
(* kept for a caller, once: none is given back twice, none is lost, and the *)
(* one whose result ExecuteOnWindowCreate reads is not there yet.           *)
PoolIsTheRest ==
  /\ IsInjective(pool)
  /\ ToSet(pool) = Contexts \ (Listed \cup Held)

(* A co-routine gets no second turn while another of its thread waits.      *)
NoSecondTurn ==
  [][\A c \in Contexts : ~nested /\ status[c] # "active" /\ status'[c] = "active" =>
       \A d \in Listed \ {c} : c \notin since[d]]_vars

(* A call of the engine into the script returns once its co-routines have   *)
(* stopped creating others and yielding, unless a callback comes inside it. *)
CallsReturn == (calls # <<>>) ~> (calls = <<>> \/ nested)
=============================================================================
