----------------------------- MODULE LoadQueue ------------------------------
(***************************************************************************)
(* What TextureManager (src/NexgenRedux-Shared/TextureManager.cpp) shows   *)
(* the code that requests textures, with no thread and no memory.          *)
(* Requests are served one at a time, first come first served, each after  *)
(* the loader has marked it.  Serving a request fills the texture it names *)
(* and no other, unless that texture was purged in the meantime.           *)
(*                                                                         *)
(* Two things are not as one would wish.  A request pushed behind a first  *)
(* one that has its image but not yet its mark may cost it the mark, and   *)
(* the queue stands still (stalled).  And once a bad file has been marked  *)
(* (spoiled), later requests may be marked unread and leave unfilled.      *)
(* TextureLoader implements this queue, and TextureRefs uses it.           *)
(***************************************************************************)
EXTENDS Sequences

CONSTANT Textures    \* the texture ids that are ever requested

VARIABLES bad,         \* those whose file is no image, the same throughout
          waiting,     \* requests not yet served
          processed,   \* the first one's mark
          stalled,     \* the first one's mark is lost
          spoiled,     \* a bad file has been marked
          present,     \* textures that have a container
          filled       \* textures whose container has its image

vars == <<bad, waiting, processed, stalled, spoiled, present, filled>>

Init ==
  /\ bad \subseteq Textures
  /\ waiting = <<>>
  /\ processed = FALSE /\ stalled = FALSE /\ spoiled = FALSE
  /\ present = {}
  /\ filled = {}

Enqueue(t) ==
  /\ waiting' = Append(waiting, t)
  /\ present' = present \union {t}
  /\ \/ UNCHANGED stalled
     \/ /\ waiting # <<>> /\ ~processed
        /\ Head(waiting) \notin bad \/ spoiled
        /\ stalled' = TRUE
  /\ UNCHANGED <<bad, processed, spoiled, filled>>

Mark ==
  /\ waiting # <<>> /\ ~processed /\ ~stalled
  /\ processed' = TRUE
  /\ spoiled' = (spoiled \/ Head(waiting) \in bad)
  /\ UNCHANGED <<bad, waiting, stalled, present, filled>>

Serve ==
  /\ waiting # <<>> /\ processed
  /\ LET first == {Head(waiting)}
     IN  IF spoiled
           THEN filled \ first \subseteq filled' /\ filled' \subseteq filled \union (first \intersect present)
           ELSE filled' = filled \union (first \intersect present)
  /\ waiting' = Tail(waiting)
  /\ processed' = FALSE
  /\ UNCHANGED <<bad, stalled, spoiled, present>>

Discard(t) ==
  /\ present' = present \ {t}
  /\ filled' = filled \ {t}
  /\ UNCHANGED <<bad, waiting, processed, stalled, spoiled>>

Next ==
  \/ Mark \/ Serve
  \/ \E t \in Textures : Enqueue(t) \/ Discard(t)

Spec == Init /\ [][Next]_vars
=============================================================================
