-------------------------- MODULE ScriptingProofs ---------------------------
(***************************************************************************)
(* Proofs about Scripting, for any number of contexts, functions and       *)
(* callbacks and scripts of any length.  Once a callback has come inside a *)
(* script's call (nested) ExecuteScripts takes the outer call's context    *)
(* for one that has ended, and nothing is proved of the contexts that are  *)
(* there then: CInv and Pooled hold until nested, FInv and KInv always.    *)
(*                                                                         *)
(* The invariant has a part for the contexts, one for the functions and    *)
(* one for both.  CInv: there is one call and one thread at most, and the  *)
(* numbers the context manager keeps of them are the right ones (Shape); a *)
(* co-routine is listed once and can be resumed whenever it is not the one *)
(* that runs (Ready); the pool holds the contexts nobody else has (Rest);  *)
(* and who had its turn since a listed co-routine had one comes after it   *)
(* (InTurn).  FInv: a function's references are the script's handles, the  *)
(* callback pointers and the contexts prepared with it, and one without    *)
(* references is deleted (Counted).  KInv: those contexts are counted, and *)
(* one that is unprepared has no function.  Pooled: the pool's are.        *)
(*                                                                         *)
(* The last part is about Debugger and its invariant, DebugInv.            *)
(***************************************************************************)
EXTENDS Scripting, Debugger, SequenceTheorems, FiniteSetTheorems, TLAPS

(* The only thread's co-routines and which of them is its turn; and whether *)
(* that one is in its turn now.                                             *)
Co == info[1].coRoutines
Cur == info[1].current
Executes == calls # <<>> /\ calls[1].running # 0

(* The types of a status, of what is kept of a thread, and of a call's      *)
(* frame.                                                                   *)
Statuses == {"pooled", "prepared", "active", "suspended", "ended"}
Infos(S) == [coRoutines : Seq(S), current : Nat \ {0}, keep : S]
Frames(S) == [held : S, thread : Nat, slot : Nat, running : S \cup {0}]

(* Between two calls of the engine, or before the call returns: the thread  *)
(* is free or was never made.                                               *)
NoThread ==
  /\ threads = <<>> /\ freeThreads = IF info = <<>> THEN <<>> ELSE <<1>>
  /\ info # <<>> => Co = <<>>
  /\ ~Executes

(* While a call of the engine has co-routines left.  The one that runs is   *)
(* the current one of the thread, where the caller's frame says.            *)
OneThread ==
  /\ threads = <<1>> /\ freeThreads = <<>> /\ info # <<>> /\ calls # <<>>
  /\ Cur \in 1..Len(Co) /\ info[1].keep = calls[1].held
  /\ Executes => /\ currentThread = 1 /\ calls[1].thread = 1 /\ calls[1].slot = Cur
                 /\ calls[1].running = Co[Cur]

(* There is at most one thread and one call, and nothing was read outside a *)
(* vector.                                                                  *)
Shape == ~fault /\ Len(info) <= 1 /\ Len(calls) <= 1 /\ (NoThread \/ OneThread)

(* A co-routine is listed once, and all but the running one can be resumed. *)
Ready ==
  threads # <<>> => \A i \in 1..Len(Co) :
     /\ \A j \in 1..Len(Co) : Co[i] = Co[j] => i = j
     /\ ~(Executes /\ i = Cur) => status[Co[i]] \in {"prepared", "suspended"}

(* Where a context may be.                                                  *)
OnThread(c) == threads # <<>> /\ \E i \in 1..Len(Co) : Co[i] = c
InPool(c) == \E k \in 1..Len(pool) : pool[k] = c

(* A context is in the pool, and once, exactly when it is neither listed    *)
(* nor kept for the caller.                                                 *)
Rest ==
  /\ \A k, l \in 1..Len(pool) : pool[k] = pool[l] => k = l
  /\ \A c \in DOMAIN status :
       InPool(c) <=> ~OnThread(c) /\ (calls # <<>> => c # calls[1].held)

(* The place of the co-routine whose turn is next, and the order of the     *)
(* turns from there, round the list.                                        *)
NextTurn == IF Executes THEN Cur + 1 ELSE Cur

Before(j, i) ==
  \/ j >= NextTurn /\ i < NextTurn
  \/ (j >= NextTurn <=> i >= NextTurn) /\ j < i

(* since[d] are the contexts that had a turn since d had one: they come     *)
(* after d.                                                                 *)
InTurn ==
  threads # <<>> =>
    \A i, j \in 1..Len(Co) : i # j /\ Co[i] \in since[Co[j]] => Before(j, i)

(* What holds of the contexts.                                              *)
CInv == Contexts!TypeOK /\ Shape /\ Ready /\ Rest /\ InTurn
-----------------------------------------------------------------------------
(* A function over 1..n is a sequence of length n.                          *)
LEMMA FunctionIsSeq ==
  ASSUME NEW S, NEW n \in Nat, NEW f \in [1..n -> S]
  PROVE  f \in Seq(S) /\ Len(f) = n
<1>1. f \in Seq(S) BY SeqDef
<1>2. Len(f) \in Nat /\ 1..Len(f) = 1..n BY <1>1, LenProperties
<1>3. Len(f) = n
  <2>1. CASE Len(f) < n
    <3>1. n \in 1..n /\ n \notin 1..Len(f) BY <1>2, <2>1
    <3> QED BY <1>2, <3>1
  <2>2. CASE Len(f) > n
    <3>1. Len(f) \in 1..Len(f) /\ Len(f) \notin 1..n BY <1>2, <2>2
    <3> QED BY <1>2, <3>1
  <2> QED BY <1>2, <2>1, <2>2
<1> QED BY <1>1, <1>3

(* Replacing the element of a sequence that has only one.                   *)
LEMMA ExceptOne ==
  ASSUME NEW S, NEW s \in Seq(S), s # <<>>, Len(s) <= 1, NEW T, NEW x \in T
  PROVE  LET r == [s EXCEPT ![1] = x]
         IN  /\ Len(s) = 1 /\ DOMAIN s = {1}
             /\ r \in Seq(T) /\ Len(r) = 1 /\ r[1] = x
<1> DEFINE r == [s EXCEPT ![1] = x]
<1>1. Len(s) \in Nat /\ Len(s) # 0 BY EmptySeq, LenProperties
<1>2. Len(s) = 1
  <2>1. \A n \in Nat : n # 0 /\ n <= 1 => n = 1 OBVIOUS
  <2> QED BY <1>1, <2>1
<1>3. s \in [1..1 -> S] BY <1>2, LenProperties
<1>4. r \in [1..1 -> T] /\ r[1] = x BY <1>2, <1>3
<1> HIDE DEF r
<1>5. r \in Seq(T) /\ Len(r) = 1 BY <1>4, FunctionIsSeq
<1> QED BY <1>2, <1>3, <1>4, <1>5 DEF r

(* std::vector's erase: what was behind the erased element moves down by    *)
(* one, also when the element was overwritten (with NULL) before.           *)
LEMMA RemoveAtEffects ==
  ASSUME NEW S, NEW s \in Seq(S), NEW i \in 1..Len(s),
         NEW t, Len(t) = Len(s), \A k \in 1..Len(s) : k # i => t[k] = s[k]
  PROVE  /\ Contexts!RemoveAt(t, i) \in Seq(S) /\ Len(Contexts!RemoveAt(t, i)) = Len(s) - 1
         /\ \A k \in 1..(Len(s) - 1) :
              Contexts!RemoveAt(t, i)[k] = IF k < i THEN s[k] ELSE s[k + 1]
<1> DEFINE n == Len(s)
           f == SubSeq(t, 1, i - 1)
           b == SubSeq(t, i + 1, n)
           r == f \o b
<1>1. n \in Nat /\ i \in 1..n /\ i \in Int /\ s \in [1..n -> S]
  BY LenProperties
<1>2. \A k \in 1..n : k # i => t[k] = s[k] /\ t[k] \in S
  BY <1>1
<1>3. Len(t) = n OBVIOUS
<1> HIDE DEF n
<1>4. f \in Seq(S) /\ Len(f) = i - 1 /\ \A k \in 1..(i - 1) : f[k] = t[k]
  <2>1. \A k \in 1..(i - 1) : t[k] \in S BY <1>1, <1>2
  <2>2. /\ f \in Seq(S) /\ Len(f) = IF 1 <= i - 1 THEN (i - 1) - 1 + 1 ELSE 0
        /\ \A k \in 1..(i - 1) - 1 + 1 : f[k] = t[1 + k - 1]
    BY <1>1, <2>1, SubSeqProperties
  <2> QED BY <1>1, <2>2
<1>5. b \in Seq(S) /\ Len(b) = n - i /\ \A k \in 1..(n - i) : b[k] = t[i + k]
  <2>1. \A k \in (i + 1)..n : t[k] \in S BY <1>1, <1>2
  <2>2. /\ b \in Seq(S) /\ Len(b) = IF i + 1 <= n THEN n - (i + 1) + 1 ELSE 0
        /\ \A k \in 1..n - (i + 1) + 1 : b[k] = t[(i + 1) + k - 1]
    BY <1>1, <2>1, SubSeqProperties
  <2> QED BY <1>1, <2>2
<1> HIDE DEF f, b
<1>6. /\ r \in Seq(S) /\ Len(r) = Len(f) + Len(b)
      /\ \A k \in 1..Len(f) + Len(b) : r[k] = IF k <= Len(f) THEN f[k] ELSE b[k - Len(f)]
  <2>1. f \in Seq(S) /\ b \in Seq(S) BY <1>4, <1>5
  <2> QED BY <2>1, ConcatProperties
<1> HIDE DEF r
<1>7. Len(r) = n - 1 BY <1>1, <1>4, <1>5, <1>6
<1>8. ASSUME NEW k \in 1..(n - 1)
      PROVE  r[k] = IF k < i THEN s[k] ELSE s[k + 1]
  <2>1. CASE k < i
    <3>1. k \in 1..(i - 1) /\ k \in 1..Len(f) + Len(b) /\ k <= Len(f) /\ k \in 1..n
      BY <1>1, <1>4, <1>5, <2>1
    <3> QED BY <1>2, <1>4, <1>6, <2>1, <3>1
  <2>2. CASE ~(k < i)
    <3>1. /\ k - (i - 1) \in 1..(n - i) /\ k \in 1..Len(f) + Len(b) /\ ~(k <= Len(f))
          /\ i + (k - (i - 1)) = k + 1 /\ k + 1 \in 1..n /\ k + 1 # i
      BY <1>1, <1>4, <1>5, <2>2
    <3>2. r[k] = b[k - (i - 1)] BY <1>4, <1>6, <3>1
    <3>3. b[k - (i - 1)] = t[k + 1] BY <1>5, <3>1
    <3> QED BY <1>2, <2>2, <3>1, <3>2, <3>3
  <2> QED BY <2>1, <2>2
<1>9. r = Contexts!RemoveAt(t, i)
  <2>1. Contexts!RemoveAt(t, i) = SubSeq(t, 1, i - 1) \o SubSeq(t, i + 1, Len(t))
    BY DEF Contexts!RemoveAt
  <2> QED BY <1>3, <2>1 DEF r, f, b
<1> QED BY <1>6, <1>7, <1>8, <1>9 DEF n

(* Last and Front, element by element.                                      *)
LEMMA LastAndFront ==
  ASSUME NEW S, NEW s \in Seq(S), s # <<>>, NEW f, f = Contexts!Front(s)
  PROVE  /\ Len(s) \in Nat \ {0} /\ Contexts!Last(s) = s[Len(s)] /\ s[Len(s)] \in S
         /\ f \in Seq(S) /\ Len(f) = Len(s) - 1
         /\ \A k \in 1..Len(f) : f[k] = s[k]
<1>1. Len(s) \in Nat \ {0} /\ s[Len(s)] \in S
  BY EmptySeq, LenProperties, ElementOfSeq
<1> DEFINE n == Len(s)
<1>2. s \in [1..n -> S] BY LenProperties
<1>3. /\ SubSeq(s, 1, n - 1) \in Seq(S)
      /\ Len(SubSeq(s, 1, n - 1)) = IF 1 <= n - 1 THEN (n - 1) - 1 + 1 ELSE 0
      /\ \A k \in 1..(n - 1) - 1 + 1 : SubSeq(s, 1, n - 1)[k] = s[1 + k - 1]
  <2>1. \A k \in 1..(n - 1) : s[k] \in S BY <1>1, <1>2
  <2> QED BY <1>1, <2>1, SubSeqProperties
<1>4. f = SubSeq(s, 1, n - 1) BY DEF Contexts!Front
<1>5. Contexts!Last(s) = s[Len(s)] BY DEF Contexts!Last
<1> HIDE DEF n
<1>6. n \in Nat \ {0} BY <1>1 DEF n
<1>7. f \in Seq(S) BY <1>3, <1>4
<1>8. Len(f) = n - 1 BY <1>3, <1>4, <1>6
<1>9. \A k \in 1..Len(f) : f[k] = s[k] BY <1>3, <1>4, <1>6, <1>8
<1> QED BY <1>1, <1>5, <1>7, <1>8, <1>9 DEF n

(* RequestContext takes a context out of the pool or makes a new one: it is *)
(* prepared, in no list, and nobody had a turn since.                       *)
LEMMA RequestEffects ==
  ASSUME Contexts!TypeOK, Rest, Contexts!Request,
         NEW c, c = Contexts!Requested
  PROVE  /\ DOMAIN status' = DOMAIN status \cup {c}
         /\ status' \in Seq(Statuses)
         /\ Len(status') <= MaxContexts /\ c \in Nat \ {0}
         /\ status'[c] = "prepared"
         /\ \A d \in DOMAIN status : d # c => status'[d] = status[d]
         /\ InPool(c) \/ c \notin DOMAIN status
         /\ pool' \in Seq(DOMAIN status)
         /\ \A k, l \in 1..Len(pool') : pool'[k] = pool'[l] => k = l
         /\ \A d : InPool(d)' <=> InPool(d) /\ d # c
         /\ DOMAIN since' = DOMAIN status' /\ since'[c] = {}
         /\ \A d \in DOMAIN status : d # c => since'[d] = since[d] \ {c}
<1> DEFINE n == Len(status)
<1>1. /\ n \in Nat /\ DOMAIN status = 1..n /\ n <= MaxContexts
      /\ pool \in Seq(1..n) /\ DOMAIN since = 1..n
  BY LenProperties DEF Contexts!TypeOK, Contexts!Contexts
<1>6. \A d \in 1..n : status[d] \in Statuses
  <2>1. status \in Seq(Statuses) BY DEF Contexts!TypeOK, Statuses
  <2> QED BY <1>1, <2>1, ElementOfSeq
<1>2. MaxContexts \in Nat BY BoundsArePositive
<1>3. /\ status' = [d \in (1..n) \cup {c} |-> IF d = c THEN "prepared" ELSE status[d]]
      /\ since' = [d \in DOMAIN status' |-> IF d = c THEN {} ELSE since[d] \ {c}]
      /\ pool' = IF pool = <<>> THEN pool ELSE Contexts!Front(pool)
  BY <1>1 DEF Contexts!Request, Contexts!Contexts
<1>7. /\ DOMAIN status' = DOMAIN status \cup {c} /\ status'[c] = "prepared"
      /\ \A d \in DOMAIN status : d # c => status'[d] = status[d]
  BY <1>1, <1>3
<1>8. /\ DOMAIN since' = DOMAIN status' /\ since'[c] = {}
      /\ \A d \in DOMAIN status : d # c => since'[d] = since[d] \ {c}
  BY <1>3, <1>7
<1>4. CASE pool = <<>>
  <2> DEFINE m == n + 1
  <2>1. c = n + 1 /\ n < MaxContexts /\ (1..n) \cup {c} = 1..m
    BY <1>1, <1>2, <1>4 DEF Contexts!Request, Contexts!Requested, Contexts!CanRequest
  <2>2. \A d : ~InPool(d) BY <1>4, EmptySeq DEF InPool
  <2>3. status' \in [1..m -> Statuses]
    <3> SUFFICES ASSUME NEW d \in 1..m
                 PROVE  (IF d = c THEN "prepared" ELSE status[d]) \in Statuses
      BY <1>3, <2>1
    <3>1. d # c => d \in 1..n BY <1>1, <2>1
    <3>2. "prepared" \in Statuses BY DEF Statuses
    <3> QED BY <1>6, <3>1, <3>2
  <2>4. status' \in Seq(Statuses) /\ Len(status') = m
    <3>1. m \in Nat BY <1>1, <2>1
    <3> HIDE DEF m
    <3> QED BY <2>3, <3>1, FunctionIsSeq
  <2>5. pool' = pool /\ ~InPool(c)' /\ \A d : ~InPool(d)'
    BY <1>3, <1>4, EmptySeq DEF InPool
  <2>6. Len(status') <= MaxContexts /\ c \in Nat \ {0} /\ c \notin DOMAIN status
    BY <1>1, <1>2, <2>1, <2>4
  <2>7. pool' \in Seq(DOMAIN status) /\ \A k, l \in 1..Len(pool') : pool'[k] = pool'[l] => k = l
    BY <1>1, <2>5 DEF Rest
  <2> QED BY <1>7, <1>8, <2>2, <2>4, <2>5, <2>6, <2>7
<1>5. CASE pool # <<>>
  <2> DEFINE f == Contexts!Front(pool)
  <2>1. /\ Len(pool) \in Nat \ {0} /\ c = pool[Len(pool)] /\ c \in 1..n
        /\ f \in Seq(1..n) /\ Len(f) = Len(pool) - 1
        /\ \A k \in 1..Len(f) : f[k] = pool[k]
    BY <1>1, <1>5, LastAndFront DEF Contexts!Requested
  <2>2. (1..n) \cup {c} = 1..n /\ pool' = f BY <1>1, <1>3, <1>5, <2>1
  <2> HIDE DEF f
  <2>3. status' \in [1..n -> Statuses]
    <3> SUFFICES ASSUME NEW d \in 1..n
                 PROVE  (IF d = c THEN "prepared" ELSE status[d]) \in Statuses
      BY <1>3, <2>2
    <3>1. "prepared" \in Statuses BY DEF Statuses
    <3> QED BY <1>6, <3>1
  <2>4. status' \in Seq(Statuses) /\ Len(status') = n
    BY <1>1, <2>3, FunctionIsSeq
  <2>5. InPool(c) BY <2>1 DEF InPool
  <2>6. \A k, l \in 1..Len(pool') : pool'[k] = pool'[l] => k = l
    <3>1. \A k, l \in 1..Len(pool) : pool[k] = pool[l] => k = l BY DEF Rest
    <3>2. \A k \in 1..Len(f) : k \in 1..Len(pool) BY <2>1
    <3>3. \A k, l \in 1..Len(f) : f[k] = f[l] => k = l BY <2>1, <3>1, <3>2
    <3> QED BY <2>2, <3>3
  <2>7. ASSUME NEW d PROVE InPool(d)' <=> InPool(d) /\ d # c
    <3>1. InPool(d)' => InPool(d) BY <2>1, <2>2 DEF InPool
    <3>2. ASSUME InPool(d)' PROVE d # c
      <4>1. PICK k \in 1..Len(f) : f[k] = d BY <2>2, <3>2 DEF InPool
      <4>2. k \in 1..Len(pool) /\ Len(pool) \in 1..Len(pool) /\ k # Len(pool) /\ pool[k] = d
        BY <2>1, <4>1
      <4> QED BY <2>1, <4>2 DEF Rest
    <3>3. ASSUME InPool(d), d # c PROVE InPool(d)'
      <4>1. PICK k \in 1..Len(pool) : pool[k] = d BY <3>3 DEF InPool
      <4>2. k \in 1..Len(f) BY <2>1, <3>3, <4>1
      <4>3. f[k] = d BY <2>1, <4>1, <4>2
      <4> QED BY <2>2, <4>2, <4>3 DEF InPool
    <3> QED BY <3>1, <3>2, <3>3
  <2>8. /\ Len(status') <= MaxContexts /\ c \in Nat \ {0}
        /\ pool' \in Seq(DOMAIN status)
    BY <1>1, <2>1, <2>2, <2>4
  <2> QED BY <1>7, <1>8, <2>4, <2>5, <2>6, <2>7, <2>8
<1> QED BY <1>4, <1>5

(* The types, for the one thread and the one call there can be.             *)
LEMMA TypesOf ==
  ASSUME Contexts!TypeOK
  PROVE  /\ Len(status) \in Nat /\ DOMAIN status = 1..Len(status) /\ 0 \notin DOMAIN status
         /\ status \in [DOMAIN status -> Statuses] /\ pool \in Seq(DOMAIN status)
         /\ info \in Seq(Infos(DOMAIN status)) /\ calls \in Seq(Frames(DOMAIN status))
         /\ Len(info) \in Nat /\ Len(calls) \in Nat
         /\ info # <<>> => info[1] \in Infos(DOMAIN status) /\ Len(info) > 0
         /\ calls # <<>> => calls[1] \in Frames(DOMAIN status) /\ Len(calls) > 0
         /\ currentThread \in Nat \ {0}
         /\ DOMAIN since = DOMAIN status
         /\ \A c \in DOMAIN status : since[c] \subseteq DOMAIN status
<1>1. status \in Seq(Statuses) BY DEF Contexts!TypeOK, Statuses
<1>2. /\ Len(status) \in Nat /\ DOMAIN status = 1..Len(status) /\ 0 \notin DOMAIN status
      /\ status \in [DOMAIN status -> Statuses]
  BY <1>1, LenProperties
<1>3. info \in Seq(Infos(DOMAIN status)) BY DEF Contexts!TypeOK, Contexts!Contexts, Infos
<1>4. calls \in Seq(Frames(DOMAIN status)) BY DEF Contexts!TypeOK, Contexts!Contexts, Frames, Contexts!NoContext
<1>5. Len(info) \in Nat /\ (info # <<>> => info[1] \in Infos(DOMAIN status) /\ Len(info) > 0)
  BY <1>3, LenProperties, EmptySeq, ElementOfSeq
<1>6. Len(calls) \in Nat /\ (calls # <<>> => calls[1] \in Frames(DOMAIN status) /\ Len(calls) > 0)
  BY <1>4, LenProperties, EmptySeq, ElementOfSeq
<1> QED BY <1>2, <1>3, <1>4, <1>5, <1>6 DEF Contexts!TypeOK, Contexts!Contexts

(* A call of the engine makes the thread, or takes the free one, with the   *)
(* requested context as its only co-routine.                                *)
LEMMA ExecuteKeeps ==
  ASSUME CInv, calls = <<>>, Contexts!Execute, steps' \in 0..MaxSteps
  PROVE  CInv'
<1> DEFINE c == Contexts!Requested
           new == [coRoutines |-> <<c>>, current |-> 1, keep |-> c]
           frame == [held |-> c, thread |-> 0, slot |-> 0, running |-> 0]
<1>1. /\ DOMAIN status' = DOMAIN status \cup {c}
      /\ status' \in Seq(Statuses) /\ Len(status') <= MaxContexts /\ c \in Nat \ {0}
      /\ status'[c] = "prepared"
      /\ InPool(c) \/ c \notin DOMAIN status
      /\ pool' \in Seq(DOMAIN status)
      /\ \A k, l \in 1..Len(pool') : pool'[k] = pool'[l] => k = l
      /\ \A d : InPool(d)' <=> InPool(d) /\ d # c
      /\ DOMAIN since' = DOMAIN status' /\ since'[c] = {}
      /\ \A d \in DOMAIN status : d # c => since'[d] = since[d] \ {c}
  BY RequestEffects DEF CInv, Contexts!Execute, Contexts!AddContext, Statuses
<1>2. NoThread BY DEF CInv, Shape, OneThread
<1>3. threads' = <<1>>
  <2>1. IF freeThreads = <<>> THEN threads' = Append(threads, Len(info) + 1)
                              ELSE threads' = Append(threads, Contexts!Last(freeThreads))
    BY DEF Contexts!Execute, Contexts!AddContext
  <2>2. CASE info = <<>> BY <1>2, <2>1, <2>2, EmptySeq DEF NoThread
  <2>3. CASE info # <<>>
    <3>1. freeThreads = <<1>> /\ Contexts!Last(freeThreads) = 1 BY <1>2, <2>3 DEF NoThread, Contexts!Last
    <3> QED BY <1>2, <2>1, <3>1 DEF NoThread
  <2> QED BY <2>2, <2>3
<1>4. freeThreads' = <<>>
  <2>1. freeThreads' = IF freeThreads = <<>> THEN freeThreads ELSE Contexts!Front(freeThreads)
    BY DEF Contexts!Execute, Contexts!AddContext
  <2>2. Contexts!Front(<<1>>) = <<>>
    <3>1. Contexts!Front(<<1>>) = SubSeq(<<1>>, 1, Len(<<1>>) - 1) BY DEF Contexts!Front
    <3>2. Len(<<1>>) - 1 = 0 OBVIOUS
    <3> QED BY <3>1, <3>2, SubSeqEmpty
  <2> QED BY <1>2, <2>1, <2>2 DEF NoThread
<1>5. Len(info') = 1 /\ info'[1] = new /\ info' \in Seq(Infos(DOMAIN status'))
  <2> DEFINE T == Infos(DOMAIN status')
  <2>1. CASE info = <<>>
    <3>1. freeThreads = <<>> /\ info' = Append(<<>>, new)
      <4>1. freeThreads = <<>> BY <1>2, <2>1 DEF NoThread
      <4>2. Append(<<>>, c) = <<c>> OBVIOUS
      <4> QED BY <2>1, <4>1, <4>2 DEF Contexts!Execute, Contexts!AddContext
    <3>2. new \in T BY <1>1 DEF Infos
    <3> QED BY <3>1, <3>2
  <2>2. CASE info # <<>>
    <3>1. freeThreads = <<1>> /\ Contexts!Last(freeThreads) = 1 BY <1>2, <2>2 DEF NoThread, Contexts!Last
    <3>2. info' = [info EXCEPT ![1] = new]
      <4>1. Co = <<>> BY <1>2, <2>2 DEF NoThread
      <4>2. Append(<<>>, c) = <<c>> OBVIOUS
      <4> QED BY <2>2, <3>1, <4>1, <4>2 DEF Contexts!Execute, Contexts!AddContext, Co
    <3>3. info \in Seq(Infos(DOMAIN status)) /\ Len(info) <= 1
      BY TypesOf DEF CInv, Shape
    <3>4. new \in T BY <1>1 DEF Infos
    <3> QED BY <2>2, <3>2, <3>3, <3>4, ExceptOne
  <2> QED BY <2>1, <2>2
<1>6. calls' = <<frame>> /\ currentThread' = 1 /\ fault' = fault
  BY DEF Contexts!Execute, Contexts!NoContext
<1> HIDE DEF c
<1>7. Contexts!TypeOK'
  <2>1. pool' \in Seq(DOMAIN status') BY <1>1, SeqMonotonic
  <2>2. threads' \in Seq(DOMAIN info') /\ freeThreads' \in Seq(DOMAIN info')
    <3>1. 1 \in DOMAIN info' BY <1>5, LenProperties
    <3> QED BY <1>3, <1>4, <3>1
  <2>3. calls' \in Seq(Frames(DOMAIN status')) BY <1>1, <1>6 DEF Frames
  <2>4. \A d \in DOMAIN status' : since'[d] \subseteq DOMAIN status'
    BY <1>1, TypesOf DEF CInv
  <2> QED BY <1>1, <1>5, <1>6, <2>1, <2>2, <2>3, <2>4
        DEF CInv, Contexts!TypeOK, Contexts!Contexts, Contexts!NoContext, Infos, Frames, Statuses
<1>8. /\ Co' = <<c>> /\ Cur' = 1 /\ calls' # <<>> /\ calls'[1] = frame /\ Len(calls') = 1
      /\ info' # <<>> /\ threads' # <<>> /\ ~Executes'
  BY <1>3, <1>5, <1>6 DEF Co, Cur, Executes
<1>9. Shape'
  BY <1>3, <1>4, <1>5, <1>6, <1>8 DEF CInv, Shape, OneThread
<1>10. Ready'
  BY <1>1, <1>8 DEF Ready
<1>11. Rest'
  <2>1. ASSUME NEW d \in DOMAIN status'
        PROVE  InPool(d)' <=> ~OnThread(d)' /\ (calls' # <<>> => d # calls'[1].held)
    <3>1. OnThread(d)' <=> d = c BY <1>8 DEF OnThread
    <3>2. calls'[1].held = c BY <1>8
    <3>3. d # c => InPool(d) BY <1>1, <1>2, <2>1 DEF CInv, Rest, OnThread, NoThread
    <3> QED BY <1>1, <3>1, <3>2, <3>3
  <2> QED BY <1>1, <2>1 DEF Rest
<1>12. InTurn'
  BY <1>8 DEF InTurn
<1> QED BY <1>7, <1>9, <1>10, <1>11, <1>12 DEF CInv

(* The only call is the one on top.                                         *)
LEMMA TopIsFirst ==
  ASSUME CInv, calls # <<>>
  PROVE  Len(calls) = 1 /\ Contexts!Top = calls[1] /\ (Contexts!Script(Contexts!Top) <=> Executes)
<1>1. Len(calls) = 1
  <2>1. Len(calls) \in Nat /\ Len(calls) > 0 /\ Len(calls) <= 1 BY TypesOf DEF CInv, Shape
  <2> QED BY <2>1
<1> QED BY <1>1 DEF Contexts!Top, Contexts!Last, Contexts!Script, Contexts!NoContext, Executes

(* A turn is the current co-routine's, which can be resumed: no slot        *)
(* outside the list is read and no NULL is executed.                        *)
LEMMA TurnResumes ==
  ASSUME CInv, Contexts!Turn
  PROVE  /\ OneThread /\ ~Executes /\ currentThread = 1
         /\ status[Co[Cur]] \in {"prepared", "suspended"} /\ Co[Cur] \in DOMAIN status
         /\ Contexts!Resume(1, Cur, Co[Cur])
<1>1. calls # <<>> /\ ~Executes /\ currentThread <= Len(threads)
  BY TopIsFirst DEF Contexts!Turn
<1>2. threads = <<1>> /\ currentThread = 1 /\ OneThread
  <2>1. currentThread \in Nat \ {0} BY TypesOf DEF CInv
  <2>2. Len(<<>>) = 0 /\ Len(<<1>>) = 1 BY EmptySeq
  <2>3. threads # <<>> BY <1>1, <2>1, <2>2
  <2>4. OneThread BY <2>3 DEF CInv, Shape, NoThread
  <2> QED BY <1>1, <2>1, <2>2, <2>4 DEF OneThread
<1>3. Co \in Seq(DOMAIN status) BY <1>2, TypesOf DEF CInv, OneThread, Infos, Co
<1>4. Cur \in DOMAIN Co /\ Co[Cur] \in DOMAIN status /\ Co[Cur] # 0
  BY <1>2, <1>3, LenProperties, ElementOfSeq, TypesOf DEF CInv, OneThread
<1>5. status[Co[Cur]] \in {"prepared", "suspended"}
  BY <1>1, <1>2 DEF CInv, OneThread, Ready
<1>6. threads[currentThread] = 1 BY <1>2
<1> QED BY <1>1, <1>2, <1>4, <1>5, <1>6 DEF Contexts!Turn, Contexts!NoContext, Co, Cur

(* A step puts at most one context back into the pool, unprepared, and      *)
(* leaves those that are there alone.                                       *)
GivesOne ==
  /\ DOMAIN status' = DOMAIN status
  /\ \A c \in DOMAIN status : InPool(c) => status'[c] = status[c]
  /\ pool' = pool \/ \E c \in DOMAIN status : pool' = Append(pool, c) /\ status'[c] = "pooled"

(* A turn of the current co-routine: who waits has now seen it go first,    *)
(* and it comes last in the order from there.                               *)
LEMMA TurnKeeps ==
  ASSUME CInv, Contexts!Turn
  PROVE  CInv' /\ GivesOne
<1> DEFINE c == Co[Cur]
<1>1. OneThread /\ ~Executes /\ currentThread = 1 /\ c \in DOMAIN status /\ Contexts!Resume(1, Cur, c)
  BY TurnResumes
<1>2. /\ Len(status) \in Nat /\ DOMAIN status = 1..Len(status)
      /\ status \in [DOMAIN status -> Statuses] /\ calls[1] \in Frames(DOMAIN status)
      /\ info[1] \in Infos(DOMAIN status) /\ DOMAIN since = DOMAIN status
      /\ \A d \in DOMAIN status : since[d] \subseteq DOMAIN status
      /\ calls \in Seq(Frames(DOMAIN status)) /\ Len(calls) = 1
  BY <1>1, TypesOf, TopIsFirst DEF CInv, OneThread
<1>3. /\ status' = [status EXCEPT ![c] = "active"]
      /\ since' = [d \in DOMAIN status |-> IF d = c THEN {} ELSE since[d] \cup {c}]
      /\ calls' = [calls EXCEPT ![1] = [calls[1] EXCEPT !.thread = 1, !.slot = Cur, !.running = c]]
      /\ UNCHANGED <<pool, info, threads, freeThreads, currentThread, steps, fault>>
  BY <1>1, <1>2 DEF Contexts!Resume, Contexts!Contexts
<1> HIDE DEF c
<1>4. /\ status' \in Seq(Statuses) /\ Len(status') = Len(status) /\ DOMAIN status' = DOMAIN status
      /\ \A d \in DOMAIN status : d # c => status'[d] = status[d]
  <2>1. status' \in [1..Len(status) -> Statuses] BY <1>2, <1>3 DEF Statuses
  <2> QED BY <1>1, <1>2, <1>3, <2>1, FunctionIsSeq
<1> DEFINE frame == [calls[1] EXCEPT !.thread = 1, !.slot = Cur, !.running = c]
<1>5. /\ frame \in Frames(DOMAIN status) /\ frame.held = calls[1].held /\ frame.running = c
      /\ frame.slot = Cur /\ frame.thread = 1
  <2>1. Cur \in Nat BY <1>2 DEF Infos, Cur
  <2> QED BY <1>1, <1>2, <2>1 DEF Frames
<1> HIDE DEF frame
<1>6. calls' \in Seq(Frames(DOMAIN status)) /\ Len(calls') = 1 /\ calls'[1] = frame /\ calls' # <<>>
  BY <1>1, <1>2, <1>3, <1>5, ExceptOne, EmptySeq DEF frame, OneThread
<1>7. /\ Co' = Co /\ Cur' = Cur /\ Executes' /\ info' = info /\ threads' = threads /\ pool' = pool
      /\ threads = <<1>>
  BY <1>1, <1>2, <1>3, <1>5, <1>6 DEF Co, Cur, Executes, OneThread
<1>8. Contexts!TypeOK'
  <2>1. /\ since' = [d \in DOMAIN status' |-> since'[d]]
        /\ \A d \in DOMAIN status' : since'[d] \subseteq DOMAIN status'
    BY <1>1, <1>2, <1>3, <1>4
  <2>2. DOMAIN since' = DOMAIN status' BY <1>3, <1>4
  <2> QED BY <1>3, <1>4, <1>6, <2>1, <2>2
        DEF CInv, Contexts!TypeOK, Contexts!Contexts, Contexts!NoContext, Infos, Frames, Statuses
<1>9. Shape'
  BY <1>1, <1>2, <1>3, <1>5, <1>6, <1>7 DEF CInv, Shape, OneThread, c
<1>10. Ready'
  <2>1. Co \in Seq(DOMAIN status) BY <1>1, <1>2 DEF OneThread, Infos, Co
  <2> SUFFICES ASSUME NEW i \in 1..Len(Co)
               PROVE  /\ \A j \in 1..Len(Co) : Co[i] = Co[j] => i = j
                      /\ i # Cur => status'[Co[i]] \in {"prepared", "suspended"}
    BY <1>7 DEF Ready
  <2>2. /\ \A j \in 1..Len(Co) : Co[i] = Co[j] => i = j
        /\ status[Co[i]] \in {"prepared", "suspended"}
    BY <1>1, <1>7 DEF CInv, Ready
  <2>3. i # Cur => Co[i] # c BY <1>1, <2>2 DEF c, OneThread
  <2>4. Co[i] \in DOMAIN status BY <2>1, ElementOfSeq
  <2> QED BY <1>4, <2>2, <2>3, <2>4
<1>11. Rest'
  BY <1>1, <1>3, <1>4, <1>5, <1>6, <1>7 DEF CInv, Rest, OnThread, InPool, OneThread
<1>12. InTurn'
  <2> SUFFICES ASSUME NEW i \in 1..Len(Co), NEW j \in 1..Len(Co), i # j, Co[i] \in since'[Co[j]]
               PROVE  Before(j, i)'
    BY <1>7 DEF InTurn
  <2>1. NextTurn = Cur /\ NextTurn' = Cur + 1 BY <1>1, <1>7 DEF NextTurn
  <2>2. Cur \in Nat /\ i \in Nat /\ j \in Nat
    BY <1>2 DEF Infos, Cur
  <2>3. Co[j] # c /\ j # Cur
    BY <1>1, <1>3 DEF c
  <2>4. CASE i = Cur
    BY <2>1, <2>2, <2>3, <2>4 DEF Before
  <2>5. CASE i # Cur
    <3>1. Co[i] # c BY <1>7, <2>5, <1>1 DEF CInv, Ready, OneThread, c
    <3>2. Co[i] \in since[Co[j]]
      <4>1. Co[j] \in DOMAIN status
        <5>1. Co \in Seq(DOMAIN status) BY <1>2 DEF Infos, Co
        <5> QED BY <5>1, ElementOfSeq
      <4> QED BY <1>3, <2>3, <3>1, <4>1
    <3>3. Before(j, i) BY <1>7, <3>2 DEF CInv, InTurn
    <3> QED BY <2>1, <2>2, <2>3, <2>5, <3>3 DEF Before
  <2> QED BY <2>4, <2>5
<1>13. ~InPool(c) BY <1>1, <1>7 DEF CInv, Rest, OnThread, OneThread, c
<1>14. GivesOne BY <1>3, <1>4, <1>13 DEF GivesOne
<1> QED BY <1>8, <1>9, <1>10, <1>11, <1>12, <1>14 DEF CInv

(* The next round over the threads.                                         *)
LEMMA NextRoundKeeps ==
  ASSUME CInv, Contexts!NextRound
  PROVE  CInv' /\ GivesOne
<1>1. /\ currentThread' = 1 /\ ~Executes
      /\ UNCHANGED <<status, pool, info, threads, freeThreads, calls, fault, steps, since>>
  BY TopIsFirst DEF Contexts!NextRound
<1>2. /\ Co' = Co /\ Cur' = Cur /\ Executes' = Executes
      /\ (\A c : InPool(c)' <=> InPool(c)) /\ (\A c : OnThread(c)' <=> OnThread(c))
  BY <1>1 DEF Co, Cur, Executes, InPool, OnThread
<1>3. Contexts!TypeOK'
  BY <1>1 DEF CInv, Contexts!TypeOK, Contexts!Contexts
<1>4. Shape'
  BY <1>1, <1>2 DEF CInv, Shape, NoThread, OneThread
<1>5. Ready' BY <1>1, <1>2 DEF CInv, Ready
<1>6. Rest' BY <1>1, <1>2 DEF CInv, Rest
<1>7. InTurn' BY <1>1, <1>2 DEF CInv, InTurn, Before, NextTurn
<1> QED BY <1>1, <1>3, <1>4, <1>5, <1>6, <1>7 DEF CInv, GivesOne

(* A call of the engine returns.                                            *)
LEMMA CallReturnsKeeps ==
  ASSUME CInv, Contexts!CallReturns
  PROVE  CInv' /\ GivesOne
<1> SUFFICES ASSUME NEW h, h = calls[1].held
             PROVE  CInv' /\ GivesOne
  OBVIOUS
<1>1. /\ calls # <<>> /\ threads = <<>> /\ Len(calls) = 1
      /\ pool' = Append(pool, h) /\ status' = [status EXCEPT ![h] = "pooled"]
      /\ calls' = Contexts!Front(calls)
      /\ UNCHANGED <<info, threads, freeThreads, currentThread, fault, steps, since>>
  BY TopIsFirst DEF Contexts!CallReturns
<1>2. /\ Len(status) \in Nat /\ DOMAIN status = 1..Len(status)
      /\ status \in [DOMAIN status -> Statuses] /\ h \in DOMAIN status
      /\ pool \in Seq(DOMAIN status) /\ calls \in Seq(Frames(DOMAIN status))
  BY <1>1, TypesOf DEF CInv, Frames
<1>3. status' \in Seq(Statuses) /\ Len(status') = Len(status) /\ DOMAIN status' = DOMAIN status
  <2>1. status' \in [1..Len(status) -> Statuses] BY <1>1, <1>2 DEF Statuses
  <2> QED BY <1>1, <1>2, <2>1, FunctionIsSeq
<1>4. calls' = <<>>
  <2>1. calls' \in Seq(Frames(DOMAIN status)) /\ Len(calls') = 0 BY <1>1, <1>2, LastAndFront
  <2> QED BY <2>1, EmptySeq
<1>5. /\ pool' \in Seq(DOMAIN status) /\ Len(pool) \in Nat /\ Len(pool') = Len(pool) + 1
      /\ (\A k \in 1..Len(pool) : pool'[k] = pool[k]) /\ pool'[Len(pool) + 1] = h
  BY <1>1, <1>2, AppendProperties, LenProperties
<1>6. Contexts!TypeOK'
  <2>1. calls' \in Seq(Frames(DOMAIN status)) BY <1>4
  <2> QED BY <1>1, <1>3, <1>5, <2>1
        DEF CInv, Contexts!TypeOK, Contexts!Contexts, Contexts!NoContext, Frames, Statuses
<1>7. Shape'
  BY <1>1, <1>4, EmptySeq DEF CInv, Shape, NoThread, OneThread, Co, Cur, Executes
<1>8. Ready' /\ InTurn' BY <1>1 DEF Ready, InTurn
<1>9. Rest'
  <2>1. ~InPool(h) BY <1>1, <1>2 DEF CInv, Rest, OnThread
  <2>2. \A k, l \in 1..Len(pool') : pool'[k] = pool'[l] => k = l
    <3> SUFFICES ASSUME NEW k \in 1..Len(pool'), NEW l \in 1..Len(pool'), pool'[k] = pool'[l]
                 PROVE  k = l
      OBVIOUS
    <3>1. k \in 1..Len(pool) \/ k = Len(pool) + 1 BY <1>5
    <3>2. l \in 1..Len(pool) \/ l = Len(pool) + 1 BY <1>5
    <3> QED BY <1>5, <2>1, <3>1, <3>2 DEF CInv, Rest, InPool
  <2>3. ASSUME NEW c \in DOMAIN status PROVE InPool(c)' <=> InPool(c) \/ c = h
    <3>1. InPool(c)' => InPool(c) \/ c = h BY <1>5 DEF InPool
    <3>2. InPool(c) => InPool(c)' BY <1>5 DEF InPool
    <3>3. InPool(h)' BY <1>5 DEF InPool
    <3> QED BY <3>1, <3>2, <3>3
  <2> QED BY <1>1, <1>3, <1>4, <2>2, <2>3 DEF CInv, Rest, OnThread
<1>10. GivesOne
  <2>1. ~InPool(h) BY <1>1, <1>2 DEF CInv, Rest, OnThread
  <2> QED BY <1>1, <1>2, <1>3, <2>1 DEF GivesOne
<1> QED BY <1>6, <1>7, <1>8, <1>9, <1>10 DEF CInv

(* While a script runs, the frame of the call and the thread agree.         *)
LEMMA ScriptRuns ==
  ASSUME CInv, Executes
  PROVE  /\ OneThread /\ currentThread = 1 /\ calls[1].thread = 1 /\ calls[1].slot = Cur
         /\ calls[1].running = Co[Cur] /\ Co[Cur] \in DOMAIN status
         /\ Co \in Seq(DOMAIN status) /\ Len(Co) \in Nat /\ Cur \in 1..Len(Co)
         /\ info \in Seq(Infos(DOMAIN status)) /\ info # <<>> /\ info[1] \in Infos(DOMAIN status)
         /\ info[1].keep = calls[1].held /\ Len(info) = 1
         /\ Contexts!Top = calls[1] /\ Len(calls) = 1 /\ calls # <<>>
<1>1. OneThread BY DEF CInv, Shape, NoThread
<1>2. Co \in Seq(DOMAIN status) BY <1>1, TypesOf DEF CInv, OneThread, Infos, Co
<1>3. Len(info) = 1
  <2>1. Len(info) \in Nat /\ Len(info) > 0 /\ Len(info) <= 1 BY <1>1, TypesOf DEF CInv, Shape, OneThread
  <2>2. \A n \in Nat : n > 0 /\ n <= 1 => n = 1 OBVIOUS
  <2> QED BY <2>1, <2>2
<1> QED BY <1>1, <1>2, <1>3, TypesOf, TopIsFirst, LenProperties, ElementOfSeq DEF CInv, OneThread

(* The running co-routine yields and the turn goes to the next.             *)
LEMMA YieldKeeps ==
  ASSUME CInv, Contexts!Yield
  PROVE  CInv' /\ GivesOne
<1> DEFINE c == Co[Cur]
           next == IF Cur + 1 > Len(Co) THEN 1 ELSE Cur + 1
           new == [info[1] EXCEPT !.current = next]
           frame == [calls[1] EXCEPT !.running = 0]
<1>0. Executes BY TopIsFirst DEF Contexts!Yield
<1>1. /\ OneThread /\ currentThread = 1 /\ calls[1].thread = 1 /\ calls[1].slot = Cur
      /\ calls[1].running = c /\ c \in DOMAIN status
      /\ Co \in Seq(DOMAIN status) /\ Len(Co) \in Nat /\ Cur \in 1..Len(Co)
      /\ info \in Seq(Infos(DOMAIN status)) /\ info # <<>> /\ info[1] \in Infos(DOMAIN status)
      /\ info[1].keep = calls[1].held /\ Len(info) = 1
      /\ Contexts!Top = calls[1] /\ Len(calls) = 1 /\ calls # <<>>
  BY <1>0, ScriptRuns
<1>2. threads[currentThread] = 1 /\ ~(currentThread > Len(threads)) BY <1>1 DEF OneThread
<1>3. /\ info' = [info EXCEPT ![1].current = next]
      /\ status' = [status EXCEPT ![c] = "suspended"]
      /\ calls' = [calls EXCEPT ![1].running = 0]
      /\ currentThread' = 2 /\ steps < MaxSteps /\ steps' = steps + 1
      /\ UNCHANGED <<pool, threads, freeThreads, fault, since>>
  BY <1>1, <1>2 DEF Contexts!Yield, Contexts!Suspended, Contexts!NextCoRoutine, Contexts!NoContext, Co, Cur
<1>4. /\ Len(status) \in Nat /\ DOMAIN status = 1..Len(status)
      /\ status \in [DOMAIN status -> Statuses]
      /\ calls \in Seq(Frames(DOMAIN status)) /\ calls[1] \in Frames(DOMAIN status)
  BY <1>1, TypesOf DEF CInv
<1>5. next \in 1..Len(Co) BY <1>1
<1>6. new \in Infos(DOMAIN status) /\ new.coRoutines = Co /\ new.current = next /\ new.keep = info[1].keep
  <2>1. next \in Nat \ {0} BY <1>5
  <2> HIDE DEF next
  <2> QED BY <1>1, <2>1 DEF Infos, Co
<1>7. frame \in Frames(DOMAIN status) /\ frame.held = calls[1].held /\ frame.running = 0
  BY <1>4 DEF Frames
<1> HIDE DEF next, c
<1>8. info' \in Seq(Infos(DOMAIN status)) /\ Len(info') = 1 /\ info'[1] = new /\ info' # <<>>
  <2>1. info' = [info EXCEPT ![1] = new] BY <1>3
  <2> HIDE DEF new
  <2> QED BY <1>1, <1>6, <2>1, ExceptOne, EmptySeq
<1>9. calls' \in Seq(Frames(DOMAIN status)) /\ Len(calls') = 1 /\ calls'[1] = frame /\ calls' # <<>>
  <2>1. calls' = [calls EXCEPT ![1] = frame] BY <1>3
  <2> HIDE DEF frame
  <2> QED BY <1>1, <1>4, <1>7, <2>1, ExceptOne, EmptySeq
<1> HIDE DEF new, frame
<1>10. /\ status' \in Seq(Statuses) /\ Len(status') = Len(status) /\ DOMAIN status' = DOMAIN status
       /\ (\A d \in DOMAIN status : d # c => status'[d] = status[d]) /\ status'[c] = "suspended"
  <2>1. status' \in [1..Len(status) -> Statuses] BY <1>3, <1>4 DEF Statuses
  <2>2. status' \in Seq(Statuses) /\ Len(status') = Len(status) BY <1>4, <2>1, FunctionIsSeq
  <2>3. DOMAIN status' = DOMAIN status BY <1>3
  <2> QED BY <1>1, <1>3, <1>4, <2>2, <2>3
<1>11. Co' = Co /\ Cur' = next /\ ~Executes' /\ threads' = <<1>> /\ threads = <<1>>
  BY <1>1, <1>3, <1>6, <1>7, <1>8, <1>9 DEF Co, Cur, Executes, OneThread
<1>12. Contexts!TypeOK'
  <2>1. threads' \in Seq(DOMAIN info') /\ freeThreads' \in Seq(DOMAIN info')
    <3>1. 1 \in DOMAIN info' BY <1>8, LenProperties
    <3>2. freeThreads' = <<>> BY <1>1, <1>3 DEF OneThread
    <3> QED BY <1>11, <3>1, <3>2
  <2>2. steps' \in 0..MaxSteps
    BY <1>3, BoundsArePositive DEF CInv, Contexts!TypeOK
  <2>3. /\ pool' \in Seq(DOMAIN status') /\ Len(status') <= MaxContexts /\ currentThread' \in Nat \ {0}
        /\ fault' \in BOOLEAN /\ DOMAIN since' = DOMAIN status'
        /\ \A d \in DOMAIN status' : since'[d] \subseteq DOMAIN status'
    BY <1>3, <1>10 DEF CInv, Contexts!TypeOK, Contexts!Contexts
  <2> QED BY <1>8, <1>9, <1>10, <2>1, <2>2, <2>3
        DEF CInv, Contexts!TypeOK, Contexts!Contexts, Contexts!NoContext, Infos, Frames, Statuses
<1>13. Shape'
  BY <1>1, <1>3, <1>5, <1>6, <1>7, <1>8, <1>9, <1>11 DEF CInv, Shape, OneThread
<1>14. Ready'
  <2> SUFFICES ASSUME NEW i \in 1..Len(Co)
               PROVE  /\ \A j \in 1..Len(Co) : Co[i] = Co[j] => i = j
                      /\ status'[Co[i]] \in {"prepared", "suspended"}
    BY <1>11 DEF Ready
  <2>1. /\ \A j \in 1..Len(Co) : Co[i] = Co[j] => i = j
        /\ i # Cur => status[Co[i]] \in {"prepared", "suspended"}
    BY <1>11 DEF CInv, Ready
  <2>2. i # Cur => Co[i] # c BY <1>1, <2>1 DEF c
  <2>3. Co[i] \in DOMAIN status BY <1>1, ElementOfSeq
  <2> QED BY <1>10, <2>1, <2>2, <2>3 DEF c
<1>15. Rest'
  BY <1>1, <1>3, <1>7, <1>9, <1>10, <1>11 DEF CInv, Rest, OnThread, InPool
<1>16. InTurn'
  <2> SUFFICES ASSUME NEW i \in 1..Len(Co), NEW j \in 1..Len(Co), i # j, Co[i] \in since[Co[j]]
               PROVE  Before(j, i)'
    BY <1>3, <1>11 DEF InTurn
  <2>1. NextTurn = Cur + 1 /\ NextTurn' = next BY <1>0, <1>11 DEF NextTurn
  <2>2. Before(j, i) BY <1>11 DEF CInv, InTurn
  <2> QED BY <1>1, <2>1, <2>2 DEF Before, next
<1>17. GivesOne
  <2>1. ~InPool(c) BY <1>1, <1>11 DEF CInv, Rest, OnThread, c
  <2> QED BY <1>3, <1>10, <2>1 DEF GivesOne
<1> QED BY <1>12, <1>13, <1>14, <1>15, <1>16, <1>17 DEF CInv

(* The running co-routine creates another, which goes last.                 *)
LEMMA SpawnKeeps ==
  ASSUME CInv, Contexts!Spawn
  PROVE  CInv'
<1> SUFFICES ASSUME NEW c, c = Contexts!Requested
             PROVE  CInv'
  OBVIOUS
<1> DEFINE new == [info[1] EXCEPT !.coRoutines = Append(Co, c)]
<1>0. Executes BY TopIsFirst DEF Contexts!Spawn
<1>1. /\ OneThread /\ currentThread = 1 /\ calls[1].thread = 1 /\ calls[1].slot = Cur
      /\ calls[1].running = Co[Cur] /\ Co[Cur] \in DOMAIN status
      /\ Co \in Seq(DOMAIN status) /\ Len(Co) \in Nat /\ Cur \in 1..Len(Co)
      /\ info \in Seq(Infos(DOMAIN status)) /\ info # <<>> /\ info[1] \in Infos(DOMAIN status)
      /\ info[1].keep = calls[1].held /\ Len(info) = 1
      /\ Contexts!Top = calls[1] /\ Len(calls) = 1 /\ calls # <<>>
  BY <1>0, ScriptRuns
<1>2. /\ DOMAIN status' = DOMAIN status \cup {c}
      /\ status' \in Seq(Statuses) /\ Len(status') <= MaxContexts /\ c \in Nat \ {0}
      /\ status'[c] = "prepared"
      /\ (\A d \in DOMAIN status : d # c => status'[d] = status[d])
      /\ InPool(c) \/ c \notin DOMAIN status
      /\ pool' \in Seq(DOMAIN status)
      /\ \A k, l \in 1..Len(pool') : pool'[k] = pool'[l] => k = l
      /\ \A d : InPool(d)' <=> InPool(d) /\ d # c
      /\ DOMAIN since' = DOMAIN status' /\ since'[c] = {}
      /\ \A d \in DOMAIN status : d # c => since'[d] = since[d] \ {c}
  BY RequestEffects DEF CInv, Contexts!Spawn, Statuses
<1>3. /\ UNCHANGED <<threads, freeThreads, currentThread, calls, fault>>
      /\ steps < MaxSteps /\ steps' = steps + 1
  BY DEF Contexts!Spawn
<1>4. info' = [t \in {1} |-> new]
  <2>1. DOMAIN info = {1}
    <3>1. DOMAIN info = 1..1 BY <1>1, LenProperties
    <3> QED BY <3>1
  <2>2. 1 \in Contexts!ToSet(threads)
    <3>1. threads = <<1>> /\ DOMAIN <<1>> = {1} BY <1>1 DEF OneThread
    <3> QED BY <3>1 DEF Contexts!ToSet
  <2> QED BY <1>1, <2>1, <2>2 DEF Contexts!Spawn, Co, Cur
<1>5. calls[1] \in Frames(DOMAIN status) /\ calls \in Seq(Frames(DOMAIN status))
  BY <1>1, TypesOf DEF CInv
<1>6. c # calls[1].held /\ (\A i \in 1..Len(Co) : Co[i] # c /\ Co[i] \in DOMAIN status)
  <2>1. calls[1].held \in DOMAIN status BY <1>5 DEF Frames
  <2>2. \A i \in 1..Len(Co) : Co[i] \in DOMAIN status BY <1>1, ElementOfSeq
  <2>3. \A i \in 1..Len(Co) : OnThread(Co[i]) BY <1>1 DEF OnThread, OneThread
  <2>4. \A d \in DOMAIN status : InPool(d) => ~OnThread(d) /\ d # calls[1].held
    BY <1>1 DEF CInv, Rest
  <2> QED BY <1>2, <2>1, <2>2, <2>3, <2>4
<1>7. /\ Append(Co, c) \in Seq(DOMAIN status') /\ Len(Append(Co, c)) = Len(Co) + 1
      /\ \A i \in 1..Len(Co) : Append(Co, c)[i] = Co[i]
      /\ Append(Co, c)[Len(Co) + 1] = c
  <2>1. Co \in Seq(DOMAIN status') /\ c \in DOMAIN status' BY <1>1, <1>2, SeqMonotonic
  <2> QED BY <2>1, AppendProperties
<1>8. /\ new \in Infos(DOMAIN status') /\ new.coRoutines = Append(Co, c) /\ new.current = Cur
      /\ new.keep = info[1].keep
  BY <1>1, <1>2, <1>7 DEF Infos, Cur
<1> HIDE DEF new
<1>9. info' \in Seq(Infos(DOMAIN status')) /\ Len(info') = 1 /\ info'[1] = new /\ info' # <<>>
  <2>1. info'[1] = new BY <1>4
  <2>2. DOMAIN info' = 1..1 /\ info' \in [1..1 -> Infos(DOMAIN status')] BY <1>4, <1>8
  <2>3. info' \in Seq(Infos(DOMAIN status')) /\ Len(info') = 1 BY <2>2, FunctionIsSeq
  <2> QED BY <2>1, <2>3, EmptySeq
<1>10. Co' = Append(Co, c) /\ Cur' = Cur /\ Executes' /\ threads' = <<1>> /\ threads = <<1>>
  BY <1>0, <1>1, <1>3, <1>8, <1>9 DEF Co, Cur, Executes, OneThread
<1> DEFINE n == Len(Co)
<1>11. Contexts!TypeOK'
  <2>1. threads' \in Seq(DOMAIN info') /\ freeThreads' \in Seq(DOMAIN info')
    <3>1. 1 \in DOMAIN info' BY <1>9, LenProperties
    <3>2. freeThreads' = <<>> BY <1>1, <1>3 DEF OneThread
    <3> QED BY <1>10, <3>1, <3>2
  <2>2. steps' \in 0..MaxSteps
    BY <1>3, BoundsArePositive DEF CInv, Contexts!TypeOK
  <2>3. calls' \in Seq(Frames(DOMAIN status'))
    <3>1. Frames(DOMAIN status) \subseteq Frames(DOMAIN status') BY <1>2 DEF Frames
    <3> QED BY <1>3, <1>5, <3>1, SeqMonotonic
  <2>4. pool' \in Seq(DOMAIN status') BY <1>2, SeqMonotonic
  <2>5. \A d \in DOMAIN status' : since'[d] \subseteq DOMAIN status'
    BY <1>2, TypesOf DEF CInv
  <2>6. currentThread' \in Nat \ {0} /\ fault' \in BOOLEAN BY <1>3 DEF CInv, Contexts!TypeOK
  <2> QED BY <1>2, <1>9, <2>1, <2>2, <2>3, <2>4, <2>5, <2>6
        DEF Contexts!TypeOK, Contexts!Contexts, Contexts!NoContext, Infos, Frames, Statuses
<1>12. Len(Co') = n + 1 /\ n \in Nat /\ (\A i \in 1..n : Co'[i] = Co[i]) /\ Co'[n + 1] = c /\ Cur \in 1..n
  BY <1>1, <1>7, <1>10
<1>13. Shape'
  <2>1. /\ calls'[1] = calls[1] /\ currentThread' = 1 /\ freeThreads' = <<>> /\ ~fault'
        /\ Len(calls') = 1 /\ calls' # <<>>
    BY <1>1, <1>3 DEF CInv, Shape, OneThread
  <2>2. Co'[Cur'] = Co[Cur] /\ Cur' \in 1..Len(Co') BY <1>10, <1>12
  <2>3. info'[1].keep = calls'[1].held BY <1>1, <1>8, <1>9, <2>1
  <2> QED BY <1>1, <1>9, <1>10, <2>1, <2>2, <2>3 DEF Shape, OneThread
<1>14. Ready'
  <2> SUFFICES ASSUME NEW i \in 1..(n + 1)
               PROVE  /\ \A j \in 1..(n + 1) : Co'[i] = Co'[j] => i = j
                      /\ i # Cur => status'[Co'[i]] \in {"prepared", "suspended"}
    BY <1>10, <1>12 DEF Ready
  <2>1. \A j \in 1..(n + 1) : j \in 1..n \/ j = n + 1 BY <1>12
  <2>2. CASE i \in 1..n
    <3>1. /\ \A j \in 1..n : Co[i] = Co[j] => i = j
          /\ i # Cur => status[Co[i]] \in {"prepared", "suspended"}
      BY <1>10, <2>2 DEF CInv, Ready
    <3> QED BY <1>2, <1>6, <1>12, <2>1, <2>2, <3>1
  <2>3. CASE i = n + 1
    BY <1>2, <1>6, <1>12, <2>1, <2>3
  <2> QED BY <2>1, <2>2, <2>3
<1>15. Rest'
  <2>1. ASSUME NEW d \in DOMAIN status'
        PROVE  InPool(d)' <=> ~OnThread(d)' /\ d # calls[1].held
    <3>1. OnThread(d)' <=> OnThread(d) \/ d = c
      <4>1. OnThread(d)' <=> \E i \in 1..(n + 1) : Co'[i] = d BY <1>10, <1>12 DEF OnThread
      <4>2. OnThread(d) <=> \E i \in 1..n : Co[i] = d BY <1>10 DEF OnThread
      <4>3. \A i \in 1..(n + 1) : i \in 1..n \/ i = n + 1 BY <1>12
      <4>4. n + 1 \in 1..(n + 1) /\ \A i \in 1..n : i \in 1..(n + 1) BY <1>12
      <4> QED BY <1>12, <4>1, <4>2, <4>3, <4>4
    <3>2. d # c => (InPool(d) <=> ~OnThread(d) /\ d # calls[1].held)
      BY <1>1, <1>2 DEF CInv, Rest
    <3>3. CASE d = c
      <4>1. ~InPool(d)' BY <1>2, <3>3
      <4>2. OnThread(d)' BY <3>1, <3>3
      <4> QED BY <4>1, <4>2
    <3>4. CASE d # c
      <4>1. InPool(d)' <=> InPool(d) BY <1>2, <3>4
      <4>2. OnThread(d)' <=> OnThread(d) BY <3>1, <3>4
      <4> QED BY <3>2, <3>4, <4>1, <4>2
    <3> QED BY <3>3, <3>4
  <2>2. calls' # <<>> /\ calls'[1].held = calls[1].held BY <1>1, <1>3
  <2>3. \A k, l \in 1..Len(pool') : pool'[k] = pool'[l] => k = l BY <1>2
  <2> QED BY <2>1, <2>2, <2>3 DEF Rest
<1>16. InTurn'
  <2> SUFFICES ASSUME NEW i \in 1..(n + 1), NEW j \in 1..(n + 1), i # j, Co'[i] \in since'[Co'[j]]
               PROVE  Before(j, i)'
    BY <1>10, <1>12 DEF InTurn
  <2>1. NextTurn = Cur + 1 /\ NextTurn' = Cur + 1 BY <1>0, <1>10 DEF NextTurn
  <2>2. j \in 1..n
    <3>1. Co'[j] # c BY <1>2
    <3> QED BY <1>12, <3>1
  <2>3. since'[Co[j]] = since[Co[j]] \ {c} BY <1>2, <1>6, <2>2
  <2>4. i \in 1..n /\ Co[i] \in since[Co[j]]
    <3>1. Co'[i] # c BY <1>12, <2>2, <2>3
    <3> QED BY <1>12, <2>2, <2>3, <3>1
  <2>5. Before(j, i) BY <1>10, <2>2, <2>4 DEF CInv, InTurn
  <2> QED BY <1>12, <2>1, <2>5 DEF Before
<1> QED BY <1>11, <1>13, <1>14, <1>15, <1>16 DEF CInv

(* The running co-routine ends and leaves its thread.                       *)
LEMMA FinishKeeps ==
  ASSUME CInv, Contexts!Finish
  PROVE  CInv' /\ GivesOne
<1> SUFFICES ASSUME NEW c, c = Co[Cur]
             PROVE  CInv' /\ GivesOne
  OBVIOUS
<1> DEFINE n == Len(Co)
           rest == Contexts!RemoveAt([Co EXCEPT ![Cur] = 0], Cur)
           next == IF Cur > Len(rest) THEN 1 ELSE Cur
           new == [info[1] EXCEPT !.coRoutines = rest, !.current = next]
           frame == [calls[1] EXCEPT !.running = 0]
           kept == info[1].keep = c
<1>0. Executes BY TopIsFirst DEF Contexts!Finish
<1>1. /\ OneThread /\ currentThread = 1 /\ calls[1].thread = 1 /\ calls[1].slot = Cur
      /\ calls[1].running = c /\ c \in DOMAIN status
      /\ Co \in Seq(DOMAIN status) /\ n \in Nat /\ Cur \in 1..n
      /\ info \in Seq(Infos(DOMAIN status)) /\ info # <<>> /\ info[1] \in Infos(DOMAIN status)
      /\ info[1].keep = calls[1].held /\ Len(info) = 1
      /\ Contexts!Top = calls[1] /\ Len(calls) = 1 /\ calls # <<>>
      /\ threads = <<1>> /\ freeThreads = <<>>
  BY <1>0, ScriptRuns DEF OneThread
<1>2. /\ rest \in Seq(DOMAIN status) /\ Len(rest) = n - 1
      /\ \A k \in 1..(n - 1) : rest[k] = IF k < Cur THEN Co[k] ELSE Co[k + 1]
  <2> DEFINE t == [Co EXCEPT ![Cur] = 0]
  <2>1. Co \in Seq(DOMAIN status) /\ Cur \in 1..Len(Co) /\ Co \in [1..n -> DOMAIN status]
    BY <1>1, LenProperties
  <2>2. \A k \in 1..Len(Co) : k # Cur => t[k] = Co[k] BY <2>1
  <2>3. t \in [1..n -> DOMAIN status \cup {0}] BY <2>1
  <2> HIDE DEF t
  <2>4. Len(t) = Len(Co) BY <1>1, <2>3, FunctionIsSeq
  <2>5. rest = Contexts!RemoveAt(t, Cur) BY DEF t
  <2>6. /\ Contexts!RemoveAt(t, Cur) \in Seq(DOMAIN status)
        /\ Len(Contexts!RemoveAt(t, Cur)) = Len(Co) - 1
        /\ \A k \in 1..(Len(Co) - 1) :
             Contexts!RemoveAt(t, Cur)[k] = IF k < Cur THEN Co[k] ELSE Co[k + 1]
    <3>1. PICK S : S = DOMAIN status OBVIOUS
    <3>2. PICK s : s = Co OBVIOUS
    <3>3. PICK i : i = Cur OBVIOUS
    <3>4. PICK u : u = t OBVIOUS
    <3>5. /\ s \in Seq(S) /\ i \in 1..Len(s) /\ Len(u) = Len(s)
          /\ \A k \in 1..Len(s) : k # i => u[k] = s[k]
      BY <2>1, <2>2, <2>4, <3>1, <3>2, <3>3, <3>4
    <3>6. /\ Contexts!RemoveAt(u, i) \in Seq(S) /\ Len(Contexts!RemoveAt(u, i)) = Len(s) - 1
          /\ \A k \in 1..(Len(s) - 1) :
               Contexts!RemoveAt(u, i)[k] = IF k < i THEN s[k] ELSE s[k + 1]
      BY <3>5, RemoveAtEffects
    <3> QED BY <3>1, <3>2, <3>3, <3>4, <3>6
  <2> HIDE DEF rest
  <2> QED BY <2>5, <2>6
<1>3. /\ calls' = [calls EXCEPT ![1].running = 0]
      /\ pool' = IF kept THEN pool ELSE Append(pool, c)
      /\ status' = [status EXCEPT ![c] = IF kept THEN "ended" ELSE "pooled"]
      /\ info' = [info EXCEPT ![1].coRoutines = rest, ![1].current = next]
      /\ IF rest = <<>>
         THEN /\ freeThreads' = Append(freeThreads, 1)
              /\ threads' = Contexts!RemoveAt(threads, currentThread)
              /\ currentThread' = currentThread
         ELSE currentThread' = currentThread + 1 /\ freeThreads' = freeThreads /\ threads' = threads
      /\ UNCHANGED <<fault, steps, since>>
  <2>1. Cur \in DOMAIN info[1].coRoutines /\ info[1].coRoutines[Cur] # 0
    BY <1>1, LenProperties, TypesOf DEF Co, CInv
  <2>2. Contexts!Terminated(1, Cur, "ended") /\ calls' = [calls EXCEPT ![1].running = 0]
        /\ UNCHANGED <<fault, steps, since>>
    BY <1>1, <2>1 DEF Contexts!Finish, Contexts!NoContext
  <2>3. Contexts!KeepsContext(1, Cur) <=> kept BY DEF Contexts!KeepsContext, Co
  <2>4. Contexts!Drop(1, Cur)
        /\ pool' = (IF kept THEN pool ELSE Append(pool, c))
        /\ status' = [status EXCEPT ![c] = IF kept THEN "ended" ELSE "pooled"]
    BY <2>2, <2>3 DEF Contexts!Terminated, Co
  <2> QED BY <2>2, <2>4 DEF Contexts!Drop, Contexts!NoContext, Co, Cur
<1>4. /\ Len(status) \in Nat /\ DOMAIN status = 1..Len(status)
      /\ status \in [DOMAIN status -> Statuses] /\ pool \in Seq(DOMAIN status)
      /\ calls \in Seq(Frames(DOMAIN status)) /\ calls[1] \in Frames(DOMAIN status)
  BY <1>1, TypesOf DEF CInv
<1> HIDE DEF rest
<1>5. next \in Nat \ {0} /\ (n > 1 => next \in 1..(n - 1)) BY <1>1, <1>2
<1>6. /\ new \in Infos(DOMAIN status) /\ new.coRoutines = rest /\ new.current = next
      /\ new.keep = info[1].keep
  <2> HIDE DEF next
  <2> QED BY <1>1, <1>2, <1>5 DEF Infos
<1>7. frame \in Frames(DOMAIN status) /\ frame.held = calls[1].held /\ frame.running = 0
  BY <1>4 DEF Frames
<1>8. info' \in Seq(Infos(DOMAIN status)) /\ Len(info') = 1 /\ info'[1] = new /\ info' # <<>>
  <2>1. info' = [info EXCEPT ![1] = new]
    <3> HIDE DEF next
    <3> QED BY <1>1, <1>3
  <2> HIDE DEF new
  <2> QED BY <1>1, <1>6, <2>1, ExceptOne, EmptySeq
<1>9. calls' \in Seq(Frames(DOMAIN status)) /\ Len(calls') = 1 /\ calls'[1] = frame /\ calls' # <<>>
  <2>1. calls' = [calls EXCEPT ![1] = frame] BY <1>3
  <2> HIDE DEF frame
  <2> QED BY <1>1, <1>4, <1>7, <2>1, ExceptOne, EmptySeq
<1> HIDE DEF frame, next, new
<1>10. /\ status' \in Seq(Statuses) /\ Len(status') = Len(status) /\ DOMAIN status' = DOMAIN status
       /\ \A d \in DOMAIN status : d # c => status'[d] = status[d]
  <2>1. status' \in [1..Len(status) -> Statuses] BY <1>3, <1>4 DEF Statuses
  <2>2. status' \in Seq(Statuses) /\ Len(status') = Len(status) BY <1>4, <2>1, FunctionIsSeq
  <2> QED BY <1>3, <1>4, <2>2
<1>11. Co' = rest /\ Cur' = next /\ ~Executes' BY <1>6, <1>7, <1>8, <1>9 DEF Co, Cur, Executes
<1>12. /\ rest = <<>> <=> n = 1
       /\ threads' = IF n = 1 THEN <<>> ELSE <<1>>
       /\ freeThreads' = IF n = 1 THEN <<1>> ELSE <<>>
       /\ currentThread' \in Nat \ {0}
  <2>1. rest = <<>> <=> n = 1
    <3>1. rest = <<>> <=> Len(rest) = 0 BY <1>2, EmptySeq
    <3> QED BY <1>1, <1>2, <3>1
  <2>2. Contexts!RemoveAt(<<1>>, 1) = <<>>
    <3>1. Contexts!RemoveAt(<<1>>, 1) = SubSeq(<<1>>, 1, 1 - 1) \o SubSeq(<<1>>, 1 + 1, Len(<<1>>))
      BY DEF Contexts!RemoveAt
    <3>2. SubSeq(<<1>>, 1, 1 - 1) = <<>> BY SubSeqEmpty
    <3>3. SubSeq(<<1>>, 1 + 1, Len(<<1>>)) = <<>> 
      <4>1. Len(<<1>>) = 1 OBVIOUS
      <4> QED BY <4>1, SubSeqEmpty
    <3> QED BY <3>1, <3>2, <3>3
  <2> QED BY <1>1, <1>3, <2>1, <2>2
<1>13. Contexts!TypeOK'
  <2>1. threads' \in Seq(DOMAIN info') /\ freeThreads' \in Seq(DOMAIN info')
    <3>1. 1 \in DOMAIN info' BY <1>8, LenProperties
    <3>2. <<>> \in Seq(DOMAIN info') /\ <<1>> \in Seq(DOMAIN info') BY <3>1
    <3> QED BY <1>12, <3>2
  <2>2. pool' \in Seq(DOMAIN status') BY <1>1, <1>3, <1>4, <1>10, AppendProperties
  <2>3. /\ Len(status') <= MaxContexts /\ steps' \in 0..MaxSteps
        /\ fault' \in BOOLEAN /\ DOMAIN since' = DOMAIN status'
        /\ \A d \in DOMAIN status' : since'[d] \subseteq DOMAIN status'
    BY <1>3, <1>10 DEF CInv, Contexts!TypeOK, Contexts!Contexts
  <2> QED BY <1>8, <1>9, <1>10, <1>12, <2>1, <2>2, <2>3
        DEF Contexts!TypeOK, Contexts!Contexts, Contexts!NoContext, Infos, Frames, Statuses
<1>14. Shape'
  <2>1. CASE n = 1
    BY <1>3, <1>8, <1>9, <1>11, <1>12, <2>1 DEF CInv, Shape, NoThread
  <2>2. CASE n # 1
    <3>1. Cur' \in 1..Len(Co') BY <1>1, <1>2, <1>5, <1>11, <2>2
    <3>2. info'[1].keep = calls'[1].held BY <1>1, <1>6, <1>7, <1>8, <1>9
    <3> QED BY <1>3, <1>8, <1>9, <1>11, <1>12, <2>2, <3>1, <3>2 DEF CInv, Shape, OneThread
  <2> QED BY <2>1, <2>2
<1> DEFINE old(k) == IF k < Cur THEN k ELSE k + 1
<1>15. ASSUME NEW k \in 1..(n - 1)
       PROVE  old(k) \in 1..n /\ old(k) # Cur /\ rest[k] = Co[old(k)]
  BY <1>1, <1>2
<1>16. \A i, j \in 1..n : Co[i] = Co[j] => i = j
  BY <1>1 DEF CInv, Ready
<1>17. Ready'
  <2> SUFFICES ASSUME NEW i \in 1..(n - 1)
               PROVE  /\ \A j \in 1..(n - 1) : rest[i] = rest[j] => i = j
                      /\ status'[rest[i]] \in {"prepared", "suspended"}
    BY <1>2, <1>11 DEF Ready
  <2>1. ASSUME NEW j \in 1..(n - 1), rest[i] = rest[j] PROVE i = j
    <3>1. old(i) = old(j) BY <1>15, <1>16, <2>1
    <3> QED BY <1>1, <3>1
  <2>2. status[rest[i]] \in {"prepared", "suspended"} BY <1>1, <1>15 DEF CInv, Ready
  <2>3. rest[i] # c /\ rest[i] \in DOMAIN status BY <1>1, <1>15, <1>16, ElementOfSeq
  <2> QED BY <1>10, <2>1, <2>2, <2>3
<1>18. Rest'
  <2>1. ASSUME NEW d
        PROVE  OnThread(d)' <=> OnThread(d) /\ d # c
    <3>1. ASSUME OnThread(d)' PROVE OnThread(d) /\ d # c
      <4>1. PICK k \in 1..(n - 1) : rest[k] = d BY <1>2, <1>11, <3>1 DEF OnThread
      <4>2. Co[old(k)] = d /\ old(k) \in 1..n /\ old(k) # Cur BY <1>15, <4>1
      <4> QED BY <1>1, <1>16, <4>2 DEF OnThread
    <3>2. ASSUME OnThread(d), d # c PROVE OnThread(d)'
      <4>1. PICK i \in 1..n : Co[i] = d BY <3>2 DEF OnThread
      <4>2. i # Cur BY <3>2, <4>1
      <4>3. PICK k \in 1..(n - 1) : old(k) = i
        <5>1. CASE i < Cur
          <6>1. i \in 1..(n - 1) /\ old(i) = i BY <1>1, <5>1
          <6> QED BY <6>1
        <5>2. CASE i > Cur
          <6>1. i - 1 \in 1..(n - 1) /\ old(i - 1) = i BY <1>1, <5>2
          <6> QED BY <6>1
        <5>3. i \in Int /\ Cur \in Int BY <1>1
        <5>4. i < Cur \/ i > Cur BY <4>2, <5>3
        <5> QED BY <5>1, <5>2, <5>4
      <4>4. rest[k] = d BY <1>15, <4>1, <4>3
      <4>5. n # 1
        <5>1. k \in 1..(n - 1) BY <4>3
        <5>2. n \in Nat BY <1>1
        <5> HIDE DEF n
        <5> QED BY <5>1, <5>2
      <4> QED BY <1>2, <1>11, <1>12, <4>4, <4>5 DEF OnThread
    <3> QED BY <3>1, <3>2
  <2>2. OnThread(c) BY <1>1 DEF OnThread
  <2>3. ~InPool(c) BY <1>1, <2>2 DEF CInv, Rest
  <2>4. calls'[1].held = calls[1].held /\ calls' # <<>> BY <1>7, <1>9
  <2>5. \A d \in DOMAIN status : InPool(d) <=> ~OnThread(d) /\ d # calls[1].held
    BY <1>1 DEF CInv, Rest
  <2>6. CASE kept
    <3>1. pool' = pool BY <1>3, <2>6
    <3>2. \A d : InPool(d)' <=> InPool(d) BY <3>1 DEF InPool
    <3>3. \A k, l \in 1..Len(pool') : pool'[k] = pool'[l] => k = l BY <3>1 DEF CInv, Rest
    <3> QED BY <1>1, <1>10, <2>1, <2>4, <2>5, <2>6, <3>2, <3>3 DEF Rest
  <2>7. CASE ~kept
    <3>1. /\ pool' = Append(pool, c) /\ Len(pool) \in Nat /\ Len(pool') = Len(pool) + 1
          /\ (\A k \in 1..Len(pool) : pool'[k] = pool[k]) /\ pool'[Len(pool) + 1] = c
      BY <1>1, <1>3, <1>4, <2>7, AppendProperties, LenProperties
    <3>2. \A d : InPool(d)' <=> InPool(d) \/ d = c
      <4>1. ASSUME NEW d PROVE InPool(d)' => InPool(d) \/ d = c BY <3>1 DEF InPool
      <4>2. ASSUME NEW d PROVE InPool(d) => InPool(d)' BY <3>1 DEF InPool
      <4>3. InPool(c)' BY <3>1 DEF InPool
      <4> QED BY <4>1, <4>2, <4>3
    <3>3. \A k, l \in 1..Len(pool') : pool'[k] = pool'[l] => k = l
      <4> SUFFICES ASSUME NEW k \in 1..Len(pool'), NEW l \in 1..Len(pool'), pool'[k] = pool'[l]
                   PROVE  k = l
        OBVIOUS
      <4>1. k \in 1..Len(pool) \/ k = Len(pool) + 1 BY <3>1
      <4>2. l \in 1..Len(pool) \/ l = Len(pool) + 1 BY <3>1
      <4> QED BY <2>3, <3>1, <4>1, <4>2 DEF CInv, Rest, InPool
    <3> QED BY <1>1, <1>10, <2>1, <2>4, <2>5, <2>7, <3>2, <3>3 DEF Rest
  <2> QED BY <2>6, <2>7
<1>19. InTurn'
  <2> SUFFICES ASSUME NEW i \in 1..(n - 1), NEW j \in 1..(n - 1), i # j, rest[i] \in since[rest[j]]
               PROVE  Before(j, i)'
    BY <1>2, <1>3, <1>11 DEF InTurn
  <2>1. NextTurn = Cur + 1 /\ NextTurn' = next BY <1>0, <1>11 DEF NextTurn
  <2>2. Before(old(j), old(i))
    <3>1. old(i) # old(j) BY <1>1
    <3> QED BY <1>1, <1>15, <3>1 DEF CInv, InTurn
  <2>3. next = IF Cur > n - 1 THEN 1 ELSE Cur BY <1>2 DEF next
  <2> QED BY <1>1, <2>1, <2>2, <2>3 DEF Before
<1>20. GivesOne
  <2>1. ~InPool(c) BY <1>1 DEF CInv, Rest, OnThread
  <2>2. \A d \in DOMAIN status : d # c => status'[d] = status[d] BY <1>3, <1>4
  <2>3. ~kept => status'[c] = "pooled" BY <1>1, <1>3, <1>4
  <2> QED BY <1>1, <1>3, <1>10, <2>1, <2>2, <2>3 DEF GivesOne
<1> QED BY <1>13, <1>14, <1>17, <1>18, <1>19, <1>20 DEF CInv

-----------------------------------------------------------------------------
(* The functions, the callback pointers that name one, and whether it       *)
(* exists.                                                                  *)
AllFunctions == Globals \cup Delegates
PointersIn(cb, f) == Cardinality({c \in Callbacks : cb[c] = f})
Alive(f) == f \in made /\ f \notin freed

(* The references of a function are the handles, pointers and contexts; a   *)
(* function that does not exist has none; after Close no context has any.   *)
Counted(f) ==
  /\ open => refs[f] = handles[f] + PointersIn(callback, f) + running[f]
  /\ ~Alive(f) => refs[f] = 0 /\ f \notin owned
  /\ ~open => running[f] = 0

(* What holds of the functions; Close frees all that were made.             *)
FInv ==
  /\ Functions!TypeOK
  /\ \A f \in AllFunctions : Counted(f)
  /\ ~open => made = freed

(* The instance's Cardinality is the library's.                             *)
LEMMA SameCardinality ==
  ASSUME NEW S
  PROVE  Functions!Cardinality(S) = Cardinality(S)
BY DEF Functions!Cardinality, Cardinality

(* How many callbacks name a function: none, exactly when no callback does. *)
LEMMA PointersAreCounted ==
  ASSUME NEW cb, NEW f
  PROVE  /\ PointersIn(cb, f) \in Nat
         /\ PointersIn(cb, f) = 0 <=> \A c \in Callbacks : cb[c] # f
<1> DEFINE S == {c \in Callbacks : cb[c] = f}
<1>1. IsFiniteSet(S) BY CallbacksAreFinite, FS_Subset
<1>2. Cardinality(S) \in Nat BY <1>1, FS_CardinalityType
<1>3. Cardinality(S) = 0 <=> S = {} BY <1>1, FS_EmptySet
<1> QED BY <1>2, <1>3 DEF PointersIn

(* Replacing one callback's pointer counts one up and one down.             *)
LEMMA ReplaceCounts ==
  ASSUME NEW cb, NEW c \in Callbacks, NEW f, NEW new,
         \A d \in Callbacks : d # c => new[d] = cb[d]
  PROVE  PointersIn(new, f) =
           PointersIn(cb, f) + (IF f = new[c] THEN 1 ELSE 0) - (IF f = cb[c] THEN 1 ELSE 0)
<1> DEFINE S == {d \in Callbacks : cb[d] = f}
           R == {d \in Callbacks : new[d] = f}
<1>1. IsFiniteSet(S) BY CallbacksAreFinite, FS_Subset
<1>2. Cardinality(S) \in Nat BY <1>1, FS_CardinalityType
<1>3. CASE f = new[c] /\ f = cb[c]
  <2>1. R = S BY <1>3
  <2> HIDE DEF R, S
  <2>2. Cardinality(R) = Cardinality(S) BY <2>1
  <2> QED BY <1>2, <1>3, <2>2 DEF PointersIn, R, S
<1>4. CASE f = new[c] /\ f # cb[c]
  <2>1. R = S \cup {c} /\ c \notin S BY <1>4
  <2> HIDE DEF R, S
  <2>2. Cardinality(R) = Cardinality(S) + 1 BY <1>1, <2>1, FS_AddElement
  <2> QED BY <1>2, <1>4, <2>2 DEF PointersIn, R, S
<1>5. CASE f # new[c] /\ f = cb[c]
  <2>1. R = S \ {c} /\ c \in S BY <1>5
  <2> HIDE DEF R, S
  <2>2. Cardinality(R) = Cardinality(S) - 1 BY <1>1, <2>1, FS_RemoveElement
  <2> QED BY <1>2, <1>5, <2>2 DEF PointersIn, R, S
<1>6. CASE f # new[c] /\ f # cb[c]
  <2>1. R = S BY <1>6
  <2> HIDE DEF R, S
  <2>2. Cardinality(R) = Cardinality(S) BY <2>1
  <2> QED BY <1>2, <1>6, <2>2 DEF PointersIn, R, S
<1> QED BY <1>3, <1>4, <1>5, <1>6

(* What is counted is no more than the references: what is used is live.    *)
LEMMA UsedIsAlive ==
  ASSUME FInv, NEW f \in AllFunctions
  PROVE  /\ handles[f] \in Nat /\ running[f] \in Nat /\ refs[f] \in Int
         /\ open /\ handles[f] > 0 => Alive(f) /\ refs[f] > 0
         /\ open /\ (\E c \in Callbacks : callback[c] = f) => Alive(f) /\ refs[f] > 0
         /\ running[f] > 0 => open /\ Alive(f) /\ refs[f] > 0
         /\ f \in owned => Alive(f)
<1>1. handles[f] \in Nat /\ running[f] \in Nat /\ refs[f] \in Int
  BY BoundsArePositive DEF FInv, Functions!TypeOK, AllFunctions, Functions!Functions
<1>2. Counted(f) BY DEF FInv
<1>3. PointersIn(callback, f) \in Nat /\ ((\E c \in Callbacks : callback[c] = f) => PointersIn(callback, f) > 0)
  BY PointersAreCounted
<1> QED BY <1>1, <1>2, <1>3 DEF Counted

(* The script makes a delegate and has its first handle.                    *)
LEMMA MakeDelegateKeeps ==
  ASSUME FInv, NEW d, Functions!MakeDelegate(d)
  PROVE  FInv'
<1>1. /\ open /\ d \in AllFunctions /\ d \notin made /\ made' = made \cup {d}
      /\ refs' = [refs EXCEPT ![d] = 1] /\ handles' = [handles EXCEPT ![d] = 1]
      /\ UNCHANGED <<freed, owned, callback, running, open>>
  BY DEF Functions!MakeDelegate, AllFunctions
<1>2. Functions!TypeOK
  BY DEF FInv
<1>3. handles[d] = 0 /\ PointersIn(callback, d) = 0 /\ running[d] = 0
  <2>1. refs[d] = 0 /\ refs[d] = handles[d] + PointersIn(callback, d) + running[d]
    BY <1>1 DEF FInv, Counted, Alive
  <2>2. handles[d] \in Nat /\ PointersIn(callback, d) \in Nat /\ running[d] \in Nat
    BY <1>1, UsedIsAlive, PointersAreCounted
  <2> QED BY <2>1, <2>2
<1>4. Functions!TypeOK'
  BY <1>1, <1>2, BoundsArePositive DEF Functions!TypeOK, Functions!Functions, AllFunctions
<1>5. ASSUME NEW f \in AllFunctions PROVE Counted(f)'
  <2>1. Counted(f) BY DEF FInv
  <2>2. refs'[f] = (IF f = d THEN 1 ELSE refs[f]) /\ handles'[f] = (IF f = d THEN 1 ELSE handles[f])
    BY <1>1, <1>2 DEF Functions!TypeOK, Functions!Functions, AllFunctions
  <2>3. d \notin freed /\ d \in made' BY <1>1, <1>2 DEF Functions!TypeOK
  <2>4. f # d => (Alive(f)' <=> Alive(f)) BY <1>1 DEF Alive
  <2>5. Alive(d)' BY <1>1, <2>3 DEF Alive
  <2> QED BY <1>1, <1>3, <2>1, <2>2, <2>4, <2>5 DEF Counted
<1> QED BY <1>1, <1>4, <1>5 DEF FInv

(* The script stores another handle.                                        *)
LEMMA StoreHandleKeeps ==
  ASSUME FInv, NEW d \in AllFunctions, Functions!StoreHandle(d)
  PROVE  FInv'
<1>1. /\ open /\ Alive(d) /\ handles[d] < MaxHandles
      /\ refs' = [refs EXCEPT ![d] = refs[d] + 1] /\ handles' = [handles EXCEPT ![d] = handles[d] + 1]
      /\ UNCHANGED <<made, freed, owned, callback, running, open>>
  BY DEF Functions!StoreHandle, Functions!Live, Alive
<1>2. Functions!TypeOK BY DEF FInv
<1>3. Functions!TypeOK'
  BY <1>1, <1>2, BoundsArePositive DEF Functions!TypeOK, Functions!Functions, AllFunctions
<1>4. ASSUME NEW f \in AllFunctions PROVE Counted(f)'
  <2>1. Counted(f) /\ PointersIn(callback, f) \in Nat BY PointersAreCounted DEF FInv
  <2>2. /\ refs'[f] = (IF f = d THEN refs[f] + 1 ELSE refs[f])
        /\ handles'[f] = (IF f = d THEN handles[f] + 1 ELSE handles[f])
    BY <1>1, <1>2 DEF Functions!TypeOK, Functions!Functions, AllFunctions
  <2>3. Alive(f)' <=> Alive(f) BY <1>1 DEF Alive
  <2>4. handles[f] \in Nat /\ running[f] \in Nat /\ refs[f] \in Int BY UsedIsAlive
  <2> QED BY <1>1, <2>1, <2>2, <2>3, <2>4 DEF Counted
<1> QED BY <1>1, <1>3, <1>4 DEF FInv

(* The script drops a handle, with the last reference the function.         *)
LEMMA DropHandleKeeps ==
  ASSUME FInv, NEW d \in AllFunctions, Functions!DropHandle(d)
  PROVE  FInv'
<1>1. /\ open /\ handles[d] > 0
      /\ refs' = [refs EXCEPT ![d] = refs[d] - 1] /\ handles' = [handles EXCEPT ![d] = handles[d] - 1]
      /\ freed' = freed \cup {f \in made : refs'[f] = 0 /\ f \notin owned}
      /\ UNCHANGED <<made, owned, callback, running, open>>
  BY DEF Functions!DropHandle, Functions!Unreferenced
<1>2. Functions!TypeOK BY DEF FInv
<1>3. handles[d] \in Nat /\ handles[d] <= MaxHandles /\ MaxHandles \in Nat
  BY <1>2, BoundsArePositive DEF Functions!TypeOK, Functions!Functions, AllFunctions
<1>4. Functions!TypeOK'
  <2>1. handles[d] - 1 \in 0..MaxHandles BY <1>1, <1>3
  <2>2. handles' \in [AllFunctions -> 0..MaxHandles] /\ refs' \in [AllFunctions -> Int]
    BY <1>1, <1>2, <2>1 DEF Functions!TypeOK, Functions!Functions, AllFunctions
  <2>3. freed' \subseteq made BY <1>1, <1>2 DEF Functions!TypeOK
  <2> QED BY <1>1, <1>2, <2>2, <2>3 DEF Functions!TypeOK, Functions!Functions, AllFunctions
<1>5. ASSUME NEW f \in AllFunctions PROVE Counted(f)'
  <2>1. Counted(f) /\ PointersIn(callback, f) \in Nat BY PointersAreCounted DEF FInv
  <2>2. /\ refs'[f] = (IF f = d THEN refs[f] - 1 ELSE refs[f])
        /\ handles'[f] = (IF f = d THEN handles[f] - 1 ELSE handles[f])
    BY <1>1, <1>2 DEF Functions!TypeOK, Functions!Functions, AllFunctions
  <2>3. handles[f] \in Nat /\ running[f] \in Nat /\ refs[f] \in Int BY UsedIsAlive
  <2>4. f = d => Alive(f) BY <1>1, UsedIsAlive
  <2>5. ~Alive(f)' => ~Alive(f) \/ (refs'[f] = 0 /\ f \notin owned) BY <1>1 DEF Alive
  <2> QED BY <1>1, <2>1, <2>2, <2>3, <2>4, <2>5 DEF Counted
<1> QED BY <1>1, <1>4, <1>5 DEF FInv

(* What the script can pass to the engine exists.                           *)
LEMMA CanPassLives ==
  ASSUME FInv, open, NEW f \in AllFunctions, Functions!CanPass(f)
  PROVE  Alive(f)
<1>1. f \in owned \/ handles[f] > 0
  BY KindsDiffer DEF Functions!CanPass, AllFunctions
<1> QED BY <1>1, UsedIsAlive

(* The script replaces a callback: the new function is referenced and the   *)
(* old one released, also when they are the same.                           *)
LEMMA SetCallbackKeeps ==
  ASSUME FInv, NEW c \in Callbacks, NEW f \in AllFunctions \cup {NULL}, Functions!SetCallback(c, f)
  PROVE  FInv'
<1> DEFINE gain(g) == IF g = f THEN 1 ELSE 0
           loss(g) == IF g = callback[c] THEN 1 ELSE 0
<1>1. /\ open /\ Functions!CanPass(f)
      /\ refs' = [g \in AllFunctions |-> refs[g] + gain(g) - loss(g)]
      /\ freed' = freed \cup {g \in made : refs'[g] = 0 /\ g \notin owned}
      /\ callback' = [callback EXCEPT ![c] = f]
      /\ UNCHANGED <<made, owned, handles, running, open>>
  BY DEF Functions!SetCallback, Functions!Unreferenced, Functions!Functions, AllFunctions
<1>2. Functions!TypeOK BY DEF FInv
<1>3. callback \in [Callbacks -> AllFunctions \cup {NULL}] /\ refs \in [AllFunctions -> Int]
  BY <1>2 DEF Functions!TypeOK, Functions!Functions, AllFunctions
<1>4. Functions!TypeOK'
  <2>1. callback' \in [Callbacks -> AllFunctions \cup {NULL}] BY <1>1, <1>3
  <2>2. refs' \in [AllFunctions -> Int] BY <1>1, <1>3
  <2>3. freed' \subseteq made BY <1>1, <1>2 DEF Functions!TypeOK
  <2> QED BY <1>1, <1>2, <2>1, <2>2, <2>3 DEF Functions!TypeOK, Functions!Functions, AllFunctions
<1>5. ASSUME NEW g \in AllFunctions PROVE Counted(g)'
  <2>1. Counted(g) /\ PointersIn(callback, g) \in Nat BY PointersAreCounted DEF FInv
  <2>2. refs'[g] = refs[g] + gain(g) - loss(g) BY <1>1
  <2>3. PointersIn(callback', g) = PointersIn(callback, g) + gain(g) - loss(g)
    <3>1. PICK cb : cb = callback OBVIOUS
    <3>2. PICK new : new = callback' OBVIOUS
    <3>3. new[c] = f /\ \A d \in Callbacks : d # c => new[d] = cb[d]
      BY <1>1, <1>3, <3>1, <3>2
    <3>4. PointersIn(new, g) =
            PointersIn(cb, g) + (IF g = f THEN 1 ELSE 0) - (IF g = cb[c] THEN 1 ELSE 0)
      BY <3>3, ReplaceCounts
    <3> QED BY <3>1, <3>2, <3>4
  <2>4. handles[g] \in Nat /\ running[g] \in Nat /\ refs[g] \in Int BY UsedIsAlive
  <2>5. g = f => Alive(g) BY <1>1, CanPassLives
  <2>6. g = callback[c] => Alive(g) BY <1>1, UsedIsAlive
  <2>7. ~Alive(g)' => ~Alive(g) \/ (refs'[g] = 0 /\ g \notin owned) BY <1>1 DEF Alive
  <2>8. gain(g) \in Int /\ loss(g) \in Int OBVIOUS
  <2>9. ~Alive(g) => gain(g) = 0 /\ loss(g) = 0 BY <2>5, <2>6
  <2> HIDE DEF gain, loss
  <2>10. refs'[g] = handles[g] + PointersIn(callback', g) + running[g]
    BY <1>1, <2>1, <2>2, <2>3, <2>4, <2>8 DEF Counted
  <2>11. ~Alive(g)' => refs'[g] = 0 /\ g \notin owned
    BY <2>1, <2>2, <2>4, <2>7, <2>9 DEF Counted
  <2> QED BY <1>1, <2>10, <2>11 DEF Counted
<1> QED BY <1>1, <1>4, <1>5 DEF FInv

(* A context is prepared with a function that exists, if with any (NULL is  *)
(* a global function's), and lets go of the one it still has.               *)
LEMMA PrepareKeeps ==
  ASSUME FInv, NEW f \in AllFunctions \cup {NULL}, f # NULL => Alive(f),
         NEW old \in AllFunctions \cup {NULL}, old # NULL => running[old] > 0,
         Functions!Prepare(f, old)
  PROVE  /\ FInv' /\ open /\ open'
         /\ \A g \in AllFunctions : running'[g] =
              running[g] + (IF g = f THEN 1 ELSE 0) - (IF g = old THEN 1 ELSE 0)
<1> DEFINE gain(g) == IF g = f THEN 1 ELSE 0
           loss(g) == IF g = old THEN 1 ELSE 0
<1>1. /\ open /\ (f \notin {old, NULL} => running[f] < MaxHandles)
      /\ refs' = [g \in AllFunctions |-> refs[g] + gain(g) - loss(g)]
      /\ running' = [g \in AllFunctions |-> running[g] + gain(g) - loss(g)]
      /\ freed' = freed \cup {g \in made : refs'[g] = 0 /\ g \notin owned}
      /\ UNCHANGED <<made, owned, handles, callback, open>>
  BY DEF Functions!Prepare, Functions!Unreferenced, Functions!Functions, AllFunctions
<1>2. Functions!TypeOK BY DEF FInv
<1>3. /\ running \in [AllFunctions -> 0..MaxHandles] /\ refs \in [AllFunctions -> Int]
      /\ MaxHandles \in Nat
  BY <1>2, BoundsArePositive DEF Functions!TypeOK, Functions!Functions, AllFunctions
<1>4. \A g \in AllFunctions : running'[g] = running[g] + gain(g) - loss(g)
  BY <1>1
<1>5. Functions!TypeOK'
  <2>1. ASSUME NEW g \in AllFunctions PROVE running[g] + gain(g) - loss(g) \in 0..MaxHandles
    <3>1. running[g] \in 0..MaxHandles /\ g # NULL BY <1>3, KindsDiffer DEF AllFunctions
    <3>2. CASE g = f /\ g # old BY <1>1, <1>3, <3>1, <3>2
    <3>3. CASE g = f /\ g = old BY <3>1, <3>3
    <3>4. CASE g # f /\ g = old
      <4>1. running[g] > 0 BY <3>1, <3>4
      <4>2. gain(g) = 0 /\ loss(g) = 1 BY <3>4
      <4> HIDE DEF gain, loss
      <4> QED BY <1>3, <3>1, <4>1, <4>2
    <3>5. CASE g # f /\ g # old BY <3>1, <3>5
    <3> QED BY <3>2, <3>3, <3>4, <3>5
  <2>2. running' \in [AllFunctions -> 0..MaxHandles] BY <1>1, <2>1
  <2>3. refs' \in [AllFunctions -> Int] BY <1>1, <1>3
  <2>4. freed' \subseteq made BY <1>1, <1>2 DEF Functions!TypeOK
  <2> QED BY <1>1, <1>2, <2>2, <2>3, <2>4 DEF Functions!TypeOK, Functions!Functions, AllFunctions
<1>6. ASSUME NEW g \in AllFunctions PROVE Counted(g)'
  <2>1. Counted(g) /\ PointersIn(callback, g) \in Nat BY PointersAreCounted DEF FInv
  <2>2. refs'[g] = refs[g] + gain(g) - loss(g) BY <1>1
  <2>3. handles[g] \in Nat /\ running[g] \in Nat /\ refs[g] \in Int BY UsedIsAlive
  <2>4. g # NULL BY KindsDiffer DEF AllFunctions
  <2>5. g = f \/ g = old => Alive(g) BY <2>4, UsedIsAlive
  <2>6. ~Alive(g)' => ~Alive(g) \/ (refs'[g] = 0 /\ g \notin owned) BY <1>1 DEF Alive
  <2>7. gain(g) \in Int /\ loss(g) \in Int OBVIOUS
  <2>8. ~Alive(g) => gain(g) = 0 /\ loss(g) = 0 BY <2>5
  <2> HIDE DEF gain, loss
  <2>9. refs'[g] = handles[g] + PointersIn(callback, g) + running'[g]
    BY <1>1, <1>4, <2>1, <2>2, <2>3, <2>7 DEF Counted
  <2>10. ~Alive(g)' => refs'[g] = 0 /\ g \notin owned
    BY <2>1, <2>2, <2>3, <2>6, <2>8 DEF Counted
  <2> QED BY <1>1, <2>9, <2>10 DEF Counted
<1> QED BY <1>1, <1>4, <1>5, <1>6 DEF FInv

(* A context that held a function goes back, and may delete it.             *)
LEMMA ReturnKeeps ==
  ASSUME FInv, NEW d \in AllFunctions, Functions!Return(d)
  PROVE  FInv' /\ running' = [running EXCEPT ![d] = running[d] - 1] /\ open' = open
<1>1. /\ running[d] > 0
      /\ refs' = [refs EXCEPT ![d] = refs[d] - 1] /\ running' = [running EXCEPT ![d] = running[d] - 1]
      /\ freed' = freed \cup {f \in made : refs'[f] = 0 /\ f \notin owned}
      /\ UNCHANGED <<made, owned, callback, handles, open>>
  BY DEF Functions!Return, Functions!Unreferenced
<1>2. Functions!TypeOK BY DEF FInv
<1>3. running[d] \in Nat /\ running[d] <= MaxHandles /\ MaxHandles \in Nat
  BY <1>2, BoundsArePositive DEF Functions!TypeOK, Functions!Functions, AllFunctions
<1>4. open /\ Alive(d) BY <1>1, UsedIsAlive
<1>5. Functions!TypeOK'
  <2>1. running[d] - 1 \in 0..MaxHandles BY <1>1, <1>3
  <2>2. running' \in [AllFunctions -> 0..MaxHandles] /\ refs' \in [AllFunctions -> Int]
    BY <1>1, <1>2, <2>1 DEF Functions!TypeOK, Functions!Functions, AllFunctions
  <2>3. freed' \subseteq made BY <1>1, <1>2 DEF Functions!TypeOK
  <2> QED BY <1>1, <1>2, <2>2, <2>3 DEF Functions!TypeOK, Functions!Functions, AllFunctions
<1>6. ASSUME NEW f \in AllFunctions PROVE Counted(f)'
  <2>1. Counted(f) /\ PointersIn(callback, f) \in Nat BY PointersAreCounted DEF FInv
  <2>2. /\ refs'[f] = (IF f = d THEN refs[f] - 1 ELSE refs[f])
        /\ running'[f] = (IF f = d THEN running[f] - 1 ELSE running[f])
    BY <1>1, <1>2 DEF Functions!TypeOK, Functions!Functions, AllFunctions
  <2>3. handles[f] \in Nat /\ running[f] \in Nat /\ refs[f] \in Int BY UsedIsAlive
  <2>4. ~Alive(f)' => ~Alive(f) \/ (refs'[f] = 0 /\ f \notin owned) BY <1>1 DEF Alive
  <2> QED BY <1>1, <1>4, <2>1, <2>2, <2>3, <2>4 DEF Counted
<1> QED BY <1>1, <1>4, <1>5, <1>6 DEF FInv

(* The engine is closed, and lets all functions go.                         *)
LEMMA CloseKeeps ==
  ASSUME FInv, Functions!Close
  PROVE  FInv'
<1>1. /\ open /\ open' = FALSE /\ \A f \in AllFunctions : running[f] = 0
      /\ refs' = [f \in AllFunctions |-> refs[f] - Functions!Pointers(f) - handles[f]]
      /\ handles' = [f \in AllFunctions |-> 0] /\ owned' = {}
      /\ freed' = freed \cup {f \in made : refs'[f] = 0 /\ f \notin {}}
      /\ UNCHANGED <<made, callback, running>>
  <2>1. open /\ open' = FALSE /\ UNCHANGED <<made, callback, running>> /\ owned' = {}
    BY DEF Functions!Close
  <2>2. \A f \in AllFunctions : running[f] = 0
    BY DEF Functions!Close, Functions!Functions, AllFunctions
  <2>3. refs' = [f \in AllFunctions |-> refs[f] - Functions!Pointers(f) - handles[f]]
    BY DEF Functions!Close, Functions!Functions, AllFunctions
  <2>4. handles' = [f \in AllFunctions |-> 0]
    BY DEF Functions!Close, Functions!Functions, AllFunctions
  <2>5. freed' = freed \cup {f \in made : refs'[f] = 0 /\ f \notin {}}
    BY DEF Functions!Close, Functions!Unreferenced
  <2> QED BY <2>1, <2>2, <2>3, <2>4, <2>5
<1>2. Functions!TypeOK BY DEF FInv
<1>3. \A f \in AllFunctions : refs'[f] = 0
  <2> SUFFICES ASSUME NEW f \in AllFunctions PROVE refs'[f] = 0 OBVIOUS
  <2>1. Counted(f) /\ PointersIn(callback, f) \in Nat BY PointersAreCounted DEF FInv
  <2>2. handles[f] \in Nat /\ running[f] = 0 /\ refs[f] \in Int BY <1>1, UsedIsAlive
  <2>3. Functions!Pointers(f) = PointersIn(callback, f)
    <3> DEFINE S == {c \in Callbacks : callback[c] = f}
    <3>1. Functions!Pointers(f) = Functions!Cardinality(S) BY DEF Functions!Pointers
    <3>2. PointersIn(callback, f) = Cardinality(S) BY DEF PointersIn
    <3> HIDE DEF S
    <3> QED BY <3>1, <3>2, SameCardinality
  <2> QED BY <1>1, <2>1, <2>2, <2>3 DEF Counted
<1>4. freed' = made
  BY <1>1, <1>2, <1>3 DEF Functions!TypeOK, Functions!Functions, AllFunctions
<1>5. Functions!TypeOK'
  <2>1. refs' \in [AllFunctions -> Int]
    <3>1. refs' = [f \in AllFunctions |-> refs'[f]] BY <1>1
    <3> QED BY <1>3, <3>1
  <2>2. handles' \in [AllFunctions -> 0..MaxHandles] BY <1>1, BoundsArePositive
  <2> QED BY <1>1, <1>2, <1>4, <2>1, <2>2 DEF Functions!TypeOK, Functions!Functions, AllFunctions
<1>6. \A f \in AllFunctions : Counted(f)' BY <1>1, <1>3 DEF Counted
<1> QED BY <1>1, <1>4, <1>5, <1>6 DEF FInv

-----------------------------------------------------------------------------
(* The contexts that were prepared with f and have it still.                *)
Using(f) == {c \in DOMAIN status : function[c] = f}

(* A function's count of contexts is exact, and only what is prepared has   *)
(* a function.                                                              *)
KInv ==
  /\ IsFiniteSet(DOMAIN status)
  /\ function \in [DOMAIN status -> AllFunctions \cup {NULL}]
  /\ \A f \in AllFunctions : running[f] = Cardinality(Using(f))
  /\ \A c \in DOMAIN status : status[c] = "pooled" => function[c] = NULL

(* A context that is requested uses the function it is prepared with.       *)
LEMMA PreparedCounts ==
  ASSUME FInv, KInv, Contexts!Request, NEW d \in AllFunctions \cup {NULL}, d # NULL => Alive(d),
         PreparedWith(d), Functions!Prepare(d, Earlier)
  PROVE  FInv' /\ KInv' /\ open /\ open'
<1> SUFFICES ASSUME NEW c, c = Contexts!Requested
             PROVE  FInv' /\ KInv' /\ open /\ open'
  OBVIOUS
<1> SUFFICES ASSUME NEW old, old = IF c \in DOMAIN status THEN function[c] ELSE NULL,
                    Functions!Prepare(d, old)
             PROVE  FInv' /\ KInv' /\ open /\ open'
  BY DEF Earlier
<1>1. /\ status' = [e \in DOMAIN status \cup {c} |-> IF e = c THEN "prepared" ELSE status[e]]
      /\ function' = [e \in DOMAIN status' |-> IF e = c THEN d ELSE function[e]]
  BY DEF Contexts!Request, Contexts!Contexts, PreparedWith
<1>2. /\ DOMAIN status' = DOMAIN status \cup {c} /\ status'[c] = "prepared"
      /\ \A e \in DOMAIN status : e # c => status'[e] = status[e]
  BY <1>1
<1>3. old \in AllFunctions \cup {NULL} BY DEF KInv
<1>4. ASSUME NEW f \in AllFunctions
      PROVE  IsFiniteSet(Using(f)) /\ Cardinality(Using(f)) \in Nat /\ (f = old <=> c \in Using(f))
  <2>1. IsFiniteSet(Using(f)) BY FS_Subset DEF Using, KInv
  <2>2. f # NULL BY KindsDiffer DEF AllFunctions
  <2> QED BY <2>1, <2>2, FS_CardinalityType DEF Using
<1>5. old # NULL => running[old] > 0
  <2> SUFFICES ASSUME old # NULL PROVE running[old] > 0 OBVIOUS
  <2>1. old \in AllFunctions BY <1>3
  <2>2. c \in Using(old) /\ IsFiniteSet(Using(old)) /\ Cardinality(Using(old)) \in Nat BY <1>4, <2>1
  <2>3. Cardinality(Using(old)) # 0 BY <2>2, FS_EmptySet
  <2> QED BY <2>1, <2>2, <2>3 DEF KInv
<1>6. /\ FInv' /\ open /\ open'
      /\ \A g \in AllFunctions : running'[g] =
           running[g] + (IF g = d THEN 1 ELSE 0) - (IF g = old THEN 1 ELSE 0)
  BY <1>3, <1>5, PrepareKeeps
<1>7. function' \in [DOMAIN status' -> AllFunctions \cup {NULL}]
  BY <1>1, <1>2 DEF KInv
<1>8. IsFiniteSet(DOMAIN status') BY <1>2, FS_AddElement DEF KInv
<1>9. ASSUME NEW f \in AllFunctions PROVE running'[f] = Cardinality(Using(f)')
  <2>1. running[f] = Cardinality(Using(f)) BY DEF KInv
  <2>2. IsFiniteSet(Using(f)) /\ Cardinality(Using(f)) \in Nat /\ (f = old <=> c \in Using(f)) BY <1>4
  <2>3. Using(f)' = IF f = d THEN Using(f) \cup {c} ELSE Using(f) \ {c}
    BY <1>1, <1>2 DEF Using
  <2>4. running'[f] = running[f] + (IF f = d THEN 1 ELSE 0) - (IF f = old THEN 1 ELSE 0) BY <1>6
  <2>5. PICK U : U = Using(f) OBVIOUS
  <2>6. IsFiniteSet(U) /\ Cardinality(U) \in Nat BY <2>2, <2>5
  <2>7. Cardinality(U \cup {c}) = IF c \in U THEN Cardinality(U) ELSE Cardinality(U) + 1
    BY <2>6, FS_AddElement
  <2>8. Cardinality(U \ {c}) = IF c \in U THEN Cardinality(U) - 1 ELSE Cardinality(U)
    BY <2>6, FS_RemoveElement
  <2> QED BY <2>1, <2>2, <2>3, <2>4, <2>5, <2>6, <2>7, <2>8
<1>10. ASSUME NEW f \in AllFunctions PROVE running'[f] = Cardinality(Using(f))'
  BY <1>9
<1>11. \A e \in DOMAIN status' : status'[e] = "pooled" => function'[e] = NULL
  BY <1>1, <1>2 DEF KInv
<1> QED BY <1>6, <1>7, <1>8, <1>10, <1>11 DEF KInv

(* At most one context is unprepared in a step.                             *)
UnpreparesOne ==
  /\ DOMAIN status' = DOMAIN status
  /\ \E b : \A c \in DOMAIN status : status[c] # "pooled" /\ status'[c] = "pooled" => c = b

(* A context that goes back to the pool lets its function go.               *)
LEMMA GivesBackKeeps ==
  ASSUME FInv, KInv, UnpreparesOne, GivesBack
  PROVE  FInv' /\ KInv' /\ open' = open
<1> DEFINE back == {c \in DOMAIN status : status[c] # "pooled" /\ status'[c] = "pooled"}
           used == {function[c] : c \in back} \ {NULL}
<1>1. /\ function' = [c \in DOMAIN status |-> IF c \in back THEN NULL ELSE function[c]]
      /\ \/ used = {} /\ UNCHANGED functionVars
         \/ \E f \in used : Functions!Return(f)
  BY DEF GivesBack
<1>2. /\ DOMAIN status' = DOMAIN status
      /\ function' \in [DOMAIN status -> AllFunctions \cup {NULL}]
      /\ back \subseteq DOMAIN status /\ \A b, c \in back : b = c
  BY <1>1 DEF UnpreparesOne, KInv
<1>3. \A c \in DOMAIN status' : status'[c] = "pooled" => function'[c] = NULL
  BY <1>1, <1>2 DEF KInv
<1> HIDE DEF back
<1>4. CASE used = {} /\ UNCHANGED functionVars
  <2>1. FInv' /\ open' = open
    BY <1>4 DEF FInv, Counted, Alive, functionVars, Functions!TypeOK, PointersIn
  <2>2. ASSUME NEW f \in AllFunctions PROVE Using(f)' = Using(f)
    <3>1. \A c \in back : function[c] = NULL BY <1>4
    <3>2. f # NULL BY KindsDiffer DEF AllFunctions
    <3> QED BY <1>1, <1>2, <3>1, <3>2 DEF Using
  <2>3. running' = running BY <1>4 DEF functionVars
  <2> QED BY <1>2, <1>3, <2>1, <2>2, <2>3 DEF KInv
<1>5. ASSUME NEW f \in used, Functions!Return(f)
      PROVE  FInv' /\ KInv' /\ open' = open
  <2>1. PICK b \in back : f = function[b] /\ f # NULL
    OBVIOUS
  <2>2. b \in DOMAIN status /\ back = {b} /\ f \in AllFunctions BY <1>2, <2>1 DEF KInv
  <2>3. FInv' /\ open' = open /\ running' = [running EXCEPT ![f] = running[f] - 1]
    BY <1>5, <2>2, ReturnKeeps
  <2>4. running \in [AllFunctions -> 0..MaxHandles]
    BY DEF FInv, Functions!TypeOK, Functions!Functions, AllFunctions
  <2>5. ASSUME NEW g \in AllFunctions PROVE running'[g] = Cardinality(Using(g)')
    <3>1. running[g] = Cardinality(Using(g)) BY DEF KInv
    <3>2. CASE g = f
      <4>1. b \in Using(g) /\ Using(g)' = Using(g) \ {b}
        BY <1>1, <1>2, <2>1, <2>2, <3>2 DEF Using
      <4>2. IsFiniteSet(Using(g)) BY FS_Subset DEF Using, KInv
      <4>3. Cardinality(Using(g) \ {b}) = Cardinality(Using(g)) - 1 BY <4>1, <4>2, FS_RemoveElement
      <4>4. running'[g] = running[g] - 1 BY <2>3, <2>4, <3>2
      <4> QED BY <3>1, <4>1, <4>3, <4>4
    <3>3. CASE g # f
      <4>1. g # NULL BY KindsDiffer DEF AllFunctions
      <4>2. Using(g)' = Using(g) BY <1>1, <1>2, <2>1, <2>2, <3>3, <4>1 DEF Using
      <4>3. running'[g] = running[g] BY <2>3, <2>4, <3>3
      <4> QED BY <3>1, <4>2, <4>3
    <3> QED BY <3>2, <3>3
  <2>6. ASSUME NEW g \in AllFunctions PROVE running'[g] = Cardinality(Using(g))'
    BY <2>5
  <2> QED BY <1>2, <1>3, <2>3, <2>6 DEF KInv
<1> QED BY <1>1, <1>4, <1>5

-----------------------------------------------------------------------------
(* The contexts in the pool are not prepared: the next request can use them. *)
Pooled == \A c \in DOMAIN status : InPool(c) => status[c] = "pooled"

(* A step that requests a context leaves the others in the pool alone.      *)
LEMMA RequestPools ==
  ASSUME CInv, Pooled, Contexts!Request
  PROVE  Pooled'
<1> SUFFICES ASSUME NEW c, c = Contexts!Requested PROVE Pooled'
  OBVIOUS
<1>1. /\ DOMAIN status' = DOMAIN status \cup {c}
      /\ \A d \in DOMAIN status : d # c => status'[d] = status[d]
      /\ \A d : InPool(d)' <=> InPool(d) /\ d # c
  BY RequestEffects DEF CInv
<1> QED BY <1>1 DEF Pooled

(* A step that gives a context back gives it back unprepared.               *)
LEMMA GivesBackPools ==
  ASSUME CInv, Pooled, GivesOne
  PROVE  Pooled'
<1>1. CASE pool' = pool
  <2>1. \A c : InPool(c)' <=> InPool(c) BY <1>1 DEF InPool
  <2> QED BY <2>1 DEF GivesOne, Pooled
<1>2. CASE \E b \in DOMAIN status : pool' = Append(pool, b) /\ status'[b] = "pooled"
  <2>1. PICK b \in DOMAIN status : pool' = Append(pool, b) /\ status'[b] = "pooled" BY <1>2
  <2>2. pool \in Seq(DOMAIN status) /\ Len(pool) \in Nat BY TypesOf, LenProperties DEF CInv
  <2>3. /\ Len(pool') = Len(pool) + 1 /\ pool'[Len(pool) + 1] = b
        /\ \A k \in 1..Len(pool) : pool'[k] = pool[k]
    BY <2>1, <2>2, AppendProperties
  <2>4. \A c : InPool(c)' => InPool(c) \/ c = b BY <2>2, <2>3 DEF InPool
  <2> QED BY <2>1, <2>4 DEF GivesOne, Pooled
<1> QED BY <1>1, <1>2 DEF GivesOne

(* What is requested can be prepared.                                       *)
LEMMA SpawnSucceeds ==
  ASSUME CInv, Pooled
  PROVE  ~Contexts!SpawnFails
<1>1. CASE pool = <<>> BY <1>1 DEF Contexts!SpawnFails, Contexts!CanPrepare
<1>2. CASE pool # <<>>
  <2>1. pool \in Seq(DOMAIN status) BY TypesOf DEF CInv
  <2>2. Len(pool) \in Nat \ {0} /\ Contexts!Last(pool) = pool[Len(pool)] /\ pool[Len(pool)] \in DOMAIN status
    BY <1>2, <2>1, LastAndFront
  <2>3. Len(pool) \in 1..Len(pool) BY <2>2
  <2>4. status[pool[Len(pool)]] = "pooled" BY <2>2, <2>3 DEF Pooled, InPool
  <2> QED BY <2>2, <2>4 DEF Contexts!SpawnFails, Contexts!CanPrepare
<1> QED BY <1>1, <1>2

(* The inductive invariant: what holds of the functions always (the engine  *)
(* is closed between two calls only), and of the contexts until a callback  *)
(* comes inside a script's call.                                            *)
UInv == FInv /\ KInv /\ (~open => calls = <<>>)
IInv == UInv /\ (nested \/ (CInv /\ Pooled))

(* Before the first call.                                                   *)
LEMMA InitHolds ==
  ASSUME Init PROVE IInv
<1>1. /\ status = <<>> /\ pool = <<>> /\ info = <<>> /\ threads = <<>> /\ freeThreads = <<>>
      /\ currentThread = 1 /\ calls = <<>> /\ fault = FALSE /\ steps = 0 /\ since = <<>>
  BY DEF Init, Contexts!Init
<1>2. /\ made = Globals /\ owned = Globals /\ freed = {}
      /\ refs = [f \in AllFunctions |-> 0] /\ handles = refs /\ running = refs
      /\ callback = [c \in Callbacks |-> NULL] /\ open = TRUE
  BY DEF Init, Functions!Init, Functions!Functions, AllFunctions
<1>3. function = <<>> BY DEF Init
<1>4. Len(<<>>) = 0 /\ DOMAIN <<>> = {} OBVIOUS
<1>5. Contexts!TypeOK
  <2>1. \A S : <<>> \in Seq(S) BY EmptySeq
  <2>2. DOMAIN status = {} /\ DOMAIN since = {} BY <1>1, <1>4
  <2>6. ASSUME NEW c \in DOMAIN status PROVE since[c] \subseteq DOMAIN status
    <3>1. c \in {} BY <2>2
    <3> QED BY <3>1
  <2>3. currentThread \in Nat \ {0} BY <1>1
  <2>7. fault \in BOOLEAN BY <1>1
  <2>4. MaxContexts \in Nat /\ MaxSteps \in Nat BY BoundsArePositive
  <2>5. Len(status) <= MaxContexts /\ steps \in 0..MaxSteps BY <1>1, <1>4, <2>4
  <2> QED BY <1>1, <2>1, <2>2, <2>3, <2>5, <2>6, <2>7
        DEF Contexts!TypeOK, Contexts!Contexts
<1>6. Shape BY <1>1, <1>4 DEF Shape, NoThread, Executes
<1>7. Ready /\ InTurn BY <1>1 DEF Ready, InTurn
<1>8. Rest BY <1>1, <1>4 DEF Rest
<1>11. Pooled BY <1>1, <1>4 DEF Pooled
<1>9. FInv
  <2>1. Functions!TypeOK
    BY <1>2, BoundsArePositive DEF Functions!TypeOK, Functions!Functions, AllFunctions
  <2>2. ASSUME NEW f \in AllFunctions PROVE Counted(f)
    <3>1. f # NULL BY KindsDiffer DEF AllFunctions
    <3>2. PointersIn(callback, f) = 0 BY <1>2, <3>1, PointersAreCounted
    <3> QED BY <1>2, <3>2 DEF Counted, Alive
  <2> QED BY <1>2, <2>1, <2>2 DEF FInv
<1>10. KInv
  <2>1. function \in [DOMAIN status -> AllFunctions \cup {NULL}] BY <1>1, <1>3, <1>4
  <2>2. ASSUME NEW f \in AllFunctions PROVE running[f] = Cardinality(Using(f))
    <3>1. Using(f) = {} BY <1>1, <1>4 DEF Using
    <3> QED BY <1>2, <3>1, FS_EmptySet
  <2>3. DOMAIN status = {} BY <1>1, <1>4
  <2>4. IsFiniteSet(DOMAIN status) BY <2>3, FS_EmptySet
  <2> QED BY <2>1, <2>2, <2>3, <2>4 DEF KInv
<1> QED BY <1>1, <1>2, <1>5, <1>6, <1>7, <1>8, <1>9, <1>10, <1>11 DEF IInv, UInv, CInv

(* What a step does to the contexts' statuses: those that change one of     *)
(* them, or none.                                                           *)
LEMMA StepsUnprepareOne ==
  ASSUME Contexts!Turn \/ Contexts!NextRound \/ Contexts!CallReturns \/ Contexts!Yield \/ Contexts!Finish
  PROVE  UnpreparesOne
<1>1. ASSUME NEW b, NEW x, status' = [status EXCEPT ![b] = x] PROVE UnpreparesOne
  <2>1. DOMAIN status' = DOMAIN status BY <1>1
  <2>2. \A c \in DOMAIN status : c # b => status'[c] = status[c] BY <1>1
  <2> QED BY <2>1, <2>2 DEF UnpreparesOne
<1>2. ASSUME status' = status PROVE UnpreparesOne
  BY <1>2 DEF UnpreparesOne
<1>3. ASSUME NEW t, NEW slot, NEW after, Contexts!Terminated(t, slot, after) PROVE UnpreparesOne
  <2>1. PICK x : status' = [status EXCEPT ![info[t].coRoutines[slot]] = x]
    BY <1>3 DEF Contexts!Terminated
  <2> QED BY <1>1, <2>1
<1>4. CASE Contexts!Turn
  <2>1. \/ Contexts!Fault
        \/ \E t, slot, c : Contexts!Resume(t, slot, c)
        \/ \E t, slot, after : Contexts!Terminated(t, slot, after)
    BY <1>4 DEF Contexts!Turn
  <2>2. CASE Contexts!Fault BY <1>2, <2>2 DEF Contexts!Fault
  <2>3. CASE \E t, slot, c : Contexts!Resume(t, slot, c)
    BY <1>1, <2>3 DEF Contexts!Resume
  <2> QED BY <1>3, <2>1, <2>2, <2>3
<1>5. CASE Contexts!NextRound BY <1>2, <1>5 DEF Contexts!NextRound
<1>6. CASE Contexts!CallReturns BY <1>1, <1>6 DEF Contexts!CallReturns
<1>7. CASE Contexts!Yield
  <2>1. Contexts!Fault \/ Contexts!Suspended BY <1>7 DEF Contexts!Yield
  <2> QED BY <1>1, <1>2, <2>1 DEF Contexts!Fault, Contexts!Suspended
<1>8. CASE Contexts!Finish
  <2>1. Contexts!Fault \/ \E t, slot, after : Contexts!Terminated(t, slot, after)
    BY <1>8 DEF Contexts!Finish
  <2> QED BY <1>2, <1>3, <2>1 DEF Contexts!Fault
<1> QED BY <1>4, <1>5, <1>6, <1>7, <1>8

(* What holds of the functions, in every step, whenever callbacks come.     *)
LEMMA FunctionsKeep ==
  ASSUME UInv, [Next]_vars
  PROVE  UInv'
<1> USE DEF UInv
<1>1. CASE EngineCall
  <2>1. Contexts!EngineCall /\ PreparedWith(NULL) /\ Functions!Prepare(NULL, Earlier)
    BY <1>1 DEF EngineCall
  <2>2. Contexts!Request BY <2>1 DEF Contexts!EngineCall, Contexts!Execute, Contexts!AddContext
  <2> QED BY <2>1, <2>2, PreparedCounts
<1>2. CASE Callback
  <2>1. PICK c \in Callbacks :
          Contexts!Callback /\ PreparedWith(callback[c]) /\ Functions!Fire(c, Earlier)
    BY <1>2 DEF Callback
  <2>2. Contexts!Request BY <2>1 DEF Contexts!Callback, Contexts!Execute, Contexts!AddContext
  <2>3. PICK d : d = callback[c] OBVIOUS
  <2>4. d \in AllFunctions /\ Functions!Prepare(d, Earlier) /\ PreparedWith(d) /\ open
    BY <2>1, <2>3 DEF Functions!Fire, Functions!Prepare, FInv, Functions!TypeOK, Functions!Functions, AllFunctions
  <2>5. Alive(d) BY <2>3, <2>4, UsedIsAlive
  <2>6. d \in AllFunctions \cup {NULL} BY <2>4
  <2> QED BY <2>2, <2>4, <2>5, <2>6, PreparedCounts
<1>3. ASSUME GivesBack, calls # <<>>,
             Contexts!Turn \/ Contexts!NextRound \/ Contexts!CallReturns \/ Contexts!Yield \/ Contexts!Finish
      PROVE  UInv'
  <2>1. open BY <1>3
  <2>2. UnpreparesOne BY <1>3, StepsUnprepareOne
  <2> QED BY <1>3, <2>1, <2>2, GivesBackKeeps
<1>4. CASE Turn BY <1>3, <1>4 DEF Turn, Contexts!Turn
<1>5. CASE NextRound BY <1>3, <1>5 DEF NextRound, Contexts!NextRound
<1>6. CASE CallReturns BY <1>3, <1>6 DEF CallReturns, Contexts!CallReturns
<1>7. CASE Spawn
  <2>1. PICK f \in AllFunctions :
          Contexts!Spawn /\ PreparedWith(f) /\ Functions!CreateCoRoutine(f, Earlier)
    BY <1>7 DEF Spawn, AllFunctions
  <2>2. Functions!CanPass(f) /\ Functions!Prepare(f, Earlier) /\ open
    BY <2>1 DEF Functions!CreateCoRoutine, Functions!Prepare
  <2>3. Alive(f) BY <2>2, CanPassLives
  <2>4. Contexts!Request BY <2>1 DEF Contexts!Spawn
  <2>5. f \in AllFunctions \cup {NULL} OBVIOUS
  <2> QED BY <2>1, <2>2, <2>3, <2>4, <2>5, PreparedCounts
<1>8. CASE Yield BY <1>3, <1>8 DEF Yield, Contexts!Yield
<1>9. CASE Finish BY <1>3, <1>9 DEF Finish, Contexts!Finish
<1>10. ASSUME UNCHANGED <<status, calls, function>>, UNCHANGED running PROVE KInv' /\ calls' = calls
  BY <1>10 DEF KInv, Using
<1>11. CASE SpawnFails
  <2>1. UNCHANGED <<status, calls, function>> /\ UNCHANGED functionVars
    BY <1>11 DEF SpawnFails, Contexts!SpawnFails, Contexts!Fault
  <2>2. FInv' /\ running' = running /\ open' = open
    BY <2>1 DEF FInv, Counted, Alive, functionVars, Functions!TypeOK, PointersIn
  <2> QED BY <1>10, <2>1, <2>2
<1>12. CASE Handle
  <2>1. UNCHANGED <<status, calls, function>> /\ calls # <<>> BY <1>12 DEF Handle, Running, contextVars
  <2>2. open BY <2>1
  <2>3. FInv' /\ running' = running /\ open' = open
    <3>1. ASSUME NEW d \in Delegates, Functions!MakeDelegate(d)
          PROVE  FInv' /\ running' = running /\ open' = open
      BY <3>1, MakeDelegateKeeps DEF Functions!MakeDelegate
    <3>2. ASSUME NEW f \in AllFunctions, Functions!StoreHandle(f)
          PROVE  FInv' /\ running' = running /\ open' = open
      BY <3>2, StoreHandleKeeps DEF Functions!StoreHandle
    <3>3. ASSUME NEW f \in AllFunctions, Functions!DropHandle(f)
          PROVE  FInv' /\ running' = running /\ open' = open
      BY <3>3, DropHandleKeeps DEF Functions!DropHandle
    <3>4. ASSUME NEW c \in Callbacks, NEW f \in AllFunctions \cup {NULL}, Functions!SetCallback(c, f)
          PROVE  FInv' /\ running' = running /\ open' = open
      BY <3>4, SetCallbackKeeps DEF Functions!SetCallback
    <3> QED BY <1>12, <3>1, <3>2, <3>3, <3>4 DEF Handle, AllFunctions
  <2> QED BY <1>10, <2>1, <2>2, <2>3
<1>13. CASE Close
  <2>1. calls = <<>> /\ Functions!Close /\ UNCHANGED <<status, calls, function>>
    BY <1>13 DEF Close, contextVars
  <2>2. FInv' BY <2>1, CloseKeeps
  <2>3. running' = running BY <2>1 DEF Functions!Close
  <2> QED BY <1>10, <2>1, <2>2, <2>3
<1>14. CASE UNCHANGED vars
  <2>1. UNCHANGED <<status, calls, function>> /\ UNCHANGED functionVars BY <1>14 DEF vars, contextVars
  <2>2. FInv' /\ running' = running /\ open' = open
    BY <2>1 DEF FInv, Counted, Alive, functionVars, Functions!TypeOK, PointersIn
  <2> QED BY <1>10, <2>1, <2>2
<1> QED BY <1>1, <1>2, <1>4, <1>5, <1>6, <1>7, <1>8, <1>9, <1>11, <1>12, <1>13, <1>14 DEF Next

(* What holds of the contexts, each action with its own lemma.              *)
LEMMA ContextsKeep ==
  ASSUME CInv, Pooled, [Next]_vars, ~nested'
  PROVE  CInv' /\ Pooled'
<1>1. CASE EngineCall
  <2>1. calls = <<>> /\ Contexts!Execute /\ steps' \in 0..MaxSteps
    BY <1>1, BoundsArePositive DEF EngineCall, Contexts!EngineCall
  <2>2. Contexts!Request BY <2>1 DEF Contexts!Execute, Contexts!AddContext
  <2> QED BY <2>1, <2>2, ExecuteKeeps, RequestPools
<1>2. CASE Callback
  <2>1. Contexts!Callback BY <1>2 DEF Callback
  <2>2. calls = <<>> /\ Contexts!Execute /\ steps' \in 0..MaxSteps
    <3>1. Contexts!Execute /\ steps' = IF calls = <<>> THEN 0 ELSE steps
      BY <2>1 DEF Contexts!Callback
    <3>2. nested' = (nested \/ calls # <<>>) BY <2>1 DEF Contexts!Callback
    <3>3. calls = <<>> BY <3>2, ~nested', Zenon
    <3> QED BY <3>1, <3>3, BoundsArePositive
  <2>3. Contexts!Request BY <2>2 DEF Contexts!Execute, Contexts!AddContext
  <2> QED BY <2>2, <2>3, ExecuteKeeps, RequestPools
<1>3. CASE Turn
  <2>1. Contexts!Turn BY <1>3 DEF Turn
  <2> QED BY <2>1, TurnKeeps, GivesBackPools
<1>4. CASE NextRound
  <2>1. Contexts!NextRound BY <1>4 DEF NextRound
  <2> QED BY <2>1, NextRoundKeeps, GivesBackPools
<1>5. CASE CallReturns
  <2>1. Contexts!CallReturns BY <1>5 DEF CallReturns
  <2> QED BY <2>1, CallReturnsKeeps, GivesBackPools
<1>6. CASE Spawn
  <2>1. Contexts!Spawn BY <1>6 DEF Spawn
  <2>2. Contexts!Request BY <2>1 DEF Contexts!Spawn
  <2> QED BY <2>1, <2>2, SpawnKeeps, RequestPools
<1>7. ~SpawnFails BY SpawnSucceeds DEF SpawnFails
<1>8. CASE Yield
  <2>1. Contexts!Yield BY <1>8 DEF Yield
  <2> QED BY <2>1, YieldKeeps, GivesBackPools
<1>9. CASE Finish
  <2>1. Contexts!Finish BY <1>9 DEF Finish
  <2> QED BY <2>1, FinishKeeps, GivesBackPools
<1>10. CASE Handle \/ Close \/ UNCHANGED vars
  <2>1. UNCHANGED contextVars BY <1>10 DEF Handle, Close, vars
  <2> QED BY <2>1 DEF contextVars, Pooled, CInv, Contexts!TypeOK, Contexts!Contexts, Shape, NoThread, OneThread,
             Ready, Rest, InPool, OnThread, InTurn, Before, NextTurn, Executes, Co, Cur
<1> QED BY <1>1, <1>2, <1>3, <1>4, <1>5, <1>6, <1>7, <1>8, <1>9, <1>10 DEF Next

(* A callback that has come inside a script's call is remembered.           *)
LEMMA NestedStays == nested /\ [Next]_vars => nested'
<1> SUFFICES ASSUME nested, [Next]_vars PROVE nested'
  OBVIOUS
<1>1. CASE Callback BY <1>1 DEF Callback, Contexts!Callback
<1>2. CASE EngineCall BY <1>2 DEF EngineCall, Contexts!EngineCall
<1>3. CASE Turn BY <1>3 DEF Turn, Contexts!Turn, Contexts!Resume, Contexts!Fault
<1>4. CASE NextRound \/ CallReturns
  BY <1>4 DEF NextRound, Contexts!NextRound, CallReturns, Contexts!CallReturns
<1>5. CASE Spawn \/ SpawnFails
  BY <1>5 DEF Spawn, Contexts!Spawn, SpawnFails, Contexts!SpawnFails, Contexts!Fault
<1>6. CASE Yield \/ Finish
  BY <1>6 DEF Yield, Contexts!Yield, Finish, Contexts!Finish, Contexts!Fault
<1>7. CASE Handle \/ Close \/ UNCHANGED vars
  BY <1>7 DEF Handle, Close, vars, contextVars
<1> QED BY <1>1, <1>2, <1>3, <1>4, <1>5, <1>6, <1>7 DEF Next

(* The invariant holds in every state of Scripting.                         *)
THEOREM InvHolds == Spec => []IInv
<1>1. Init => IInv BY InitHolds
<1>2. ASSUME IInv, [Next]_vars PROVE IInv'
  <2>1. UInv' BY <1>2, FunctionsKeep DEF IInv
  <2>2. CASE nested \/ nested' BY <1>2, <2>1, <2>2, NestedStays DEF IInv
  <2>3. CASE ~nested /\ ~nested' BY <1>2, <2>1, <2>3, ContextsKeep DEF IInv
  <2> QED BY <2>2, <2>3
<1> QED BY <1>1, <1>2, PTL DEF Spec

(* The contexts of Scripting's threads are the ones on the only thread.     *)
LEMMA ListedIsOnThread ==
  ASSUME CInv
  PROVE  \A c : c \in Contexts!Listed <=> OnThread(c)
<1>1. CASE threads = <<>>
  <2>1. Contexts!Listed = {} BY <1>1 DEF Contexts!Listed
  <2> QED BY <1>1, <2>1 DEF OnThread
<1>2. CASE threads # <<>>
  <2>1. OneThread BY <1>2 DEF CInv, Shape, NoThread
  <2>2. threads = <<1>> /\ DOMAIN <<1>> = {1} BY <2>1 DEF OneThread
  <2>3. Contexts!Listed = Contexts!ToSet(Co) BY <2>2 DEF Contexts!Listed, Co
  <2>4. DOMAIN Co = 1..Len(Co)
    <3>1. Co \in Seq(DOMAIN status) BY <2>1, TypesOf DEF CInv, OneThread, Infos, Co
    <3> QED BY <3>1, LenProperties
  <2> QED BY <1>2, <2>3, <2>4 DEF Contexts!ToSet, OnThread
<1> QED BY <1>1, <1>2

(* What the runs check follows from the inductive invariant.                *)
LEMMA InvImplies ==
  ASSUME UInv, CInv, Pooled
  PROVE  NeverFaults /\ PoolIsTheRest
<1> USE DEF UInv
<1>1. NeverFaults
  BY DEF NeverFaults, TypeOK, CInv, FInv, KInv, Shape, AllFunctions
<1>2. /\ pool \in Seq(DOMAIN status) /\ Len(pool) \in Nat /\ DOMAIN pool = 1..Len(pool)
      /\ \A k \in 1..Len(pool) : pool[k] \in DOMAIN status
  BY TypesOf, LenProperties, ElementOfSeq DEF CInv
<1>3. ToSet(pool) = {c \in DOMAIN status : InPool(c)} /\ Contexts!ToSet(pool) = ToSet(pool)
  BY <1>2 DEF ToSet, Contexts!ToSet, InPool
<1>4. Contexts!PoolIsTheRest
  <2>1. Contexts!IsInjective(pool)
    BY <1>2 DEF CInv, Rest, Contexts!IsInjective
  <2>2. \A c \in DOMAIN status : c \in Contexts!Listed <=> OnThread(c)
    BY ListedIsOnThread
  <2>3. \A c \in DOMAIN status : c \in Contexts!Held <=> calls # <<>> /\ c = calls[1].held
    <3>1. calls = <<>> => Contexts!Held = {} BY DEF Contexts!Held
    <3>2. ASSUME calls # <<>> PROVE Contexts!Held = {calls[1].held}
      <4>1. Len(calls) = 1 /\ calls \in Seq(Frames(DOMAIN status)) BY <3>2, TopIsFirst, TypesOf DEF CInv
      <4>2. DOMAIN calls = {1}
        <5>1. DOMAIN calls = 1..1 BY <4>1, LenProperties
        <5> QED BY <5>1
      <4> QED BY <4>2 DEF Contexts!Held
    <3> QED BY <3>1, <3>2
  <2>4. Contexts!ToSet(pool) = DOMAIN status \ (Contexts!Listed \cup Contexts!Held)
    BY <1>3, <2>2, <2>3 DEF CInv, Rest
  <2> QED BY <2>1, <2>4 DEF Contexts!PoolIsTheRest, Contexts!Contexts
<1>5. ASSUME NEW f \in AllFunctions
      PROVE  running[f] = Cardinality({c \in DOMAIN status : c \notin ToSet(pool) /\ function[c] = f})
  <2>1. f # NULL BY KindsDiffer DEF AllFunctions
  <2>2. \A c \in DOMAIN status : InPool(c) => function[c] = NULL BY DEF KInv, Pooled
  <2>3. {c \in DOMAIN status : c \notin ToSet(pool) /\ function[c] = f} = Using(f)
    BY <1>3, <2>1, <2>2 DEF Using
  <2> QED BY <2>3 DEF KInv
<1>6. PoolIsTheRest BY <1>4, <1>5 DEF PoolIsTheRest, AllFunctions
<1> QED BY <1>1, <1>6

(* ContextManager never reads a vector outside its bounds nor executes an   *)
(* erased co-routine, whatever the scripts do, until a callback comes       *)
(* inside a script's call.                                                  *)
THEOREM ContextsAreThere == Spec => []NeverFaults
<1>1. IInv => NeverFaults BY InvImplies DEF NeverFaults, IInv
<1> QED BY <1>1, InvHolds, PTL

(* Until then no context is lost, pooled twice or pooled while it is        *)
(* listed, and the functions of the pooled ones are let go.                 *)
THEOREM PoolIsExact == Spec => []PoolIsTheRest
<1>1. IInv => PoolIsTheRest BY InvImplies DEF PoolIsTheRest, IInv
<1> QED BY <1>1, InvHolds, PTL

(* No callback names a deleted function while the engine is open, no        *)
(* context has a deleted one, and Close leaves none over: whenever          *)
(* callbacks come, inside a script's call too.                              *)
THEOREM FunctionsAreKept == Spec => []UsedFunctionsLive
<1>1. ASSUME FInv PROVE UsedFunctionsLive
  <2>1. Functions!CloseFreesFunctions BY <1>1 DEF FInv, Functions!CloseFreesFunctions
  <2>2. Functions!UsedFunctionsLive
    BY <1>1, UsedIsAlive DEF Functions!UsedFunctionsLive, Functions!Live, Functions!Functions, AllFunctions, Alive
  <2> QED BY <2>1, <2>2 DEF UsedFunctionsLive
<1>2. IInv => UsedFunctionsLive BY <1>1 DEF IInv, UInv
<1> QED BY <1>2, InvHolds, PTL

(* Who gets a turn had none since any listed co-routine had its last one.   *)
LEMMA TurnsAreOrdered ==
  ASSUME CInv, Next, NEW c \in DOMAIN status,
         status[c] # "active", status'[c] = "active", NEW d, d \in Contexts!Listed, d # c
  PROVE  c \notin since[d]
<1>1. ASSUME Contexts!Request PROVE FALSE
  <2>1. PICK e : e = Contexts!Requested OBVIOUS
  <2>2. status'[e] = "prepared" /\ (c # e => status'[c] = status[c])
    BY <1>1, <2>1, RequestEffects DEF CInv
  <2> QED BY <2>2
<1>2. ASSUME NEW e, NEW x, status' = [status EXCEPT ![e] = x], x # "active" PROVE FALSE
  BY <1>2, TypesOf DEF CInv
<1>3. status' # status OBVIOUS
<1>4. CASE Turn
  <2>1. Contexts!Turn BY <1>4 DEF Turn
  <2>2. PICK e : e = Co[Cur] OBVIOUS
  <2>3. OneThread /\ ~Executes /\ status' = [status EXCEPT ![e] = "active"]
    BY <2>1, <2>2, TurnResumes DEF Contexts!Resume
  <2>4. c = Co[Cur] BY <2>2, <2>3, TypesOf DEF CInv
  <2>5. PICK j \in 1..Len(Co) : Co[j] = d BY ListedIsOnThread DEF OnThread
  <2>6. threads # <<>> /\ Cur \in 1..Len(Co) /\ j # Cur BY <2>3, <2>4, <2>5 DEF OneThread
  <2>7. NextTurn = Cur BY <2>3 DEF NextTurn
  <2>8. ~Before(j, Cur) BY <2>6, <2>7 DEF Before
  <2> QED BY <2>4, <2>5, <2>6, <2>8 DEF CInv, InTurn
<1>5. ~EngineCall
  BY <1>1 DEF EngineCall, Contexts!EngineCall, Contexts!Execute, Contexts!AddContext
<1>6. ~Callback
  BY <1>1 DEF Callback, Contexts!Callback, Contexts!Execute, Contexts!AddContext
<1>7. ~NextRound BY <1>3 DEF NextRound, Contexts!NextRound
<1>8. ~CallReturns
  <2>1. CallReturns => status' = [status EXCEPT ![Contexts!Top.held] = "pooled"]
    BY DEF CallReturns, Contexts!CallReturns
  <2> QED BY <1>2, <2>1
<1>9. ~Spawn BY <1>1 DEF Spawn, Contexts!Spawn
<1>10. ~Yield
  <2>1. Yield => status' = status \/ status' = [status EXCEPT ![Contexts!Top.running] = "suspended"]
    BY DEF Yield, Contexts!Yield, Contexts!Fault, Contexts!Suspended
  <2> QED BY <1>2, <1>3, <2>1
<1>11. ~Finish
  <2>1. ASSUME Finish PROVE FALSE
    <3>1. \/ status' = status
          \/ \E e, x : status' = [status EXCEPT ![e] = x] /\ x \in {"ended", "pooled"}
      BY <2>1 DEF Finish, Contexts!Finish, Contexts!Fault, Contexts!Terminated
    <3> QED BY <1>2, <1>3, <3>1
  <2> QED BY <2>1
<1>12. ~Handle /\ ~Close BY <1>3 DEF Handle, Close, contextVars
<1>13. ~SpawnFails BY <1>3 DEF SpawnFails, Contexts!SpawnFails, Contexts!Fault
<1> QED BY <1>4, <1>5, <1>6, <1>7, <1>8, <1>9, <1>10, <1>11, <1>12, <1>13 DEF Next

(* A co-routine gets no second turn while another of its thread waits,      *)
(* until a callback comes inside a script's call.                           *)
THEOREM TurnsAreFair == Spec => NoSecondTurn
<1>1. ASSUME IInv, [Next]_vars
      PROVE  [\A c \in Contexts!Contexts : ~nested /\ status[c] # "active" /\ status'[c] = "active" =>
                \A d \in Contexts!Listed \ {c} : c \notin since[d]]_Contexts!vars
  <2>1. CASE Next BY <1>1, <2>1, TurnsAreOrdered DEF Contexts!Contexts, IInv
  <2>2. CASE UNCHANGED vars BY <2>2 DEF vars, contextVars, Contexts!vars
  <2> QED BY <1>1, <2>1, <2>2
<1> QED BY <1>1, InvHolds, PTL DEF Spec, NoSecondTurn, Contexts!NoSecondTurn

-----------------------------------------------------------------------------
(* The debugger.  A function of the script and its line, and a break point. *)
Statement == [func : Funcs, line : Nat]
BreakPoint == [name : Funcs \cup Files, line : Int, func : BOOLEAN, needsAdjusting : BOOLEAN]

(* What LineCallback keeps of a command to go on.                           *)
Goal ==
  /\ asked \in [command : {"c", "s", "n", "o", ""}, depth : Nat]
  /\ asked.command = "c" => action = "CONTINUE"
  /\ asked.command = "s" => action = "STEP_INTO"
  /\ asked.command = "n" =>
       action = "STEP_OVER" /\ level = IF asked.depth = 0 THEN 1 ELSE asked.depth
  /\ asked.command = "o" => action = "STEP_OUT" /\ level = asked.depth

(* LineCallback runs for a statement of a function of the script.           *)
DebugInv ==
  /\ stack \in Seq(Statement) /\ (mode = "line" => stack # <<>>)
  /\ breakPoints \in Seq(BreakPoint)
  /\ Goal

(* A sequence without its last element is a sequence.                       *)
LEMMA FrontOfSeq ==
  ASSUME NEW S, NEW s \in Seq(S), s # <<>>
  PROVE  Front(s) \in Seq(S)
<1>1. Len(s) \in Nat /\ \A i \in 1..(Len(s) - 1) : s[i] \in S
  BY LenProperties
<1> DEFINE n == Len(s) - 1
<1>2. n \in Int /\ \A i \in 1..n : s[i] \in S
  BY <1>1
<1>3. Front(s) = SubSeq(s, 1, n)
  BY DEF Front
<1> HIDE DEF n
<1> QED
  BY <1>2, <1>3, SubSeqProperties

(* A sequence without any one of its elements is a sequence.                *)
LEMMA RemoveAtOfSeq ==
  ASSUME NEW S, NEW s \in Seq(S), NEW i \in 1..Len(s)
  PROVE  RemoveAt(s, i) \in Seq(S)
<1> DEFINE n == Len(s)
           front == SubSeq(s, 1, i - 1)
           back == SubSeq(s, i + 1, n)
<1>1. n \in Nat /\ s \in [1..n -> S] /\ i \in 1..n
  BY LenProperties
<1>2. RemoveAt(s, i) = front \o back
  BY DEF RemoveAt
<1> HIDE DEF n
<1>3. front \in Seq(S)
  <2>1. i - 1 \in Int /\ \A k \in 1..(i - 1) : s[k] \in S
    BY <1>1
  <2> QED
    BY <2>1, SubSeqProperties
<1>4. back \in Seq(S)
  <2>1. i + 1 \in Int /\ n \in Int /\ \A k \in (i + 1)..n : s[k] \in S
    BY <1>1
  <2> QED
    BY <2>1, SubSeqProperties
<1> HIDE DEF front, back
<1> QED
  BY <1>2, <1>3, <1>4, ConcatProperties

(* The function that runs and its line are the last of the stack.           *)
LEMMA TopOfStack ==
  ASSUME DebugInv, stack # <<>>
  PROVE  /\ Func \in Funcs /\ Line \in Nat /\ File[Func] \in Files
         /\ Depth \in 1..Len(stack) /\ stack[Depth] = [func |-> Func, line |-> Line]
<1>1. stack \in Seq(Statement)
  BY DEF DebugInv
<1>2. Depth \in 1..Len(stack) /\ stack[Depth] \in Statement
  <2>1. Len(stack) \in Nat \ {0}
    BY <1>1, EmptySeq
  <2>2. Depth = Len(stack) /\ Depth \in 1..Len(stack)
    BY <2>1 DEF Depth
  <2> QED
    BY <1>1, <2>2, ElementOfSeq
<1>3. Last(stack) = stack[Depth]
  BY DEF Last, Depth
<1> QED
  BY <1>2, <1>3 DEF Func, Line, Statement, Files

(* A set of numbers that has a member has a least one.                      *)
LEMMA LeastNumber ==
  ASSUME NEW S \in SUBSET Nat, S # {}
  PROVE  Min(S) \in S /\ \A y \in S : Min(S) <= y
<1> DEFINE R == OpToRel(<, Nat)
<1>1. IsWellFoundedOn(R, Nat)
  BY NatLessThanWellFounded
<1>2. \A x, y \in Nat : x < y => <<x, y>> \in R
  BY DEF OpToRel
<1> HIDE DEF R
<1>3. PICK x \in S : \A y \in S : <<y, x>> \notin R
  BY <1>1, WFMin
<1>4. \A y \in S : x <= y
  <2> TAKE y \in S
  <2>1. x \in Nat /\ y \in Nat
    OBVIOUS
  <2>2. ~(y < x)
    BY <1>2, <1>3, <2>1
  <2> QED
    BY <2>1, <2>2
<1> QED
  BY <1>4, Zenon DEF Min

(* FindNextLineWithCode returns a line or -1; and where the code comes in   *)
(* order, no line but the one it was asked for.                             *)
LEMMA FoundLine ==
  ASSUME NEW f \in Funcs, NEW line \in Int
  PROVE  LET found == FindNextLineWithCode(f, line)
         IN  found \in Int /\ (ComesInOrder(f, line) => found \in {-1, line})
<1> DEFINE S == {n \in DOMAIN Code[f] : line <= Code[f][n]}
           found == FindNextLineWithCode(f, line)
           last == Len(Code[f])
<1>1. /\ Code[f] \in [1..last -> Nat] /\ last \in Nat \ {0}
      /\ Last(Code[f]) = Code[f][last]
  <2>1. Code[f] \in Seq(Nat) /\ Code[f] # <<>>
    BY CodeFollowsDeclaration
  <2> QED
    BY <2>1, EmptySeq, LenProperties DEF Last
<1> HIDE DEF last
<1>2. CASE line < Declared[f] \/ line > Last(Code[f])
  <2>1. found = -1
    BY <1>2 DEF FindNextLineWithCode
  <2> QED
    BY <2>1
<1>3. CASE ~(line < Declared[f] \/ line > Last(Code[f]))
  <2>1. found = Code[f][Min(S)]
    BY <1>3 DEF FindNextLineWithCode
  <2>2. last \in S /\ S \in SUBSET Nat /\ S # {}
    BY <1>1, <1>3
  <2>3. Min(S) \in S /\ \A n \in S : Min(S) <= n
    BY <2>2, LeastNumber
  <2>4. found \in Nat /\ Min(S) \in 1..last
    BY <1>1, <2>1, <2>3
  <2>5. ASSUME ComesInOrder(f, line)
        PROVE  found = line
    <3>1. PICK n \in DOMAIN Code[f] :
            Code[f][n] = line /\ \A m \in 1..(n - 1) : Code[f][m] < line
      BY <2>5 DEF ComesInOrder
    <3>2. n \in S /\ n \in 1..last
      BY <1>1, <3>1
    <3>3. Min(S) <= n /\ line <= Code[f][Min(S)]
      BY <2>3, <3>2
    <3>4. ~(Min(S) \in 1..(n - 1))
      <4>1. Code[f][Min(S)] \in Nat
        BY <1>1, <2>4
      <4> QED
        BY <3>1, <3>3, <4>1
    <3>5. Min(S) = n
      BY <2>4, <3>2, <3>3, <3>4
    <3> QED
      BY <2>1, <3>1, <3>5
  <2> QED
    BY <2>4, <2>5
<1> QED
  BY <1>2, <1>3
(* What CheckBreakPoint makes of a break point is one, and still stops here *)
(* if it did, or breaks at this function.                                   *)
LEMMA AdjustKeeps ==
  ASSUME DebugInv, stack # <<>>, NEW bp \in BreakPoint
  PROVE  /\ Adjust(bp) \in BreakPoint
         /\ IsHere(bp) /\ (bp.needsAdjusting => ComesInOrder(Func, Line)) => IsHere(Adjust(bp))
         /\ bp.func /\ bp.name = Func => IsHere(Adjust(bp))
<1> DEFINE found == FindNextLineWithCode(Func, bp.line)
<1>1. Func \in Funcs /\ Line \in Nat /\ File[Func] \in Files
  BY TopOfStack
<1>2. bp.line \in Int /\ bp.func \in BOOLEAN
  BY DEF BreakPoint
<1>3. found \in Int /\ (ComesInOrder(Func, bp.line) => found \in {-1, bp.line})
  BY <1>1, <1>2, FoundLine
<1> HIDE DEF found
<1>4. CASE bp.func
  BY <1>1, <1>4 DEF Adjust, BreakPoint, IsHere
<1>5. CASE ~bp.func
  <2>1. Adjust(bp) = IF bp.needsAdjusting /\ bp.name = File[Func] /\ found >= 0
                     THEN [bp EXCEPT !.line = found, !.needsAdjusting = FALSE]
                     ELSE bp
    BY <1>5 DEF Adjust, found
  <2>2. Adjust(bp) \in BreakPoint
    BY <1>3, <2>1 DEF BreakPoint
  <2>3. ASSUME IsHere(bp), bp.needsAdjusting => ComesInOrder(Func, Line)
        PROVE  IsHere(Adjust(bp))
    <3>1. bp.line = Line
      BY <2>3 DEF IsHere
    <3>2. CASE bp.needsAdjusting /\ bp.name = File[Func] /\ found >= 0
      <4>1. found = bp.line
        BY <1>2, <1>3, <2>3, <3>1, <3>2
      <4>2. Adjust(bp) = [bp EXCEPT !.line = found, !.needsAdjusting = FALSE]
        BY <2>1, <3>2
      <4> QED
        BY <2>3, <4>1, <4>2 DEF IsHere, BreakPoint
    <3> QED
      BY <2>1, <2>3, <3>2
  <2> QED
    BY <1>5, <2>2, <2>3
<1> QED
  BY <1>4, <1>5

(* What CheckLine leaves: the break points, looked at one by one.           *)
LEMMA AdjustedBreakPoints ==
  ASSUME DebugInv, stack # <<>>
  PROVE  /\ Adjusted \in Seq(BreakPoint) /\ DOMAIN Adjusted = DOMAIN breakPoints
         /\ \A n \in DOMAIN breakPoints :
              Adjusted[n] = IF lastFunction = Func THEN breakPoints[n] ELSE Adjust(breakPoints[n])
<1>1. breakPoints \in Seq(BreakPoint) /\ Len(breakPoints) \in Nat
  BY LenProperties DEF DebugInv
<1>2. CASE lastFunction = Func
  BY <1>1, <1>2 DEF Adjusted
<1>3. CASE lastFunction # Func
  <2>1. Adjusted = [n \in DOMAIN breakPoints |-> Adjust(breakPoints[n])]
    BY <1>3 DEF Adjusted
  <2>2. DOMAIN breakPoints = 1..Len(breakPoints)
    BY <1>1, LenProperties
  <2>3. \A n \in 1..Len(breakPoints) : Adjust(breakPoints[n]) \in BreakPoint
    <3> TAKE n \in 1..Len(breakPoints)
    <3>1. breakPoints[n] \in BreakPoint
      BY <1>1, ElementOfSeq
    <3> QED
      BY <3>1, AdjustKeeps
  <2>4. Adjusted \in [1..Len(breakPoints) -> BreakPoint]
    BY <2>1, <2>2, <2>3
  <2>5. Adjusted \in Seq(BreakPoint)
    BY <1>1, <2>4, FunctionIsSeq
  <2> QED
    BY <1>3, <2>1, <2>5
<1> QED
  BY <1>2, <1>3

(* No command was given and no script runs at first.                        *)
LEMMA DebugInvInit == DebugInit => DebugInv
BY EmptySeq DEF DebugInit, DebugInv, Goal

(* The steps of the script and of LineCallback keep the invariant.          *)
LEMMA ScriptKeeps ==
  ASSUME DebugInv, \/ \E f \in Funcs : Enter(f)
                   \/ NextStatement \/ Return \/ StopByStep \/ CheckLine
  PROVE  DebugInv'
<1> USE DEF DebugInv
<1>1. ASSUME NEW f \in Funcs, Enter(f)
      PROVE  DebugInv'
  <2>1. [func |-> f, line |-> Head(Code[f])] \in Statement
    BY CodeFollowsDeclaration, HeadTailProperties DEF Statement
  <2>2. stack' \in Seq(Statement) /\ stack' # <<>>
    BY <1>1, <2>1, AppendProperties DEF Enter
  <2> QED
    BY <1>1, <2>2 DEF Enter, Goal
<1>2. ASSUME NextStatement
      PROVE  DebugInv'
  <2>1. PICK line \in ToSet(Code[Func]) : stack' = [stack EXCEPT ![Depth].line = line]
    BY <1>2 DEF NextStatement
  <2>2. /\ Func \in Funcs /\ Depth \in 1..Len(stack)
        /\ stack[Depth] = [func |-> Func, line |-> Line]
    BY <1>2, TopOfStack DEF NextStatement
  <2>3. line \in Nat
    <3>1. Code[Func] \in Seq(Nat)
      BY <2>2, CodeFollowsDeclaration
    <3>2. PICK n \in DOMAIN Code[Func] : line = Code[Func][n]
      BY <2>1 DEF ToSet
    <3> QED
      BY <3>1, <3>2
  <2>4. [stack[Depth] EXCEPT !.line = line] \in Statement
    BY <2>2, <2>3 DEF Statement
  <2>5. stack' \in Seq(Statement) /\ Len(stack') = Len(stack)
    BY <2>1, <2>2, <2>4, ExceptSeq
  <2>6. stack' # <<>>
    BY <2>2, <2>5
  <2> QED
    BY <1>2, <2>5, <2>6 DEF NextStatement, Goal
<1>3. ASSUME Return
      PROVE  DebugInv'
  <2>1. stack' \in Seq(Statement)
    BY <1>3, FrontOfSeq DEF Return
  <2> QED
    BY <1>3, <2>1 DEF Return, Goal
<1>4. ASSUME StopByStep
      PROVE  DebugInv'
  BY <1>4 DEF StopByStep, script, Goal
<1>5. ASSUME CheckLine
      PROVE  DebugInv'
  <2>1. breakPoints' \in Seq(BreakPoint)
    BY <1>5, AdjustedBreakPoints DEF CheckLine, CheckBreakPoint
  <2> QED
    BY <1>5, <2>1 DEF CheckLine, script, Goal
<1> QED
  BY <1>1, <1>2, <1>3, <1>4, <1>5

(* So do the commands that go on: each sets what LineCallback will compare. *)
LEMMA GoOnKeeps ==
  ASSUME DebugInv, Continue \/ StepInto \/ StepOver \/ StepOut \/ EmptyLine
  PROVE  DebugInv'
<1> USE DEF DebugInv
<1>1. PICK c \in {"c", "s", "n", "o", ""} : GoOn(c)
  BY DEF Continue, StepInto, StepOver, StepOut, EmptyLine
<1>2. Depth \in Nat /\ (stack = <<>> <=> Depth = 0)
  BY EmptySeq, LenProperties DEF Depth
<1>3. /\ stack' = stack /\ breakPoints' = breakPoints /\ mode' = "run"
      /\ asked' = [command |-> c, depth |-> Depth]
  BY <1>1 DEF GoOn, script
<1>4. Goal'
  <2>1. CASE Continue
    BY <1>2, <2>1 DEF Continue, GoOn, Goal
  <2>2. CASE StepInto
    BY <1>2, <2>2 DEF StepInto, GoOn, Goal
  <2>3. CASE StepOver
    BY <1>2, <2>3 DEF StepOver, GoOn, Goal
  <2>4. CASE StepOut
    BY <1>2, <2>4 DEF StepOut, GoOn, Goal
  <2>5. CASE EmptyLine
    BY <1>2, <2>5 DEF EmptyLine, GoOn, Goal
  <2> QED
    BY <2>1, <2>2, <2>3, <2>4, <2>5
<1> QED
  BY <1>3, <1>4

(* And those that set or remove break points, or abort the script.          *)
LEMMA BreakPointsKeep ==
  ASSUME DebugInv, \/ \E f \in Funcs : AddFuncBreakPoint(f)
                   \/ \E file \in Files, line \in BreakLines : AddFileBreakPoint(file, line)
                   \/ \E n \in 1..MaxBreakPoints : RemoveBreakPoint(n)
                   \/ RemoveAllBreakPoints \/ AbortScript
  PROVE  DebugInv'
<1> USE DEF DebugInv
<1>1. ASSUME NEW bp \in BreakPoint, AddBreakPoint(bp)
      PROVE  DebugInv'
  <2>1. breakPoints' \in Seq(BreakPoint)
    BY <1>1, AppendProperties DEF AddBreakPoint
  <2> QED
    BY <1>1, <2>1 DEF AddBreakPoint, script, Goal
<1>2. ASSUME NEW f \in Funcs, AddFuncBreakPoint(f)
      PROVE  DebugInv'
  <2>1. [name |-> f, line |-> 0, func |-> TRUE, needsAdjusting |-> TRUE] \in BreakPoint
    BY DEF BreakPoint
  <2> QED
    BY <1>1, <1>2, <2>1 DEF AddFuncBreakPoint
<1>3. ASSUME NEW file \in Files, NEW line \in BreakLines, AddFileBreakPoint(file, line)
      PROVE  DebugInv'
  <2>1. [name |-> file, line |-> line, func |-> FALSE, needsAdjusting |-> TRUE] \in BreakPoint
    BY LinesAreTyped DEF BreakPoint
  <2> QED
    BY <1>1, <1>3, <2>1 DEF AddFileBreakPoint
<1>4. ASSUME NEW n \in 1..MaxBreakPoints, RemoveBreakPoint(n)
      PROVE  DebugInv'
  <2>1. n \in 1..Len(breakPoints)
    BY <1>4, LenProperties DEF RemoveBreakPoint
  <2>2. breakPoints' \in Seq(BreakPoint)
    BY <1>4, <2>1, RemoveAtOfSeq DEF RemoveBreakPoint
  <2> QED
    BY <1>4, <2>2 DEF RemoveBreakPoint, script, Goal
<1>5. ASSUME RemoveAllBreakPoints
      PROVE  DebugInv'
  BY <1>5, EmptySeq DEF RemoveAllBreakPoints, script, Goal
<1>6. ASSUME AbortScript
      PROVE  DebugInv'
  BY <1>6, EmptySeq DEF AbortScript, Goal
<1> QED
  BY <1>2, <1>3, <1>4, <1>5, <1>6

(* Every step of the debugger and its script keeps the invariant.           *)
LEMMA DebugInvStep == DebugInv /\ [DebugNext]_debugVars => DebugInv'
<1>1. CASE UNCHANGED debugVars
  BY <1>1 DEF debugVars, DebugInv, Goal
<1>2. CASE DebugNext
  BY <1>2, ScriptKeeps, GoOnKeeps, BreakPointsKeep DEF DebugNext
<1> QED
  BY <1>1, <1>2

(* The invariant holds in every state of the debugger.                      *)
THEOREM DebugInvHolds == DebugSpec => []DebugInv
<1> QED
  BY DebugInvInit, DebugInvStep, PTL DEF DebugSpec

(* Before a LineCallback nothing happens but LineCallback.                  *)
LEMMA OnlyLineCallback ==
  ASSUME DebugNext, mode = "line"
  PROVE  StopByStep \/ CheckLine
BY DEF DebugNext, Enter, NextStatement, Return, Continue, StepInto, StepOver, StepOut, EmptyLine,
       GoOn, AddFuncBreakPoint, AddFileBreakPoint, AddBreakPoint, RemoveBreakPoint,
       RemoveAllBreakPoints, AbortScript

(* CheckLine stops at a break point that says so.                           *)
LEMMA CheckLineStops ==
  ASSUME DebugInv, CheckLine, BreaksAtLine
  PROVE  mode' = "prompt"
<1>1. stack # <<>> /\ breakPoints' = Adjusted
  BY DEF DebugInv, CheckLine, CheckBreakPoint
<1>2. PICK n \in DOMAIN breakPoints :
        \/ StopsHere(breakPoints[n])
        \/ breakPoints[n].func /\ breakPoints[n].name = Func /\ lastFunction # Func
  BY DEF BreaksAtLine, EntryBreaks
<1>3. breakPoints[n] \in BreakPoint
  BY ElementOfSeq, LenProperties DEF DebugInv
<1>4. IsHere(Adjusted[n])
  BY <1>1, <1>2, <1>3, AdjustKeeps, AdjustedBreakPoints DEF StopsHere
<1>5. BreaksHere(Adjusted)
  BY <1>1, <1>4, AdjustedBreakPoints DEF BreaksHere
<1> QED
  BY <1>1, <1>5 DEF CheckLine

(* LineCallback stops where a break point says so, unless AngelScript looks *)
(* for the line's code elsewhere or a function is entered from itself.      *)
THEOREM BreakPointsHold == DebugSpec => NoBreakPointIsPassed
<1>1. DebugInv /\ [DebugNext]_debugVars =>
        [mode = "line" /\ BreaksAtLine => mode' = "prompt"]_debugVars
  BY OnlyLineCallback, CheckLineStops DEF StopByStep
<1> QED
  BY <1>1, DebugInvHolds, PTL DEF DebugSpec, NoBreakPointIsPassed

(* Of the depths a running script has, one is the least.                    *)
LEMMA AtMostOne == \A d \in Nat \ {0} : (d <= 0 \/ d = 1) <=> d <= 1
OBVIOUS

(* A step as typed is done exactly where LineCallback finds so.             *)
LEMMA StepEndsWhereDone ==
  ASSUME DebugInv, asked.command # "", stack # <<>>
  PROVE  StepEnds <=> StepDone \/ action = "STEP_INTO"
<1>1. Depth \in Nat \ {0}
  BY EmptySeq DEF DebugInv, Depth
<1>2. Goal /\ asked.command \in {"c", "s", "n", "o"} /\ asked.depth \in Nat
  BY DEF DebugInv, Goal
<1>3. CASE asked.command = "c"
  BY <1>2, <1>3 DEF Goal, StepEnds, StepDone
<1>4. CASE asked.command = "s"
  BY <1>2, <1>4 DEF Goal, StepEnds, StepDone
<1>5. CASE asked.command = "n"
  <2>1. StepEnds <=> Depth <= asked.depth \/ (asked.depth = 0 /\ Depth = 1)
    BY <1>5 DEF StepEnds
  <2>2. action = "STEP_OVER" /\ level = IF asked.depth = 0 THEN 1 ELSE asked.depth
    BY <1>2, <1>5, Zenon DEF Goal
  <2>3. StepDone \/ action = "STEP_INTO" <=> Depth <= level
    BY <2>2 DEF StepDone
  <2>4. CASE asked.depth = 0
    <3>1. level = 1
      BY <2>2, <2>4
    <3>2. StepEnds <=> Depth <= 0 \/ Depth = 1
      BY <2>1, <2>4
    <3>3. StepDone \/ action = "STEP_INTO" <=> Depth <= 1
      BY <2>3, <3>1
    <3>4. (Depth <= 0 \/ Depth = 1) <=> Depth <= 1
      BY <1>1, AtMostOne
    <3> QED
      BY <3>2, <3>3, <3>4
  <2>5. CASE asked.depth # 0
    <3>1. level = asked.depth
      BY <2>2, <2>5
    <3> QED
      BY <1>1, <2>1, <2>3, <2>5, <3>1
  <2> QED
    BY <2>4, <2>5
<1>6. CASE asked.command = "o"
  BY <1>1, <1>2, <1>6 DEF Goal, StepEnds, StepDone
<1> QED
  BY <1>2, <1>3, <1>4, <1>5, <1>6

(* s, n, o and c stop where they were asked to, whatever runs in between.   *)
THEOREM StepsHold == DebugSpec => StepsStopWhereAsked
<1>1. ASSUME DebugInv, DebugNext, mode = "line", asked.command # ""
      PROVE  mode' = "prompt" <=> StepEnds \/ BreaksHere(breakPoints')
  <2>1. stack # <<>> /\ (StepEnds <=> StepDone \/ action = "STEP_INTO")
    BY <1>1, StepEndsWhereDone DEF DebugInv
  <2>2. CASE StopByStep
    BY <2>1, <2>2 DEF StopByStep
  <2>3. CASE CheckLine
    BY <2>1, <2>3 DEF CheckLine
  <2> QED
    BY <1>1, <2>2, <2>3, OnlyLineCallback
<1>2. DebugInv /\ [DebugNext]_debugVars =>
        [mode = "line" /\ asked.command # "" =>
           (mode' = "prompt" <=> StepEnds \/ BreaksHere(breakPoints'))]_debugVars
  BY <1>1
<1> QED
  BY <1>2, DebugInvHolds, PTL DEF DebugSpec, StepsStopWhereAsked
=============================================================================
