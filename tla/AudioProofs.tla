---------------------------- MODULE AudioProofs -----------------------------
(***************************************************************************)
(* Proofs about Audio, for any number of sounds, any lengths and any size  *)
(* of buffer.                                                              *)
(*                                                                         *)
(* IInv: until Close, the only freed decoders are those of sounds that     *)
(* have ended, which no callback reads (FreedAreOver), and the map holds   *)
(* none but the one about to be erased (MapIsFresh); what left the map is  *)
(* freed (Erased).  The callback that answers Close has freed every sound  *)
(* before the one it is at (Freeing), so that its signal means all of them *)
(* (Closed).  While nothing loops, what a decoder has read was heard or is *)
(* in the buffer (Played).  The callback goes astray only while the map    *)
(* changes or at a node that was erased (Astray).                          *)
(***************************************************************************)
EXTENDS Audio, WellFoundedInduction, TLAPS

Closing == phase \in {"closing", "stopping", "closed"}

TypeOK ==
  /\ maxId \in 0..MaxSounds /\ sounds \subseteq 1..maxId /\ scan \subseteq sounds
  /\ length \in [Ids -> Nat] /\ cursor \in [Ids -> Int] /\ frees \in [Ids -> 0..1]
  /\ loop \in [Ids -> BOOLEAN] /\ finished \in [Ids -> BOOLEAN]
  /\ \A i \in Ids : i > maxId => ~finished[i] /\ cursor[i] = 0 /\ frees[i] = 0
  /\ \A i \in 1..maxId : length[i] # 0
  /\ phase \in {"script", "insert", "update", "erase", "closing", "stopping", "closed"}
  /\ phase = "insert" => maxId # 0 /\ maxId \notin sounds /\ frees[maxId] = 0 /\ it # maxId
  /\ cb \in {"idle", "walk", "read", "next", "free", "strayed"}
  /\ it \in 0..maxId
  /\ cb = "read" => it # 0 /\ ~finished[it]
  /\ cb = "next" => it # 0
  /\ signalled \in BOOLEAN

FreedAreOver ==
  \A i \in Ids : frees[i] = 1 => (finished[i] /\ ~loop[i]) \/ (Closing /\ cb \in {"idle", "free"})

MapIsFresh ==
  /\ \A i \in sounds : frees[i] = 1 => Closing \/ (phase = "erase" /\ i = Smallest(scan))
  /\ phase = "erase" => scan # {} /\ frees[Smallest(scan)] = 1 /\ HasEnded(Smallest(scan))

Erased ==
  \A i \in 1..maxId : i \notin sounds =>
    \/ phase = "insert" /\ i = maxId
    \/ finished[i] /\ ~loop[i] /\ frees[i] = 1

Freeing ==
  cb = "free" =>
    /\ Closing /\ it \in sounds \union {0}
    /\ \A j \in sounds : it = 0 \/ j < it => frees[j] = 1

Closed ==
  /\ phase \in {"stopping", "closed"} => signalled
  /\ signalled => Closing /\ \A i \in 1..maxId : frees[i] = 1

InBuffer(i, f) == \E s \in Slots : <<i, f>> \in output[s]

Played ==
  /\ cb \in {"idle", "free"} => output = Silence
  /\ (\A j \in 1..maxId : ~loop[j]) =>
       \A i \in 1..maxId :
         /\ cursor[i] \in 0..length[i]
         /\ finished[i] => cursor[i] = length[i]
         /\ \A f \in 1..cursor[i] : <<i, f>> \in heard \/ InBuffer(i, f)

Astray == cb = "strayed" => mutating \/ AtErased

IInv == TypeOK /\ FreedAreOver /\ MapIsFresh /\ Erased /\ Freeing /\ Closed /\ Played
-----------------------------------------------------------------------------
(* A set of sounds that is not empty has a smallest id.                     *)
LEMMA SmallestIsLeast ==
  ASSUME NEW S \in SUBSET Nat, S # {}
  PROVE  Smallest(S) \in S /\ \A j \in S : Smallest(S) <= j
<1> DEFINE R == OpToRel(<, Nat)
<1>1. IsWellFoundedOn(R, Nat)
  BY NatLessThanWellFounded
<1>2. \A x, y \in Nat : x < y => <<x, y>> \in R
  BY DEF OpToRel
<1> HIDE DEF R
<1>3. PICK x \in S : \A y \in S : <<y, x>> \notin R
  BY <1>1, WFMin
<1>4. \A y \in S : x <= y
  <2> TAKE y \in S
  <2>1. x \in Nat /\ y \in Nat
    OBVIOUS
  <2>2. ~(y < x)
    BY <1>2, <1>3, <2>1
  <2> QED  BY <2>1, <2>2
<1> QED  BY <1>4 DEF Smallest

(* Where begin() leads: to a sound or the end, and while the main thread    *)
(* leaves the map alone, to the first one.                                  *)
LEMMA BeginIsFirst ==
  ASSUME sounds \in SUBSET Nat, NEW x \in FirstSounds
  PROVE  /\ x \in sounds \union {0}
         /\ ~mutating => (x = 0 /\ sounds = {}) \/ (x \in sounds /\ \A j \in sounds : x <= j)
<1>1. CASE sounds = {}
  BY <1>1 DEF FirstSounds
<1>2. CASE sounds # {}
  <2>1. Smallest(sounds) \in sounds /\ \A j \in sounds : Smallest(sounds) <= j
    BY <1>2, SmallestIsLeast
  <2> QED  BY <1>2, <2>1 DEF FirstSounds
<1> QED  BY <1>1, <1>2

(* Where ++it leads: to a sound or the end, and while the main thread       *)
(* leaves the map alone, past no sound.                                     *)
LEMMA NextIsNext ==
  ASSUME sounds \in SUBSET Nat, it \in Nat, NEW x \in NextSounds
  PROVE  /\ x \in sounds \union {0}
         /\ ~mutating =>
              \/ x = 0 /\ \A j \in sounds : j <= it
              \/ x \in sounds /\ x > it /\ \A j \in sounds : j > it => x <= j
<1> DEFINE later == {i \in sounds : i > it}
<1>1. x \in IF mutating THEN sounds \union {0}
             ELSE IF later = {} THEN {0} ELSE {Smallest(later)}
  BY DEF NextSounds
<1>2. CASE mutating
  BY <1>1, <1>2
<1>3. CASE ~mutating /\ later = {}
  <2>1. \A j \in sounds : j <= it
    BY <1>3
  <2> QED  BY <1>1, <1>3, <2>1
<1>4. CASE ~mutating /\ later # {}
  <2>1. later \in SUBSET Nat
    OBVIOUS
  <2>2. Smallest(later) \in later /\ \A j \in later : Smallest(later) <= j
    BY <1>4, <2>1, SmallestIsLeast
  <2> QED  BY <1>1, <1>4, <2>2
<1> QED  BY <1>2, <1>3, <1>4

(* The initial state has the invariant.                                     *)
LEMMA InitHolds == Init => IInv
<1> SUFFICES ASSUME Init PROVE IInv
  OBVIOUS
<1>1. TypeOK
  <2>1. maxId \in 0..MaxSounds /\ it \in 0..maxId
    BY SizesAreNaturals DEF Init
  <2>2. length \in [Ids -> Nat] /\ cursor \in [Ids -> Int] /\ frees \in [Ids -> 0..1]
    BY DEF Init
  <2>3. loop \in [Ids -> BOOLEAN] /\ finished \in [Ids -> BOOLEAN] /\ signalled \in BOOLEAN
    BY DEF Init
  <2>4. \A i \in Ids : i > maxId => ~finished[i] /\ cursor[i] = 0 /\ frees[i] = 0
    BY DEF Init
  <2> QED  BY <2>1, <2>2, <2>3, <2>4 DEF Init, TypeOK
<1>2. FreedAreOver /\ MapIsFresh /\ Freeing /\ Closed
  BY DEF Init, FreedAreOver, MapIsFresh, Freeing, Closed
<1>3. 1..maxId = {}
  BY DEF Init
<1>4. Erased /\ Played
  BY <1>3 DEF Init, Erased, Played
<1> QED  BY <1>1, <1>2, <1>4 DEF IInv

-----------------------------------------------------------------------------
(* The main thread.                                                         *)

(* A sound's id is an id.                                                   *)
LEMMA SoundsAreIds ==
  ASSUME IInv
  PROVE  /\ maxId \in Nat /\ MaxSounds \in Nat /\ maxId <= MaxSounds
         /\ sounds \in SUBSET Nat /\ sounds \subseteq 1..maxId /\ 1..maxId \subseteq Ids
         /\ it \in Nat /\ it \in 0..maxId /\ 0 \notin sounds
  BY SizesAreNaturals DEF IInv, TypeOK, Ids

(* A new sound has read nothing and is not freed.                           *)
LEMMA PlayAudioKeeps ==
  ASSUME IInv, NEW len \in Lengths, NEW loops \in Loops, PlayAudio(len, loops)
  PROVE  IInv'
<1> DEFINE new == maxId + 1
<1>1. /\ phase = "script" /\ maxId < MaxSounds /\ maxId' = new /\ phase' = "insert"
      /\ length' = [length EXCEPT ![new] = len]
      /\ loop' = [loop EXCEPT ![new] = loops]
      /\ UNCHANGED <<sounds, scan, finished, cursor, cb, it, output, heard, signalled, frees, device>>
  BY DEF PlayAudio, cbVars
<1>2. len \in Nat \ {0} /\ loops \in BOOLEAN
  BY SizesAreNaturals
<1>3. new \in Ids /\ new \notin sounds /\ maxId \in Nat /\ sounds \subseteq 1..maxId /\ 1..maxId \subseteq Ids
      /\ 1..maxId' = (1..maxId) \union {new} /\ new \notin 1..maxId
  BY <1>1, SoundsAreIds DEF Ids
<1>4. ~finished[new] /\ cursor[new] = 0 /\ frees[new] = 0
  BY <1>3 DEF IInv, TypeOK
<1>5. \A i \in Ids : i # new => loop'[i] = loop[i] /\ length'[i] = length[i]
  BY <1>1 DEF IInv, TypeOK
<1>6. length' \in [Ids -> Nat] /\ loop' \in [Ids -> BOOLEAN] /\ loop'[new] = loops /\ length'[new] = len
  BY <1>1, <1>2, <1>3 DEF IInv, TypeOK
<1>7. TypeOK'
  <2>1. maxId' \in 0..MaxSounds /\ sounds' \subseteq 1..maxId' /\ it' \in 0..maxId' /\ maxId' # 0
    BY <1>1, <1>3, SoundsAreIds
  <2>2. \A i \in Ids : i > maxId' => ~finished[i] /\ cursor[i] = 0 /\ frees[i] = 0
    BY <1>1, <1>3 DEF IInv, TypeOK, Ids
  <2>3. \A i \in 1..maxId' : length'[i] # 0
    BY <1>1, <1>2, <1>3, <1>5, <1>6 DEF IInv, TypeOK
  <2> QED  BY <1>1, <1>3, <1>4, <1>6, <2>1, <2>2, <2>3 DEF IInv, TypeOK
<1> HIDE DEF new
<1>8. FreedAreOver'
  BY <1>1, <1>4, <1>5 DEF IInv, FreedAreOver, Closing
<1>9. MapIsFresh'
  BY <1>1 DEF IInv, MapIsFresh, Closing
<1>10. Erased'
  BY <1>1, <1>3, <1>5 DEF IInv, Erased
<1>11. Freeing' /\ Closed'
  BY <1>1 DEF IInv, Freeing, Closed, Closing
<1>12. Played'
  <2>1. ASSUME \A j \in 1..maxId' : ~loop'[j] PROVE \A j \in 1..maxId : ~loop[j]
    BY <1>3, <1>5, <2>1
  <2>2. ASSUME NEW i \in 1..maxId, \A j \in 1..maxId' : ~loop'[j]
        PROVE  /\ cursor'[i] \in 0..length'[i]
               /\ finished'[i] => cursor'[i] = length'[i]
               /\ \A f \in 1..cursor'[i] : <<i, f>> \in heard' \/ InBuffer(i, f)'
    <3>1. i \in Ids /\ i # new
      BY <1>3
    <3> QED  BY <1>1, <1>5, <2>1, <2>2, <3>1 DEF IInv, Played, InBuffer
  <2>3. cursor'[new] \in 0..length'[new] /\ ~finished'[new] /\ 1..cursor'[new] = {}
    BY <1>1, <1>2, <1>4, <1>6
  <2> QED  BY <1>1, <1>3, <2>2, <2>3 DEF IInv, Played
<1> QED  BY <1>7, <1>8, <1>9, <1>10, <1>11, <1>12 DEF IInv

(* What the main thread does to the map leaves what was read alone.         *)
LEMMA MainLeavesPlayed ==
  ASSUME IInv, UNCHANGED <<maxId, length, loop, cbVars>>
  PROVE  Played'
  BY DEF IInv, Played, InBuffer, cbVars

(* EndInsert, BeginUpdate, KeepSound and EndUpdate free nothing.            *)
LEMMA WalkKeeps ==
  ASSUME IInv, EndInsert \/ BeginUpdate \/ KeepSound \/ EndUpdate
  PROVE  IInv'
<1>1. UNCHANGED <<maxId, length, loop, cbVars, frees, device>>
  BY DEF EndInsert, BeginUpdate, KeepSound, EndUpdate, mapVars
<1>2. /\ phase' \in {"script", "update"} /\ phase \in {"script", "insert", "update"}
      /\ ~Closing /\ ~Closing'
  BY DEF EndInsert, BeginUpdate, KeepSound, EndUpdate, Closing
<1>3. /\ phase = "insert" => phase' = "script" /\ sounds' = sounds \union {maxId} /\ scan' = scan
      /\ phase # "insert" => sounds' = sounds /\ scan' \subseteq sounds
  BY DEF EndInsert, BeginUpdate, KeepSound, EndUpdate, mapVars, IInv, TypeOK
<1>4. TypeOK'
  <2>1. sounds' \subseteq 1..maxId
    <3>1. phase = "insert" => maxId \in 1..maxId
      BY SoundsAreIds DEF IInv, TypeOK
    <3> QED  BY <1>3, <3>1, SoundsAreIds
  <2>2. scan' \subseteq sounds'
    BY <1>3 DEF IInv, TypeOK
  <2> QED  BY <1>1, <1>2, <2>1, <2>2 DEF IInv, TypeOK, cbVars
<1>5. FreedAreOver' /\ Freeing' /\ Closed'
  BY <1>1, <1>2 DEF IInv, FreedAreOver, Freeing, Closed, Closing, cbVars
<1>6. MapIsFresh'
  <2>1. ASSUME NEW i \in sounds' PROVE frees'[i] # 1
    <3>1. CASE i \in sounds
      BY <1>1, <1>2, <3>1 DEF IInv, MapIsFresh
    <3>2. CASE i \notin sounds
      BY <1>1, <1>3, <2>1, <3>2 DEF IInv, TypeOK
    <3> QED  BY <3>1, <3>2
  <2> QED  BY <1>2, <2>1 DEF MapIsFresh
<1>7. Erased'
  BY <1>1, <1>2, <1>3 DEF IInv, Erased, cbVars
<1>8. Played'
  BY <1>1, MainLeavesPlayed
<1> QED  BY <1>4, <1>5, <1>6, <1>7, <1>8 DEF IInv

(* Update frees a sound that has ended, and has not been freed before.      *)
LEMMA FreeSoundKeeps ==
  ASSUME IInv, FreeSound
  PROVE  IInv'
<1> DEFINE i == Smallest(scan)
<1>1. /\ phase = "update" /\ phase' = "erase" /\ scan # {} /\ HasEnded(i)
      /\ frees' = [frees EXCEPT ![i] = @ + 1]
      /\ UNCHANGED <<maxId, sounds, length, loop, scan, cbVars, device>>
  BY DEF FreeSound, mapVars
<1>2. i \in scan /\ i \in sounds /\ i \in Ids /\ i \in 1..maxId /\ frees \in [Ids -> 0..1]
  BY <1>1, SmallestIsLeast, SoundsAreIds DEF IInv, TypeOK
<1>3. frees[i] = 0
  BY <1>1, <1>2 DEF IInv, MapIsFresh, Closing
<1>4. Smallest(scan)' = Smallest(scan) /\ ~Closing /\ ~Closing'
  BY <1>1 DEF Smallest, Closing
<1>5. frees' \in [Ids -> 0..1] /\ frees'[i] = 1 /\ \A j \in Ids : j # i => frees'[j] = frees[j]
  BY <1>1, <1>2, <1>3
<1>6. finished[i] /\ ~loop[i]
  BY <1>1 DEF HasEnded
<1> HIDE DEF i
<1>7. TypeOK'
  <2>1. \A j \in Ids : j > maxId => frees'[j] = 0
    BY <1>2, <1>5 DEF IInv, TypeOK
  <2> QED  BY <1>1, <1>5, <2>1 DEF IInv, TypeOK, cbVars
<1>8. FreedAreOver'
  BY <1>1, <1>4, <1>5, <1>6 DEF IInv, FreedAreOver, cbVars
<1>9. MapIsFresh'
  <2>1. \A j \in sounds : j # i => frees'[j] # 1
    BY <1>1, <1>2, <1>4, <1>5, SoundsAreIds DEF IInv, MapIsFresh
  <2>2. HasEnded(Smallest(scan))'
    BY <1>1, <1>4 DEF HasEnded, cbVars, i
  <2> QED  BY <1>1, <1>4, <1>5, <2>1, <2>2 DEF MapIsFresh, i
<1>10. Erased'
  BY <1>1, <1>2, <1>5, SoundsAreIds DEF IInv, Erased, cbVars
<1>11. Freeing' /\ Closed'
  BY <1>1, <1>4 DEF IInv, Freeing, Closed, cbVars, Closing
<1>12. Played'
  BY <1>1, MainLeavesPlayed
<1> QED  BY <1>7, <1>8, <1>9, <1>10, <1>11, <1>12 DEF IInv

(* ... and erases it.                                                       *)
LEMMA EraseSoundKeeps ==
  ASSUME IInv, EraseSound
  PROVE  IInv'
<1> DEFINE i == Smallest(scan)
<1>1. /\ phase = "erase" /\ phase' = "update"
      /\ sounds' = sounds \ {i} /\ scan' = scan \ {i}
      /\ UNCHANGED <<maxId, length, loop, cbVars, frees, device>>
  BY DEF EraseSound
<1>2. frees[i] = 1 /\ finished[i] /\ ~loop[i] /\ ~Closing /\ ~Closing'
  BY <1>1 DEF IInv, MapIsFresh, HasEnded, Closing
<1>3. \A j \in sounds : j # i => frees[j] # 1
  BY <1>1, <1>2 DEF IInv, MapIsFresh
<1> HIDE DEF i
<1>4. TypeOK'
  BY <1>1 DEF IInv, TypeOK, cbVars
<1>5. MapIsFresh'
  BY <1>1, <1>3 DEF MapIsFresh
<1>6. FreedAreOver' /\ Erased'
  BY <1>1, <1>2 DEF IInv, FreedAreOver, Erased, cbVars
<1>7. Freeing' /\ Closed'
  BY <1>1, <1>2 DEF IInv, Freeing, Closed, cbVars, Closing
<1>8. Played'
  BY <1>1, MainLeavesPlayed
<1> QED  BY <1>4, <1>5, <1>6, <1>7, <1>8 DEF IInv

(* Close waits for the signal, and CloseReturn for the callback.            *)
LEMMA CloseKeeps ==
  ASSUME IInv, Close \/ StopDevice \/ CloseReturn \/ UNCHANGED vars
  PROVE  IInv'
<1>1. UNCHANGED <<maxId, sounds, length, loop, scan, cbVars, frees, device>>
  BY DEF Close, StopDevice, CloseReturn, vars, mainVars, mapVars
<1>2. \/ phase = "script" /\ phase' = "closing"
      \/ phase = "closing" /\ signalled /\ phase' = "stopping"
      \/ phase = "stopping" /\ phase' = "closed"
      \/ phase' = phase
  BY DEF Close, StopDevice, CloseReturn, vars, mainVars
<1>3. (Closing => Closing') /\ phase' \in {"script", "insert", "update", "erase", "closing", "stopping", "closed"}
  BY <1>2 DEF Closing, IInv, TypeOK
<1>4. (phase' = "erase" => phase = "erase") /\ (phase' = "insert" <=> phase = "insert")
      /\ (phase = "erase" => phase' = "erase")
  BY <1>2
<1>5. TypeOK'
  BY <1>1, <1>3, <1>4 DEF IInv, TypeOK, cbVars
<1>6. FreedAreOver' /\ Freeing' /\ Erased'
  BY <1>1, <1>3, <1>4 DEF IInv, FreedAreOver, Freeing, Erased, cbVars
<1>7. MapIsFresh'
  BY <1>1, <1>3, <1>4 DEF IInv, MapIsFresh, HasEnded, cbVars
<1>8. Closed'
  BY <1>1, <1>2, <1>3 DEF IInv, Closed, cbVars
<1>9. Played'
  BY <1>1, MainLeavesPlayed
<1> QED  BY <1>5, <1>6, <1>7, <1>8, <1>9 DEF IInv

-----------------------------------------------------------------------------
(* The device thread.                                                       *)

(* A callback that frees nothing and restarts no sound that has ended, and  *)
(* does not walk once Close has asked, keeps what is known of the decoders. *)
LEMMA WalkerKeeps ==
  ASSUME IInv, UNCHANGED <<mainVars, frees, signalled>>,
         \A i \in Ids : finished[i] /\ ~loop[i] => finished'[i],
         Closing /\ cb \in {"idle", "free"} => cb' \in {"idle", "free"}
  PROVE  FreedAreOver' /\ MapIsFresh' /\ Erased' /\ Closed'
<1>1. UNCHANGED <<maxId, sounds, length, loop, phase, scan, frees, signalled>>
  BY DEF mainVars, mapVars
<1>2. (Closing <=> Closing') /\ sounds \subseteq Ids /\ scan \subseteq sounds /\ 1..maxId \subseteq Ids
  BY <1>1, SoundsAreIds DEF Closing, IInv, TypeOK
<1>3. FreedAreOver'
  BY <1>1, <1>2 DEF IInv, FreedAreOver
<1>4. MapIsFresh'
  <2>1. \A i \in sounds : frees'[i] = 1 => Closing' \/ (phase' = "erase" /\ i = Smallest(scan)')
    BY <1>1, <1>2 DEF IInv, MapIsFresh
  <2>2. ASSUME phase = "erase"
        PROVE  scan # {} /\ frees[Smallest(scan)] = 1 /\ HasEnded(Smallest(scan))'
    <3>1. scan # {} /\ frees[Smallest(scan)] = 1 /\ ~loop[Smallest(scan)] /\ finished[Smallest(scan)]
      BY <2>2 DEF IInv, MapIsFresh, HasEnded
    <3>2. Smallest(scan) \in Ids
      BY <1>2, <3>1, SmallestIsLeast, SoundsAreIds
    <3> QED  BY <1>1, <3>1, <3>2 DEF HasEnded
  <2> QED  BY <1>1, <2>1, <2>2 DEF MapIsFresh
<1>5. Erased'
  BY <1>1, <1>2 DEF IInv, Erased
<1>6. Closed'
  BY <1>1, <1>2 DEF IInv, Closed
<1> QED  BY <1>3, <1>4, <1>5, <1>6

(* A callback starts at the first sound, and its buffer is empty.           *)
LEMMA StartCallbackKeeps ==
  ASSUME IInv, StartCallback
  PROVE  IInv'
<1>1. /\ cb = "idle" /\ phase \notin {"stopping", "closed"}
      /\ cb' = IF phase = "closing" THEN "free" ELSE "walk"
      /\ it' \in FirstSounds
      /\ output' = Silence
      /\ UNCHANGED <<mainVars, finished, cursor, heard, signalled, frees, device>>
  BY DEF StartCallback
<1>2. /\ it' \in sounds \union {0}
      /\ ~mutating => (it' = 0 /\ sounds = {}) \/ (it' \in sounds /\ \A j \in sounds : it' <= j)
  BY <1>1, BeginIsFirst, SoundsAreIds
<1>3. TypeOK'
  <2>1. it' \in 0..maxId /\ (phase = "insert" => it' # maxId)
    BY <1>2, SoundsAreIds DEF IInv, TypeOK
  <2> QED  BY <1>1, <2>1 DEF IInv, TypeOK, mainVars, mapVars
<1>4. FreedAreOver' /\ MapIsFresh' /\ Erased' /\ Closed'
  BY <1>1, WalkerKeeps DEF Closing
<1>5. Freeing'
  <2>1. CASE phase = "closing"
    <3>1. ~mutating /\ Closing'
      BY <1>1, <2>1 DEF mutating, Closing, mainVars
    <3>2. \A j \in sounds : ~(it' = 0 \/ j < it')
      BY <1>2, <3>1, SoundsAreIds
    <3> QED  BY <1>1, <1>2, <3>1, <3>2 DEF Freeing, mainVars, mapVars
  <2>2. CASE phase # "closing"
    BY <1>1, <2>2 DEF Freeing
  <2> QED  BY <2>1, <2>2
<1>6. Played'
  <2>1. output = Silence
    BY <1>1 DEF IInv, Played
  <2> QED  BY <1>1, <2>1 DEF IInv, Played, InBuffer, mainVars, mapVars
<1> QED  BY <1>3, <1>4, <1>5, <1>6 DEF IInv

(* Between sounds, the callback only moves, or goes astray.                 *)
LEMMA MoveKeeps ==
  ASSUME IInv, StartRead \/ SkipEnded \/ Advance \/ Stray
  PROVE  IInv'
<1>1. /\ \/ cb \in {"walk", "next"} /\ cb' \in {"walk", "read", "next", "strayed"}
         \/ cb = "idle" /\ cb' = "strayed" /\ ~Closing
      /\ UNCHANGED <<mainVars, finished, cursor, output, heard, signalled, frees, device>>
  BY DEF StartRead, SkipEnded, Advance, Stray, AtSound, mutating, Closing
<1>2. /\ it' \in 0..maxId /\ (cb' \notin {"walk", "strayed"} => it' # 0)
      /\ (cb' = "read" => ~finished[it']) /\ (phase = "insert" => it' # maxId)
  <2>1. CASE StartRead \/ SkipEnded \/ Stray
    BY <2>1 DEF StartRead, SkipEnded, Stray, AtSound, IInv, TypeOK
  <2>2. CASE Advance
    <3>1. it' \in sounds \union {0} /\ cb' = "walk"
      BY <2>2, NextIsNext, SoundsAreIds DEF Advance
    <3> QED  BY <3>1, SoundsAreIds DEF IInv, TypeOK
  <2> QED  BY <2>1, <2>2
<1>3. TypeOK'
  BY <1>1, <1>2 DEF IInv, TypeOK, mainVars, mapVars
<1>4. FreedAreOver' /\ MapIsFresh' /\ Erased' /\ Closed'
  BY <1>1, WalkerKeeps
<1>5. Freeing' /\ Played'
  BY <1>1 DEF IInv, Freeing, Played, InBuffer, mainVars, mapVars
<1> QED  BY <1>3, <1>4, <1>5 DEF IInv

(* What a sound has left, or as much as the buffer takes, is mixed, and a   *)
(* sound of which less is left than the buffer takes has ended.             *)
LEMMA FinishReadKeeps ==
  ASSUME IInv, FinishRead
  PROVE  IInv'
<1> DEFINE left == length[it] - cursor[it]
           n == IF left < BufferFrames THEN left ELSE BufferFrames
<1>1. /\ cb = "read" /\ cb' = "next"
      /\ output' = [s \in Slots |-> IF s <= n THEN output[s] \union {<<it, cursor[it] + s>>} ELSE output[s]]
      /\ cursor' = [cursor EXCEPT ![it] = @ + n]
      /\ finished' = [finished EXCEPT ![it] = IsShort(n)]
      /\ UNCHANGED <<mainVars, it, heard, signalled, frees, device>>
  BY DEF FinishRead
<1>2. /\ it \in Ids /\ it \in 1..maxId /\ ~finished[it] /\ BufferFrames \in Nat \ {0}
      /\ 1..maxId \subseteq Ids
      /\ length \in [Ids -> Nat] /\ cursor \in [Ids -> Int] /\ finished \in [Ids -> BOOLEAN]
      /\ UNCHANGED <<maxId, length, loop>>
  BY <1>1, SoundsAreIds, SizesAreNaturals DEF IInv, TypeOK, mainVars, mapVars
<1>3. left \in Int /\ n \in Int /\ n <= left /\ n <= BufferFrames /\ (left >= 0 => n >= 0)
      /\ (n < BufferFrames => n = left)
  BY <1>2
<1> HIDE DEF n, left
<1>4. /\ cursor' \in [Ids -> Int] /\ cursor'[it] = cursor[it] + n
      /\ \A i \in Ids : i # it => cursor'[i] = cursor[i]
  BY <1>1, <1>2, <1>3
<1>5. /\ finished'[it] = IsShort(n) /\ finished' \in [Ids -> BOOLEAN]
      /\ \A i \in Ids : i # it => finished'[i] = finished[i]
  <2>1. IsShort(n) \in BOOLEAN
    BY DEF IsShort
  <2> QED  BY <1>1, <1>2, <2>1
<1>6. TypeOK'
  <2>1. \A i \in Ids : i > maxId => i # it
    BY <1>2, SoundsAreIds
  <2>2. \A i \in Ids : i > maxId => ~finished'[i] /\ cursor'[i] = 0 /\ frees[i] = 0
    BY <1>4, <1>5, <2>1 DEF IInv, TypeOK
  <2> QED  BY <1>1, <1>2, <1>4, <1>5, <2>2 DEF IInv, TypeOK, mainVars, mapVars
<1>7. FreedAreOver' /\ MapIsFresh' /\ Erased' /\ Closed'
  BY <1>1, <1>2, <1>5, WalkerKeeps
<1>8. Freeing'
  BY <1>1 DEF Freeing
<1>9. Played'
  <2> SUFFICES ASSUME \A j \in 1..maxId : ~loop[j], NEW i \in 1..maxId
               PROVE  /\ cursor'[i] \in 0..length[i]
                      /\ finished'[i] => cursor'[i] = length[i]
                      /\ \A f \in 1..cursor'[i] : <<i, f>> \in heard \/ InBuffer(i, f)'
    BY <1>1, <1>2 DEF Played
  <2>1. /\ cursor[i] \in 0..length[i] /\ i \in Ids /\ length[i] \in Nat
        /\ finished[i] => cursor[i] = length[i]
        /\ \A f \in 1..cursor[i] : <<i, f>> \in heard \/ InBuffer(i, f)
    BY <1>2 DEF IInv, Played
  <2>2. \A s \in Slots : output[s] \subseteq output'[s]
    BY <1>1
  <2>3. \A f : InBuffer(i, f) => InBuffer(i, f)'
    BY <2>2 DEF InBuffer
  <2>4. CASE i # it
    BY <1>4, <1>5, <2>1, <2>3, <2>4
  <2>5. CASE i = it
    <3>1. left = length[i] - cursor[i] /\ left >= 0 /\ cursor'[i] \in 0..length[i]
      BY <1>3, <1>4, <2>1, <2>5 DEF left
    <3>2. finished'[i] => cursor'[i] = length[i]
      BY <1>3, <1>4, <1>5, <2>1, <2>5, <3>1 DEF IsShort
    <3>3. ASSUME NEW f \in 1..cursor'[i], f \notin 1..cursor[i] PROVE InBuffer(i, f)'
      <4>1. f - cursor[i] \in Slots /\ f - cursor[i] <= n /\ cursor[i] + (f - cursor[i]) = f
        BY <1>2, <1>3, <1>4, <2>1, <2>5, <3>1, <3>3 DEF Slots
      <4>2. <<i, f>> \in output'[f - cursor[i]]
        BY <1>1, <2>5, <4>1
      <4> QED  BY <4>1, <4>2 DEF InBuffer
    <3> QED  BY <2>1, <2>3, <3>1, <3>2, <3>3
  <2> QED  BY <2>4, <2>5
<1> QED  BY <1>6, <1>7, <1>8, <1>9 DEF IInv

(* A restart is of a sound that loops, whose decoder is there.              *)
LEMMA RestartKeeps ==
  ASSUME IInv, Restart
  PROVE  IInv'
<1> DEFINE frame(s) == ((s - 1) % length[it]) + 1
<1>1. /\ cb = "walk" /\ cb' = "next" /\ it # 0 /\ finished[it] /\ loop[it]
      /\ cursor' = [cursor EXCEPT ![it] = frame(BufferFrames)]
      /\ finished' = [finished EXCEPT ![it] = FALSE]
      /\ UNCHANGED <<mainVars, it, heard, signalled, frees, device>>
  BY DEF Restart, AtSound
<1>2. /\ it \in 1..maxId /\ it \in Ids /\ UNCHANGED <<maxId, length, loop>>
      /\ length \in [Ids -> Nat] /\ cursor \in [Ids -> Int] /\ finished \in [Ids -> BOOLEAN]
      /\ loop \in [Ids -> BOOLEAN]
  BY <1>1, SoundsAreIds DEF IInv, TypeOK, mainVars, mapVars
<1>3. /\ finished' \in [Ids -> BOOLEAN] /\ ~finished'[it]
      /\ \A i \in Ids : i # it => finished'[i] = finished[i]
  BY <1>1, <1>2
<1>4. /\ cursor' \in [Ids -> Int]
      /\ \A i \in Ids : i # it => cursor'[i] = cursor[i]
  <2>1. length[it] \in Nat \ {0} /\ BufferFrames - 1 \in Int
    BY <1>2, SizesAreNaturals DEF IInv, TypeOK
  <2>2. frame(BufferFrames) \in Int
    BY <2>1
  <2> HIDE DEF frame
  <2> QED  BY <1>1, <1>2, <2>2
<1>5. TypeOK'
  <2>1. \A i \in Ids : i > maxId => i # it
    BY <1>2, SoundsAreIds
  <2>2. \A i \in Ids : i > maxId => ~finished'[i] /\ cursor'[i] = 0 /\ frees[i] = 0
    BY <1>3, <1>4, <2>1 DEF IInv, TypeOK
  <2> QED  BY <1>1, <1>3, <1>4, <2>2 DEF IInv, TypeOK, mainVars, mapVars
<1>6. FreedAreOver' /\ MapIsFresh' /\ Erased' /\ Closed'
  <2>1. \A i \in Ids : finished[i] /\ ~loop[i] => finished'[i]
    BY <1>1, <1>2, <1>3
  <2> QED  BY <1>1, <2>1, WalkerKeeps
<1>7. Freeing'
  BY <1>1 DEF Freeing
<1>8. Played'
  <2>1. \E j \in 1..maxId' : loop'[j]
    BY <1>1, <1>2
  <2> QED  BY <1>1, <2>1 DEF Played
<1> QED  BY <1>5, <1>6, <1>7, <1>8 DEF IInv

(* At the end of the map the device takes the buffer.                       *)
LEMMA EndWalkKeeps ==
  ASSUME IInv, EndWalk
  PROVE  IInv'
<1>1. /\ cb = "walk" /\ cb' = "idle" /\ it = 0
      /\ heard' = heard \union UNION {output[s] : s \in Slots}
      /\ output' = Silence
      /\ UNCHANGED <<mainVars, finished, cursor, it, signalled, frees, device>>
  BY DEF EndWalk
<1>2. TypeOK' /\ Freeing'
  BY <1>1 DEF IInv, TypeOK, Freeing, mainVars, mapVars
<1>3. FreedAreOver' /\ MapIsFresh' /\ Erased' /\ Closed'
  BY <1>1, WalkerKeeps
<1>4. \A i, f : <<i, f>> \in heard \/ InBuffer(i, f) => <<i, f>> \in heard'
  BY <1>1 DEF InBuffer
<1>5. Played'
  BY <1>1, <1>4 DEF IInv, Played, mainVars, mapVars
<1> QED  BY <1>2, <1>3, <1>5 DEF IInv

(* The callback that answers Close frees the sound it is at and goes on to  *)
(* the next.                                                                *)
LEMMA FreeDecoderKeeps ==
  ASSUME IInv, FreeDecoder
  PROVE  IInv'
<1>1. /\ cb = "free" /\ it # 0
      /\ frees' = [frees EXCEPT ![it] = 1]
      /\ it' \in NextSounds
      /\ UNCHANGED <<maxId, sounds, length, loop, phase, scan, finished, cursor, cb, output, heard, signalled, device>>
  BY DEF FreeDecoder, mainVars, mapVars
<1>2. /\ Closing /\ Closing' /\ it \in sounds /\ sounds \subseteq Ids /\ it \in Ids /\ frees \in [Ids -> 0..1]
      /\ 1..maxId \subseteq Ids /\ it \in 1..maxId
      /\ \A j \in sounds : it = 0 \/ j < it => frees[j] = 1
  BY <1>1, SoundsAreIds DEF IInv, Freeing, Closing, TypeOK
<1>3. ~mutating /\ phase # "erase" /\ phase # "insert"
  BY <1>2 DEF mutating, Closing
<1>4. /\ it' \in sounds \union {0}
      /\ \/ it' = 0 /\ \A j \in sounds : j <= it
         \/ it' \in sounds /\ it' > it /\ \A j \in sounds : j > it => it' <= j
  BY <1>1, <1>2, <1>3, NextIsNext, SoundsAreIds
<1>5. /\ frees' \in [Ids -> 0..1] /\ frees'[it] = 1 /\ \A j \in Ids : j # it => frees'[j] = frees[j]
      /\ \A j \in Ids : frees[j] = 1 => frees'[j] = 1
  BY <1>1, <1>2
<1>6. TypeOK'
  <2>1. it' \in 0..maxId
    BY <1>4, SoundsAreIds
  <2>2. \A j \in Ids : j > maxId => frees'[j] = 0
    BY <1>2, <1>5 DEF IInv, TypeOK
  <2> QED  BY <1>1, <1>3, <1>5, <2>1, <2>2 DEF IInv, TypeOK
<1>7. FreedAreOver' /\ MapIsFresh'
  BY <1>1, <1>2, <1>3 DEF FreedAreOver, MapIsFresh
<1>8. Erased' /\ Closed'
  BY <1>1, <1>2, <1>5 DEF IInv, Erased, Closed
<1>9. Freeing'
  <2>1. ASSUME NEW j \in sounds, it' = 0 \/ j < it' PROVE frees'[j] = 1
    <3>1. j \in Nat /\ it \in Nat /\ it' \in Nat /\ j # 0
      BY <1>4, SoundsAreIds
    <3>2. j <= it
      BY <1>4, <2>1, <3>1
    <3> QED  BY <1>2, <1>5, <3>1, <3>2
  <2> QED  BY <1>1, <1>2, <1>4, <2>1 DEF Freeing
<1>10. Played'
  BY <1>1 DEF IInv, Played, InBuffer
<1> QED  BY <1>6, <1>7, <1>8, <1>9, <1>10 DEF IInv

(* ... and signals when none is left.                                       *)
LEMMA SignalCloseKeeps ==
  ASSUME IInv, SignalClose
  PROVE  IInv'
<1>1. /\ cb = "free" /\ it = 0 /\ signalled' = TRUE /\ cb' = "idle"
      /\ UNCHANGED <<maxId, sounds, length, loop, phase, scan, finished, cursor, it, output, heard, frees, device>>
  BY DEF SignalClose, mainVars, mapVars
<1>2. Closing /\ Closing' /\ \A j \in sounds : frees[j] = 1
  BY <1>1 DEF IInv, Freeing, Closing
<1>3. TypeOK' /\ Freeing'
  BY <1>1 DEF IInv, TypeOK, Freeing
<1>4. FreedAreOver'
  BY <1>1, <1>2 DEF FreedAreOver
<1>5. MapIsFresh' /\ Erased'
  BY <1>1, <1>2 DEF IInv, MapIsFresh, Erased, HasEnded
<1>6. Closed'
  BY <1>1, <1>2 DEF IInv, Erased, Closed, Closing
<1>7. Played'
  BY <1>1 DEF IInv, Played, InBuffer
<1> QED  BY <1>3, <1>4, <1>5, <1>6, <1>7 DEF IInv

(* Every step keeps the invariant.                                          *)
LEMMA NextKeeps == IInv /\ [Next]_vars => IInv'
<1> SUFFICES ASSUME IInv, [Next]_vars PROVE IInv'
  OBVIOUS
<1>1. CASE Script
  BY <1>1, PlayAudioKeeps, CloseKeeps DEF Script
<1>2. CASE Loop \/ UNCHANGED vars
  BY <1>2, WalkKeeps, FreeSoundKeeps, EraseSoundKeeps, CloseKeeps DEF Loop
<1>3. CASE Callback
  BY <1>3, StartCallbackKeeps, MoveKeeps, FinishReadKeeps, RestartKeeps, EndWalkKeeps,
     FreeDecoderKeeps, SignalCloseKeeps DEF Callback
<1> QED  BY <1>1, <1>2, <1>3 DEF Next

(* The callback goes astray only where IInv lets it.                        *)
LEMMA AstrayKeeps == Astray /\ [Next]_vars => Astray'
<1> SUFFICES ASSUME Astray, [Next]_vars, cb' = "strayed" PROVE (mutating \/ AtErased)'
  BY DEF Astray
<1>1. CASE Script \/ Loop
  <2>1. cb # "strayed" /\ cb' = cb
    BY <1>1 DEF Script, Loop, PlayAudio, Close, EndInsert, BeginUpdate, KeepSound, FreeSound,
       EraseSound, EndUpdate, StopDevice, CloseReturn, cbVars
  <2> QED  BY <2>1
<1>2. CASE Callback
  <2>1. Stray
    BY <1>2 DEF Callback, StartCallback, StartRead, FinishRead, Restart, SkipEnded, Advance, EndWalk,
       FreeDecoder, SignalClose
  <2> QED  BY <2>1 DEF Stray, mutating, AtErased, Smallest, mainVars, mapVars
<1>3. CASE UNCHANGED vars
  BY <1>3 DEF Astray, mutating, AtErased, Smallest, vars, mainVars, mapVars, cbVars
<1> QED  BY <1>1, <1>2, <1>3 DEF Next

-----------------------------------------------------------------------------
(* However the two threads interleave, the sounds are as IInv says.         *)
THEOREM InvHolds == Spec => [](IInv /\ Astray)
<1>1. Init => IInv /\ Astray
  BY InitHolds DEF Init, Astray
<1>2. IInv /\ Astray /\ [Next]_vars => IInv' /\ Astray'
  BY NextKeeps, AstrayKeeps
<1> QED  BY <1>1, <1>2, PTL DEF Spec

(* A sound the callback will read keeps its node and its decoder, the       *)
(* callback goes astray only at a one-shot that has ended or while the map  *)
(* changes, no decoder is freed twice, and after Close none is left.        *)
THEOREM DecodersSafe == Spec => []DecodersAreSafe
<1>1. IInv /\ Astray => DecodersAreSafe
  <2> SUFFICES ASSUME IInv, Astray PROVE DecodersAreSafe
    OBVIOUS
  <2>1. \A i \in Ids : frees[i] \in 0..1
    BY DEF IInv, TypeOK
  <2>2. it # 0 => it \in Ids /\ it \in 1..maxId
    BY SoundsAreIds
  <2>3. it # 0 /\ ~HasEnded(it) => it \in sounds
    BY <2>2, SoundsAreIds DEF IInv, TypeOK, Erased, HasEnded
  <2>4. cb \in {"read", "walk", "next"} /\ it # 0 /\ ~HasEnded(it) => frees[it] # 1
    BY <2>2 DEF IInv, FreedAreOver, HasEnded
  <2>5. AtErased /\ ~mutating => it \in 1..maxId /\ HasEnded(it) /\ frees[it] = 1
    BY <2>2 DEF AtErased, mutating, HasEnded, IInv, Erased
  <2>6. phase = "closed" => \A i \in 1..maxId : frees[i] = 1
    BY DEF IInv, Closed
  <2> QED  BY <2>1, <2>2, <2>3, <2>4, <2>5, <2>6 DEF DecodersAreSafe, Astray
<1> QED  BY <1>1, InvHolds, PTL

(* While nothing loops, a sound that was erased was heard to its last       *)
(* frame.                                                                   *)
THEOREM ErasedWereHeard == Spec => []HeardInFull
<1>1. IInv => HeardInFull
  <2> SUFFICES ASSUME IInv, NEW i \in 1..maxId, i \notin sounds, frees[i] = 1, \A j \in 1..maxId : ~loop[j],
                      NEW f \in 1..length[i]
               PROVE  <<i, f>> \in heard \/ InBuffer(i, f)
    BY DEF HeardInFull, InBuffer
  <2>1. finished[i]
    BY SoundsAreIds DEF IInv, TypeOK, Erased
  <2> QED  BY <2>1 DEF IInv, Played
<1> QED  BY <1>1, InvHolds, PTL
=============================================================================
