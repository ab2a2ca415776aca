------------------------------- MODULE Audio --------------------------------
(***************************************************************************)
(* The desktop AudioManager (src/NexgenRedux-Shared/AudioManager.cpp up to *)
(* the Xbox branch): the main thread adds sounds to a map and erases those *)
(* that have ended, the device thread walks the same map in data_callback, *)
(* mixing a buffer at a time, and no lock stands between them.             *)
(*                                                                         *)
(* Adding and erasing take two steps.  A callback that begins or moves its *)
(* iterator between the two may find any sound or the end of the map, or   *)
(* go astray; one that reads or leaves a node that was erased goes astray  *)
(* in any case.  What the code does then is undefined, and the model ends. *)
(***************************************************************************)
EXTENDS Integers, FiniteSets

CONSTANTS MaxSounds,      \* bounds m_maxAudioContainerID
          Lengths,        \* lengths of sounds, in frames
          Loops,          \* what scripts pass for loop
          BufferFrames    \* frameCount of a callback

ASSUME SizesAreNaturals ==
  /\ MaxSounds \in Nat /\ BufferFrames \in Nat \ {0}
  /\ Lengths \subseteq Nat \ {0}
  /\ Loops \subseteq BOOLEAN

VARIABLES
  maxId,      \* m_maxAudioContainerID
  sounds,     \* ids in m_audioContainerMap
  length, loop, finished,
  cursor,     \* frames a sound's decoder has read
  frees,      \* how often its decoder was freed
  phase,      \* the main thread: "script", "insert", "update", "erase",
              \* "closing", "stopping", "closed"
  scan,       \* ids Update has still to look at
  device,     \* whether the playback device runs
  cb,         \* the callback: "idle", "walk", "read", "next", "free",
              \* or "strayed"
  it,         \* the sound its iterator is at; 0 at the end of the map
  output,     \* the frames mixed into each place of the callback's buffer
  heard,      \* frames in buffers the device has taken
  signalled   \* m_closeEvent

mapVars == <<maxId, sounds, length, loop>>
mainVars == <<mapVars, phase, scan>>
cbVars == <<finished, cursor, cb, it, output, heard, signalled>>
vars == <<mainVars, cbVars, frees, device>>

Ids == 1..MaxSounds
Slots == 1..BufferFrames
Silence == [s \in Slots |-> {}]

Smallest(S) == CHOOSE i \in S : \A j \in S : i <= j

(* AudioManager::Init; the device may fail to open or to start.             *)
Init ==
  /\ maxId = 0 /\ sounds = {}
  /\ length = [i \in Ids |-> 0]
  /\ loop = [i \in Ids |-> FALSE]
  /\ finished = [i \in Ids |-> FALSE]
  /\ cursor = [i \in Ids |-> 0]
  /\ frees = [i \in Ids |-> 0]
  /\ phase = "script" /\ scan = {}
  /\ device \in BOOLEAN
  /\ cb = "idle" /\ it = 0
  /\ output = Silence /\ heard = {}
  /\ signalled = FALSE

-----------------------------------------------------------------------------
(* The main thread.                                                         *)

(* PlayAudio opens a file and starts to insert its container.               *)
PlayAudio(len, loops) ==
  /\ phase = "script"
  /\ maxId < MaxSounds
  /\ maxId' = maxId + 1
  /\ length' = [length EXCEPT ![maxId + 1] = len]
  /\ loop' = [loop EXCEPT ![maxId + 1] = loops]
  /\ phase' = "insert"
  /\ UNCHANGED <<sounds, scan, cbVars, frees, device>>

EndInsert ==
  /\ phase = "insert"
  /\ sounds' = sounds \union {maxId}
  /\ phase' = "script"
  /\ UNCHANGED <<maxId, length, loop, scan, cbVars, frees, device>>

BeginUpdate ==
  /\ phase = "script"
  /\ phase' = "update"
  /\ scan' = sounds
  /\ UNCHANGED <<mapVars, cbVars, frees, device>>

HasEnded(i) == ~loop[i] /\ finished[i]

KeepSound ==
  /\ phase = "update" /\ scan # {}
  /\ ~HasEnded(Smallest(scan))
  /\ scan' = scan \ {Smallest(scan)}
  /\ UNCHANGED <<mapVars, phase, cbVars, frees, device>>

(* Mutant of FreeSound: a sound that is to start again is freed as well.    *)
FreeSoundFinished ==
  /\ phase = "update" /\ scan # {}
  /\ finished[Smallest(scan)]
  /\ frees' = [frees EXCEPT ![Smallest(scan)] = IF @ = 2 THEN 2 ELSE @ + 1]
  /\ phase' = "erase"
  /\ UNCHANGED <<mapVars, scan, cbVars, device>>

(* Update frees the decoder of a sound that has ended, then erases it.      *)
FreeSound ==
  /\ phase = "update" /\ scan # {}
  /\ HasEnded(Smallest(scan))
  /\ frees' = [frees EXCEPT ![Smallest(scan)] = @ + 1]
  /\ phase' = "erase"
  /\ UNCHANGED <<mapVars, scan, cbVars, device>>

EraseSound ==
  /\ phase = "erase"
  /\ sounds' = sounds \ {Smallest(scan)}
  /\ scan' = scan \ {Smallest(scan)}
  /\ phase' = "update"
  /\ UNCHANGED <<maxId, length, loop, cbVars, frees, device>>

EndUpdate ==
  /\ phase = "update" /\ scan = {}
  /\ phase' = "script"
  /\ UNCHANGED <<mapVars, scan, cbVars, frees, device>>

(* Close raises m_closeRequested and waits for the event.                   *)
Close ==
  /\ phase = "script"
  /\ phase' = "closing"
  /\ UNCHANGED <<mapVars, scan, cbVars, frees, device>>

StopDevice ==
  /\ phase = "closing" /\ signalled
  /\ phase' = "stopping"
  /\ UNCHANGED <<mapVars, scan, cbVars, frees, device>>

(* ma_device_uninit waits for a running callback.                           *)
CloseReturn ==
  /\ phase = "stopping" /\ cb = "idle"
  /\ phase' = "closed"
  /\ UNCHANGED <<mapVars, scan, cbVars, frees, device>>

-----------------------------------------------------------------------------
(* The device thread.                                                       *)

mutating == phase \in {"insert", "erase"}

(* The node of the iterator has been erased, or is about to be.             *)
AtErased == it # 0 /\ (it \notin sounds \/ (phase = "erase" /\ it = Smallest(scan)))

(* The callback reads links that the main thread is writing, or a node that *)
(* it has freed.                                                            *)
Stray ==
  /\ \/ device /\ cb = "idle" /\ mutating
     \/ cb = "walk" /\ AtErased
     \/ cb = "next" /\ (mutating \/ AtErased)
  /\ cb' = "strayed"
  /\ UNCHANGED <<mainVars, finished, cursor, it, output, heard, signalled, frees, device>>

(* Where begin() and ++it lead.                                             *)
FirstSounds ==
  IF mutating THEN sounds \union {0}
  ELSE IF sounds = {} THEN {0} ELSE {Smallest(sounds)}

NextSounds ==
  LET later == {i \in sounds : i > it}
  IN  IF mutating THEN sounds \union {0}
      ELSE IF later = {} THEN {0} ELSE {Smallest(later)}

StartCallback ==
  /\ device /\ cb = "idle" /\ phase \notin {"stopping", "closed"}
  /\ cb' = IF phase = "closing" THEN "free" ELSE "walk"
  /\ it' \in FirstSounds
  /\ output' = Silence
  /\ UNCHANGED <<mainVars, finished, cursor, heard, signalled, frees, device>>

AtSound == cb = "walk" /\ it # 0 /\ ~AtErased

StartRead ==
  /\ AtSound
  /\ ~finished[it]
  /\ cb' = "read"
  /\ UNCHANGED <<mainVars, finished, cursor, it, output, heard, signalled, frees, device>>

(* Mutant of IsShort: a read that ends with the file counts as short too.   *)
IsShortAtEnd(n) == n <= BufferFrames - 1 \/ cursor[it] + n = length[it] - 1

(* Mutant of IsShort: a read of nothing is not short.                       *)
IsShortNotEmpty(n) == n \in 1..(BufferFrames - 1)

IsShort(n) == n < BufferFrames

(* read_and_mix_pcm_frames_f32 adds what is left of the sound to the        *)
(* buffer; a short read ends the sound.                                     *)
FinishRead ==
  /\ cb = "read"
  /\ LET left == length[it] - cursor[it]
         n == IF left < BufferFrames THEN left ELSE BufferFrames
     IN  /\ output' = [s \in Slots |-> IF s <= n THEN output[s] \union {<<it, cursor[it] + s>>}
                                       ELSE output[s]]
         /\ cursor' = [cursor EXCEPT ![it] = @ + n]
         /\ finished' = [finished EXCEPT ![it] = IsShort(n)]
  /\ cb' = "next"
  /\ UNCHANGED <<mainVars, it, heard, signalled, frees, device>>

(* A looping sound that has ended starts again, in the next callback:       *)
(* ma_data_source_read_pcm_frames goes back to the first frame, and it      *)
(* fills the buffer instead of adding to it.                                *)
Restart ==
  /\ AtSound
  /\ finished[it] /\ loop[it]
  /\ output' = [s \in Slots |-> {<<it, ((s - 1) % length[it]) + 1>>}]
  /\ cursor' = [cursor EXCEPT ![it] = ((BufferFrames - 1) % length[it]) + 1]
  /\ finished' = [finished EXCEPT ![it] = FALSE]
  /\ cb' = "next"
  /\ UNCHANGED <<mainVars, it, heard, signalled, frees, device>>

SkipEnded ==
  /\ AtSound
  /\ finished[it] /\ ~loop[it]
  /\ cb' = "next"
  /\ UNCHANGED <<mainVars, finished, cursor, it, output, heard, signalled, frees, device>>

Advance ==
  /\ cb = "next" /\ ~AtErased
  /\ it' \in NextSounds
  /\ cb' = "walk"
  /\ UNCHANGED <<mainVars, finished, cursor, output, heard, signalled, frees, device>>

EndWalk ==
  /\ cb = "walk" /\ it = 0
  /\ heard' = heard \union UNION {output[s] : s \in Slots}
  /\ output' = Silence
  /\ cb' = "idle"
  /\ UNCHANGED <<mainVars, finished, cursor, it, signalled, frees, device>>

(* Once Close has asked, a callback frees the decoder of every sound and    *)
(* forgets it.                                                              *)
FreeDecoder ==
  /\ cb = "free" /\ it # 0
  /\ frees' = [frees EXCEPT ![it] = 1]
  /\ it' \in NextSounds
  /\ UNCHANGED <<mainVars, finished, cursor, cb, output, heard, signalled, device>>

(* Mutant of SignalClose: there is nothing to signal without sounds.        *)
SignalCloseAfterSounds ==
  /\ cb = "free" /\ it = 0
  /\ signalled' = (signalled \/ sounds # {})
  /\ cb' = "idle"
  /\ UNCHANGED <<mainVars, finished, cursor, it, output, heard, frees, device>>

SignalClose ==
  /\ cb = "free" /\ it = 0
  /\ signalled' = TRUE
  /\ cb' = "idle"
  /\ UNCHANGED <<mainVars, finished, cursor, it, output, heard, frees, device>>

-----------------------------------------------------------------------------
Callback ==
  \/ StartCallback \/ StartRead \/ FinishRead \/ Restart \/ SkipEnded
  \/ Advance \/ EndWalk \/ FreeDecoder \/ SignalClose \/ Stray

Loop ==
  /\ cb # "strayed"
  /\ \/ EndInsert \/ BeginUpdate \/ KeepSound \/ FreeSound \/ EraseSound \/ EndUpdate
     \/ StopDevice \/ CloseReturn

Script ==
  /\ cb # "strayed"
  /\ \/ \E len \in Lengths, loops \in Loops : PlayAudio(len, loops)
     \/ Close

Next == Script \/ Loop \/ Callback

Spec == Init /\ [][Next]_vars

(* The device asks for buffers for ever and RenderLoop keeps turning.       *)
FairSpec == Spec /\ WF_vars(Callback) /\ WF_vars(Loop)

-----------------------------------------------------------------------------
(* Without a lock, Update may erase a node from under the callback's        *)
(* iterator; but only that of a one-shot that has ended, whose decoder was  *)
(* freed once: a sound that the callback will read keeps its node and its   *)
(* decoder.  The callback goes astray at such a node or while the links of  *)
(* the map change, never otherwise.  No decoder is freed twice, by Update   *)
(* and by the callback that answers Close, and after Close none is left.    *)
DecodersAreSafe ==
  /\ cb \in {"read", "walk", "next"} /\ it # 0 /\ ~HasEnded(it) => it \in sounds /\ frees[it] = 0
  /\ cb = "strayed" => mutating \/ (it \in 1..maxId /\ HasEnded(it) /\ frees[it] = 1)
  /\ \A i \in Ids : frees[i] <= 1
  /\ phase = "closed" => \A i \in 1..maxId : frees[i] = 1

(* While no sound loops, a sound that Update has erased was mixed to its    *)
(* last frame into buffers the device has taken or is about to take (a      *)
(* loop's restart overwrites what others put into the buffer).              *)
HeardInFull ==
  \A i \in 1..maxId : i \notin sounds /\ frees[i] = 1 /\ (\A j \in 1..maxId : ~loop[j]) =>
    \A f \in 1..length[i] :
      <<i, f>> \in heard \/ \E s \in Slots : <<i, f>> \in output[s]

(* A sound that does not loop ends and leaves the map, unless the callback  *)
(* goes astray.                                                             *)
OneShotsLeave ==
  \A i \in Ids :
    device /\ i \in sounds /\ ~loop[i] ~>
      i \notin sounds \/ phase \in {"closing", "stopping", "closed"} \/ cb = "strayed"

(* Close returns when the device runs: data_callback always signals, unless *)
(* a callback that has begun before went astray.                            *)
CloseReturns == device /\ phase = "closing" ~> phase = "closed" \/ cb = "strayed"
=============================================================================
