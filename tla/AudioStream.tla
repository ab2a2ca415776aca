---------------------------- MODULE AudioStream -----------------------------
(***************************************************************************)
(* The Xbox AudioManager (src/NexgenRedux-Shared/AudioManager.cpp, second  *)
(* half): each sound has a thread, PlayAudioContainer, that decodes the    *)
(* file packet by packet into the packets' places in one buffer and hands  *)
(* them to a DirectSound stream, which plays them in the order it got      *)
(* them.  A thread's last act is to allow Update to erase its container.   *)
(*                                                                         *)
(* A file is a number of packets, the last of which is short.  Adding and  *)
(* erasing a container take two steps; a thread that looks its container   *)
(* up between them may not find it.                                        *)
(***************************************************************************)
EXTENDS Integers, Sequences

CONSTANTS MaxSounds,   \* bounds m_maxAudioContainerID
          Packets,     \* AUDIO_PACKETS
          FilePackets  \* packets a file decodes to

ASSUME SizesArePositive ==
  MaxSounds \in Nat /\ Packets \in Nat \ {0} /\ FilePackets \in Nat \ {0}

VARIABLES
  maxId,     \* m_maxAudioContainerID
  sounds,    \* ids in m_audioContainerMap
  loop, finished, stopRequested, canDelete,   \* of each container
  decoded,   \* packets its decoder has read since the file's start
  buffer,    \* what each packet's place in decodeBuffer holds
  stream,    \* packets that are XMEDIAPACKET_STATUS_PENDING, in playing order
  heard,     \* the packet of the file last played; 0 before the first
  thread,    \* each sound's thread: "none", "start", "fill", "work", "drain", "free", "gone", "ended"
  slot,      \* its loop counter
  main       \* "script", "insert", "erase", "closed"

soundVars == <<finished, stopRequested, canDelete, decoded, buffer, stream, heard, thread, slot>>
mapVars == <<maxId, sounds, loop, main>>
vars == <<mapVars, soundVars>>

Ids == 1..MaxSounds
Slots == 1..Packets

Init ==
  /\ maxId = 0 /\ sounds = {}
  /\ loop = [i \in Ids |-> FALSE]
  /\ finished = [i \in Ids |-> FALSE]
  /\ stopRequested = [i \in Ids |-> FALSE]
  /\ canDelete = [i \in Ids |-> FALSE]
  /\ decoded = [i \in Ids |-> 0]
  /\ buffer = [i \in Ids |-> [s \in Slots |-> 0]]
  /\ stream = [i \in Ids |-> <<>>]
  /\ heard = [i \in Ids |-> 0]
  /\ thread = [i \in Ids |-> "none"]
  /\ slot = [i \in Ids |-> 1]
  /\ main = "script"

Pending(i, s) == \E k \in DOMAIN stream[i] : stream[i][k] = s
mutating == main \in {"insert", "erase"}

-----------------------------------------------------------------------------
(* The main thread.                                                         *)

PlayAudio(loops) ==
  /\ main = "script"
  /\ maxId < MaxSounds
  /\ maxId' = maxId + 1
  /\ loop' = [loop EXCEPT ![maxId + 1] = loops]
  /\ main' = "insert"
  /\ UNCHANGED <<sounds, soundVars>>

CreateThread ==
  /\ main = "insert"
  /\ sounds' = sounds \union {maxId}
  /\ thread' = [thread EXCEPT ![maxId] = "start"]
  /\ main' = "script"
  /\ UNCHANGED <<maxId, loop, finished, stopRequested, canDelete, decoded, buffer, stream, heard, slot>>

(* Update meets a container whose thread is done; it keeps the others.  An  *)
(* Update that erases several is several of these steps.                    *)
BeginErase ==
  /\ main = "script"
  /\ \E i \in sounds : canDelete[i]
  /\ main' = "erase"
  /\ UNCHANGED <<maxId, sounds, loop, soundVars>>

EndErase ==
  /\ main = "erase"
  /\ \E i \in sounds :
       /\ canDelete[i] /\ \A j \in sounds : j < i => ~canDelete[j]
       /\ sounds' = sounds \ {i}
  /\ main' = "script"
  /\ UNCHANGED <<maxId, loop, soundVars>>

(* Close releases the streams and the device and the program ends; what     *)
(* threads do that it does not wait for is left out.                        *)
Close ==
  /\ main = "script"
  /\ main' = "closed"
  /\ UNCHANGED <<maxId, sounds, loop, soundVars>>

-----------------------------------------------------------------------------
(* The thread of sound i.                                                   *)

Runs(i, at) == main # "closed" /\ thread[i] = at

FindContainer(i) ==
  /\ Runs(i, "start")
  /\ thread' = [thread EXCEPT ![i] = "fill"]
  /\ UNCHANGED <<mapVars, finished, stopRequested, canDelete, decoded, buffer, stream, heard, slot>>

(* The lookup runs into a change of the map; nobody will erase the sound.   *)
MissContainer(i) ==
  /\ Runs(i, "start") /\ mutating
  /\ thread' = [thread EXCEPT ![i] = "gone"]
  /\ UNCHANGED <<mapVars, finished, stopRequested, canDelete, decoded, buffer, stream, heard, slot>>

(* After the last packet, the thread goes on to DirectSoundDoWork.          *)
NextSlot(i) ==
  /\ slot' = [slot EXCEPT ![i] = IF slot[i] = Packets THEN 1 ELSE @ + 1]
  /\ thread' = [thread EXCEPT ![i] = IF slot[i] = Packets THEN "work" ELSE "fill"]

SkipPending(i) ==
  /\ Runs(i, "fill")
  /\ Pending(i, slot[i])
  /\ NextSlot(i)
  /\ UNCHANGED <<mapVars, finished, stopRequested, canDelete, decoded, buffer, stream, heard>>

(* Mutant of Place: the pointer into the buffer stays at its start.         *)
PlaceAtStart(i) == 1

(* Where packet slot[i] is decoded to.                                      *)
Place(i) == slot[i]

(* A free packet is decoded and handed to the stream; a looping sound that  *)
(* has ended starts again.                                                  *)
FillPacket(i) ==
  /\ Runs(i, "fill")
  /\ ~Pending(i, slot[i])
  /\ finished[i] => loop[i]
  /\ LET n == IF finished[i] THEN 1 ELSE decoded[i] + 1
     IN  /\ decoded' = [decoded EXCEPT ![i] = n]
         /\ buffer' = [buffer EXCEPT ![i][Place(i)] = n]
         /\ finished' = [finished EXCEPT ![i] = n = FilePackets]
  /\ stream' = [stream EXCEPT ![i] = Append(@, slot[i])]
  /\ NextSlot(i)
  /\ UNCHANGED <<mapVars, stopRequested, canDelete, heard>>

(* A sound that has ended and does not loop leaves the packets.             *)
RequestStop(i) ==
  /\ Runs(i, "fill")
  /\ ~Pending(i, slot[i])
  /\ finished[i] /\ ~loop[i]
  /\ stopRequested' = [stopRequested EXCEPT ![i] = TRUE]
  /\ thread' = [thread EXCEPT ![i] = "work"]
  /\ UNCHANGED <<mapVars, finished, canDelete, decoded, buffer, stream, heard, slot>>

Work(i) ==
  /\ Runs(i, "work")
  /\ slot' = [slot EXCEPT ![i] = 1]
  /\ thread' = [thread EXCEPT ![i] = IF stopRequested[i] THEN "drain" ELSE "fill"]
  /\ UNCHANGED <<mapVars, finished, stopRequested, canDelete, decoded, buffer, stream, heard>>

(* The thread waits until no packet is pending, then flushes the stream.    *)
Drain(i) ==
  /\ Runs(i, "drain")
  /\ \A s \in Slots : ~Pending(i, s)
  /\ thread' = [thread EXCEPT ![i] = "free"]
  /\ UNCHANGED <<mapVars, finished, stopRequested, canDelete, decoded, buffer, stream, heard, slot>>

(* Mutant of Free: the container may go before its thread is done with it.  *)
FreeEarly(i) ==
  /\ Runs(i, "free")
  /\ canDelete' = [canDelete EXCEPT ![i] = TRUE]
  /\ thread' = [thread EXCEPT ![i] = IF canDelete[i] THEN "ended" ELSE @]
  /\ UNCHANGED <<mapVars, finished, stopRequested, decoded, buffer, stream, heard, slot>>

(* Mutant of Free: the container is not given up.                           *)
FreeForgetsContainer(i) ==
  /\ Runs(i, "free")
  /\ thread' = [thread EXCEPT ![i] = "ended"]
  /\ UNCHANGED <<mapVars, finished, stopRequested, canDelete, decoded, buffer, stream, heard, slot>>

(* The decoder, the stream and the buffer are freed, then the container may *)
(* go.                                                                      *)
Free(i) ==
  /\ Runs(i, "free")
  /\ canDelete' = [canDelete EXCEPT ![i] = TRUE]
  /\ thread' = [thread EXCEPT ![i] = "ended"]
  /\ UNCHANGED <<mapVars, finished, stopRequested, decoded, buffer, stream, heard, slot>>

(* DirectSound plays the first pending packet to its end.                   *)
PlayPacket(i) ==
  /\ main # "closed"
  /\ stream[i] # <<>>
  /\ heard' = [heard EXCEPT ![i] = buffer[i][Head(stream[i])]]
  /\ stream' = [stream EXCEPT ![i] = Tail(@)]
  /\ UNCHANGED <<mapVars, finished, stopRequested, canDelete, decoded, buffer, thread, slot>>

-----------------------------------------------------------------------------
Thread(i) ==
  \/ FindContainer(i) \/ MissContainer(i) \/ SkipPending(i) \/ FillPacket(i)
  \/ RequestStop(i) \/ Work(i) \/ Drain(i) \/ Free(i)

Next ==
  \/ \E loops \in BOOLEAN : PlayAudio(loops)
  \/ CreateThread \/ BeginErase \/ EndErase \/ Close
  \/ \E i \in Ids : Thread(i) \/ PlayPacket(i)

Spec == Init /\ [][Next]_vars

(* Threads are scheduled, the hardware plays, RenderLoop calls Update.      *)
FairSpec ==
  /\ Spec
  /\ WF_vars(CreateThread) /\ WF_vars(EndErase) /\ SF_vars(BeginErase)
  /\ \A i \in Ids : WF_vars(Thread(i)) /\ WF_vars(PlayPacket(i))

-----------------------------------------------------------------------------
(* The packet of the file that follows packet n.                            *)
Following(n) == IF n = FilePackets THEN 1 ELSE n + 1

(* What is heard and what is pending are packets of the file in its order:  *)
(* no packet's place is decoded into while the packet waits to be played;   *)
(* and a stream is released only after the last packet was heard.           *)
FileIsHeard ==
  \A i \in Ids :
    LET coming == <<heard[i]>> \o [k \in DOMAIN stream[i] |-> buffer[i][stream[i][k]]]
    IN  /\ \A k \in 1..(Len(coming) - 1) : coming[k + 1] = Following(coming[k])
        /\ thread[i] \in {"free", "ended"} => heard[i] = FilePackets

(* A thread works on its container only while the map holds it.             *)
ThreadHasContainer ==
  \A i \in Ids : thread[i] \notin {"none", "gone", "ended"} => i \in sounds

(* A sound that does not loop ends and is erased, unless its thread missed  *)
(* it in the map.                                                           *)
SoundsLeave ==
  \A i \in Ids : i \in sounds /\ ~loop[i] ~> i \notin sounds \/ thread[i] = "gone" \/ main = "closed"
=============================================================================
