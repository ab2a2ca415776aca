------------------------- MODULE AudioStreamProofs --------------------------
(***************************************************************************)
(* Proofs about AudioStream, for any number of sounds, packets and packets *)
(* of a file.                                                              *)
(*                                                                         *)
(* IInv: what a sound's stream holds follows, packet by packet, what was   *)
(* heard last, up to what its decoder read last (Order); a thread that has *)
(* asked to stop decodes no more, and has nothing pending once it frees    *)
(* (Ending); threads run on containers of the map (Mapped).                *)
(***************************************************************************)
EXTENDS AudioStream, SequenceTheorems, TLAPS

Stages == {"none", "start", "fill", "work", "drain", "free", "gone", "ended"}

TypeOK ==
  /\ maxId \in 0..MaxSounds /\ sounds \subseteq Ids
  /\ loop \in [Ids -> BOOLEAN] /\ finished \in [Ids -> BOOLEAN]
  /\ stopRequested \in [Ids -> BOOLEAN] /\ canDelete \in [Ids -> BOOLEAN]
  /\ decoded \in [Ids -> 0..FilePackets] /\ heard \in [Ids -> 0..FilePackets]
  /\ buffer \in [Ids -> [Slots -> 0..FilePackets]]
  /\ stream \in [Ids -> Seq(Slots)] /\ slot \in [Ids -> Slots]
  /\ thread \in [Ids -> Stages]
  /\ main \in {"script", "insert", "erase", "closed"}
  /\ main = "insert" => maxId \in Ids

(* The packets pending in the places q of b: each place once, each packet   *)
(* followed by the next, from the one after h to d.                         *)
InOrder(q, b, h, d) ==
  /\ \A k, l \in 1..Len(q) : q[k] = q[l] => k = l
  /\ q # <<>> => b[q[1]] = Following(h) /\ b[q[Len(q)]] = d
  /\ \A k \in 1..(Len(q) - 1) : b[q[k + 1]] = Following(b[q[k]])
  /\ q = <<>> => d = h

Order(i) == InOrder(stream[i], buffer[i], heard[i], decoded[i])

Ending(i) ==
  /\ finished[i] <=> decoded[i] = FilePackets
  /\ stopRequested[i] => finished[i] /\ thread[i] \in {"work", "drain", "free", "ended"}
  /\ thread[i] \in {"drain", "free", "ended"} => stopRequested[i]
  /\ thread[i] \in {"free", "ended"} => stream[i] = <<>>

Mapped(i) ==
  /\ i > maxId \/ (main = "insert" /\ i = maxId) => thread[i] = "none"
  /\ thread[i] \notin {"none", "gone", "ended"} => i \in sounds
  /\ canDelete[i] => thread[i] = "ended"

IInv == TypeOK /\ \A i \in Ids : Order(i) /\ Ending(i) /\ Mapped(i)
-----------------------------------------------------------------------------
(* A packet that is played leaves the others in order behind it.            *)
LEMMA PlayKeepsOrder ==
  ASSUME NEW q \in Seq(Slots), q # <<>>, NEW b, NEW h, NEW d, InOrder(q, b, h, d)
  PROVE  InOrder(Tail(q), b, b[Head(q)], d)
<1> DEFINE r == Tail(q)
<1>1. /\ Len(q) \in Nat \ {0} /\ Len(r) = Len(q) - 1 /\ r \in Seq(Slots)
      /\ \A k \in 1..Len(r) : r[k] = q[k + 1]
      /\ Head(q) = q[1]
  BY HeadTailProperties, EmptySeq
<1> HIDE DEF r
<1>0. r = <<>> <=> Len(q) = 1
  <2>1. Len(<<>>) = 0 /\ (r # <<>> => Len(r) \in Nat \ {0})
    BY <1>1, EmptySeq
  <2> QED  BY <1>1, <2>1
<1>2. \A k, l \in 1..Len(r) : r[k] = r[l] => k = l
  <2> TAKE k, l \in 1..Len(r)
  <2> HAVE r[k] = r[l]
  <2>1. k + 1 \in 1..Len(q) /\ l + 1 \in 1..Len(q) /\ q[k + 1] = q[l + 1]
    BY <1>1
  <2> QED  BY <2>1 DEF InOrder
<1>3. r # <<>> => b[r[1]] = Following(b[q[1]]) /\ b[r[Len(r)]] = d
  <2> HAVE r # <<>>
  <2>1. Len(r) \in Nat \ {0} /\ r[1] = q[2] /\ r[Len(r)] = q[Len(q)] /\ 1 \in 1..(Len(q) - 1)
    BY <1>0, <1>1
  <2>2. b[q[1 + 1]] = Following(b[q[1]])
    BY <2>1 DEF InOrder
  <2> QED  BY <2>1, <2>2 DEF InOrder
<1>4. \A k \in 1..(Len(r) - 1) : b[r[k + 1]] = Following(b[r[k]])
  <2> TAKE k \in 1..(Len(r) - 1)
  <2>1. r[k] = q[k + 1] /\ r[k + 1] = q[k + 2] /\ k + 1 \in 1..(Len(q) - 1)
    BY <1>1
  <2>2. b[q[(k + 1) + 1]] = Following(b[q[k + 1]])
    BY <2>1 DEF InOrder
  <2> QED  BY <2>1, <2>2
<1>5. r = <<>> => d = b[q[1]]
  BY <1>0, <1>1 DEF InOrder
<1> QED  BY <1>1, <1>2, <1>3, <1>4, <1>5 DEF InOrder, r

(* A packet decoded into a free place comes last.                           *)
LEMMA FillKeepsOrder ==
  ASSUME NEW q \in Seq(Slots), NEW b \in [Slots -> 0..FilePackets], NEW h, NEW d,
         InOrder(q, b, h, d),
         NEW s \in Slots, \A k \in 1..Len(q) : q[k] # s,
         NEW n, n = Following(d)
  PROVE  InOrder(Append(q, s), [b EXCEPT ![s] = n], h, n)
<1> DEFINE r == Append(q, s)
           c == [b EXCEPT ![s] = n]
<1>1. /\ Len(q) \in Nat /\ Len(r) = Len(q) + 1
      /\ \A k \in 1..Len(q) : r[k] = q[k] /\ q[k] \in Slots
      /\ r[Len(r)] = s
  BY AppendProperties
<1>0. r # <<>> /\ (q = <<>> <=> Len(q) = 0)
  BY <1>1, EmptySeq
<1>2. c[s] = n /\ \A t \in Slots : t # s => c[t] = b[t]
  OBVIOUS
<1> HIDE DEF r, c
<1>3. \A k \in 1..Len(q) : c[r[k]] = b[q[k]]
  BY <1>1, <1>2
<1>4. \A k, l \in 1..Len(r) : r[k] = r[l] => k = l
  BY <1>1 DEF InOrder
<1>5. c[r[Len(r)]] = n
  BY <1>1, <1>2
<1>6. c[r[1]] = Following(h)
  <2>1. CASE q = <<>>
    <3>1. Len(r) = 1 /\ d = h
      BY <1>1, <2>1 DEF InOrder
    <3> QED  BY <3>1, <1>5
  <2>2. CASE q # <<>>
    <3>1. 1 \in 1..Len(q)
      BY <2>2, <1>1
    <3> QED  BY <3>1, <2>2, <1>3 DEF InOrder
  <2> QED  BY <2>1, <2>2
<1>7. \A k \in 1..(Len(r) - 1) : c[r[k + 1]] = Following(c[r[k]])
  <2> TAKE k \in 1..(Len(r) - 1)
  <2>1. CASE k = Len(q)
    <3>1. r[k + 1] = s /\ k \in 1..Len(q) /\ q # <<>>
      BY <2>1, <1>1
    <3>2. c[r[k]] = d
      BY <3>1, <2>1, <1>3 DEF InOrder
    <3> QED  BY <3>1, <3>2, <1>2
  <2>2. CASE k # Len(q)
    <3>1. k \in 1..Len(q) /\ k + 1 \in 1..Len(q) /\ k \in 1..(Len(q) - 1)
      BY <2>2, <1>1
    <3> QED  BY <3>1, <1>3 DEF InOrder
  <2> QED  BY <2>1, <2>2
<1> QED  BY <1>0, <1>1, <1>4, <1>5, <1>6, <1>7 DEF InOrder, r, c

(* What is heard and what is pending, put behind one another.               *)
LEMMA OrderIsHeard ==
  ASSUME NEW q \in Seq(Slots), NEW b \in [Slots -> 0..FilePackets], NEW h \in 0..FilePackets, NEW d,
         InOrder(q, b, h, d)
  PROVE  LET coming == <<h>> \o [k \in DOMAIN q |-> b[q[k]]]
         IN  \A k \in 1..(Len(coming) - 1) : coming[k + 1] = Following(coming[k])
<1> DEFINE p == [k \in DOMAIN q |-> b[q[k]]]
           coming == <<h>> \o p
<1>1. Len(q) \in Nat /\ DOMAIN q = 1..Len(q) /\ \A k \in 1..Len(q) : q[k] \in Slots
  OBVIOUS
<1>2. p \in [1..Len(q) -> 0..FilePackets] /\ \A k \in 1..Len(q) : p[k] = b[q[k]]
  BY <1>1
<1> HIDE DEF p
<1>3. p \in Seq(0..FilePackets) /\ Len(p) = Len(q)
  <2> DEFINE S == 0..FilePackets
  <2>1. p \in [1..Len(q) -> S]
    BY <1>2
  <2> HIDE DEF S
  <2>2. p \in Seq(S)
    BY <1>1, <2>1
  <2>3. 1..Len(p) = 1..Len(q) /\ Len(p) \in Nat
    BY <2>1, <2>2, LenProperties
  <2>4. Len(p) = Len(q)
    BY <1>1, <2>3
  <2> QED  BY <2>2, <2>4 DEF S
<1>4. <<h>> \in Seq(0..FilePackets) /\ Len(<<h>>) = 1 /\ <<h>>[1] = h
  OBVIOUS
<1>5. /\ Len(coming) = 1 + Len(q)
      /\ \A k \in 1..(1 + Len(q)) : coming[k] = IF k <= 1 THEN <<h>>[k] ELSE p[k - 1]
  BY <1>3, <1>4, ConcatProperties
<1> HIDE DEF coming
<1>6. \A k \in 1..(Len(coming) - 1) : coming[k + 1] = Following(coming[k])
  <2> TAKE k \in 1..(Len(coming) - 1)
  <2>1. k \in 1..Len(q) /\ coming[k + 1] = b[q[k]]
    <3>1. k \in 1..Len(q) /\ k + 1 \in 1..(1 + Len(q)) /\ ~(k + 1 <= 1) /\ (k + 1) - 1 = k
      BY <1>1, <1>5
    <3>2. coming[k + 1] = p[(k + 1) - 1]
      BY <3>1, <1>5
    <3> QED  BY <3>1, <3>2, <1>2
  <2>2. CASE k = 1
    <3>1. coming[k] = h /\ q # <<>>
      BY <2>1, <2>2, <1>1, <1>4, <1>5
    <3> QED  BY <2>1, <2>2, <3>1 DEF InOrder
  <2>3. CASE k # 1
    <3>1. k - 1 \in 1..(Len(q) - 1) /\ coming[k] = b[q[k - 1]]
      BY <2>1, <2>3, <1>1, <1>2, <1>5
    <3>2. b[q[(k - 1) + 1]] = Following(b[q[k - 1]])
      BY <3>1 DEF InOrder
    <3> QED  BY <2>1, <3>1, <3>2, <1>1
  <2> QED  BY <2>2, <2>3
<1> QED  BY <1>6 DEF coming, p
-----------------------------------------------------------------------------
(* The initial state.                                                       *)
LEMMA InitHolds == ASSUME Init PROVE IInv
<1> USE SizesArePositive DEF Init, Ids, Slots
<1>1. TypeOK
  BY DEF TypeOK, Stages
<1>2. ASSUME NEW i \in Ids PROVE Order(i) /\ Ending(i) /\ Mapped(i)
  <2>1. stream[i] = <<>> /\ Len(<<>>) = 0 /\ heard[i] = 0 /\ decoded[i] = 0
    BY <1>2
  <2>2. Order(i)
    BY <2>1 DEF Order, InOrder
  <2>3. Ending(i) /\ Mapped(i)
    BY <1>2 DEF Ending, Mapped
  <2> QED  BY <2>2, <2>3
<1> QED  BY <1>1, <1>2 DEF IInv

(* The main thread changes no sound that has a thread, and erases only      *)
(* containers whose thread has ended.                                       *)
LEMMA MainKeeps ==
  ASSUME IInv, (\E loops \in BOOLEAN : PlayAudio(loops)) \/ CreateThread \/ BeginErase \/ EndErase \/ Close
  PROVE  IInv'
<1> USE SizesArePositive DEF IInv, Ids
<1>1. CASE \E loops \in BOOLEAN : PlayAudio(loops)
  <2>0. PICK loops \in BOOLEAN : PlayAudio(loops)
    BY <1>1
  <2>1. TypeOK'
    <3>1. maxId' \in Ids /\ loop' \in [Ids -> BOOLEAN] /\ main' = "insert"
      BY <2>0 DEF PlayAudio, TypeOK
    <3>2. UNCHANGED <<sounds, soundVars>>
      BY <2>0 DEF PlayAudio
    <3>3. UNCHANGED <<finished, stopRequested, canDelete, decoded, buffer, stream, heard, thread, slot>>
      BY <3>2 DEF soundVars
    <3>4. maxId' \in 0..MaxSounds /\ sounds' \subseteq Ids
      BY <3>1, <3>2 DEF TypeOK
    <3> QED  BY <3>1, <3>3, <3>4 DEF TypeOK
  <2>2. ASSUME NEW i \in Ids PROVE (Order(i) /\ Ending(i) /\ Mapped(i))'
    BY <1>1, <2>2 DEF PlayAudio, TypeOK, soundVars, Order, Ending, Mapped
  <2> QED  BY <2>1, <2>2
<1>2. CASE CreateThread
  <2>1. TypeOK'
    BY <1>2 DEF CreateThread, TypeOK, Stages
  <2>2. maxId \in Ids /\ thread[maxId] = "none"
    BY <1>2 DEF CreateThread, TypeOK, Mapped
  <2>3. ASSUME NEW i \in Ids PROVE (Order(i) /\ Ending(i) /\ Mapped(i))'
    <3>1. Order(i)'
      BY <1>2, <2>3 DEF CreateThread, Order
    <3>2. Ending(i)'
      BY <1>2, <2>2, <2>3 DEF CreateThread, TypeOK, Ending
    <3>3. CASE i = maxId
      <4>1. ~canDelete[i]
        BY <2>2, <3>3 DEF Mapped
      <4>2. ~canDelete'[i] /\ i \in sounds' /\ main' = "script" /\ maxId' = i
        BY <1>2, <3>3, <4>1 DEF CreateThread
      <4>3. Mapped(i)'
        BY <4>2 DEF Mapped
      <4> QED  BY <3>1, <3>2, <4>3
    <3>4. CASE i # maxId
      <4>1. Mapped(i)'
        BY <1>2, <2>2, <2>3, <3>4 DEF CreateThread, TypeOK, Mapped
      <4> QED  BY <3>1, <3>2, <4>1
    <3> QED  BY <3>3, <3>4
  <2> QED  BY <2>1, <2>3
<1>3. CASE BeginErase
  BY <1>3 DEF BeginErase, TypeOK, soundVars, Order, Ending, Mapped
<1>4. CASE EndErase
  <2>1. PICK e \in sounds : canDelete[e] /\ sounds' = sounds \ {e}
    BY <1>4 DEF EndErase
  <2>2. main = "erase" /\ main' = "script" /\ UNCHANGED <<maxId, loop, soundVars>>
    BY <1>4 DEF EndErase
  <2>3. TypeOK'
    BY <2>1, <2>2 DEF TypeOK, soundVars
  <2>4. ASSUME NEW i \in Ids PROVE (Order(i) /\ Ending(i) /\ Mapped(i))'
    <3>1. (Order(i) /\ Ending(i))'
      BY <2>2, <2>4 DEF soundVars, Order, Ending
    <3>2. Mapped(i)'
      BY <2>1, <2>2, <2>4 DEF soundVars, TypeOK, Mapped
    <3> QED  BY <3>1, <3>2
  <2> QED  BY <2>3, <2>4
<1>5. CASE Close
  BY <1>5 DEF Close, TypeOK, soundVars, Order, Ending, Mapped
<1> QED  BY <1>1, <1>2, <1>3, <1>4, <1>5

(* A thread's steps that neither decode nor hand over a packet.             *)
LEMMA WaitingKeeps ==
  ASSUME IInv, NEW i \in Ids,
         \/ FindContainer(i) \/ MissContainer(i) \/ SkipPending(i)
         \/ RequestStop(i) \/ Work(i) \/ Drain(i) \/ Free(i)
  PROVE  IInv'
<1> USE DEF IInv, Runs, mapVars
<1>1. TypeOK'
  <2> USE DEF TypeOK, Stages
  <2>1. CASE FindContainer(i)  BY <2>1 DEF FindContainer
  <2>2. CASE MissContainer(i)  BY <2>2 DEF MissContainer
  <2>3. CASE SkipPending(i)
    <3>1. slot[i] \in 1..Packets /\ 1 \in Slots /\ (slot[i] # Packets => slot[i] + 1 \in Slots)
      BY SizesArePositive DEF Slots
    <3> QED  BY <2>3, <3>1 DEF SkipPending, NextSlot
  <2>4. CASE RequestStop(i)  BY <2>4 DEF RequestStop
  <2>5. CASE Work(i)
    <3>1. 1 \in Slots
      BY SizesArePositive DEF Slots
    <3> QED  BY <2>5, <3>1 DEF Work
  <2>6. CASE Drain(i)  BY <2>6 DEF Drain
  <2>7. CASE Free(i)  BY <2>7 DEF Free
  <2> QED  BY <2>1, <2>2, <2>3, <2>4, <2>5, <2>6, <2>7
<1>2. UNCHANGED <<stream, buffer, heard, decoded, finished, maxId, main, sounds>>
  BY DEF FindContainer, MissContainer, SkipPending, RequestStop, Work, Drain, Free
<1>3. \A j \in Ids \ {i} : UNCHANGED <<thread[j], stopRequested[j], canDelete[j]>>
  BY DEF TypeOK, FindContainer, MissContainer, SkipPending, RequestStop, Work, Drain, Free, NextSlot
<1>4. ASSUME NEW j \in Ids PROVE (Order(j) /\ Ending(j) /\ Mapped(j))'
  <2>1. Order(j)'
    BY <1>2, <1>4 DEF Order
  <2>2. CASE j # i
    BY <1>2, <1>3, <1>4, <2>1, <2>2 DEF Ending, Mapped
  <2>3. CASE j = i
    <3>1. Order(i) /\ Ending(i) /\ Mapped(i) /\ thread \in [Ids -> Stages]
          /\ stopRequested \in [Ids -> BOOLEAN] /\ canDelete \in [Ids -> BOOLEAN]
      BY DEF TypeOK
    <3>2. CASE FindContainer(i) \/ MissContainer(i) \/ SkipPending(i)
      BY <1>2, <3>1, <3>2, <2>1, <2>3 DEF FindContainer, MissContainer, SkipPending, NextSlot, Ending, Mapped
    <3>3. CASE RequestStop(i)
      BY <1>2, <3>1, <3>3, <2>1, <2>3 DEF RequestStop, Ending, Mapped
    <3>4. CASE Work(i)
      BY <1>2, <3>1, <3>4, <2>1, <2>3 DEF Work, Ending, Mapped
    <3>5. CASE Drain(i)
      <4>1. stream[i] = <<>>
        <5>1. stream[i] \in Seq(Slots) /\ \A s \in Slots : ~Pending(i, s)
          BY <3>5 DEF Drain, TypeOK
        <5>2. stream[i] # <<>> => 1 \in DOMAIN stream[i] /\ stream[i][1] \in Slots
          BY <5>1, EmptySeq
        <5> QED  BY <5>1, <5>2 DEF Pending
      <4> QED  BY <1>2, <3>1, <3>5, <4>1, <2>1, <2>3 DEF Drain, Ending, Mapped
    <3>6. CASE Free(i)
      BY <1>2, <3>1, <3>6, <2>1, <2>3 DEF Free, Ending, Mapped
    <3> QED  BY <3>2, <3>3, <3>4, <3>5, <3>6
  <2> QED  BY <2>2, <2>3
<1> QED  BY <1>1, <1>4

(* A packet is decoded into a place that is not pending.                    *)
LEMMA FillKeeps == ASSUME IInv, NEW i \in Ids, FillPacket(i) PROVE IInv'
<1> DEFINE n == IF finished[i] THEN 1 ELSE decoded[i] + 1
<1>1. /\ thread[i] = "fill" /\ ~Pending(i, slot[i])
      /\ decoded' = [decoded EXCEPT ![i] = n]
      /\ buffer' = [buffer EXCEPT ![i][slot[i]] = n]
      /\ stream' = [stream EXCEPT ![i] = Append(@, slot[i])]
      /\ NextSlot(i)
      /\ UNCHANGED <<maxId, sounds, loop, main, stopRequested, canDelete, heard>>
  BY DEF FillPacket, Runs, Place, mapVars
<1>2. finished' = [finished EXCEPT ![i] = (n = FilePackets)]
  BY DEF FillPacket
<1>3. /\ decoded[i] \in 0..FilePackets /\ (finished[i] <=> decoded[i] = FilePackets)
      /\ ~stopRequested[i] /\ ~canDelete[i] /\ i \in sounds
  BY <1>1 DEF IInv, TypeOK, Ending, Mapped
<1>4. n = Following(decoded[i]) /\ n \in 1..FilePackets
  BY <1>3, SizesArePositive DEF Following
<1> HIDE DEF n
<1>5. slot[i] \in Slots /\ stream[i] \in Seq(Slots) /\ buffer[i] \in [Slots -> 0..FilePackets]
  BY DEF IInv, TypeOK
<1>6. /\ slot' \in [Ids -> Slots] /\ thread' \in [Ids -> Stages]
      /\ thread'[i] \in {"fill", "work"} /\ \A j \in Ids \ {i} : thread'[j] = thread[j]
  <2>1. slot[i] \in 1..Packets /\ 1 \in Slots /\ (slot[i] # Packets => slot[i] + 1 \in Slots)
    BY <1>5, SizesArePositive DEF Slots
  <2> QED  BY <1>1, <2>1 DEF IInv, TypeOK, NextSlot, Stages
<1>7. TypeOK'
  <2>1. stream' \in [Ids -> Seq(Slots)]
    BY <1>1, <1>5, AppendProperties DEF IInv, TypeOK
  <2>2. buffer' \in [Ids -> [Slots -> 0..FilePackets]]
    BY <1>1, <1>4, <1>5 DEF IInv, TypeOK
  <2>3. decoded' \in [Ids -> 0..FilePackets] /\ finished' \in [Ids -> BOOLEAN]
    BY <1>1, <1>2, <1>4 DEF IInv, TypeOK
  <2> QED  BY <1>1, <1>6, <2>1, <2>2, <2>3 DEF IInv, TypeOK
<1>8. ASSUME NEW j \in Ids, j # i PROVE (Order(j) /\ Ending(j) /\ Mapped(j))'
  <2>1. /\ decoded'[j] = decoded[j] /\ buffer'[j] = buffer[j] /\ stream'[j] = stream[j]
        /\ finished'[j] = finished[j] /\ thread'[j] = thread[j]
    BY <1>1, <1>2, <1>6, <1>8 DEF IInv, TypeOK
  <2> QED  BY <1>1, <2>1, <1>8 DEF IInv, Order, Ending, Mapped
<1>9. Order(i)'
  <2>1. \A k \in 1..Len(stream[i]) : stream[i][k] # slot[i]
    BY <1>1, <1>5 DEF Pending
  <2>2. InOrder(Append(stream[i], slot[i]), [buffer[i] EXCEPT ![slot[i]] = n], heard[i], n)
    BY <1>4, <1>5, <2>1, FillKeepsOrder DEF IInv, Order
  <2>3. /\ decoded'[i] = n /\ heard'[i] = heard[i] /\ stream'[i] = Append(stream[i], slot[i])
        /\ buffer'[i] = [buffer[i] EXCEPT ![slot[i]] = n]
    BY <1>1 DEF IInv, TypeOK
  <2> QED  BY <2>2, <2>3 DEF Order
<1>10. Ending(i)'
  <2>1. finished'[i] = (n = FilePackets) /\ decoded'[i] = n
    BY <1>1, <1>2 DEF IInv, TypeOK
  <2> QED  BY <1>1, <1>3, <1>6, <2>1 DEF Ending
<1>11. Mapped(i)'
  BY <1>1, <1>3, <1>6 DEF IInv, Mapped
<1> QED  BY <1>7, <1>8, <1>9, <1>10, <1>11 DEF IInv

(* DirectSound plays the first pending packet.                              *)
LEMMA PlayKeeps == ASSUME IInv, NEW i \in Ids, PlayPacket(i) PROVE IInv'
<1>1. /\ stream[i] # <<>>
      /\ heard' = [heard EXCEPT ![i] = buffer[i][Head(stream[i])]]
      /\ stream' = [stream EXCEPT ![i] = Tail(@)]
      /\ UNCHANGED <<maxId, sounds, loop, main, finished, stopRequested, canDelete, decoded, buffer, thread, slot>>
  BY DEF PlayPacket, mapVars
<1>2. /\ stream[i] \in Seq(Slots) /\ buffer[i] \in [Slots -> 0..FilePackets]
      /\ Head(stream[i]) \in Slots /\ Tail(stream[i]) \in Seq(Slots)
  BY <1>1, HeadTailProperties DEF IInv, TypeOK
<1>3. TypeOK'
  BY <1>1, <1>2 DEF IInv, TypeOK
<1>4. thread[i] \notin {"free", "ended"}
  BY <1>1 DEF IInv, Ending
<1>5. ASSUME NEW j \in Ids PROVE (Order(j) /\ Ending(j) /\ Mapped(j))'
  <2>1. (Ending(j) /\ Mapped(j))'
    BY <1>1, <1>4, <1>5 DEF IInv, TypeOK, Ending, Mapped
  <2>2. CASE j = i
    <3>1. InOrder(Tail(stream[i]), buffer[i], buffer[i][Head(stream[i])], decoded[i])
      BY <1>1, <1>2, PlayKeepsOrder DEF IInv, Order
    <3>2. heard'[i] = buffer[i][Head(stream[i])] /\ stream'[i] = Tail(stream[i])
      BY <1>1 DEF IInv, TypeOK
    <3>3. Order(i)'
      BY <1>1, <3>1, <3>2 DEF Order
    <3> QED  BY <2>1, <2>2, <3>3
  <2>3. CASE j # i
    <3>1. heard'[j] = heard[j] /\ stream'[j] = stream[j]
      BY <1>1, <1>5, <2>3 DEF IInv, TypeOK
    <3>2. Order(j)'
      BY <1>1, <1>5, <3>1 DEF IInv, Order
    <3> QED  BY <2>1, <3>2
  <2> QED  BY <2>2, <2>3
<1> QED  BY <1>3, <1>5 DEF IInv

-----------------------------------------------------------------------------
(* Every state has the invariant.                                           *)
THEOREM InvHolds == Spec => []IInv
<1>1. ASSUME IInv, [Next]_vars PROVE IInv'
  <2>1. CASE (\E loops \in BOOLEAN : PlayAudio(loops)) \/ CreateThread \/ BeginErase \/ EndErase \/ Close
    BY <1>1, <2>1, MainKeeps
  <2>2. CASE \E i \in Ids : Thread(i)
    <3>1. PICK i \in Ids : Thread(i)
      BY <2>2
    <3>2. CASE FillPacket(i)  BY <1>1, <3>2, FillKeeps
    <3>3. CASE ~FillPacket(i)
      BY <1>1, <3>1, <3>3, WaitingKeeps DEF Thread
    <3> QED  BY <3>2, <3>3
  <2>3. CASE \E i \in Ids : PlayPacket(i)
    BY <1>1, <2>3, PlayKeeps
  <2>4. CASE UNCHANGED vars
    BY <1>1, <2>4 DEF vars, mapVars, soundVars, IInv, TypeOK, Order, Ending, Mapped
  <2> QED  BY <1>1, <2>1, <2>2, <2>3, <2>4 DEF Next
<1>2. QED  BY InitHolds, <1>1, PTL DEF Spec

(* Whatever a sound's thread and DirectSound do to its places meanwhile,    *)
(* the file is heard in its order, and to its end before the stream goes.   *)
THEOREM FilesAreHeard == Spec => []FileIsHeard
<1>1. ASSUME IInv PROVE FileIsHeard
  <2>1. ASSUME NEW i \in Ids
        PROVE  LET coming == <<heard[i]>> \o [k \in DOMAIN stream[i] |-> buffer[i][stream[i][k]]]
               IN  /\ \A k \in 1..(Len(coming) - 1) : coming[k + 1] = Following(coming[k])
                   /\ thread[i] \in {"free", "ended"} => heard[i] = FilePackets
    <3>1. InOrder(stream[i], buffer[i], heard[i], decoded[i]) /\ Ending(i)
      BY <1>1 DEF IInv, Order
    <3>2. /\ stream[i] \in Seq(Slots) /\ buffer[i] \in [Slots -> 0..FilePackets]
          /\ heard[i] \in 0..FilePackets
      BY <1>1 DEF IInv, TypeOK
    <3>3. thread[i] \in {"free", "ended"} => heard[i] = FilePackets
      BY <3>1 DEF InOrder, Ending
    <3> QED  BY <3>1, <3>2, <3>3, OrderIsHeard
  <2> QED  BY <2>1 DEF FileIsHeard
<1>2. QED  BY InvHolds, <1>1, PTL

(* Update never erases a container whose thread still works on it.          *)
THEOREM ThreadsHaveContainers == Spec => []ThreadHasContainer
<1>1. IInv => ThreadHasContainer
  BY DEF IInv, Mapped, ThreadHasContainer
<1>2. QED  BY InvHolds, <1>1, PTL
=============================================================================
