--------------------------- MODULE PlatformProofs ---------------------------
(***************************************************************************)
(* Proofs about the parts that differ from platform to platform: MainLoop, *)
(* the life of the program and its window on a desktop, for every bound on *)
(* the windows made; XboxInput, for any number of ports and slots, keys,   *)
(* sizes and motions, and any number of events; and MediaInstall of UWP,   *)
(* for any tree of assets, any older media, and any number of failed calls *)
(* and of starts.  The three modules share no variable.                    *)
(*                                                                         *)
(* MainLoop.  LoopInv adds to the three invariants what they need to be    *)
(* inductive: that a helper which has not initialised GLFW has no window,  *)
(* that a window that is there is the current context, and which thread    *)
(* runs in which phase of main.                                            *)
(***************************************************************************)
EXTENDS MainLoop, XboxInput, MediaInstall, SequenceTheorems, WellFoundedInduction, TLAPS

BeforeLoop == {"config", "start", "engine", "init", "loop"}
InLoop == {"pre", "update", "draw", "post", "poll", "stopLoader"}
AfterLoop == {"closeRender", "closeWindow", "closeScript", "closeAudio"}

WindowInv ==
  /\ window # NoWindow => up /\ window \in alive /\ context = window
  /\ ~marked => window = NoWindow

ThreadInv ==
  /\ phase # "exit" => left = "none"
  /\ phase \in BeforeLoop => loader = "none"
  /\ phase \in InLoop => loader = "runs"
  /\ phase \in AfterLoop => loader # "runs"
  /\ phase \in {"config", "start"} => audio = "none"
  /\ phase \notin {"config", "start", "exit"} => audio = "runs"
  /\ phase \in {"closeScript", "closeAudio"} => ~up /\ alive = {}
  /\ phase = "closeAudio" => engine = "closed"

GlInv ==
  /\ phase \in BeforeLoop => helper = NoWindow
  /\ phase \in InLoop \cup {"closeRender"} /\ helper # NoWindow /\ ~closed => helper = window

LoopInv == TypeOK /\ WindowInv /\ ThreadInv /\ ThreadsEndFirst /\ GlInv

(* The order of the Close calls, one by one.                                *)
LEMMA ClosingOrder ==
  /\ Head(Closing) = "closeRender"
  /\ After("closeRender") = "closeWindow"
  /\ After("closeWindow") = "closeScript"
  /\ After("closeScript") = "closeAudio"
  /\ After("closeAudio") = "exit"
<1>0. DOMAIN Closing = 1..5
  BY DEF Closing
<1>1. ASSUME NEW p, NEW k \in 1..4, Closing[k] = p, \A n \in 1..5 : Closing[n] = p => n = k
      PROVE  After(p) = Closing[1 + k]
  <2>1. (CHOOSE n \in 1..5 : Closing[n] = p) = k
    BY <1>1
  <2> QED  BY <2>1, <1>0 DEF After
<1>2. QED  BY <1>1 DEF Closing

(* The initial state.                                                       *)
LEMMA LoopInitHolds == ASSUME Init PROVE LoopInv
<1> USE DEF Init, NoWindow
<1>1. TypeOK
  <2>1. window \in 0..made /\ context \in 0..made /\ helper \in 0..made /\ made \in 0..MaxWindows
    BY BoundIsPositive
  <2>2. alive \subseteq 1..made
    OBVIOUS
  <2>3. QED  BY <2>1, <2>2 DEF TypeOK
<1>2. WindowInv
  BY DEF WindowInv
<1>3. ThreadInv
  BY DEF ThreadInv, BeforeLoop, InLoop, AfterLoop
<1>4. GlInv /\ ThreadsEndFirst
  BY DEF GlInv, ThreadsEndFirst, InLoop
<1>5. QED  BY <1>1, <1>2, <1>3, <1>4 DEF LoopInv

-----------------------------------------------------------------------------
(* Each step of main keeps the invariant.                                   *)
LEMMA MainKeeps == ASSUME LoopInv, Main PROVE LoopInv'
<1> USE DEF LoopInv, TypeOK, WindowInv, ThreadInv, GlInv, ThreadsEndFirst, NoWindow,
        BeforeLoop, InLoop, AfterLoop, threads, glfw, GoTo, Leave
<1>1. CASE LoadConfig     BY <1>1 DEF LoadConfig
<1>2. CASE Start          BY <1>2 DEF Start
<1>3. CASE InitEngine     BY <1>3 DEF InitEngine
<1>4. CASE InitReturns    BY <1>4 DEF InitReturns
<1>5. CASE EnterLoop      BY <1>5, ClosingOrder DEF EnterLoop
<1>6. CASE PreRender      BY <1>6 DEF PreRender
<1>7. CASE UpdateReturns  BY <1>7 DEF UpdateReturns
<1>8. CASE Draw           BY <1>8 DEF Draw
<1>9. CASE PostRender     BY <1>9 DEF PostRender
<1>10. CASE PollReturns   BY <1>10 DEF PollReturns
<1>11. CASE StopLoader    BY <1>11, ClosingOrder DEF StopLoader
<1>12. CASE CloseRender   BY <1>12, ClosingOrder DEF CloseRender
<1>13. CASE CloseWindowManager
  <2>1. /\ phase = "closeWindow" /\ phase' = "closeScript"
        /\ ~marked' /\ ~up' /\ alive' = {} /\ window' = 0 /\ context' = 0
        /\ UNCHANGED <<left, loader, audio, engine, made, shouldClose, exiting, helper, closed>>
    BY <1>13, ClosingOrder DEF CloseWindowManager
  <2>2. marked' \in BOOLEAN /\ up' \in BOOLEAN
    BY <1>13 DEF CloseWindowManager
  <2>3. TypeOK'
    BY <2>1, <2>2, BoundIsPositive
  <2>4. WindowInv' /\ GlInv'
    BY <2>1
  <2>5. ThreadInv' /\ ThreadsEndFirst'
    BY <2>1
  <2>6. QED  BY <2>3, <2>4, <2>5
<1>14. CASE CloseScript   BY <1>14, ClosingOrder DEF CloseScript
<1>15. CASE CloseAudio    BY <1>15, ClosingOrder DEF CloseAudio
<1>16. QED
  BY <1>1, <1>2, <1>3, <1>4, <1>5, <1>6, <1>7, <1>8, <1>9, <1>10, <1>11, <1>12, <1>13, <1>14, <1>15
     DEF Main

(* So do the script and the user.                                           *)
LEMMA ScriptKeeps == ASSUME LoopInv, Ask \/ CreateWindow \/ CloseWindow \/ UserCloses PROVE LoopInv'
<1> USE DEF LoopInv, TypeOK, WindowInv, ThreadInv, GlInv, ThreadsEndFirst, NoWindow,
        BeforeLoop, InLoop, AfterLoop, threads, glfw, ScriptRuns
<1>1. CASE Ask            BY <1>1 DEF Ask, AfterInit
<1>2. CASE CreateWindow
  <2>1. PICK inited \in AfterInit :
          IF InitFails(inited) \/ window # NoWindow
          THEN up' = inited /\ UNCHANGED <<alive, window, context, made, shouldClose>>
          ELSE CreateFails \/ CreateSucceeds(inited)
    BY <1>2 DEF CreateWindow
  <2>2. /\ marked' = TRUE /\ ScriptRuns
        /\ UNCHANGED <<phase, left, threads, exiting, helper, closed>>
    BY <1>2 DEF CreateWindow
  <2>3. CASE InitFails(inited) \/ window # NoWindow
    <3>1. up' = inited /\ UNCHANGED <<alive, window, context, made, shouldClose>>
      BY <2>1, <2>3
    <3>2. up' \in BOOLEAN /\ (marked => up' = up)
      BY <3>1 DEF AfterInit
    <3>3. window # 0 => marked
      OBVIOUS
    <3>4. TypeOK'
      BY <2>2, <3>1, <3>2
    <3>5. WindowInv' /\ GlInv'
      BY <2>2, <3>1, <3>2, <3>3
    <3>6. ThreadInv' /\ ThreadsEndFirst'
      BY <2>2, <3>1
    <3>7. QED  BY <3>4, <3>5, <3>6
  <2>4. CASE ~(InitFails(inited) \/ window # NoWindow) /\ CreateFails
    BY <2>2, <2>4 DEF CreateFails
  <2>5. CASE ~(InitFails(inited) \/ window # NoWindow) /\ CreateSucceeds(inited)
    <3>0. made < MaxWindows /\ made' = made + 1 /\ alive' = alive \cup {made'} /\ context' = made'
      BY <2>5 DEF CreateSucceeds
    <3>1. made' = made + 1 /\ made' \in 1..MaxWindows /\ alive' = alive \cup {made'}
          /\ context' = made' /\ window = 0
      BY <2>5, <3>0, BoundIsPositive
    <3>2. up' /\ up' \in BOOLEAN
      BY <2>5 DEF CreateSucceeds
    <3>3. \/ window' = made' /\ shouldClose' = FALSE
          \/ UNCHANGED <<window, shouldClose>>
      BY <2>5 DEF CreateSucceeds
    <3>4. marked' /\ marked' \in BOOLEAN /\ shouldClose' \in BOOLEAN
      BY <2>2, <3>3
    <3>5. TypeOK'
      BY <2>2, <3>1, <3>2, <3>3, <3>4
    <3>6. WindowInv'
      BY <3>1, <3>2, <3>3, <3>4
    <3>7. GlInv'
      BY <2>2, <3>1, <3>3
    <3>8. ThreadInv' /\ ThreadsEndFirst'
      BY <2>2
    <3>9. QED  BY <3>5, <3>6, <3>7, <3>8
  <2>6. QED  BY <2>1, <2>3, <2>4, <2>5
<1>3. CASE CloseWindow    BY <1>3 DEF CloseWindow
<1>4. CASE UserCloses     BY <1>4 DEF UserCloses
<1>5. QED  BY <1>1, <1>2, <1>3, <1>4

(* Every state has the invariant.                                           *)
THEOREM LoopInvHolds == Spec => []LoopInv
<1>1. ASSUME LoopInv, [Next]_vars PROVE LoopInv'
  <2>1. CASE Main  BY <1>1, <2>1, MainKeeps
  <2>2. CASE Ask \/ CreateWindow \/ CloseWindow \/ UserCloses  BY <1>1, <2>2, ScriptKeeps
  <2>3. CASE UNCHANGED vars
    BY <1>1, <2>3 DEF vars, threads, glfw, LoopInv, TypeOK, WindowInv, ThreadInv, GlInv, ThreadsEndFirst
  <2>4. QED  BY <1>1, <2>1, <2>2, <2>3 DEF Next
<1>2. QED  BY LoopInitHolds, <1>1, PTL DEF Spec

(* m_window is NULL or a window that GLFW has, whatever failed before.      *)
THEOREM WindowsAreReal == Spec => []WindowIsReal
<1>1. LoopInv => WindowIsReal
  BY DEF LoopInv, WindowInv, WindowIsReal
<1>2. QED  BY LoopInvHolds, <1>1, PTL

(* Which threads outlive main is decided by the return that was taken.      *)
THEOREM ThreadsAreKnown == Spec => []ThreadsEndFirst
<1>1. LoopInv => ThreadsEndFirst
  BY DEF LoopInv
<1>2. QED  BY LoopInvHolds, <1>1, PTL

(* GL's objects are drawn with and deleted in the context they were made    *)
(* in, unless the script closed the window in between.                      *)
THEOREM ObjectsMeetTheirContext == Spec => []GlObjectsMeetTheirContext
<1>1. LoopInv => GlObjectsMeetTheirContext
  BY DEF LoopInv, WindowInv, GlInv, GlObjectsMeetTheirContext, InLoop, NoWindow
<1>2. QED  BY LoopInvHolds, <1>1, PTL

-----------------------------------------------------------------------------
(***************************************************************************)
(* XboxInput.  InputInv says what a report may bring - what is known and   *)
(* was not pulled is plugged in - and that a mouse which was not plugged   *)
(* in again has new data only under a new packet number.                   *)
(***************************************************************************)


Strokes == [key : Keys, down : BOOLEAN]
Packets == [packet : 0..MaxEvents, motion : Int \X Int, button : BOOLEAN]

InputTypes ==
  /\ busy \in Kinds /\ turn \in Kinds
  /\ plugged \in [Kinds -> SUBSET Places] /\ known \in [Kinds -> SUBSET Places]
  /\ pulled \in [Kinds -> SUBSET Places] /\ handles \in [Kinds -> SUBSET Places]
  /\ held \subseteq Places \X Keys
  /\ queue \in Seq(Strokes) /\ Len(queue) <= QueueSize
  /\ keys \in [Keys -> BOOLEAN]
  /\ events \in 0..MaxEvents
  /\ mouse \in [Places -> Packets] /\ \A m \in Places : mouse[m].packet <= events
  /\ states \in [Places -> Packets] /\ seen = [m \in Places |-> states[m].packet]
  /\ cursor \in Int \X Int /\ button \in BOOLEAN
  /\ told \in [pads : SUBSET Places, keys : [Keys -> BOOLEAN],
               cursor : Int \X Int, button : BOOLEAN]
  /\ crossed \subseteq Places /\ missed \subseteq Places /\ doubtful \subseteq Keys
  /\ fresh \subseteq Places /\ mover \in Places \cup {0}

(* A device that is known and was not pulled is plugged in, and what was    *)
(* pulled was known.                                                        *)
Reports == \A kind \in Kinds : pulled[kind] \subseteq known[kind]
                            /\ known[kind] \ pulled[kind] \subseteq plugged[kind]

Handles ==
  /\ handles["pad"] = known["pad"] \ crossed
  /\ handles["keyboard"] \ missed = known["keyboard"] \ missed
  /\ handles["mouse"] = known["mouse"]

(* A mouse that was not plugged in again has made no packet since the last  *)
(* one that was read, or has counted on.                                    *)
PacketsTell ==
  \A m \in Places \ fresh :
    /\ mouse[m].packet >= states[m].packet
    /\ mouse[m].packet = states[m].packet => mouse[m] = states[m]

InputInv == InputTypes /\ Reports /\ Handles /\ KeysFollowTheKeyboard /\ PacketsTell /\ ScriptIsTold

USE DEF Kinds

(* The initial state of the devices, the window's helper and the script.    *)
LEMMA InputInitHolds ==
  ASSUME InputInit PROVE InputInv
<1> USE DEF InputInit
<1>1. plugged \in [Kinds -> SUBSET Places]
  BY DEF Put
<1>2. /\ known \in [Kinds -> SUBSET Places] /\ pulled = [kind \in Kinds |-> {}]
      /\ known["pad"] = {} /\ known["keyboard"] = plugged["keyboard"] /\ known["mouse"] = plugged["mouse"]
      /\ handles = known
  BY <1>1 DEF Put
<1>3. queue \in Seq(Strokes) /\ Len(queue) = 0 /\ DOMAIN queue = {}
  OBVIOUS
<1>4. Still \in Packets /\ 0 \in 0..MaxEvents /\ Still.packet = 0
  BY BoundIsNumber DEF Still, Packets
<1>5. <<0, 0>> \in Int \X Int /\ <<0, 0>> \in (0..Width) \X (0..Height)
  BY SizesArePositive
<1>6. 0 \notin Places
  <2> DEFINE n == Cardinality(Places)
  <2>1. Places = 1..n
    BY PlacesAreNumbered
  <2> HIDE DEF n
  <2>2. 0 \notin 1..n
    OBVIOUS
  <2> QED
    BY <2>1, <2>2
<1>7. InputTypes
  <2>1. busy \in Kinds /\ turn \in Kinds /\ held \subseteq Places \X Keys /\ Len(queue) <= QueueSize
    BY <1>3, SizesArePositive
  <2>2. keys \in [Keys -> BOOLEAN] /\ events \in 0..MaxEvents /\ button \in BOOLEAN
    BY <1>4
  <2>3. /\ mouse \in [Places -> Packets] /\ \A m \in Places : mouse[m].packet <= events
        /\ states \in [Places -> Packets] /\ seen = [m \in Places |-> states[m].packet]
    BY <1>4
  <2>4. told \in [pads : SUBSET Places, keys : [Keys -> BOOLEAN],
                  cursor : Int \X Int, button : BOOLEAN]
    BY <1>5, <2>2
  <2> QED
    BY <1>1, <1>2, <1>3, <1>5, <2>1, <2>2, <2>3, <2>4 DEF InputTypes
<1>8. Reports /\ Handles
  BY <1>1, <1>2 DEF Reports, Handles
<1>9. KeysFollowTheKeyboard
  BY <1>3 DEF KeysFollowTheKeyboard, Waits, IsHeld
<1>10. PacketsTell
  BY <1>4 DEF PacketsTell
<1>11. ScriptIsTold
  BY <1>2, <1>5, <1>6 DEF ScriptIsTold
<1> QED
  BY <1>7, <1>8, <1>9, <1>10, <1>11 DEF InputInv

(* What a step that leaves keyboards, or mice, or handles alone keeps.      *)
LEMMA KeysUntouched ==
  ASSUME KeysFollowTheKeyboard, UNCHANGED <<held, queue, keys, doubtful>>
  PROVE  KeysFollowTheKeyboard'
BY DEF KeysFollowTheKeyboard, Waits, IsHeld

(* The same of what the program knows of its devices.                       *)
LEMMA HandlesUntouched ==
  ASSUME Handles, UNCHANGED <<known, handles, crossed, missed>>
  PROVE  Handles'
BY DEF Handles

(* The same of the mice's packets.                                          *)
LEMMA MiceUntouched ==
  ASSUME PacketsTell, UNCHANGED <<mouse, states>>, fresh \subseteq fresh'
  PROVE  PacketsTell'
BY DEF PacketsTell

(* The same of what the script was told.                                    *)
LEMMA ToldUntouched ==
  ASSUME ScriptIsTold, UNCHANGED <<told, handles, keys, button, mover, states, cursor>>,
         fresh \subseteq fresh'
  PROVE  ScriptIsTold'
BY DEF ScriptIsTold

(* A device is plugged in: the program hears of it in its next report, and  *)
(* a mouse counts its packets from 0 again.                                 *)
LEMMA PlugHolds ==
  ASSUME InputInv, NEW n \in Places, busy' = busy, Plug(busy, n)
  PROVE  InputInv'
<1> USE DEF Plug, Happens, keyboard, pointer, InputInv
<1>0. events' \in 0..MaxEvents /\ events' = events + 1 /\ events \in Nat
  BY BoundIsNumber DEF InputTypes
<1>1. plugged' \in [Kinds -> SUBSET Places] /\ plugged' = [plugged EXCEPT ![busy] = plugged[busy] \cup {n}]
  BY DEF Put, InputTypes
<1>2. /\ mouse' \in [Places -> Packets] /\ \A m \in Places : mouse'[m].packet <= events'
      /\ fresh' \subseteq Places /\ fresh \subseteq fresh'
      /\ \A m \in Places \ fresh' : mouse'[m] = mouse[m]
  <2>1. Still \in Packets /\ Still.packet = 0
    BY BoundIsNumber DEF Still, Packets
  <2>2. \A m \in Places : mouse[m].packet \in Nat
    BY DEF InputTypes, Packets
  <2>3. CASE busy = "mouse"
    <3>1. mouse' = [mouse EXCEPT ![n] = Still] /\ fresh' = fresh \cup {n}
      BY <2>3
    <3>2. /\ mouse \in [Places -> Packets] /\ fresh \subseteq Places
          /\ \A m \in Places : mouse[m].packet <= events
      BY DEF InputTypes
    <3>3. \A m \in Places : mouse'[m] = IF m = n THEN Still ELSE mouse[m]
      BY <3>1, <3>2
    <3>4. mouse' \in [Places -> Packets]
      BY <2>1, <3>1, <3>2
    <3>5. \A m \in Places : mouse'[m].packet <= events'
      BY <1>0, <2>1, <2>2, <3>2, <3>3
    <3> QED
      BY <3>1, <3>2, <3>3, <3>4, <3>5
  <2>4. CASE busy # "mouse"
    BY <1>0, <2>2, <2>4 DEF InputTypes
  <2> QED
    BY <2>3, <2>4
<1>3. InputTypes'
  BY <1>0, <1>1, <1>2 DEF InputTypes
<1>4. Reports'
  <2> SUFFICES ASSUME NEW kind \in Kinds
               PROVE  /\ pulled'[kind] \subseteq known'[kind]
                      /\ known'[kind] \ pulled'[kind] \subseteq plugged'[kind]
    BY DEF Reports
  <2>1. plugged'[kind] = plugged[kind] \/ plugged'[kind] = plugged[kind] \cup {n}
    BY <1>1 DEF InputTypes
  <2> QED
    BY <2>1 DEF Reports
<1>5. PacketsTell'
  BY <1>2 DEF PacketsTell
<1> QED
  BY <1>2, <1>3, <1>4, <1>5, KeysUntouched, HandlesUntouched, ToldUntouched

(* A device is pulled: a keyboard's keys go up unheard, so those that no    *)
(* other keyboard holds are doubtful.                                       *)
LEMMA UnplugHolds ==
  ASSUME InputInv, NEW n \in Places, busy' = busy, Unplug(busy, n)
  PROVE  InputInv'
<1> USE DEF Unplug, Happens, pointer, InputInv
<1>0. events' \in 0..MaxEvents /\ events' = events + 1 /\ events \in Nat
  BY BoundIsNumber DEF InputTypes
<1>1. /\ plugged' \in [Kinds -> SUBSET Places] /\ plugged' = [plugged EXCEPT ![busy] = plugged[busy] \ {n}]
      /\ pulled' \in [Kinds -> SUBSET Places]
      /\ pulled' = [pulled EXCEPT ![busy] = pulled[busy] \cup (known[busy] \cap {n})]
  BY DEF Put, InputTypes
<1>2. held' \subseteq Places \X Keys /\ doubtful' \subseteq Keys
  BY DEF InputTypes
<1>3. \A m \in Places : mouse'[m].packet <= events'
  <2>1. \A m \in Places : mouse[m].packet \in Nat
    BY DEF InputTypes, Packets
  <2> QED
    BY <1>0, <2>1 DEF InputTypes
<1>4. InputTypes'
  BY <1>0, <1>1, <1>2, <1>3 DEF InputTypes
<1>5. Reports'
  <2> SUFFICES ASSUME NEW kind \in Kinds
               PROVE  /\ pulled'[kind] \subseteq known'[kind]
                      /\ known'[kind] \ pulled'[kind] \subseteq plugged'[kind]
    BY DEF Reports
  <2>1. CASE kind = busy
    <3>1. plugged'[kind] = plugged[kind] \ {n} /\ pulled'[kind] = pulled[kind] \cup (known[kind] \cap {n})
      BY <1>1, <2>1 DEF InputTypes
    <3> QED
      BY <3>1 DEF Reports
  <2>2. CASE kind # busy
    <3>1. plugged'[kind] = plugged[kind] /\ pulled'[kind] = pulled[kind]
      BY <1>1, <2>2 DEF InputTypes
    <3> QED
      BY <3>1 DEF Reports
  <2> QED
    BY <2>1, <2>2
<1>6. KeysFollowTheKeyboard'
  <2>1. \A key \in Keys \ doubtful' : key \notin doubtful /\ (IsHeld(key, held') <=> IsHeld(key, held))
    BY DEF IsHeld
  <2> QED
    BY <2>1 DEF KeysFollowTheKeyboard, Waits
<1> QED
  BY <1>4, <1>5, <1>6, HandlesUntouched, MiceUntouched, ToldUntouched

(* A stroke that is heard is the last of its key; one that is not leaves    *)
(* its key doubtful if it changed anything.                                 *)
LEMMA StrokeHolds ==
  ASSUME InputInv, NEW k \in Places, NEW key \in Keys, NEW down \in BOOLEAN,
         held' \subseteq Places \X Keys, keys' = keys,
         \A other \in Keys : other # key => (IsHeld(other, held') <=> IsHeld(other, held)),
         Stroke(k, key, down)
  PROVE  /\ queue' \in Seq(Strokes) /\ Len(queue') <= QueueSize /\ doubtful' \subseteq Keys
         /\ KeysFollowTheKeyboard'
<1>0. /\ queue \in Seq(Strokes) /\ Len(queue) \in Nat /\ Len(queue) <= QueueSize
      /\ doubtful \subseteq Keys /\ KeysFollowTheKeyboard /\ QueueSize \in Nat
  BY SizesArePositive DEF InputInv, InputTypes
<1>1. CASE Heard(k) /\ Len(queue) < QueueSize
  <2> DEFINE s == [key |-> key, down |-> down]
  <2>1. /\ queue' = Append(queue, s)
        /\ doubtful' = IF down = IsHeld(key, held') THEN doubtful \ {key} ELSE doubtful \cup {key}
    BY <1>1 DEF Stroke
  <2>2. s \in Strokes /\ s.key = key /\ s.down = down
    BY DEF Strokes
  <2> HIDE DEF s
  <2>3. /\ queue' \in Seq(Strokes) /\ Len(queue') = Len(queue) + 1
        /\ queue'[Len(queue) + 1] = s /\ \A n \in 1..Len(queue) : queue'[n] = queue[n]
    BY <1>0, <2>1, <2>2
  <2>4. DOMAIN queue = 1..Len(queue) /\ DOMAIN queue' = 1..(Len(queue) + 1)
    BY <1>0, <2>3
  <2>5. ASSUME NEW other \in Keys \ doubtful', other # key
        PROVE  /\ ~Waits(other, 0)' => (keys[other] <=> IsHeld(other, held'))
               /\ \A n \in DOMAIN queue' :
                    queue'[n].key = other /\ ~Waits(other, n)' => (queue'[n].down <=> IsHeld(other, held'))
    <3>1. other \notin doubtful
      BY <2>1, <2>5
    <3>2. \A n \in Nat : Waits(other, n) => Waits(other, n)'
      BY <2>3, <2>4 DEF Waits
    <3>3. ~Waits(other, 0) => (keys[other] <=> IsHeld(other, held))
      BY <1>0, <3>1 DEF KeysFollowTheKeyboard
    <3>4. ASSUME NEW n \in DOMAIN queue', queue'[n].key = other, ~Waits(other, n)'
          PROVE  queue'[n].down <=> IsHeld(other, held')
      <4>1. n \in DOMAIN queue /\ queue'[n] = queue[n]
        BY <1>0, <2>2, <2>3, <2>4, <2>5, <3>4
      <4>2. ~Waits(other, n)
        BY <1>0, <2>4, <3>2, <3>4, <4>1
      <4>3. queue[n].down <=> IsHeld(other, held)
        BY <1>0, <3>1, <3>4, <4>1, <4>2 DEF KeysFollowTheKeyboard
      <4> QED
        BY <2>5, <4>1, <4>3
    <3>5. ~Waits(other, 0)' => ~Waits(other, 0)
      BY <3>2
    <3>6. IsHeld(other, held') <=> IsHeld(other, held)
      BY <2>5
    <3> QED
      BY <3>3, <3>4, <3>5, <3>6
  <2>6. ASSUME key \notin doubtful'
        PROVE  /\ Waits(key, 0)'
               /\ \A n \in DOMAIN queue' :
                    queue'[n].key = key /\ ~Waits(key, n)' => (queue'[n].down <=> IsHeld(key, held'))
    <3>1. down <=> IsHeld(key, held')
      <4>1. down = IsHeld(key, held')
        BY <2>1, <2>6
      <4> QED
        BY <4>1
    <3>2. \A n \in 0..Len(queue) : Waits(key, n)'
      BY <1>0, <2>2, <2>3, <2>4 DEF Waits
    <3>3. \A n \in DOMAIN queue' : ~Waits(key, n)' => n = Len(queue) + 1
      BY <1>0, <2>4, <3>2
    <3> QED
      BY <1>0, <2>2, <2>3, <3>1, <3>2, <3>3
  <2>7. KeysFollowTheKeyboard'
    BY <2>5, <2>6 DEF KeysFollowTheKeyboard
  <2> QED
    BY <1>0, <1>1, <2>1, <2>3, <2>7
<1>2. CASE ~(Heard(k) /\ Len(queue) < QueueSize)
  <2>1. queue' = queue /\ doubtful' = IF held' = held THEN doubtful ELSE doubtful \cup {key}
    BY <1>2 DEF Stroke
  <2>2. \A other \in Keys \ doubtful' :
          other \notin doubtful /\ (IsHeld(other, held') <=> IsHeld(other, held))
    BY <2>1
  <2>3. KeysFollowTheKeyboard'
    BY <1>0, <2>1, <2>2 DEF KeysFollowTheKeyboard, Waits
  <2> QED
    BY <1>0, <2>1, <2>3
<1> QED
  BY <1>1, <1>2

(* What the player does to keys and mice counts as an event.                *)
LEMMA PacketsCounted ==
  ASSUME InputTypes, Happens
  PROVE  /\ events' \in 0..MaxEvents /\ events' = events + 1 /\ events \in Nat
         /\ \A m \in Places : mouse[m].packet \in Nat /\ mouse[m].packet <= events'
<1>1. events' \in 0..MaxEvents /\ events' = events + 1 /\ events \in Nat
  BY BoundIsNumber DEF InputTypes, Happens
<1>2. \A m \in Places : mouse[m].packet \in Nat
  BY DEF InputTypes, Packets
<1> QED
  BY <1>1, <1>2 DEF InputTypes

(* A key is pressed or repeated.                                            *)
LEMMA PressHolds ==
  ASSUME InputInv, NEW k \in Places, NEW key \in Keys, UNCHANGED busy, Press(k, key)
  PROVE  InputInv'
<1> USE DEF Press
<1>1. /\ held' = held \cup {<<k, key>>} /\ Stroke(k, key, TRUE)
      /\ UNCHANGED <<turn, devices, handles, keys, missed, mouse, pointer, told, crossed, fresh>>
      /\ held' \subseteq Places \X Keys
  <2>1. held' = held \cup {<<k, key>>}
    OBVIOUS
  <2>2. held' \subseteq Places \X Keys
    <3>1. held \subseteq Places \X Keys /\ <<k, key>> \in Places \X Keys
      BY DEF InputInv, InputTypes
    <3> QED
      BY <2>1, <3>1, Zenon
  <2>3. Stroke(k, key, TRUE)
    OBVIOUS
  <2>4. UNCHANGED <<turn, devices, handles, keys, missed, mouse, pointer, told, crossed, fresh>>
    OBVIOUS
  <2> QED
    BY <2>1, <2>2, <2>3, <2>4, Zenon
<1>2. \A other \in Keys : other # key => (IsHeld(other, held') <=> IsHeld(other, held))
  BY <1>1 DEF IsHeld
<1>3. /\ queue' \in Seq(Strokes) /\ Len(queue') <= QueueSize /\ doubtful' \subseteq Keys
      /\ KeysFollowTheKeyboard'
  BY <1>1, <1>2, StrokeHolds
<1>4. /\ events' \in 0..MaxEvents /\ \A m \in Places : mouse[m].packet <= events'
  BY PacketsCounted DEF InputInv
<1>5. InputTypes'
  BY <1>1, <1>3, <1>4 DEF InputInv, InputTypes, devices, pointer
<1>6. Reports'
  BY <1>1 DEF InputInv, Reports, devices
<1> QED
  BY <1>1, <1>3, <1>5, <1>6, HandlesUntouched, MiceUntouched, ToldUntouched DEF InputInv, devices, pointer

(* A key is released.                                                       *)
LEMMA ReleaseHolds ==
  ASSUME InputInv, NEW k \in Places, NEW key \in Keys, UNCHANGED busy, Release(k, key)
  PROVE  InputInv'
<1> USE DEF Release
<1>1. /\ held' = held \ {<<k, key>>} /\ Stroke(k, key, FALSE)
      /\ UNCHANGED <<turn, devices, handles, keys, missed, mouse, pointer, told, crossed, fresh>>
      /\ held' \subseteq Places \X Keys
  BY DEF InputInv, InputTypes
<1>2. \A other \in Keys : other # key => (IsHeld(other, held') <=> IsHeld(other, held))
  BY <1>1 DEF IsHeld
<1>3. /\ queue' \in Seq(Strokes) /\ Len(queue') <= QueueSize /\ doubtful' \subseteq Keys
      /\ KeysFollowTheKeyboard'
  BY <1>1, <1>2, StrokeHolds
<1>4. /\ events' \in 0..MaxEvents /\ \A m \in Places : mouse[m].packet <= events'
  BY PacketsCounted DEF InputInv
<1>5. InputTypes'
  BY <1>1, <1>3, <1>4 DEF InputInv, InputTypes, devices, pointer
<1>6. Reports'
  BY <1>1 DEF InputInv, Reports, devices
<1> QED
  BY <1>1, <1>3, <1>5, <1>6, HandlesUntouched, MiceUntouched, ToldUntouched DEF InputInv, devices, pointer

(* A mouse is moved or clicked: its packet has a number it did not have     *)
(* since it was plugged in.                                                 *)
LEMMA MoveHolds ==
  ASSUME InputInv, NEW m \in Places, UNCHANGED busy, Move(m)
  PROVE  InputInv'
<1>1. PICK motion \in Motions, pressed \in BOOLEAN :
        mouse' = [mouse EXCEPT ![m] =
                   [packet |-> mouse[m].packet + 1, motion |-> motion, button |-> pressed]]
  BY DEF Move
<1>2. UNCHANGED <<turn, devices, handles, keyboard, pointer, told, crossed, fresh>>
  BY DEF Move
<1>3. /\ events' \in 0..MaxEvents /\ events' = events + 1 /\ events \in Nat
      /\ \A n \in Places : mouse[n].packet \in Nat /\ mouse[n].packet <= events /\ mouse[n].packet <= events'
  BY PacketsCounted DEF Move, InputInv, InputTypes
<1> DEFINE new == [packet |-> mouse[m].packet + 1, motion |-> motion, button |-> pressed]
<1>4. new \in Packets /\ new.packet = mouse[m].packet + 1 /\ new.packet <= events'
  BY <1>3, MotionsAreSteps, BoundIsNumber DEF Packets
<1> HIDE DEF new
<1>5. /\ mouse' \in [Places -> Packets]
      /\ \A n \in Places : mouse'[n] = IF n = m THEN new ELSE mouse[n]
  BY <1>1, <1>4 DEF InputInv, InputTypes, new
<1>6. InputTypes'
  BY <1>2, <1>3, <1>4, <1>5 DEF InputInv, InputTypes, devices, keyboard, pointer
<1>7. PacketsTell'
  <2> SUFFICES ASSUME NEW n \in Places \ fresh'
               PROVE  /\ mouse'[n].packet >= states'[n].packet
                      /\ mouse'[n].packet = states'[n].packet => mouse'[n] = states'[n]
    BY DEF PacketsTell
  <2>1. states' = states /\ fresh' = fresh
    BY <1>2 DEF pointer
  <2>2. /\ mouse[n].packet >= states[n].packet /\ mouse[n].packet \in Nat
        /\ mouse[n].packet = states[n].packet => mouse[n] = states[n]
        /\ states[n].packet \in Int
    BY <1>3, <2>1 DEF InputInv, PacketsTell, InputTypes, Packets
  <2> QED
    BY <1>4, <1>5, <2>1, <2>2
<1>8. Reports'
  BY <1>2 DEF InputInv, Reports, devices
<1> QED
  BY <1>2, <1>6, <1>7, <1>8, KeysUntouched, HandlesUntouched, ToldUntouched DEF InputInv, devices, keyboard, pointer

(* The script moves the cursor, and is told where to.                       *)
LEMMA SetCursorHolds ==
  ASSUME InputInv, UNCHANGED busy, SetMouseCursorPosition
  PROVE  InputInv'
<1> USE DEF SetMouseCursorPosition
<1>1. /\ cursor' \in Int \X Int /\ told' = [told EXCEPT !.cursor = cursor']
      /\ UNCHANGED <<turn, devices, handles, keyboard, mouse, states, seen, button, mover, crossed, fresh>>
  BY MotionsAreSteps
<1>2. /\ told'.pads = told.pads /\ told'.keys = told.keys /\ told'.button = told.button
      /\ told'.cursor = cursor'
      /\ told' \in [pads : SUBSET Places, keys : [Keys -> BOOLEAN],
                    cursor : Int \X Int, button : BOOLEAN]
  BY <1>1 DEF InputInv, InputTypes
<1>3. events' \in 0..MaxEvents /\ \A m \in Places : mouse[m].packet <= events'
  BY PacketsCounted DEF InputInv
<1>4. InputTypes'
  BY <1>1, <1>2, <1>3 DEF InputInv, InputTypes, devices, keyboard
<1>5. ScriptIsTold'
  <2>1. cursor'[1] \in Int /\ cursor'[2] \in Int
    BY <1>1
  <2> QED
    BY <1>1, <1>2, <2>1 DEF InputInv, ScriptIsTold, keyboard
<1>6. Reports'
  BY <1>1 DEF InputInv, Reports, devices
<1> QED
  BY <1>1, <1>4, <1>5, <1>6, KeysUntouched, HandlesUntouched, MiceUntouched DEF InputInv, devices, keyboard

(* After a report, what is known is what is plugged in.                     *)
LEMMA ReportHolds ==
  ASSUME InputInv, NEW kind \in Kinds, Report(kind)
  PROVE  /\ known' \in [Kinds -> SUBSET Places] /\ pulled' \in [Kinds -> SUBSET Places]
         /\ plugged' = plugged /\ known'[kind] = plugged[kind]
         /\ \A other \in Kinds \ {kind} : known'[other] = known[other]
         /\ Reports'
<1>1. /\ plugged' = plugged
      /\ known' = [known EXCEPT ![kind] = plugged[kind]]
      /\ pulled' = [pulled EXCEPT ![kind] = {}]
  BY DEF Report, Put
<1>2. /\ known \in [Kinds -> SUBSET Places] /\ pulled \in [Kinds -> SUBSET Places]
      /\ plugged \in [Kinds -> SUBSET Places] /\ Reports
  BY DEF InputInv, InputTypes
<1>3. /\ known' \in [Kinds -> SUBSET Places] /\ pulled' \in [Kinds -> SUBSET Places]
      /\ known'[kind] = plugged[kind] /\ pulled'[kind] = {}
      /\ \A other \in Kinds \ {kind} : known'[other] = known[other] /\ pulled'[other] = pulled[other]
  BY <1>1, <1>2
<1>4. Reports'
  <2> SUFFICES ASSUME NEW other \in Kinds
               PROVE  /\ pulled'[other] \subseteq known'[other]
                      /\ known'[other] \ pulled'[other] \subseteq plugged'[other]
    BY DEF Reports
  <2> QED
    BY <1>1, <1>2, <1>3 DEF Reports
<1> QED
  BY <1>1, <1>3, <1>4

(* ProcessController gives every port that changed its handle or takes it   *)
(* away, and tells the script so.                                           *)
LEMMA ControllerHolds ==
  ASSUME InputInv, UNCHANGED busy, ProcessController
  PROVE  InputInv'
<1> DEFINE ins == Insertions("pad")
           rem == Removals("pad")
<1>1. /\ turn' = "keyboard" /\ Report("pad")
      /\ handles' = [handles EXCEPT !["pad"] = (handles["pad"] \cup ins) \ rem]
      /\ told' = [told EXCEPT !.pads = (told.pads \cup ins) \ rem]
      /\ crossed' = (crossed \ (ins \cup rem)) \cup (ins \cap rem)
      /\ UNCHANGED <<keyboard, mouse, pointer, events, fresh>>
  BY DEF ProcessController, Put, Changed
<1>2. /\ known' \in [Kinds -> SUBSET Places] /\ pulled' \in [Kinds -> SUBSET Places]
      /\ plugged' = plugged /\ known'["pad"] = plugged["pad"]
      /\ \A other \in Kinds \ {"pad"} : known'[other] = known[other]
      /\ Reports'
  BY <1>1, ReportHolds
<1>3. /\ ins = plugged["pad"] \ (known["pad"] \ pulled["pad"]) /\ rem = pulled["pad"]
      /\ pulled["pad"] \subseteq known["pad"] /\ known["pad"] \ pulled["pad"] \subseteq plugged["pad"]
      /\ ins \subseteq Places /\ rem \subseteq Places
  BY DEF Insertions, Removals, InputInv, Reports, InputTypes
<1> HIDE DEF ins, rem
<1>4. /\ handles' \in [Kinds -> SUBSET Places] /\ handles'["pad"] = (handles["pad"] \cup ins) \ rem
      /\ \A other \in Kinds \ {"pad"} : handles'[other] = handles[other]
  <2>1. handles \in [Kinds -> SUBSET Places]
    BY DEF InputInv, InputTypes
  <2> QED
    BY <1>1, <1>3, <2>1
<1>5. /\ told'.keys = told.keys /\ told'.button = told.button /\ told'.cursor = told.cursor
      /\ told'.pads = (told.pads \cup ins) \ rem
      /\ told' \in [pads : SUBSET Places, keys : [Keys -> BOOLEAN],
                    cursor : Int \X Int, button : BOOLEAN]
  <2>1. told \in [pads : SUBSET Places, keys : [Keys -> BOOLEAN],
                  cursor : Int \X Int, button : BOOLEAN]
    BY DEF InputInv, InputTypes
  <2> QED
    BY <1>1, <1>3, <2>1
<1>6. crossed' \subseteq Places
  BY <1>1, <1>3 DEF InputInv, InputTypes
<1>7. InputTypes'
  BY <1>1, <1>2, <1>4, <1>5, <1>6 DEF InputInv, InputTypes, keyboard, pointer
<1>8. Handles'
  <2>1. /\ handles["pad"] = known["pad"] \ crossed
        /\ handles["keyboard"] \ missed = known["keyboard"] \ missed
        /\ handles["mouse"] = known["mouse"] /\ missed' = missed
    BY <1>1 DEF InputInv, Handles, keyboard
  <2>2. handles'["pad"] = known'["pad"] \ crossed'
    BY <1>1, <1>2, <1>3, <1>4, <2>1
  <2> QED
    BY <1>2, <1>4, <2>1, <2>2 DEF Handles
<1>9. ScriptIsTold'
  BY <1>1, <1>4, <1>5 DEF InputInv, ScriptIsTold, keyboard, pointer
<1> QED
  BY <1>1, <1>2, <1>7, <1>8, <1>9, KeysUntouched, MiceUntouched DEF InputInv, keyboard, pointer

(* The stroke that is taken is its key's state from then on.                *)
LEMMA TakingHolds ==
  ASSUME InputInv, UNCHANGED <<held, doubtful>>, TakeStroke
  PROVE  /\ queue' \in Seq(Strokes) /\ Len(queue') <= QueueSize /\ keys' \in [Keys -> BOOLEAN]
         /\ KeysFollowTheKeyboard'
         /\ told' \in [pads : SUBSET Places, keys : [Keys -> BOOLEAN],
                       cursor : Int \X Int, button : BOOLEAN]
         /\ told'.keys = keys' /\ told'.pads = told.pads /\ told'.cursor = told.cursor
         /\ told'.button = told.button
<1>0. /\ queue \in Seq(Strokes) /\ Len(queue) \in Nat /\ Len(queue) <= QueueSize /\ QueueSize \in Nat
      /\ keys \in [Keys -> BOOLEAN] /\ doubtful \subseteq Keys /\ KeysFollowTheKeyboard
      /\ told \in [pads : SUBSET Places, keys : [Keys -> BOOLEAN],
                   cursor : Int \X Int, button : BOOLEAN]
      /\ told.keys = keys
  BY SizesArePositive DEF InputInv, InputTypes, ScriptIsTold
<1>1. CASE Answering = {}
  <2>1. UNCHANGED <<queue, keys, told>>
    BY <1>1 DEF TakeStroke
  <2>2. KeysFollowTheKeyboard'
    BY <1>0, <2>1, KeysUntouched
  <2> QED
    BY <1>0, <2>1, <2>2
<1>2. CASE Answering # {}
  <2> DEFINE s == Head(queue)
  <2>1. /\ queue # <<>> /\ queue' = Tail(queue)
        /\ keys' = [keys EXCEPT ![s.key] = s.down]
        /\ told' = [told EXCEPT !.keys = keys']
    BY <1>2 DEF TakeStroke, Answering
  <2>2. s \in Strokes /\ s = queue[1] /\ Len(queue) > 0
    BY <1>0, <2>1
  <2>3. s.key \in Keys /\ s.down \in BOOLEAN
    BY <2>2 DEF Strokes
  <2>4. /\ queue' \in Seq(Strokes) /\ Len(queue') = Len(queue) - 1
        /\ \A n \in 1..(Len(queue) - 1) : queue'[n] = queue[n + 1]
    BY <1>0, <2>1
  <2> HIDE DEF s
  <2>5. /\ keys' \in [Keys -> BOOLEAN] /\ keys'[s.key] = s.down
        /\ \A key \in Keys : key # s.key => keys'[key] = keys[key]
    BY <1>0, <2>1, <2>3
  <2>6. /\ told' \in [pads : SUBSET Places, keys : [Keys -> BOOLEAN],
                      cursor : Int \X Int, button : BOOLEAN]
        /\ told'.keys = keys' /\ told'.pads = told.pads /\ told'.cursor = told.cursor
        /\ told'.button = told.button
    BY <1>0, <2>1, <2>5
  <2>7. DOMAIN queue = 1..Len(queue) /\ DOMAIN queue' = 1..(Len(queue) - 1)
    BY <1>0, <2>2, <2>4
  <2>8. ASSUME NEW key, NEW n \in Nat PROVE Waits(key, n + 1) => Waits(key, n)'
    <3>2. ASSUME NEW j \in DOMAIN queue, j > n + 1, queue[j].key = key PROVE Waits(key, n)'
      <4>1. j - 1 \in 1..(Len(queue) - 1) /\ j - 1 > n /\ (j - 1) + 1 = j
        BY <1>0, <2>7, <3>2
      <4>2. queue'[j - 1].key = key
        BY <2>4, <3>2, <4>1
      <4> QED
        BY <2>7, <4>1, <4>2 DEF Waits
    <3> QED
      BY <3>2 DEF Waits
  <2>9. KeysFollowTheKeyboard'
    <3> SUFFICES ASSUME NEW key \in Keys \ doubtful
                 PROVE  /\ ~Waits(key, 0)' => (keys'[key] <=> IsHeld(key, held))
                        /\ \A n \in DOMAIN queue' :
                             queue'[n].key = key /\ ~Waits(key, n)' => (queue'[n].down <=> IsHeld(key, held))
      BY DEF KeysFollowTheKeyboard, IsHeld
    <3>1. /\ ~Waits(key, 0) => (keys[key] <=> IsHeld(key, held))
          /\ \A n \in DOMAIN queue :
               queue[n].key = key /\ ~Waits(key, n) => (queue[n].down <=> IsHeld(key, held))
      BY <1>0 DEF KeysFollowTheKeyboard
    <3>2. ASSUME ~Waits(key, 0)' PROVE keys'[key] <=> IsHeld(key, held)
      <4>1. ~Waits(key, 1)
        <5>1. 0 \in Nat /\ 0 + 1 = 1
          OBVIOUS
        <5>2. Waits(key, 0 + 1) => Waits(key, 0)'
          BY <2>8, <5>1, Zenon
        <5> QED
          BY <3>2, <5>1, <5>2
      <4>2. CASE key = s.key
        <5>1. queue[1].down <=> IsHeld(key, held)
          BY <2>2, <2>7, <3>1, <4>1, <4>2
        <5> QED
          BY <2>2, <2>5, <4>2, <5>1
      <4>3. CASE key # s.key
        <5>1. ~Waits(key, 0)
          <6>1. \A n \in DOMAIN queue : n > 0 => n > 1 \/ n = 1
            BY <2>7
          <6> QED
            BY <2>2, <4>1, <4>3, <6>1 DEF Waits
        <5> QED
          BY <2>5, <3>1, <4>3, <5>1
      <4> QED
        BY <4>2, <4>3
    <3>3. ASSUME NEW n \in DOMAIN queue', queue'[n].key = key, ~Waits(key, n)'
          PROVE  queue'[n].down <=> IsHeld(key, held)
      <4>1. n \in Nat /\ n + 1 \in DOMAIN queue /\ queue'[n] = queue[n + 1]
        BY <1>0, <2>4, <2>7
      <4>2. ~Waits(key, n + 1)
        <5>1. Waits(key, n + 1) => Waits(key, n)'
          BY <2>8, <4>1, Zenon
        <5> QED
          BY <3>3, <5>1
      <4>3. queue[n + 1].down <=> IsHeld(key, held)
        BY <3>1, <3>3, <4>1, <4>2
      <4> QED
        BY <4>1, <4>3
    <3> QED
      BY <3>2, <3>3
  <2>10. Len(queue') <= QueueSize
    BY <1>0, <2>4
  <2> QED
    BY <2>4, <2>5, <2>6, <2>9, <2>10
<1> QED
  BY <1>1, <1>2

(* ProcessKeyboard: the places the loop reached follow their report, those  *)
(* it did not are missed, and one stroke at most is taken.                  *)
LEMMA KeyboardHolds ==
  ASSUME InputInv, UNCHANGED busy, ProcessKeyboard
  PROVE  InputInv'
<1> DEFINE ins == Insertions("keyboard")
           rem == Removals("keyboard")
           was == handles["keyboard"]
           opened == {k \in Reached : IsOpen(k)} \cup (was \ Reached)
<1>1. /\ turn' = "mouse" /\ Report("keyboard") /\ TakeStroke
      /\ handles' = [handles EXCEPT !["keyboard"] = opened]
      /\ missed' = (missed \ (ins \cup rem)) \cup ((ins \cup rem) \ Reached)
      /\ UNCHANGED <<held, doubtful, mouse, pointer, events, crossed, fresh>>
  BY DEF ProcessKeyboard, Put, Changed
<1>2. /\ known' \in [Kinds -> SUBSET Places] /\ pulled' \in [Kinds -> SUBSET Places]
      /\ plugged' = plugged /\ known'["keyboard"] = plugged["keyboard"]
      /\ \A other \in Kinds \ {"keyboard"} : known'[other] = known[other]
      /\ Reports'
  BY <1>1, ReportHolds
<1>3. /\ queue' \in Seq(Strokes) /\ Len(queue') <= QueueSize /\ keys' \in [Keys -> BOOLEAN]
      /\ KeysFollowTheKeyboard'
      /\ told' \in [pads : SUBSET Places, keys : [Keys -> BOOLEAN],
                    cursor : Int \X Int, button : BOOLEAN]
      /\ told'.keys = keys' /\ told'.pads = told.pads /\ told'.cursor = told.cursor
      /\ told'.button = told.button
  BY <1>1, TakingHolds
<1>4. /\ ins = plugged["keyboard"] \ (known["keyboard"] \ pulled["keyboard"]) /\ rem = pulled["keyboard"]
      /\ pulled["keyboard"] \subseteq known["keyboard"]
      /\ known["keyboard"] \ pulled["keyboard"] \subseteq plugged["keyboard"]
      /\ ins \subseteq Places /\ rem \subseteq Places /\ was \subseteq Places
  BY DEF Insertions, Removals, InputInv, Reports, InputTypes
<1>5. \A k : IsOpen(k) <=> k \in ins \/ k \in was \ rem
  BY DEF IsOpen
<1>6. opened \subseteq Places
  BY <1>4, <1>5
<1>7. /\ handles' \in [Kinds -> SUBSET Places] /\ handles'["keyboard"] = opened
      /\ \A other \in Kinds \ {"keyboard"} : handles'[other] = handles[other]
  <2>1. handles \in [Kinds -> SUBSET Places]
    BY DEF InputInv, InputTypes
  <2> HIDE DEF opened
  <2> QED
    BY <1>1, <1>6, <2>1
<1> HIDE DEF ins, rem
<1>8. missed' \subseteq Places
  BY <1>1, <1>4 DEF InputInv, InputTypes
<1>9. InputTypes'
  BY <1>1, <1>2, <1>3, <1>7, <1>8 DEF InputInv, InputTypes, pointer
<1>10. Handles'
  <2>1. /\ handles["pad"] = known["pad"] \ crossed
        /\ was \ missed = known["keyboard"] \ missed
        /\ handles["mouse"] = known["mouse"]
    BY DEF InputInv, Handles
  <2>2. ASSUME NEW k, k \notin missed' PROVE k \in opened <=> k \in plugged["keyboard"]
    <3>1. CASE k \in ins \cup rem
      <4>1. k \in Reached
        BY <1>1, <2>2, <3>1
      <4>2. k \in opened <=> k \in ins \/ k \in was \ rem
        BY <1>5, <4>1
      <4> QED
        BY <1>4, <3>1, <4>2
    <3>2. CASE k \notin ins \cup rem
      <4>1. k \notin missed
        BY <1>1, <2>2, <3>2
      <4>2. k \in opened <=> k \in was
        BY <1>5, <3>2
      <4> QED
        BY <1>4, <2>1, <3>2, <4>1, <4>2
    <3> QED
      BY <3>1, <3>2
  <2> HIDE DEF opened, was
  <2>3. handles'["keyboard"] \ missed' = known'["keyboard"] \ missed'
    BY <1>2, <1>7, <2>2
  <2> QED
    BY <1>1, <1>2, <1>7, <2>1, <2>3 DEF Handles
<1>11. ScriptIsTold'
  BY <1>1, <1>3, <1>7 DEF InputInv, ScriptIsTold, pointer
<1> QED
  BY <1>1, <1>2, <1>3, <1>9, <1>10, <1>11, MiceUntouched DEF InputInv, pointer

(* A coordinate is clamped to the window.  A motion to the left or up keeps *)
(* the script's, which it was not told, right of or below the real one,     *)
(* unless it lies left of or above the window: the real one is then at the  *)
(* window's edge.                                                           *)
LEMMA ClampHolds ==
  ASSUME NEW c \in Int, NEW d \in Int, NEW max \in Nat
  PROVE  /\ Clamp(c + d, max) \in 0..max
         /\ \A t \in Int : d <= 0 /\ (t >= c \/ (t < 0 /\ c = 0)) =>
              t >= Clamp(c + d, max) \/ (t < 0 /\ Clamp(c + d, max) = 0)
BY DEF Clamp

(* A set of numbers that has a member has a least one.                      *)
LEMMA LeastNumber ==
  ASSUME NEW S \in SUBSET Nat, S # {}
  PROVE  \E x \in S : \A y \in S : x <= y
<1> DEFINE R == OpToRel(<, Nat)
<1>1. IsWellFoundedOn(R, Nat)
  BY NatLessThanWellFounded
<1>2. \A x, y \in Nat : x < y => <<x, y>> \in R
  BY DEF OpToRel
<1> HIDE DEF R
<1>3. PICK x \in S : \A y \in S : <<y, x>> \notin R
  BY <1>1, WFMin
<1>4. \A y \in S : x <= y
  <2> TAKE y \in S
  <2>1. x \in Nat /\ y \in Nat
    OBVIOUS
  <2>2. ~(y < x)
    BY <1>2, <1>3, <2>1
  <2> QED  BY <2>1, <2>2
<1> QED  BY <1>4

(* The first of the mice that moved is one of them.                         *)
LEMMA FirstMoved ==
  ASSUME NEW moved \in SUBSET Places, moved # {}
  PROVE  Min(moved) \in moved
<1>1. moved \subseteq Nat
  <2> DEFINE n == Cardinality(Places)
  <2>1. Places = 1..n
    BY PlacesAreNumbered
  <2> HIDE DEF n
  <2>2. 1..n \subseteq Nat
    OBVIOUS
  <2> QED
    BY <2>1, <2>2
<1>2. PICK x \in moved : \A y \in moved : x <= y
  <2>1. moved \in SUBSET Nat
    BY <1>1
  <2> QED
    BY <2>1, LeastNumber
<1> QED
  BY <1>2, Zenon DEF Min

(* Applying a mouse's packet: button and cursor follow it, and the script   *)
(* is told the button in any case, the cursor unless it moved left or up    *)
(* only.                                                                    *)
LEMMA ApplyHolds ==
  ASSUME InputInv, NEW m \in Places, states'[m] \in Packets, Apply(m)
  PROVE  /\ cursor' \in (0..Width) \X (0..Height) /\ button' \in BOOLEAN
         /\ button' = states'[m].button /\ mover' = m
         /\ told' \in [pads : SUBSET Places, keys : [Keys -> BOOLEAN],
                       cursor : Int \X Int, button : BOOLEAN]
         /\ told'.pads = told.pads /\ told'.keys = told.keys /\ told'.button = button'
         /\ \A axis \in 1..2 : \/ told'.cursor[axis] >= cursor'[axis]
                               \/ told'.cursor[axis] < 0 /\ cursor'[axis] = 0
<1> DEFINE x == states'[m].motion[1]
           y == states'[m].motion[2]
           b == states'[m].button
           cx == Clamp(cursor[1] + x, Width)
           cy == Clamp(cursor[2] + y, Height)
<1>1. x \in Int /\ y \in Int /\ b \in BOOLEAN
  BY DEF Packets
<1>2. /\ cursor' = <<cx, cy>> /\ button' = b /\ mover' = m
      /\ told' = [told EXCEPT !.cursor = IF x > 0 \/ y > 0 THEN cursor' ELSE told.cursor,
                             !.button = button']
  BY DEF Apply
<1>3. /\ cursor[1] \in Int /\ cursor[2] \in Int /\ Width \in Nat /\ Height \in Nat
      /\ told \in [pads : SUBSET Places, keys : [Keys -> BOOLEAN],
                   cursor : Int \X Int, button : BOOLEAN]
      /\ told.cursor[1] >= cursor[1] \/ (told.cursor[1] < 0 /\ cursor[1] = 0)
      /\ told.cursor[2] >= cursor[2] \/ (told.cursor[2] < 0 /\ cursor[2] = 0)
      /\ told.cursor[1] \in Int /\ told.cursor[2] \in Int
  <2>1. \A axis \in 1..2 : told.cursor[axis] >= cursor[axis] \/ (told.cursor[axis] < 0 /\ cursor[axis] = 0)
    BY DEF InputInv, ScriptIsTold
  <2>2. 1 \in 1..2 /\ 2 \in 1..2
    OBVIOUS
  <2>3. /\ told.cursor[1] >= cursor[1] \/ (told.cursor[1] < 0 /\ cursor[1] = 0)
        /\ told.cursor[2] >= cursor[2] \/ (told.cursor[2] < 0 /\ cursor[2] = 0)
    BY <2>1, <2>2
  <2>4. /\ cursor \in Int \X Int /\ Width \in Nat /\ Height \in Nat
        /\ told \in [pads : SUBSET Places, keys : [Keys -> BOOLEAN], cursor : Int \X Int, button : BOOLEAN]
    BY SizesArePositive DEF InputInv, InputTypes
  <2> QED
    BY <2>3, <2>4
<1> HIDE DEF x, y, b
<1>4. cx \in 0..Width /\ (x <= 0 => told.cursor[1] >= cx \/ (told.cursor[1] < 0 /\ cx = 0))
  BY <1>1, <1>3, ClampHolds
<1>5. cy \in 0..Height /\ (y <= 0 => told.cursor[2] >= cy \/ (told.cursor[2] < 0 /\ cy = 0))
  BY <1>1, <1>3, ClampHolds
<1> HIDE DEF cx, cy
<1>6. /\ cursor' \in (0..Width) \X (0..Height) /\ cursor'[1] = cx /\ cursor'[2] = cy
  BY <1>2, <1>4, <1>5
<1>7. told' \in [pads : SUBSET Places, keys : [Keys -> BOOLEAN],
                 cursor : Int \X Int, button : BOOLEAN]
  <2>1. cursor' \in Int \X Int
    BY <1>2, <1>3, <1>4, <1>5
  <2> QED
    BY <1>1, <1>2, <1>3, <2>1
<1>8. /\ told'.pads = told.pads /\ told'.keys = told.keys /\ told'.button = button'
      /\ told'.cursor = IF x > 0 \/ y > 0 THEN cursor' ELSE told.cursor
  BY <1>2, <1>3
<1>9. \A axis \in 1..2 : \/ told'.cursor[axis] >= cursor'[axis]
                         \/ told'.cursor[axis] < 0 /\ cursor'[axis] = 0
  <2>1. CASE x > 0 \/ y > 0
    BY <1>4, <1>5, <1>6, <1>8, <2>1
  <2>2. CASE ~(x > 0 \/ y > 0)
    <3>1. x <= 0 /\ y <= 0 /\ told'.cursor = told.cursor
      BY <1>1, <1>8, <2>2
    <3> QED
      BY <1>3, <1>4, <1>5, <1>6, <3>1
  <2> QED
    BY <2>1, <2>2
<1> QED
  BY <1>1, <1>2, <1>6, <1>7, <1>8, <1>9 DEF b

(* ProcessMouse reads every mouse and applies the first packet that is new; *)
(* a mouse that is not applied had none, or was plugged in again.           *)
LEMMA MouseHolds ==
  ASSUME InputInv, UNCHANGED busy, ProcessMouse
  PROVE  InputInv'
<1> DEFINE ins == Insertions("mouse")
           rem == Removals("mouse")
           moved == {m \in Places : seen'[m] # seen[m]}
<1>1. /\ turn' = "pad" /\ Report("mouse")
      /\ handles' = [handles EXCEPT !["mouse"] = (handles["mouse"] \ rem) \cup ins]
      /\ states' = [m \in Places |-> IF m \in handles'["mouse"] THEN mouse[m] ELSE states[m]]
      /\ seen' = [m \in Places |-> states'[m].packet]
      /\ fresh' = fresh \ moved
      /\ IF moved = {} THEN UNCHANGED <<cursor, button, told, mover>> ELSE Apply(Min(moved))
      /\ UNCHANGED <<keyboard, mouse, events, crossed>>
  BY DEF ProcessMouse, Put
<1>2. /\ known' \in [Kinds -> SUBSET Places] /\ pulled' \in [Kinds -> SUBSET Places]
      /\ plugged' = plugged /\ known'["mouse"] = plugged["mouse"]
      /\ \A other \in Kinds \ {"mouse"} : known'[other] = known[other]
      /\ Reports'
  BY <1>1, ReportHolds
<1>3. /\ ins = plugged["mouse"] \ (known["mouse"] \ pulled["mouse"]) /\ rem = pulled["mouse"]
      /\ pulled["mouse"] \subseteq known["mouse"] /\ known["mouse"] \ pulled["mouse"] \subseteq plugged["mouse"]
      /\ ins \subseteq Places /\ rem \subseteq Places
  BY DEF Insertions, Removals, InputInv, Reports, InputTypes
<1> HIDE DEF ins, rem, moved
<1>4. /\ handles' \in [Kinds -> SUBSET Places] /\ handles'["mouse"] = (handles["mouse"] \ rem) \cup ins
      /\ \A other \in Kinds \ {"mouse"} : handles'[other] = handles[other]
  <2>1. handles \in [Kinds -> SUBSET Places]
    BY DEF InputInv, InputTypes
  <2> QED
    BY <1>1, <1>3, <2>1
<1>5. /\ mouse \in [Places -> Packets] /\ states \in [Places -> Packets]
      /\ states' \in [Places -> Packets]
      /\ \A m \in Places : states'[m] = mouse[m] \/ states'[m] = states[m]
      /\ \A m \in Places : seen[m] = states[m].packet /\ seen'[m] = states'[m].packet
  BY <1>1 DEF InputInv, InputTypes
<1>6. moved \in SUBSET Places /\ \A m \in Places : m \in moved <=> seen'[m] # seen[m]
  BY DEF moved
<1>7. /\ cursor' \in Int \X Int /\ button' \in BOOLEAN /\ mover' \in Places \cup {0}
      /\ told' \in [pads : SUBSET Places, keys : [Keys -> BOOLEAN],
                    cursor : Int \X Int, button : BOOLEAN]
      /\ told'.pads = told.pads /\ told'.keys = told.keys /\ told'.button = button'
      /\ \A axis \in 1..2 : \/ told'.cursor[axis] >= cursor'[axis]
                            \/ told'.cursor[axis] < 0 /\ cursor'[axis] = 0
      /\ cursor' \in (0..Width) \X (0..Height) \/ cursor' = told'.cursor
      /\ mover' \in Places \ fresh' => button' = states'[mover'].button
  <2>1. CASE moved = {}
    <3>1. UNCHANGED <<cursor, button, told, mover>> /\ fresh' = fresh
      BY <1>1, <2>1
    <3>2. ASSUME mover \in Places \ fresh PROVE button = states'[mover].button
      <4>1. /\ button = states[mover].button
            /\ mouse[mover].packet = states[mover].packet => mouse[mover] = states[mover]
        BY <3>2 DEF InputInv, ScriptIsTold, PacketsTell
      <4>2. states'[mover].packet = states[mover].packet
        BY <1>5, <1>6, <2>1, <3>2
      <4> QED
        BY <1>5, <3>2, <4>1, <4>2
    <3>3. /\ cursor \in Int \X Int /\ button \in BOOLEAN /\ mover \in Places \cup {0}
          /\ told \in [pads : SUBSET Places, keys : [Keys -> BOOLEAN],
                       cursor : Int \X Int, button : BOOLEAN]
          /\ told.keys = keys /\ told.button = button
          /\ \A axis \in 1..2 : \/ told.cursor[axis] >= cursor[axis]
                                \/ (told.cursor[axis] < 0 /\ cursor[axis] = 0)
          /\ cursor \in (0..Width) \X (0..Height) \/ cursor = told.cursor
      BY DEF InputInv, InputTypes, ScriptIsTold
    <3> QED
      BY <3>1, <3>2, <3>3
  <2>2. CASE moved # {}
    <3> DEFINE m == Min(moved)
    <3>1. m \in moved /\ m \in Places
      BY <1>6, <2>2, FirstMoved
    <3>2. Apply(m)
      BY <1>1, <2>2
    <3> HIDE DEF m
    <3>3. states'[m] \in Packets
      BY <1>5, <3>1
    <3> QED
      BY <3>1, <3>2, <3>3, ApplyHolds
  <2> QED
    BY <2>1, <2>2
<1>8. fresh' \subseteq Places /\ \A m \in Places \ fresh' : m \in fresh => m \in moved
  BY <1>1 DEF InputInv, InputTypes
<1>9. InputTypes'
  <2>1. \A m \in Places : mouse'[m].packet <= events'
    BY <1>1 DEF InputInv, InputTypes
  <2>2. /\ seen' = [m \in Places |-> states'[m].packet] /\ busy' \in Kinds /\ turn' \in Kinds
        /\ missed' \subseteq Places /\ crossed' \subseteq Places /\ doubtful' \subseteq Keys
        /\ held' \subseteq Places \X Keys
        /\ queue' \in Seq(Strokes) /\ Len(queue') <= QueueSize /\ keys' \in [Keys -> BOOLEAN]
        /\ events' \in 0..MaxEvents /\ mouse' \in [Places -> Packets]
        /\ plugged' \in [Kinds -> SUBSET Places]
    BY <1>1, <1>2 DEF InputInv, InputTypes, keyboard
  <2> QED
    BY <1>2, <1>4, <1>5, <1>7, <1>8, <2>1, <2>2 DEF InputTypes
<1>10. Handles'
  <2>1. /\ handles["pad"] = known["pad"] \ crossed /\ crossed' = crossed
        /\ handles["keyboard"] \ missed = known["keyboard"] \ missed /\ missed' = missed
        /\ handles["mouse"] = known["mouse"]
    BY <1>1 DEF InputInv, Handles, keyboard
  <2>2. handles'["mouse"] = known'["mouse"]
    BY <1>2, <1>3, <1>4, <2>1
  <2> QED
    BY <1>2, <1>4, <2>1, <2>2 DEF Handles
<1>11. PacketsTell'
  <2> SUFFICES ASSUME NEW m \in Places \ fresh'
               PROVE  /\ mouse[m].packet >= states'[m].packet
                      /\ mouse[m].packet = states'[m].packet => mouse[m] = states'[m]
    BY <1>1 DEF PacketsTell
  <2>0. mouse[m].packet \in Int
    BY <1>5 DEF Packets
  <2>1. CASE states'[m] = mouse[m]
    BY <2>0, <2>1
  <2>2. CASE states'[m] = states[m]
    <3>1. m \notin moved
      BY <1>5, <1>6, <2>2
    <3>2. m \notin fresh
      BY <1>8, <3>1
    <3> QED
      BY <2>2, <3>2 DEF InputInv, PacketsTell
  <2> QED
    BY <1>5, <2>1, <2>2
<1>12. ScriptIsTold'
  <2>1. told.pads = handles["pad"] /\ told.keys = keys /\ keys' = keys
    BY <1>1 DEF InputInv, ScriptIsTold, keyboard
  <2>2. handles'["pad"] = handles["pad"]
    BY <1>4
  <2> QED
    BY <1>7, <2>1, <2>2 DEF ScriptIsTold
<1> QED
  BY <1>1, <1>2, <1>9, <1>10, <1>11, <1>12, KeysUntouched DEF InputInv, keyboard

(* No step of the player, the script or the poll breaks the invariant.      *)
LEMMA InputNextHolds ==
  ASSUME InputInv, [InputNext]_inputVars
  PROVE  InputInv'
<1>1. CASE InputNext
  <2>0. UNCHANGED busy /\ busy \in Kinds
    BY <1>1 DEF InputNext, InputInv, InputTypes
  <2>1. CASE Player
    <3>1. PICK n \in Places :
            \/ Plug(busy, n) \/ Unplug(busy, n)
            \/ \E key \in Keys : Press(n, key) \/ Release(n, key)
            \/ Move(n)
      BY <2>1 DEF Player
    <3> QED
      BY <2>0, <3>1, PlugHolds, UnplugHolds, PressHolds, ReleaseHolds, MoveHolds
  <2>2. CASE SetMouseCursorPosition
    BY <2>0, <2>2, SetCursorHolds
  <2>3. CASE PollEvents
    BY <2>0, <2>3, ControllerHolds, KeyboardHolds, MouseHolds DEF PollEvents
  <2> QED
    BY <1>1, <2>1, <2>2, <2>3 DEF InputNext
<1>2. CASE UNCHANGED inputVars
  <2>1. /\ UNCHANGED <<busy, turn, plugged, known, pulled, handles, held, queue, keys, missed, doubtful>>
        /\ UNCHANGED <<mouse, states, seen, cursor, button, mover, told, events, crossed, fresh>>
    BY <1>2 DEF inputVars, devices, keyboard, pointer
  <2>2. InputTypes'
    BY <2>1 DEF InputInv, InputTypes
  <2>3. Reports'
    BY <2>1 DEF InputInv, Reports
  <2> QED
    BY <2>1, <2>2, <2>3, KeysUntouched, HandlesUntouched, MiceUntouched, ToldUntouched DEF InputInv
<1> QED
  BY <1>1, <1>2

(* InputInv holds for ever.                                                 *)
LEMMA InputInvHolds == InputSpec => []InputInv
<1> QED
  BY InputInitHolds, InputNextHolds, PTL DEF InputSpec

(* After any order of plugging and pulling a device has a handle exactly    *)
(* when it was plugged in at the last report, but for a controller pulled   *)
(* and plugged in again between two polls and a keyboard whose change the   *)
(* loop did not reach (ProcessController, ProcessKeyboard, ProcessMouse).   *)
THEOREM HandlesHold == InputSpec => []HandlesFollowDevices
<1>1. InputInv => HandlesFollowDevices
  <2> SUFFICES ASSUME InputInv PROVE HandlesFollowDevices
    OBVIOUS
  <2>1. {states[m].packet : m \in Places} \cup {seen[m] : m \in Places} \subseteq 0..MaxEvents
    BY DEF InputInv, InputTypes, Packets
  <2>2. InputTypeOK
    BY <2>1 DEF InputInv, InputTypes, InputTypeOK
  <2> QED
    BY <2>2 DEF InputInv, Handles, HandlesFollowDevices
<1> QED
  BY <1>1, InputInvHolds, PTL

(* What ProcessKeyboard takes from the queue makes m_keyboardKeys what the  *)
(* keyboards hold down, but for the keys whose last stroke was lost or      *)
(* released one that another keyboard still holds.                          *)
THEOREM KeysHold == InputSpec => []KeysFollowTheKeyboard
<1>1. InputInv => KeysFollowTheKeyboard
  BY DEF InputInv
<1> QED
  BY <1>1, InputInvHolds, PTL

(* The script was told the controllers, the keys and the button as they     *)
(* are, and its cursor is never left of or above the real one, wherever it  *)
(* sets it, unless it set it left of or above the window; a cursor outside  *)
(* the window is the script's own (ProcessMouse, SetMouseCursorPosition).   *)
THEOREM ScriptHears == InputSpec => []ScriptIsTold
<1>1. InputInv => ScriptIsTold
  BY DEF InputInv
<1> QED
  BY <1>1, InputInvHolds, PTL

-----------------------------------------------------------------------------
(***************************************************************************)
(* MediaInstall.  InstallInv adds what DirectoryDelete's stack and         *)
(* DirectoryCopy's queue mean in the middle of their work.  The disk is a  *)
(* tree at any moment.  A directory that is being deleted is under the one *)
(* below it on the stack, and its entries are the ones the stack has left, *)
(* unless a listing was cut short.  The directories that were copied are   *)
(* those whose entries are settled: every directory in it copied, being    *)
(* copied or queued, and every file whole, but for what was hit.           *)
(***************************************************************************)

Contents == {Directory, Old} \cup Nat
Unnoticed == {"query", "listing", "open", "read", "flush"}
Frames == [dir : Names, left : SUBSET Names]

Copying == {"next", "source", "entries", "openSource", "openDest", "read", "write", "close", "installed"}
Opened == {"read", "write", "close", "giveUp"}
InFile == {"openSource", "openDest"} \cup Opened
InDirectory == {"entries", "openSource", "openDest", "read", "write", "close"}
Others == {"check", "list", "delete", "create", "failed", "tests", "stopped"}

InstallTypes ==
  /\ disk \in [DOMAIN disk -> Contents] /\ DOMAIN disk \subseteq Names
  /\ step \in Copying \cup InFile \cup Others
  /\ stack \in Seq(Frames)
  /\ toCopy \in Seq(Dirs) /\ current \in Dirs /\ todo \subseteq Dirs \cup Files
  /\ {source, dest} \subseteq {"S", "D", Closed} /\ open \subseteq {"S", "D"} /\ copied \in Nat
  /\ faults \in 0..MaxFaults /\ starts \in 0..MaxStarts /\ hit \subseteq Dirs \cup Files

(* The disk is a tree: what holds something is a directory.                 *)
IsTree(names) == \A n \in names \ {Root} : Parent[n] \in names
DiskIsTree ==
  /\ IsTree(DOMAIN disk)
  /\ \A n \in DOMAIN disk \ {Root} : disk[Parent[n]] = Directory
  /\ Root \in DOMAIN disk => disk[Root] = Directory

(* Once the old media is gone there is nothing but the assets, and no file  *)
(* is in the place of a directory.                                          *)
NothingElse ==
  step \in {"create"} \cup Copying =>
    \/ "query" \in broken
    \/ /\ DOMAIN disk \subseteq Dirs \cup Files
       /\ \A d \in DOMAIN disk \cap Dirs : disk[d] = Directory

(* DirectoryDelete's calls: a directory each, in the one before it.         *)
Deleting ==
  step \in {"list", "delete"} =>
    /\ stack # <<>> /\ stack[1].dir = Root
    /\ \A i \in DOMAIN stack :
         /\ stack[i].dir \in DOMAIN disk /\ disk[stack[i].dir] = Directory
         /\ stack[i].left \subseteq Children(stack[i].dir, DOMAIN disk)
         /\ \A j \in DOMAIN stack : stack[i].dir = stack[j].dir => i = j
         /\ i > 1 => /\ stack[i].dir # Root /\ Parent[stack[i].dir] = stack[i - 1].dir
                     /\ stack[i].dir \notin stack[i - 1].left
(* What a directory holds is left to do or being done.                      *)
Remaining(i) ==
  stack[i].left \cup (IF i < Len(stack) THEN {stack[i + 1].dir} ELSE {})
DeletingAll ==
  step \in {"list", "delete"} =>
    \A i \in DOMAIN stack :
      \/ step = "list" /\ i = Len(stack)
      \/ "listing" \in broken
      \/ Children(stack[i].dir, DOMAIN disk) \subseteq Remaining(i)

(* The directories that were copied, that one is being copied, that wait.   *)
Busy == IF step \in {"source"} \cup InDirectory THEN {current} ELSE {}
Queued == {toCopy[i] : i \in DOMAIN toCopy}
Settled(n, done) ==
  /\ n \in Dirs => n \in done \cup Busy \cup Queued
  /\ n \in Files => Present(n) /\ disk[n] = Size[n]
IsDone(done) ==
  /\ Root \in done \cup Busy \cup Queued
  /\ done \cap Busy = {} /\ Queued \cap (done \cup Busy) = {}
  /\ todo \cap (done \cup Busy \cup Queued) = {}
  /\ \A d \in done \cup Busy : IsDirectory(d)
  /\ \A d \in (done \cup Busy \cup Queued) \ {Root} :
       Parent[d] \in done \cup (IF step = "source" THEN {} ELSE Busy)
  /\ \A d \in done : \A n \in Children(d, Dirs \cup Files) \ hit : Settled(n, done)
  /\ step \in InDirectory =>
       \A n \in Children(current, Dirs \cup Files) \ hit :
         n \in todo \/ (step \in InFile /\ n = file) \/ Settled(n, done)
CopiedDirs == step \in Copying => \E done \in SUBSET Dirs : IsDone(done)

(* What is queued is queued once, and what is left of a directory is in it. *)
Queue ==
  /\ step \in Copying => \A i, j \in DOMAIN toCopy : toCopy[i] = toCopy[j] => i = j
  /\ step \in {"check", "list", "delete", "create", "next", "source"} => todo = {}
  /\ step \in InDirectory => todo \subseteq Children(current, Dirs \cup Files)
  /\ step \in InFile => file \in Files \ todo /\ Parent[file] = current
  /\ step = "installed" => toCopy = <<>>

(* FileCopy: a file that was not hit has both handles, and so far as it was *)
(* copied it is whole.                                                      *)
CopyingFile ==
  /\ step \notin {"openDest"} \cup Opened => open = {}
  /\ step = "openDest" => (source = "S" /\ open = {"S"}) \/ (file \in hit /\ open = {})
  /\ step \in {"openSource", "openDest"} => copied = 0
  /\ step \in Opened =>
       /\ "D" \in open => dest = "D" /\ Present(file) /\ disk[file] \in Nat
       /\ "S" \in open => source = "S"
       /\ file \notin hit => /\ source = "S" /\ dest = "D" /\ open = {"S", "D"}
                             /\ step \in {"read", "write", "close"} => disk[file] = copied
                             /\ copied <= Size[file]
       /\ step = "write" => copied < Size[file]
       /\ step = "close" /\ file \notin hit => copied = Size[file]

(* Which failures go unnoticed.                                             *)
Noticed ==
  /\ step \notin {"failed", "giveUp"} => broken \subseteq Unnoticed
  /\ step \in {"failed", "giveUp"} => broken # {}
  /\ hit # {} => broken # {}

InstallInv ==
  /\ InstallTypes /\ DiskIsTree /\ NothingElse /\ Deleting /\ DeletingAll
  /\ CopiedDirs /\ Queue /\ CopyingFile /\ Noticed

USE DEF Names, Contents, Unnoticed, Copying, Opened, InFile, InDirectory, Others, Closed

-----------------------------------------------------------------------------
(* A tree without its root is empty, as no names contain each other.        *)
LEMMA EmptyTree ==
  ASSUME NEW D, D \subseteq Names, IsTree(D), Root \notin D
  PROVE  D = {}
<1>1. D = {} \/ \E n \in D : n = Root \/ Parent[n] \notin D
  BY TreeIsRooted
<1> QED
  BY <1>1 DEF IsTree

(* What is written to the disk in a directory leaves it a tree.             *)
LEMMA WithHolds ==
  ASSUME InstallTypes, DiskIsTree, NEW n \in Dirs \cup Files, n = Root \/ IsDirectory(Parent[n]),
         NEW c \in Contents, n = Root \/ IsDirectory(n) => c = Directory,
         disk' = With(n, c)
  PROVE  /\ disk' \in [DOMAIN disk' -> Contents] /\ DOMAIN disk' = DOMAIN disk \cup {n}
         /\ DOMAIN disk' \subseteq Names
         /\ disk'[n] = c /\ \A m \in DOMAIN disk \ {n} : disk'[m] = disk[m]
         /\ DiskIsTree'
<1>1. disk \in [DOMAIN disk -> Contents] /\ DOMAIN disk \subseteq Names
  BY DEF InstallTypes
<1>2. disk' = [m \in DOMAIN disk \cup {n} |-> IF m = n THEN c ELSE disk[m]]
  BY DEF With
<1>3. DOMAIN disk' = DOMAIN disk \cup {n}
  BY <1>2
<1>4. disk'[n] = c /\ \A m \in DOMAIN disk \ {n} : disk'[m] = disk[m]
  BY <1>2
<1>5. disk' \in [DOMAIN disk' -> Contents]
  BY <1>1, <1>2
<1>6. DiskIsTree'
  <2>1. IsTree(DOMAIN disk)'
    BY <1>3 DEF IsTree, DiskIsTree, IsDirectory, Present
  <2>2. ASSUME NEW m \in DOMAIN disk' \ {Root} PROVE disk'[Parent[m]] = Directory
    <3>1. IsDirectory(Parent[m])
      BY <1>3, <2>2 DEF DiskIsTree, IsTree, IsDirectory, Present
    <3> QED
      BY <1>4, <3>1 DEF IsDirectory, Present
  <2>3. Root \in DOMAIN disk' => disk'[Root] = Directory
    BY <1>3, <1>4 DEF DiskIsTree
  <2> QED
    BY <2>1, <2>2, <2>3 DEF DiskIsTree
<1> QED
  BY <1>1, <1>3, <1>4, <1>5, <1>6

(* So does what is deleted when it holds nothing.                           *)
LEMMA WithoutHolds ==
  ASSUME InstallTypes, DiskIsTree, NEW n \in DOMAIN disk, Children(n, DOMAIN disk) = {},
         disk' = Without(n)
  PROVE  /\ disk' \in [DOMAIN disk' -> Contents] /\ DOMAIN disk' = DOMAIN disk \ {n}
         /\ DOMAIN disk' \subseteq Names
         /\ \A m \in DOMAIN disk \ {n} : disk'[m] = disk[m]
         /\ DiskIsTree'
<1>1. disk \in [DOMAIN disk -> Contents] /\ DOMAIN disk \subseteq Names
  BY DEF InstallTypes
<1>2. disk' = [m \in DOMAIN disk \ {n} |-> disk[m]]
  BY DEF Without, Restrict
<1>3. DOMAIN disk' = DOMAIN disk \ {n}
  BY <1>2
<1>4. \A m \in DOMAIN disk \ {n} : disk'[m] = disk[m]
  BY <1>2
<1>5. disk' \in [DOMAIN disk' -> Contents]
  BY <1>1, <1>2
<1>6. DiskIsTree'
  <2>1. \A m \in DOMAIN disk \ {Root} : Parent[m] # n
    BY DEF Children
  <2>2. IsTree(DOMAIN disk)'
    BY <1>3, <2>1 DEF IsTree, DiskIsTree
  <2>3. \A m \in DOMAIN disk' \ {Root} : disk'[Parent[m]] = Directory
    BY <1>3, <1>4, <2>1 DEF DiskIsTree, IsTree
  <2> QED
    BY <1>3, <1>4, <2>2, <2>3 DEF DiskIsTree
<1> QED
  BY <1>1, <1>3, <1>4, <1>5, <1>6

(* A call of the operating system works or fails.                           *)
LEMMA CallHolds ==
  ASSUME InstallTypes, NEW kind, NEW names \in SUBSET (Dirs \cup Files),
         Works \/ BreaksFor(kind, names)
  PROVE  /\ faults' \in 0..MaxFaults /\ starts' \in 0..MaxStarts /\ hit' \subseteq Dirs \cup Files
         /\ hit \subseteq hit' /\ hit' \subseteq hit \cup names
         /\ broken \subseteq broken' /\ broken' \subseteq broken \cup {kind}
         /\ BreaksFor(kind, names) => broken' = broken \cup {kind} /\ hit' = hit \cup names
         /\ Works => broken' = broken /\ hit' = hit
<1>1. CASE Works
  <2>1. faults' = faults /\ starts' = starts /\ broken' = broken /\ hit' = hit
    BY <1>1 DEF Works, history
  <2>2. BreaksFor(kind, names) => broken' = broken \cup {kind} /\ hit' = hit \cup names
    BY DEF BreaksFor, Records
  <2> QED
    BY <2>1, <2>2 DEF InstallTypes
<1>2. CASE BreaksFor(kind, names)
  <2>1. /\ faults < MaxFaults /\ faults' = faults + 1 /\ starts' = starts
        /\ broken' = broken \cup {kind} /\ hit' = hit \cup names
    BY <1>2 DEF BreaksFor, Records
  <2>2. faults' \in 0..MaxFaults
    BY <2>1, BoundsAreNumbers DEF InstallTypes
  <2>3. Works => broken' = broken /\ hit' = hit
    BY DEF Works, history
  <2> QED
    BY <2>1, <2>2, <2>3 DEF InstallTypes
<1> QED
  BY <1>1, <1>2

(* The same of a call that concerns no file.                                *)
LEMMA CallBreaks ==
  ASSUME InstallTypes, NEW kind, BreaksFor(kind, {})
  PROVE  /\ faults' \in 0..MaxFaults /\ starts' \in 0..MaxStarts /\ hit' \subseteq Dirs \cup Files
         /\ broken' = broken \cup {kind} /\ hit' = hit
<1>1. {} \in SUBSET (Dirs \cup Files)
  OBVIOUS
<1> QED
  BY <1>1, CallHolds

-----------------------------------------------------------------------------
(* The initial state.                                                       *)
LEMMA InstallInitHolds == ASSUME InstallInit PROVE InstallInv
<1> USE DEF InstallInit
<1>1. disk \in [DOMAIN disk -> Contents] /\ DOMAIN disk \subseteq Names /\ DiskIsTree
  <2>1. CASE disk = <<>>
    BY <2>1 DEF DiskIsTree, IsTree
  <2>2. CASE disk \in OldDisks
    <3>1. /\ disk \in [DOMAIN disk -> {Directory, Old}]
          /\ \A n \in DOMAIN disk :
               IF n = Root THEN disk[n] = Directory
               ELSE Parent[n] \in DOMAIN disk /\ disk[Parent[n]] = Directory
      BY <2>2, OldDisksAreTrees
    <3>2. disk \in [DOMAIN disk -> Contents]
      BY <3>1
    <3>3. DiskIsTree
      BY <3>1 DEF DiskIsTree, IsTree
    <3>4. DOMAIN disk \subseteq Names
      BY <2>2
    <3> QED
      BY <3>2, <3>3, <3>4
  <2> QED
    BY <2>1, <2>2
<1>2. stack \in Seq(Frames) /\ toCopy \in Seq(Dirs)
  OBVIOUS
<1>3. InstallTypes
  BY <1>1, <1>2, TreeIsRooted, BoundsAreNumbers DEF InstallTypes
<1>4. NothingElse /\ Deleting /\ DeletingAll /\ CopiedDirs /\ Queue
  BY DEF NothingElse, Deleting, DeletingAll, CopiedDirs, Queue
<1>5. CopyingFile /\ Noticed
  BY DEF CopyingFile, Noticed
<1> QED
  BY <1>1, <1>3, <1>4, <1>5 DEF InstallInv

-----------------------------------------------------------------------------
Idle == {"check", "list", "delete", "create", "failed", "tests", "stopped"}
(* In these phases nothing is being copied.                                 *)
LEMMA NothingIsCopied ==
  ASSUME step' \in Idle, open' = {}, todo' = {} \/ step' \in {"failed", "tests", "stopped"}
  PROVE  CopiedDirs' /\ Queue' /\ CopyingFile'
BY DEF Idle, CopiedDirs, Queue, CopyingFile

(* And in these nothing is being deleted.                                   *)
LEMMA NothingIsDeleted ==
  ASSUME step' \notin {"list", "delete"}
  PROVE  Deleting' /\ DeletingAll'
BY DEF Deleting, DeletingAll

(* UwpInit looks for the old media: only a query that fails leaves some.    *)
LEMMA CheckMediaHolds == ASSUME InstallInv, CheckMedia PROVE InstallInv'
<1> USE DEF CheckMedia, tree, copy
<1>1. PICK exists \in BOOLEAN :
        /\ Exists(Root, exists)
        /\ step' = IF exists THEN "list" ELSE "create"
        /\ stack' = IF exists THEN <<[dir |-> Root, left |-> {}]>> ELSE stack
  BY DEF StepTo
<1>2. Works \/ BreaksFor("query", {})
  BY <1>1 DEF Exists, Breaks
<1>3. /\ faults' \in 0..MaxFaults /\ starts' \in 0..MaxStarts /\ hit' = hit /\ hit \subseteq Dirs \cup Files
      /\ broken \subseteq broken' /\ broken' \subseteq broken \cup {"query"}
      /\ BreaksFor("query", {}) => broken' = broken \cup {"query"}
  <2>1. InstallTypes /\ {} \in SUBSET (Dirs \cup Files)
    BY DEF InstallInv
  <2>2. hit \subseteq Dirs \cup Files
    BY <2>1 DEF InstallTypes
  <2> QED
    BY <1>2, <2>1, <2>2, CallHolds
<1>4. /\ UNCHANGED <<disk, toCopy, current, todo, file, source, dest, open, copied>>
      /\ open = {} /\ todo = {} /\ step = "check"
  BY DEF InstallInv, CopyingFile, Queue
<1>5. stack' \in Seq(Frames)
  <2>1. [dir |-> Root, left |-> {}] \in Frames
    BY TreeIsRooted DEF Frames
  <2> QED
    BY <1>1, <2>1 DEF InstallInv, InstallTypes
<1>6. InstallTypes'
  BY <1>1, <1>3, <1>4, <1>5 DEF InstallInv, InstallTypes
<1>7. DiskIsTree'
  BY <1>4 DEF InstallInv, DiskIsTree, IsTree
<1>8. NothingElse'
  <2>0. (exists = IsDirectory(Root)) \/ BreaksFor("query", {})
    BY <1>1 DEF Exists, Breaks
  <2>1. CASE step' = "create" /\ exists = IsDirectory(Root)
    <3>1. Root \notin DOMAIN disk
      BY <1>1, <2>1 DEF Present, IsDirectory, InstallInv, DiskIsTree
    <3>2. DOMAIN disk = {}
      <4>1. DOMAIN disk \subseteq Names /\ IsTree(DOMAIN disk)
        BY DEF InstallInv, InstallTypes, DiskIsTree
      <4> QED
        BY <3>1, <4>1, EmptyTree
    <3> QED
      BY <1>4, <3>2 DEF NothingElse
  <2>2. CASE step' = "create" /\ BreaksFor("query", {})
    BY <1>3, <2>2 DEF NothingElse
  <2> QED
    BY <1>1, <2>0, <2>1, <2>2 DEF NothingElse
<1>9. Deleting' /\ DeletingAll'
  <2>1. CASE exists
    <3>1. Root \in DOMAIN disk /\ disk[Root] = Directory
      BY <1>1, <2>1 DEF Exists, Present, IsDirectory
    <3>2. stack' = <<[dir |-> Root, left |-> {}]>> /\ step' = "list"
      BY <1>1, <2>1
    <3>3. /\ Len(stack') = 1 /\ DOMAIN stack' = {1} /\ stack'[1].dir = Root /\ stack'[1].left = {}
          /\ stack' # <<>>
      BY <3>2
    <3>4. Deleting'
      BY <1>4, <3>1, <3>3 DEF Deleting
    <3>5. DeletingAll'
      BY <3>2, <3>3 DEF DeletingAll
    <3> QED
      BY <3>4, <3>5
  <2>2. CASE ~exists
    BY <1>1, <2>2, NothingIsDeleted
  <2> QED
    BY <2>1, <2>2
<1>10. CopiedDirs' /\ Queue' /\ CopyingFile'
  BY <1>1, <1>4, NothingIsCopied DEF Idle
<1>11. Noticed'
  BY <1>1, <1>3, <1>4 DEF InstallInv, Noticed
<1> QED
  BY <1>6, <1>7, <1>8, <1>9, <1>10, <1>11 DEF InstallInv

(* The frames when the top one has other entries left.                      *)
LEMMA LeftHolds ==
  ASSUME stack \in Seq(Frames), stack # <<>>, NEW set \in SUBSET Names
  PROVE  /\ Left(stack, set) \in Seq(Frames) /\ Len(Left(stack, set)) = Len(stack)
         /\ DOMAIN Left(stack, set) = DOMAIN stack /\ DOMAIN stack = 1..Len(stack)
         /\ Len(stack) \in Nat \ {0}
         /\ Left(stack, set)[Len(stack)].dir = stack[Len(stack)].dir
         /\ Left(stack, set)[Len(stack)].left = set
         /\ \A i \in 1..(Len(stack) - 1) : Left(stack, set)[i] = stack[i]
         /\ Top = stack[Len(stack)] /\ Top \in Frames
<1> DEFINE t == Len(stack)
           s == Left(stack, set)
<1>1. t \in Nat \ {0} /\ DOMAIN stack = 1..t /\ \A i \in 1..t : stack[i] \in Frames
  OBVIOUS
<1>2. s = [stack EXCEPT ![t].left = set]
  BY DEF Left
<1> HIDE DEF t, s
<1>3. stack[t] \in Frames
  BY <1>1
<1>4. DOMAIN s = 1..t /\ \A i \in 1..(t - 1) : s[i] = stack[i]
  BY <1>1, <1>2
<1>5. s[t] = [stack[t] EXCEPT !.left = set]
  BY <1>1, <1>2
<1>6. s[t].dir = stack[t].dir /\ s[t].left = set /\ s[t] \in Frames
  BY <1>3, <1>5 DEF Frames
<1>7. s \in [1..t -> Frames]
  BY <1>1, <1>2, <1>3, <1>6 DEF Frames
<1>8. s \in Seq(Frames) /\ Len(s) = t
  BY <1>1, <1>7
<1> QED
  BY <1>1, <1>3, <1>4, <1>6, <1>8 DEF t, s, Top

(* The directory that is being deleted.                                     *)
LEMMA TopHolds ==
  ASSUME InstallInv, step \in {"list", "delete"}
  PROVE  /\ stack \in Seq(Frames) /\ stack # <<>> /\ stack[1].dir = Root
         /\ Len(stack) \in Nat \ {0} /\ DOMAIN stack = 1..Len(stack)
         /\ Top = stack[Len(stack)] /\ Top.dir \in DOMAIN disk /\ disk[Top.dir] = Directory
         /\ Top.left \subseteq Children(Top.dir, DOMAIN disk) /\ Top.left \subseteq Names
         /\ Top.dir \in Names /\ open = {} /\ todo = {} /\ DOMAIN disk \subseteq Names
<1>1. stack \in Seq(Frames) /\ stack # <<>> /\ stack[1].dir = Root
  BY DEF InstallInv, InstallTypes, Deleting
<1>2. Len(stack) \in Nat \ {0} /\ DOMAIN stack = 1..Len(stack) /\ stack[Len(stack)] \in Frames
  BY <1>1
<1>3. Len(stack) \in DOMAIN stack
  BY <1>2
<1>4. Top = stack[Len(stack)]
  BY DEF Top
<1>5. /\ Top.dir \in DOMAIN disk /\ disk[Top.dir] = Directory
      /\ Top.left \subseteq Children(Top.dir, DOMAIN disk)
  BY <1>3, <1>4 DEF InstallInv, Deleting
<1>6. open = {} /\ todo = {} /\ DOMAIN disk \subseteq Names
  BY DEF InstallInv, CopyingFile, Queue, InstallTypes
<1> QED
  BY <1>1, <1>2, <1>4, <1>5, <1>6 DEF Frames

(* Another list of entries for the top directory, and entries of it that    *)
(* are gone, leave the stack in order.                                      *)
LEMMA OrderHolds ==
  ASSUME InstallInv, step \in {"list", "delete"}, NEW set, set \subseteq Children(Top.dir, DOMAIN disk'),
         stack' = Left(stack, set), DOMAIN disk' \subseteq DOMAIN disk,
         \A n \in DOMAIN disk' : disk'[n] = disk[n],
         \A n \in DOMAIN disk \ DOMAIN disk' :
           n \in Children(Top.dir, DOMAIN disk) /\ disk[n] # Directory
  PROVE  Deleting' /\ stack' \in Seq(Frames)
<1> DEFINE t == Len(stack)
<1>1. /\ stack \in Seq(Frames) /\ stack # <<>> /\ stack[1].dir = Root
      /\ t \in Nat \ {0} /\ DOMAIN stack = 1..t /\ Top = stack[t] /\ DOMAIN disk \subseteq Names
  BY TopHolds
<1>2. set \subseteq Names
  BY <1>1 DEF Children
<1>3. /\ stack' \in Seq(Frames) /\ Len(stack') = t /\ DOMAIN stack' = 1..t
      /\ stack'[t].dir = stack[t].dir /\ stack'[t].left = set
      /\ \A i \in 1..(t - 1) : stack'[i] = stack[i]
  BY <1>1, <1>2, LeftHolds
<1> HIDE DEF t
<1>4. \A i \in 1..t : stack'[i].dir = stack[i].dir
  <2>1. \A i \in 1..t : i = t \/ i \in 1..(t - 1)
    BY <1>1
  <2> QED
    BY <1>3, <2>1
<1>5. /\ \A i \in 1..t : /\ stack[i].dir \in DOMAIN disk /\ disk[stack[i].dir] = Directory
                         /\ stack[i].left \subseteq Children(stack[i].dir, DOMAIN disk)
      /\ \A i, j \in 1..t : stack[i].dir = stack[j].dir => i = j
      /\ \A i \in 2..t : /\ stack[i].dir # Root /\ Parent[stack[i].dir] = stack[i - 1].dir
                         /\ stack[i].dir \notin stack[i - 1].left
  <2>1. \A i \in 2..t : i \in 1..t /\ i > 1
    BY <1>1
  <2> QED
    BY <1>1, <2>1 DEF InstallInv, Deleting
<1>6. stack' # <<>> /\ stack'[1].dir = Root
  BY <1>1, <1>3, <1>4
<1>7. ASSUME NEW i \in 1..t
      PROVE  /\ stack'[i].dir \in DOMAIN disk' /\ disk'[stack'[i].dir] = Directory
             /\ stack'[i].left \subseteq Children(stack'[i].dir, DOMAIN disk')
             /\ \A j \in 1..t : stack'[i].dir = stack'[j].dir => i = j
             /\ i > 1 => /\ stack'[i].dir # Root /\ Parent[stack'[i].dir] = stack'[i - 1].dir
                         /\ stack'[i].dir \notin stack'[i - 1].left
  <2>1. stack'[i].dir \in DOMAIN disk' /\ disk'[stack'[i].dir] = Directory
    BY <1>4, <1>5
  <2>2. stack'[i].left \subseteq Children(stack'[i].dir, DOMAIN disk')
    <3>1. CASE i = t
      BY <1>1, <1>3, <3>1
    <3>2. CASE i # t
      <4>1. i \in 1..(t - 1)
        BY <1>1, <3>2
      <4>2. stack[i].dir # Top.dir
        BY <1>1, <1>5, <3>2
      <4>3. stack'[i] = stack[i] /\ stack[i].left \subseteq Children(stack[i].dir, DOMAIN disk)
        BY <1>3, <1>5, <4>1
      <4>4. \A n \in stack[i].left : n \in DOMAIN disk /\ n # Root /\ Parent[n] = stack[i].dir
        BY <4>3 DEF Children
      <4>5. \A n \in stack[i].left : n \in DOMAIN disk'
        BY <4>2, <4>4 DEF Children
      <4> QED
        BY <4>3, <4>4, <4>5 DEF Children
    <3> QED
      BY <3>1, <3>2
  <2>3. \A j \in 1..t : stack'[i].dir = stack'[j].dir => i = j
    BY <1>4, <1>5
  <2>4. ASSUME i > 1
        PROVE  /\ stack'[i].dir # Root /\ Parent[stack'[i].dir] = stack'[i - 1].dir
               /\ stack'[i].dir \notin stack'[i - 1].left
    <3>1. i \in 2..t /\ i - 1 \in 1..t /\ i - 1 \in 1..(t - 1)
      BY <1>1, <2>4
    <3>2. stack'[i - 1] = stack[i - 1] /\ stack'[i].dir = stack[i].dir
      BY <1>3, <1>4, <3>1
    <3> QED
      BY <1>5, <3>1, <3>2
  <2> QED
    BY <2>1, <2>2, <2>3, <2>4
<1>8. Deleting'
  BY <1>3, <1>6, <1>7 DEF Deleting
<1> QED
  BY <1>3, <1>8

(* What is left of the directories under the top one is what it was.        *)
LEMMA RemainingHolds ==
  ASSUME InstallInv, step \in {"list", "delete"}, step' = "delete", NEW set \in SUBSET Names,
         stack' = Left(stack, set), DOMAIN disk' \subseteq DOMAIN disk, broken \subseteq broken',
         \A n \in DOMAIN disk \ DOMAIN disk' : n \in Children(Top.dir, DOMAIN disk),
         "listing" \in broken' \/ Children(Top.dir, DOMAIN disk') \subseteq set
  PROVE  DeletingAll'
<1> DEFINE t == Len(stack)
<1>1. /\ stack \in Seq(Frames) /\ stack # <<>> /\ t \in Nat \ {0} /\ DOMAIN stack = 1..t /\ Top = stack[t]
  BY TopHolds
<1>2. /\ Len(stack') = t /\ DOMAIN stack' = 1..t
      /\ stack'[t].dir = stack[t].dir /\ stack'[t].left = set
      /\ \A i \in 1..(t - 1) : stack'[i] = stack[i]
  BY <1>1, LeftHolds
<1> SUFFICES ASSUME NEW i \in 1..t, "listing" \notin broken'
             PROVE  Children(stack'[i].dir, DOMAIN disk') \subseteq Remaining(i)'
  BY <1>2 DEF DeletingAll
<1>3. CASE i = t
  <2>1. stack'[i].dir = Top.dir /\ Remaining(i)' = set
    BY <1>1, <1>2, <1>3 DEF Remaining
  <2> QED
    BY <2>1
<1>4. CASE i # t
  <2>1. i \in 1..(t - 1) /\ i + 1 \in 1..t /\ i < t
    <3>1. t \in Nat \ {0}
      BY <1>1
    <3> HIDE DEF t
    <3> QED
      BY <1>4, <3>1
  <2>2. Children(stack[i].dir, DOMAIN disk) \subseteq Remaining(i)
    BY <1>1, <1>4 DEF InstallInv, DeletingAll
  <2>3. stack'[i + 1].dir = stack[i + 1].dir
    <3>1. i + 1 = t \/ i + 1 \in 1..(t - 1)
      <4>1. t \in Nat /\ i \in 1..(t - 1)
        BY <1>1, <2>1
      <4> HIDE DEF t
      <4> QED
        BY <4>1
    <3> QED
      BY <1>2, <3>1
  <2>4. stack'[i] = stack[i]
    BY <1>2, <2>1
  <2>5. Remaining(i)' = Remaining(i)
    BY <1>2, <2>1, <2>3, <2>4 DEF Remaining
  <2>6. Children(stack'[i].dir, DOMAIN disk') \subseteq Children(stack[i].dir, DOMAIN disk)
    BY <2>4 DEF Children
  <2> QED
    BY <2>2, <2>5, <2>6
<1> QED
  BY <1>3, <1>4

(* A directory's entries are listed: all of them, or the listing is cut     *)
(* short.                                                                   *)
LEMMA ListToDeleteHolds == ASSUME InstallInv, ListToDelete PROVE InstallInv'
<1> DEFINE names == Children(Top.dir, DOMAIN disk)
<1>1. /\ step = "list" /\ UNCHANGED <<disk, toCopy, current, todo, file, source, dest, open, copied>>
      /\ \/ Works /\ step' = "delete" /\ stack' = Left(stack, names)
         \/ /\ BreaksFor("listing", {}) /\ step' = "delete"
            /\ \E part \in CutShort(names) : stack' = Left(stack, part)
         \/ BreaksFor("list", {}) /\ step' = "failed" /\ UNCHANGED stack
  BY DEF ListToDelete, StepTo, Breaks, copy
<1>2. /\ stack \in Seq(Frames) /\ open = {} /\ todo = {} /\ DOMAIN disk \subseteq Names
  BY <1>1, TopHolds
<1> HIDE DEF names
<1>3. DiskIsTree' /\ NothingElse' /\ CopiedDirs' /\ Queue' /\ CopyingFile'
  <2>1. step' \in Idle /\ step' \notin {"create"} \cup Copying
    BY <1>1 DEF Idle
  <2>2. DiskIsTree'
    BY <1>1 DEF InstallInv, DiskIsTree, IsTree
  <2> QED
    BY <1>1, <1>2, <2>1, <2>2, NothingIsCopied DEF NothingElse
<1>4. ASSUME NEW set, set \subseteq names, step' = "delete", stack' = Left(stack, set),
             broken \subseteq broken', "listing" \in broken' \/ set = names
      PROVE  Deleting' /\ stack' \in Seq(Frames) /\ DeletingAll'
  <2>1. set \subseteq Children(Top.dir, DOMAIN disk) /\ set \in SUBSET Names
    BY <1>2, <1>4 DEF names, Children
  <2>2. Deleting' /\ stack' \in Seq(Frames)
    BY <1>1, <1>4, <2>1, OrderHolds
  <2>3. DeletingAll'
    BY <1>1, <1>4, <2>1, RemainingHolds DEF names
  <2> QED
    BY <2>2, <2>3
<1>5. InstallTypes /\ {} \in SUBSET (Dirs \cup Files) /\ Noticed
  BY DEF InstallInv
<1>6. CASE Works /\ step' = "delete" /\ stack' = Left(stack, names)
  <2>1. /\ faults' \in 0..MaxFaults /\ starts' \in 0..MaxStarts /\ hit' \subseteq Dirs \cup Files
        /\ broken' = broken /\ hit' = hit
    BY <1>5, <1>6, CallHolds
  <2>2. Deleting' /\ stack' \in Seq(Frames) /\ DeletingAll'
    BY <1>4, <1>6, <2>1
  <2>3. InstallTypes' /\ Noticed'
    BY <1>1, <1>5, <1>6, <2>1, <2>2 DEF InstallTypes, Noticed
  <2> QED
    BY <1>3, <2>2, <2>3 DEF InstallInv
<1>7. CASE /\ BreaksFor("listing", {}) /\ step' = "delete"
           /\ \E part \in CutShort(names) : stack' = Left(stack, part)
  <2>1. /\ faults' \in 0..MaxFaults /\ starts' \in 0..MaxStarts /\ hit' \subseteq Dirs \cup Files
        /\ broken' = broken \cup {"listing"} /\ hit' = hit
    BY <1>5, <1>7, CallBreaks
  <2>2. PICK part : part \subseteq names /\ stack' = Left(stack, part)
    BY <1>7 DEF CutShort
  <2>3. Deleting' /\ stack' \in Seq(Frames) /\ DeletingAll'
    BY <1>4, <1>7, <2>1, <2>2
  <2>4. InstallTypes' /\ Noticed'
    BY <1>1, <1>5, <1>7, <2>1, <2>3 DEF InstallTypes, Noticed
  <2> QED
    BY <1>3, <2>3, <2>4 DEF InstallInv
<1>8. CASE BreaksFor("list", {}) /\ step' = "failed" /\ UNCHANGED stack
  <2>1. /\ faults' \in 0..MaxFaults /\ starts' \in 0..MaxStarts /\ hit' \subseteq Dirs \cup Files
        /\ broken' = broken \cup {"list"} /\ hit' = hit
    BY <1>5, <1>8, CallBreaks
  <2>2. InstallTypes' /\ Noticed'
    BY <1>1, <1>5, <1>8, <2>1 DEF InstallTypes, Noticed
  <2> QED
    BY <1>3, <1>8, <2>2, NothingIsDeleted DEF InstallInv
<1> QED
  BY <1>1, <1>6, <1>7, <1>8

(* An entry that is a file is deleted.                                      *)
LEMMA DeleteFileHolds == ASSUME InstallInv, DeleteFile PROVE InstallInv'
<1>1. PICK n \in Top.left :
        /\ disk[n] # Directory
        /\ \/ Works /\ disk' = Without(n) /\ stack' = Left(stack, Top.left \ {n}) /\ UNCHANGED step
           \/ BreaksFor("delete", {}) /\ step' = "failed" /\ UNCHANGED <<disk, stack>>
  BY DEF DeleteFile, StepTo, Breaks
<1>2. step = "delete" /\ UNCHANGED <<toCopy, current, todo, file, source, dest, open, copied>>
  BY DEF DeleteFile, copy
<1>3. /\ stack \in Seq(Frames) /\ open = {} /\ todo = {} /\ DOMAIN disk \subseteq Names
      /\ Top.left \subseteq Children(Top.dir, DOMAIN disk) /\ Top.left \subseteq Names
      /\ Len(stack) \in Nat \ {0}
  BY <1>2, TopHolds
<1>4. NothingElse' /\ CopiedDirs' /\ Queue' /\ CopyingFile'
  <2>1. step' \in Idle /\ step' \notin {"create"} \cup Copying
    BY <1>1, <1>2 DEF Idle
  <2> QED
    BY <1>2, <1>3, <2>1, NothingIsCopied DEF NothingElse
<1>5. InstallTypes /\ {} \in SUBSET (Dirs \cup Files) /\ Noticed /\ DiskIsTree
  BY DEF InstallInv
<1>6. CASE Works /\ disk' = Without(n) /\ stack' = Left(stack, Top.left \ {n}) /\ UNCHANGED step
  <2>1. /\ faults' \in 0..MaxFaults /\ starts' \in 0..MaxStarts /\ hit' \subseteq Dirs \cup Files
        /\ broken' = broken /\ hit' = hit
    BY <1>5, <1>6, CallHolds
  <2>2. n \in Children(Top.dir, DOMAIN disk) /\ n \in DOMAIN disk
    BY <1>3 DEF Children
  <2>3. Children(n, DOMAIN disk) = {}
    <3>1. ASSUME NEW m \in Children(n, DOMAIN disk) PROVE FALSE
      <4>1. m \in Names \ {Root} /\ Parent[m] = n
        BY <1>3, <3>1 DEF Children
      <4>2. m \in DOMAIN disk \ {Root}
        BY <3>1 DEF Children
      <4> QED
        BY <1>1, <1>5, <4>1, <4>2 DEF DiskIsTree
    <3> QED
      BY <3>1
  <2>4. /\ disk' \in [DOMAIN disk' -> Contents] /\ DOMAIN disk' = DOMAIN disk \ {n}
        /\ DOMAIN disk' \subseteq Names
        /\ \A m \in DOMAIN disk \ {n} : disk'[m] = disk[m]
        /\ DiskIsTree'
    BY <1>5, <1>6, <2>2, <2>3, WithoutHolds
  <2>5. Top.left \ {n} \subseteq Children(Top.dir, DOMAIN disk')
    BY <1>3, <2>4 DEF Children
  <2>6. Deleting' /\ stack' \in Seq(Frames)
    BY <1>1, <1>2, <1>6, <2>2, <2>4, <2>5, OrderHolds
  <2>7. "listing" \in broken' \/ Children(Top.dir, DOMAIN disk') \subseteq Top.left \ {n}
    <3>1. "listing" \in broken \/ Children(Top.dir, DOMAIN disk) \subseteq Top.left
      <4>1. Len(stack) \in DOMAIN stack /\ Remaining(Len(stack)) = Top.left
        BY <1>3 DEF Remaining, Top
      <4> QED
        BY <1>2, <4>1 DEF InstallInv, DeletingAll, Top
    <3> QED
      BY <2>1, <2>4, <3>1 DEF Children
  <2>8. DeletingAll'
    <3>1. Top.left \ {n} \in SUBSET Names /\ step' = "delete"
      BY <1>2, <1>3, <1>6
    <3> QED
      BY <1>2, <1>6, <2>1, <2>2, <2>4, <2>7, <3>1, RemainingHolds
  <2>9. InstallTypes' /\ Noticed'
    BY <1>2, <1>5, <1>6, <2>1, <2>4, <2>6 DEF InstallTypes, Noticed
  <2> QED
    BY <1>4, <2>4, <2>6, <2>8, <2>9 DEF InstallInv
<1>7. CASE BreaksFor("delete", {}) /\ step' = "failed" /\ UNCHANGED <<disk, stack>>
  <2>1. /\ faults' \in 0..MaxFaults /\ starts' \in 0..MaxStarts /\ hit' \subseteq Dirs \cup Files
        /\ broken' = broken \cup {"delete"} /\ hit' = hit
    BY <1>5, <1>7, CallBreaks
  <2>2. InstallTypes' /\ Noticed' /\ DiskIsTree'
    BY <1>2, <1>5, <1>7, <2>1 DEF InstallTypes, Noticed, DiskIsTree, IsTree
  <2> QED
    BY <1>4, <1>7, <2>2, NothingIsDeleted DEF InstallInv
<1> QED
  BY <1>1, <1>6, <1>7

(* An entry that is a directory gets a call of its own.                     *)
LEMMA DeleteSubdirectoryHolds == ASSUME InstallInv, DeleteSubdirectory PROVE InstallInv'
<1> DEFINE t == Len(stack)
           frame(n) == [dir |-> n, left |-> {}]
<1>1. PICK n \in Top.left :
        /\ disk[n] = Directory
        /\ stack' = Append(Left(stack, Top.left \ {n}), frame(n))
  BY DEF DeleteSubdirectory
<1>2. /\ step = "delete" /\ step' = "list" /\ Works
      /\ UNCHANGED <<disk, toCopy, current, todo, file, source, dest, open, copied>>
  BY DEF DeleteSubdirectory, copy, StepTo
<1>3. /\ stack \in Seq(Frames) /\ stack # <<>> /\ stack[1].dir = Root
      /\ t \in Nat \ {0} /\ DOMAIN stack = 1..t /\ Top = stack[t] /\ DOMAIN disk \subseteq Names
      /\ Top.left \subseteq Children(Top.dir, DOMAIN disk) /\ Top.left \subseteq Names /\ open = {} /\ todo = {}
  BY <1>2, TopHolds
<1>4. /\ faults' \in 0..MaxFaults /\ starts' \in 0..MaxStarts /\ hit' \subseteq Dirs \cup Files
      /\ broken' = broken /\ hit' = hit
  <2>1. InstallTypes /\ {} \in SUBSET (Dirs \cup Files)
    BY DEF InstallInv
  <2> QED
    BY <1>2, <2>1, CallHolds
<1>5. n \in DOMAIN disk /\ n # Root /\ Parent[n] = Top.dir /\ n \in Names
  BY <1>3 DEF Children
<1> DEFINE s == Left(stack, Top.left \ {n})
<1>6. /\ s \in Seq(Frames) /\ Len(s) = t
      /\ s[t].dir = stack[t].dir /\ s[t].left = Top.left \ {n}
      /\ \A i \in 1..(t - 1) : s[i] = stack[i]
  <2>1. Top.left \ {n} \in SUBSET Names
    BY <1>3
  <2> QED
    BY <1>3, <2>1, LeftHolds
<1> HIDE DEF t, s
<1>7. /\ stack' \in Seq(Frames) /\ Len(stack') = t + 1 /\ DOMAIN stack' = 1..(t + 1)
      /\ stack'[t + 1] = frame(n) /\ \A i \in 1..t : stack'[i] = s[i]
  <2>1. frame(n) \in Frames
    BY <1>5 DEF Frames
  <2> HIDE DEF frame
  <2>2. stack' = Append(s, frame(n))
    BY <1>1 DEF s
  <2> QED
    BY <1>3, <1>6, <2>1, <2>2
<1>8. /\ stack'[t + 1].dir = n /\ stack'[t + 1].left = {}
      /\ stack'[t].left = Top.left \ {n}
      /\ \A i \in 1..t : stack'[i].dir = stack[i].dir /\ stack'[i].left \subseteq stack[i].left
      /\ \A i \in 1..(t - 1) : stack'[i] = stack[i]
  <2>1. \A i \in 1..t : i = t \/ i \in 1..(t - 1)
    BY <1>3
  <2>2. t \in 1..t /\ 1..(t - 1) \subseteq 1..t
    BY <1>3
  <2> QED
    BY <1>3, <1>6, <1>7, <2>1, <2>2
<1>9. /\ \A i \in 1..t : /\ stack[i].dir \in DOMAIN disk /\ disk[stack[i].dir] = Directory
                         /\ stack[i].left \subseteq Children(stack[i].dir, DOMAIN disk)
      /\ \A i, j \in 1..t : stack[i].dir = stack[j].dir => i = j
      /\ \A i \in 2..t : /\ stack[i].dir # Root /\ Parent[stack[i].dir] = stack[i - 1].dir
                         /\ stack[i].dir \notin stack[i - 1].left
  <2>1. \A i \in 2..t : i \in 1..t /\ i > 1
    BY <1>3
  <2> QED
    BY <1>2, <1>3, <2>1 DEF InstallInv, Deleting
<1>10. \A i \in 1..t : stack[i].dir # n
  <2> SUFFICES ASSUME NEW i \in 1..t, stack[i].dir = n PROVE FALSE
    OBVIOUS
  <2>1. i # 1
    BY <1>3, <1>5
  <2>2. i \in 2..t /\ i - 1 \in 1..t /\ i - 1 # t
    BY <1>3, <2>1
  <2>3. Parent[n] = stack[i - 1].dir
    BY <1>9, <2>2
  <2>4. t \in 1..t
    BY <1>3
  <2> QED
    BY <1>3, <1>5, <1>9, <2>2, <2>3, <2>4
<1>11. Deleting'
  <2>1. ASSUME NEW i \in 1..(t + 1)
        PROVE  /\ stack'[i].dir \in DOMAIN disk /\ disk[stack'[i].dir] = Directory
               /\ stack'[i].left \subseteq Children(stack'[i].dir, DOMAIN disk)
               /\ \A j \in 1..(t + 1) : stack'[i].dir = stack'[j].dir => i = j
               /\ i > 1 => /\ stack'[i].dir # Root /\ Parent[stack'[i].dir] = stack'[i - 1].dir
                           /\ stack'[i].dir \notin stack'[i - 1].left
    <3>0. \A j \in 1..(t + 1) : j = t + 1 \/ j \in 1..t
      BY <1>3
    <3>1. CASE i = t + 1
      <4>1. stack'[i].dir = n /\ stack'[i].left = {} /\ i - 1 = t /\ t \in 1..t
        BY <1>3, <1>8, <3>1
      <4>2. \A j \in 1..(t + 1) : stack'[j].dir = n => i = j
        BY <1>8, <1>10, <3>0, <3>1
      <4>3. /\ stack'[i].dir # Root /\ Parent[stack'[i].dir] = stack'[i - 1].dir
            /\ stack'[i].dir \notin stack'[i - 1].left
        <5>1. stack'[i - 1].dir = Top.dir /\ stack'[i - 1].left = Top.left \ {n}
          BY <1>3, <1>8, <4>1
        <5> QED
          BY <1>5, <4>1, <5>1
      <4>4. stack'[i].left \subseteq Children(stack'[i].dir, DOMAIN disk)
        BY <4>1
      <4> QED
        BY <1>1, <1>5, <4>1, <4>2, <4>3, <4>4
    <3>2. CASE i \in 1..t
      <4>1. \A j \in 1..(t + 1) : stack'[i].dir = stack'[j].dir => i = j
        BY <1>8, <1>9, <1>10, <3>0, <3>2
      <4>2. ASSUME i > 1
            PROVE  /\ stack'[i].dir # Root /\ Parent[stack'[i].dir] = stack'[i - 1].dir
                   /\ stack'[i].dir \notin stack'[i - 1].left
        <5>1. i \in 2..t /\ i - 1 \in 1..t
          BY <1>3, <3>2, <4>2
        <5> QED
          BY <1>8, <1>9, <3>2, <5>1
      <4> QED
        BY <1>8, <1>9, <3>2, <4>1, <4>2
    <3> QED
      BY <3>0, <3>1, <3>2
  <2>2. stack' # <<>> /\ stack'[1].dir = Root
    <3>1. 1 \in 1..t
      BY <1>3
    <3> QED
      BY <1>3, <1>7, <1>8, <3>1
  <2> QED
    BY <1>2, <1>7, <2>1, <2>2 DEF Deleting
<1>12. DeletingAll'
  <2> SUFFICES ASSUME NEW i \in 1..(t + 1), i # t + 1, "listing" \notin broken
               PROVE  Children(stack'[i].dir, DOMAIN disk) \subseteq Remaining(i)'
    BY <1>2, <1>4, <1>7 DEF DeletingAll
  <2>1. i \in 1..t /\ i < t + 1
    BY <1>3
  <2>2. Children(stack[i].dir, DOMAIN disk) \subseteq Remaining(i)
    BY <1>2, <1>3, <2>1 DEF InstallInv, DeletingAll
  <2>3. Remaining(i)' = stack'[i].left \cup {stack'[i + 1].dir}
    BY <1>7, <2>1 DEF Remaining
  <2>4. Remaining(i) \subseteq Remaining(i)'
    <3>1. CASE i = t
      <4>1. Remaining(i) = Top.left
        <5>1. t \in Nat /\ ~(i < t)
          BY <1>3, <3>1
        <5> QED
          BY <1>3, <3>1, <5>1 DEF Remaining, t
      <4> QED
        BY <1>8, <2>3, <3>1, <4>1
    <3>2. CASE i # t
      <4>1. i \in 1..(t - 1) /\ i + 1 \in 1..t /\ i < t
        BY <1>3, <2>1, <3>2
      <4>2. Remaining(i) = stack[i].left \cup {stack[i + 1].dir}
        BY <4>1 DEF Remaining, t
      <4> QED
        BY <1>8, <2>3, <4>1, <4>2
    <3> QED
      BY <3>1, <3>2
  <2> QED
    BY <1>8, <2>1, <2>2, <2>4
<1>13. NothingElse' /\ CopiedDirs' /\ Queue' /\ CopyingFile' /\ DiskIsTree'
  <2>1. step' \in Idle /\ step' \notin {"create"} \cup Copying
    BY <1>2 DEF Idle
  <2>2. DiskIsTree'
    BY <1>2 DEF InstallInv, DiskIsTree, IsTree
  <2> QED
    BY <1>2, <1>3, <2>1, <2>2, NothingIsCopied DEF NothingElse
<1>14. InstallTypes' /\ Noticed'
  BY <1>2, <1>4, <1>7 DEF InstallInv, InstallTypes, Noticed
<1> QED
  BY <1>11, <1>12, <1>13, <1>14 DEF InstallInv

(* A directory without entries is removed, the media directory last.        *)
LEMMA RemoveDirectoryHolds == ASSUME InstallInv, RemoveDirectory PROVE InstallInv'
<1> DEFINE t == Len(stack)
           d == Top.dir
<1>1. /\ \/ /\ Works /\ Children(d, DOMAIN disk) = {}
            /\ disk' = Without(d) /\ stack' = Popped
            /\ step' = IF Popped = <<>> THEN "create" ELSE "delete"
         \/ /\ Works /\ Children(d, DOMAIN disk) # {}
            /\ step' = "failed" /\ UNCHANGED <<disk, stack>>
         \/ BreaksFor("delete", {}) /\ step' = "failed" /\ UNCHANGED <<disk, stack>>
      /\ step = "delete" /\ Top.left = {}
      /\ UNCHANGED <<toCopy, current, todo, file, source, dest, open, copied>>
  BY DEF RemoveDirectory, copy, StepTo, Breaks
<1>2. /\ stack \in Seq(Frames) /\ stack # <<>> /\ stack[1].dir = Root
      /\ t \in Nat \ {0} /\ DOMAIN stack = 1..t /\ Top = stack[t] /\ DOMAIN disk \subseteq Names
      /\ d \in DOMAIN disk /\ open = {} /\ todo = {}
  BY <1>1, TopHolds
<1>3. InstallTypes /\ {} \in SUBSET (Dirs \cup Files) /\ Noticed /\ DiskIsTree
  BY DEF InstallInv
<1>4. CASE step' = "failed" /\ UNCHANGED <<disk, stack>>
  <2>1. /\ faults' \in 0..MaxFaults /\ starts' \in 0..MaxStarts /\ hit' \subseteq Dirs \cup Files
        /\ hit' = hit /\ broken' # {}
    <3>1. CASE BreaksFor("delete", {})
      BY <1>3, <3>1, CallBreaks
    <3>2. CASE Works /\ Children(d, DOMAIN disk) # {}
      <4>1. t \in DOMAIN stack /\ Remaining(t) = {}
        BY <1>1, <1>2 DEF Remaining
      <4>2. "listing" \in broken
        BY <1>1, <1>2, <3>2, <4>1 DEF InstallInv, DeletingAll
      <4> QED
        BY <1>3, <3>2, <4>2, CallHolds
    <3>3. BreaksFor("delete", {}) \/ (Works /\ Children(d, DOMAIN disk) # {})
      BY <1>1, <1>4
    <3> QED
      BY <3>1, <3>2, <3>3
  <2>2. InstallTypes' /\ Noticed' /\ DiskIsTree'
    BY <1>1, <1>3, <1>4, <2>1 DEF InstallTypes, Noticed, DiskIsTree, IsTree
  <2>3. step' \in Idle /\ step' \notin {"create"} \cup Copying
    BY <1>4 DEF Idle
  <2> QED
    BY <1>1, <1>2, <1>4, <2>2, <2>3, NothingIsCopied, NothingIsDeleted DEF InstallInv, NothingElse
<1>5. CASE /\ Works /\ Children(d, DOMAIN disk) = {}
           /\ disk' = Without(d) /\ stack' = Popped
           /\ step' = IF Popped = <<>> THEN "create" ELSE "delete"
  <2>1. /\ faults' \in 0..MaxFaults /\ starts' \in 0..MaxStarts /\ hit' \subseteq Dirs \cup Files
        /\ broken' = broken /\ hit' = hit
    BY <1>3, <1>5, CallHolds
  <2>2. /\ disk' \in [DOMAIN disk' -> Contents] /\ DOMAIN disk' = DOMAIN disk \ {d}
        /\ DOMAIN disk' \subseteq Names
        /\ \A m \in DOMAIN disk \ {d} : disk'[m] = disk[m]
        /\ DiskIsTree'
    BY <1>2, <1>3, <1>5, WithoutHolds
  <2>3. /\ stack' = SubSeq(stack, 1, t - 1) /\ stack' \in Seq(Frames) /\ Len(stack') = t - 1
        /\ DOMAIN stack' = 1..(t - 1) /\ \A i \in 1..(t - 1) : stack'[i] = stack[i]
    <3>1. stack' = SubSeq(stack, 1, t - 1)
      BY <1>5 DEF Popped
    <3> QED
      BY <1>2, <3>1
  <2> HIDE DEF t, d
  <2>4. CopiedDirs' /\ Queue' /\ CopyingFile'
    <3>1. step' \in Idle
      BY <1>5 DEF Idle
    <3> QED
      BY <1>1, <1>2, <3>1, NothingIsCopied
  <2>5. InstallTypes' /\ Noticed'
    <3>1. step' \in {"create", "delete"}
      BY <1>5
    <3> QED
      BY <1>1, <1>3, <2>1, <2>2, <2>3, <3>1 DEF InstallTypes, Noticed
  <2>6. CASE t = 1
    <3>1. step' = "create" /\ Root \notin DOMAIN disk'
      <4>1. stack' = <<>> /\ d = Root
        BY <1>2, <2>3, <2>6 DEF d
      <4> QED
        BY <1>5, <2>2, <4>1
    <3>2. DOMAIN disk' = {}
      <4>1. IsTree(DOMAIN disk')
        BY <2>2 DEF DiskIsTree, IsTree
      <4> QED
        BY <2>2, <3>1, <4>1, EmptyTree
    <3>3. NothingElse'
      BY <3>2 DEF NothingElse
    <3> QED
      BY <2>2, <2>4, <2>5, <3>1, <3>3, NothingIsDeleted DEF InstallInv
  <2>7. CASE t > 1
    <3>1. step' = "delete" /\ stack' # <<>>
      <4>1. stack' # <<>>
        BY <1>2, <2>3, <2>7
      <4> QED
        BY <1>5, <4>1
    <3>2. /\ \A i \in 1..t : /\ stack[i].dir \in DOMAIN disk /\ disk[stack[i].dir] = Directory
                             /\ stack[i].left \subseteq Children(stack[i].dir, DOMAIN disk)
          /\ \A i, j \in 1..t : stack[i].dir = stack[j].dir => i = j
          /\ \A i \in 2..t : /\ stack[i].dir # Root /\ Parent[stack[i].dir] = stack[i - 1].dir
                             /\ stack[i].dir \notin stack[i - 1].left
      <4>1. \A i \in 2..t : i \in 1..t /\ i > 1
        BY <1>2
      <4> QED
        BY <1>1, <1>2, <4>1 DEF InstallInv, Deleting
    <3>3. /\ d = stack[t].dir /\ t \in 2..t /\ t \in 1..t /\ t - 1 \in 1..t /\ d # Root
          /\ Parent[d] = stack[t - 1].dir /\ d \notin stack[t - 1].left
      <4>1. d = stack[t].dir /\ t \in 2..t /\ t - 1 \in 1..t
        BY <1>2, <2>7 DEF d
      <4> QED
        BY <1>2, <3>2, <4>1
    <3>4. ASSUME NEW i \in 1..(t - 1)
          PROVE  i \in 1..t /\ i # t /\ stack[i].dir # d /\ d \notin stack[i].left
      <4>1. i \in 1..t /\ i # t
        BY <1>2
      <4>2. stack[i].dir # d
        BY <3>2, <3>3, <4>1
      <4>3. ASSUME d \in stack[i].left PROVE FALSE
        <5>1. Parent[d] = stack[i].dir
          BY <3>2, <4>1, <4>3 DEF Children
        <5>2. i = t - 1
          BY <3>2, <3>3, <4>1, <5>1
        <5> QED
          BY <3>3, <4>3, <5>2
      <4> QED
        BY <4>1, <4>2, <4>3
    <3>5. Deleting'
      <4>1. ASSUME NEW i \in 1..(t - 1)
            PROVE  /\ stack'[i].dir \in DOMAIN disk' /\ disk'[stack'[i].dir] = Directory
                   /\ stack'[i].left \subseteq Children(stack'[i].dir, DOMAIN disk')
                   /\ \A j \in 1..(t - 1) : stack'[i].dir = stack'[j].dir => i = j
                   /\ i > 1 => /\ stack'[i].dir # Root /\ Parent[stack'[i].dir] = stack'[i - 1].dir
                               /\ stack'[i].dir \notin stack'[i - 1].left
        <5>1. stack'[i].dir \in DOMAIN disk' /\ disk'[stack'[i].dir] = Directory
          BY <2>2, <2>3, <3>2, <3>4
        <5>2. stack'[i].left \subseteq Children(stack'[i].dir, DOMAIN disk')
          BY <2>2, <2>3, <3>2, <3>4 DEF Children
        <5>3. \A j \in 1..(t - 1) : stack'[i].dir = stack'[j].dir => i = j
          BY <2>3, <3>2, <3>4
        <5>4. ASSUME i > 1
              PROVE  /\ stack'[i].dir # Root /\ Parent[stack'[i].dir] = stack'[i - 1].dir
                     /\ stack'[i].dir \notin stack'[i - 1].left
          <6>1. i \in 2..t /\ i - 1 \in 1..(t - 1)
            BY <1>2, <5>4
          <6> QED
            BY <2>3, <3>2, <6>1
        <5> QED
          BY <5>1, <5>2, <5>3, <5>4
      <4>2. stack'[1].dir = Root
        <5>1. 1 \in 1..(t - 1)
          BY <1>2, <2>7
        <5> QED
          BY <1>2, <2>3, <5>1
      <4> QED
        BY <2>3, <3>1, <4>1, <4>2 DEF Deleting
    <3>6. DeletingAll'
      <4> SUFFICES ASSUME NEW i \in 1..(t - 1), "listing" \notin broken
                   PROVE  Children(stack'[i].dir, DOMAIN disk') \subseteq Remaining(i)'
        BY <2>1, <2>3 DEF DeletingAll
      <4>1. i \in 1..t /\ i < t
        BY <1>2
      <4>2. Children(stack[i].dir, DOMAIN disk) \subseteq stack[i].left \cup {stack[i + 1].dir}
        BY <1>1, <1>2, <4>1 DEF InstallInv, DeletingAll, Remaining, t
      <4>3. Children(stack[i].dir, DOMAIN disk') \subseteq Children(stack[i].dir, DOMAIN disk) \ {d}
        BY <2>2 DEF Children
      <4>4. stack'[i] = stack[i]
        BY <2>3
      <4>5. CASE i = t - 1
        <5>1. i + 1 = t
          BY <1>2, <4>5
        <5> QED
          BY <3>3, <4>2, <4>3, <4>4, <5>1 DEF Remaining
      <4>6. CASE i # t - 1
        <5>1. i + 1 \in 1..(t - 1) /\ i < t - 1
          BY <1>2, <4>6
        <5>2. Remaining(i)' = stack[i].left \cup {stack[i + 1].dir}
          BY <2>3, <4>4, <5>1 DEF Remaining
        <5> QED
          BY <4>2, <4>3, <4>4, <5>2
      <4> QED
        BY <4>5, <4>6
    <3>7. NothingElse'
      BY <3>1 DEF NothingElse
    <3> QED
      BY <2>2, <2>4, <2>5, <3>5, <3>6, <3>7 DEF InstallInv
  <2> QED
    BY <1>2, <2>6, <2>7
<1> QED
  BY <1>1, <1>4, <1>5

-----------------------------------------------------------------------------
(* DirectoryCreate: the directory is there, or the installation fails.      *)
LEMMA DirectoryHolds ==
  ASSUME InstallTypes, DiskIsTree, Noticed, NothingElse, step \in {"create", "next"},
         NEW d \in Dirs, NEW next, DirectoryCreate(d, next),
         d = Root \/ IsDirectory(Parent[d])
  PROVE  /\ disk' \in [DOMAIN disk' -> Contents] /\ DOMAIN disk' \subseteq Names
         /\ DOMAIN disk \subseteq DOMAIN disk' /\ DOMAIN disk' \subseteq DOMAIN disk \cup {d}
         /\ \A n \in DOMAIN disk : disk'[n] = disk[n]
         /\ \A n \in DOMAIN disk' \ DOMAIN disk : disk'[n] = Directory
         /\ DiskIsTree'
         /\ faults' \in 0..MaxFaults /\ starts' \in 0..MaxStarts /\ hit' = hit /\ broken \subseteq broken'
         /\ \/ step' = next /\ d \in DOMAIN disk' /\ disk'[d] = Directory /\ broken' \subseteq Unnoticed
            \/ step' = "failed" /\ broken' # {}
<1> USE DEF Present, IsDirectory
<1>1. /\ disk \in [DOMAIN disk -> Contents] /\ DOMAIN disk \subseteq Names
      /\ faults \in 0..MaxFaults /\ starts \in 0..MaxStarts /\ broken \subseteq Unnoticed
  BY DEF InstallTypes, Noticed
<1>2. ASSUME Works \/ BreaksFor("query", {})
      PROVE  /\ faults' \in 0..MaxFaults /\ starts' \in 0..MaxStarts /\ hit' = hit
             /\ broken \subseteq broken' /\ broken' \subseteq Unnoticed
             /\ BreaksFor("query", {}) => broken' # {}
  <2>1. CASE Works
    <3>1. /\ faults' = faults /\ starts' = starts /\ broken' = broken /\ hit' = hit
      BY <2>1 DEF Works, history
    <3>2. BreaksFor("query", {}) => broken' # {}
      BY DEF BreaksFor, Records
    <3> QED
      BY <1>1, <3>1, <3>2
  <2>2. CASE BreaksFor("query", {})
    BY <1>1, <2>2, CallBreaks
  <2> QED
    BY <1>2, <2>1, <2>2
<1>3. CASE disk' = disk
  <2>1. DiskIsTree'
    BY <1>3 DEF DiskIsTree, IsTree
  <2>2. CASE BreaksFor("create", {}) /\ step' = "failed"
    BY <1>1, <1>3, <2>1, <2>2, CallBreaks
  <2>3. CASE \E exists \in BOOLEAN :
               /\ Exists(d, exists)
               /\ (exists /\ step' = next) \/ (~exists /\ Present(d) /\ step' = "failed")
    <3>1. PICK exists \in BOOLEAN :
               /\ Exists(d, exists)
               /\ (exists /\ step' = next) \/ (~exists /\ Present(d) /\ step' = "failed")
      BY <2>3
    <3>2. /\ Works \/ BreaksFor("query", {})
          /\ exists => IsDirectory(d)
          /\ ~exists /\ IsDirectory(d) => BreaksFor("query", {})
      BY <3>1 DEF Exists, Breaks
    <3>3. ~exists /\ Present(d) => broken' # {}
      <4>1. CASE IsDirectory(d)
        BY <1>2, <3>2, <4>1
      <4>2. CASE Present(d) /\ ~IsDirectory(d)
        <5>1. "query" \in broken
          BY <4>2 DEF NothingElse
        <5> QED
          BY <1>2, <3>2, <5>1
      <4> QED
        BY <4>1, <4>2
    <3> QED
      BY <1>1, <1>2, <1>3, <2>1, <3>1, <3>2, <3>3
  <2>4. CASE \E exists \in BOOLEAN :
               Exists(d, exists) /\ ~exists /\ ~Present(d) /\ step' = next /\ disk' = With(d, Directory)
    <3>1. d \in DOMAIN With(d, Directory)
      BY DEF With
    <3> QED
      BY <1>3, <2>4, <3>1
  <2> QED
    BY <1>3, <2>2, <2>3, <2>4 DEF DirectoryCreate, StepTo, Breaks
<1>4. CASE \E exists \in BOOLEAN :
             Exists(d, exists) /\ ~exists /\ ~Present(d) /\ step' = next /\ disk' = With(d, Directory)
  <2>1. Works \/ BreaksFor("query", {})
    BY <1>4 DEF Exists, Breaks
  <2>2. /\ disk' \in [DOMAIN disk' -> Contents] /\ DOMAIN disk' = DOMAIN disk \cup {d}
        /\ DOMAIN disk' \subseteq Names /\ disk'[d] = Directory
        /\ \A m \in DOMAIN disk \ {d} : disk'[m] = disk[m]
        /\ DiskIsTree'
    <3>1. /\ Directory \in Contents /\ d \in Dirs \cup Files
          /\ disk' = With(d, Directory)
      BY <1>4, TreeIsRooted
    <3> HIDE DEF Contents, Names
    <3> QED
      BY <3>1, WithHolds
  <2> QED
    BY <1>2, <1>4, <2>1, <2>2
<1> QED
  BY <1>3, <1>4 DEF DirectoryCreate, StepTo

(* The media directory is created and is the first to be copied.            *)
LEMMA CreateMediaHolds == ASSUME InstallInv, CreateMedia PROVE InstallInv'
<1>1. /\ step = "create" /\ DirectoryCreate(Root, "next") /\ toCopy' = <<Root>>
      /\ UNCHANGED <<stack, current, todo, file, source, dest, open, copied>>
  BY DEF CreateMedia, copy
<1>2. InstallTypes /\ DiskIsTree /\ Noticed /\ NothingElse /\ open = {} /\ Root \in Dirs
  BY <1>1, TreeIsRooted DEF InstallInv, CopyingFile
<1>0. todo = {}
  BY <1>1 DEF InstallInv, Queue
<1>3. /\ disk' \in [DOMAIN disk' -> Contents] /\ DOMAIN disk' \subseteq Names
      /\ DOMAIN disk \subseteq DOMAIN disk' /\ DOMAIN disk' \subseteq DOMAIN disk \cup {Root}
      /\ \A n \in DOMAIN disk : disk'[n] = disk[n]
      /\ \A n \in DOMAIN disk' \ DOMAIN disk : disk'[n] = Directory
      /\ DiskIsTree'
      /\ faults' \in 0..MaxFaults /\ starts' \in 0..MaxStarts /\ hit' = hit /\ broken \subseteq broken'
      /\ \/ step' = "next" /\ Root \in DOMAIN disk' /\ broken' \subseteq Unnoticed
         \/ step' = "failed" /\ broken' # {}
  BY <1>1, <1>2, DirectoryHolds
<1>4. /\ toCopy' \in Seq(Dirs) /\ DOMAIN toCopy' = {1} /\ toCopy'[1] = Root
  BY <1>1, <1>2
<1>5. InstallTypes' /\ Noticed'
  BY <1>1, <1>2, <1>3, <1>4 DEF InstallTypes, Noticed
<1>6. NothingElse'
  BY <1>1, <1>2, <1>3 DEF NothingElse
<1>7. CopiedDirs' /\ Queue' /\ CopyingFile'
  <2>1. CASE step' = "failed"
    BY <1>1, <1>2, <2>1, NothingIsCopied DEF Idle
  <2>2. CASE step' = "next"
    <3>1. Busy' = {} /\ Queued' = {Root}
      BY <1>4, <2>2 DEF Busy, Queued
    <3>2. IsDone({})'
      BY <1>0, <1>1, <2>2, <3>1 DEF IsDone
    <3> QED
      <4>1. CopiedDirs'
        BY <3>2 DEF CopiedDirs
      <4>2. Queue'
        BY <1>0, <1>1, <1>4, <2>2 DEF Queue
      <4>3. CopyingFile'
        BY <1>1, <1>2, <2>2 DEF CopyingFile
      <4> QED
        BY <4>1, <4>2, <4>3
  <2> QED
    BY <1>3, <2>1, <2>2
<1> QED
  BY <1>1, <1>3, <1>5, <1>6, <1>7, NothingIsDeleted DEF InstallInv

(* A directory that waits is in one that is there.                          *)
LEMMA ParentIsThere ==
  ASSUME InstallInv, step \in Copying, NEW d \in Queued
  PROVE  d \in Dirs /\ (d = Root \/ IsDirectory(Parent[d]))
<1>1. PICK done \in SUBSET Dirs : IsDone(done)
  BY DEF InstallInv, CopiedDirs
<1>2. d \in Dirs
  <2>1. toCopy \in Seq(Dirs)
    BY DEF InstallInv, InstallTypes
  <2> QED
    BY <2>1 DEF Queued
<1>3. d # Root => Parent[d] \in done \cup Busy
  BY <1>1 DEF IsDone
<1> QED
  BY <1>1, <1>2, <1>3 DEF IsDone

(* What a directory is in the middle of is there.                           *)
LEMMA CurrentIsThere ==
  ASSUME InstallInv, step \in {"source"} \cup InDirectory
  PROVE  IsDirectory(current) /\ current \in Dirs
<1>1. PICK done \in SUBSET Dirs : IsDone(done)
  BY DEF InstallInv, CopiedDirs
<1>2. current \in done \cup Busy
  BY DEF Busy
<1> QED
  BY <1>1, <1>2 DEF IsDone, InstallInv, InstallTypes

(* The next directory is created and is being copied from then on.          *)
LEMMA NextDirectoryHolds == ASSUME InstallInv, NextDirectory PROVE InstallInv'
<1> DEFINE d == Head(toCopy)
<1>1. /\ step = "next" /\ toCopy # <<>> /\ DirectoryCreate(d, "source")
      /\ current' = d /\ toCopy' = Tail(toCopy)
      /\ UNCHANGED <<stack, todo, file, source, dest, open, copied>>
  BY DEF NextDirectory, copy
<1>2. InstallTypes /\ DiskIsTree /\ Noticed /\ NothingElse
  BY DEF InstallInv
<1>3. open = {} /\ todo = {} /\ \A i, j \in DOMAIN toCopy : toCopy[i] = toCopy[j] => i = j
  BY <1>1 DEF InstallInv, CopyingFile, Queue
<1>4. /\ toCopy \in Seq(Dirs) /\ Len(toCopy) \in Nat \ {0} /\ DOMAIN toCopy = 1..Len(toCopy) /\ d = toCopy[1]
  BY <1>1, <1>2 DEF InstallTypes
<1>5. /\ toCopy' \in Seq(Dirs) /\ DOMAIN toCopy' = 1..(Len(toCopy) - 1)
      /\ \A i \in 1..(Len(toCopy) - 1) : toCopy'[i] = toCopy[i + 1]
  BY <1>1, <1>4
<1>6. d \in Queued /\ 1 \in DOMAIN toCopy
  BY <1>4 DEF Queued
<1> HIDE DEF d
<1>7. d \in Dirs /\ (d = Root \/ IsDirectory(Parent[d]))
  BY <1>1, <1>6, ParentIsThere
<1>8. /\ disk' \in [DOMAIN disk' -> Contents] /\ DOMAIN disk' \subseteq Names
      /\ DOMAIN disk \subseteq DOMAIN disk' /\ DOMAIN disk' \subseteq DOMAIN disk \cup {d}
      /\ \A n \in DOMAIN disk : disk'[n] = disk[n]
      /\ \A n \in DOMAIN disk' \ DOMAIN disk : disk'[n] = Directory
      /\ DiskIsTree'
      /\ faults' \in 0..MaxFaults /\ starts' \in 0..MaxStarts /\ hit' = hit /\ broken \subseteq broken'
      /\ \/ step' = "source" /\ d \in DOMAIN disk' /\ disk'[d] = Directory /\ broken' \subseteq Unnoticed
         \/ step' = "failed" /\ broken' # {}
  BY <1>1, <1>2, <1>7, DirectoryHolds
<1>9. InstallTypes' /\ Noticed'
  BY <1>1, <1>2, <1>5, <1>7, <1>8 DEF InstallTypes, Noticed
<1>10. NothingElse'
  BY <1>1, <1>2, <1>7, <1>8 DEF NothingElse
<1>11. CASE step' = "failed"
  <2>1. CopiedDirs' /\ Queue' /\ CopyingFile'
    BY <1>1, <1>3, <1>11, NothingIsCopied DEF Idle
  <2> QED
    BY <1>8, <1>9, <1>10, <1>11, <2>1, NothingIsDeleted DEF InstallInv
<1>12. CASE step' = "source" /\ d \in DOMAIN disk' /\ disk'[d] = Directory
  <2>1. Queued' = Queued \ {d}
    <3>1. ASSUME NEW i \in DOMAIN toCopy' PROVE toCopy'[i] \in Queued \ {d}
      <4>1. i + 1 \in DOMAIN toCopy /\ i + 1 # 1
        BY <1>4, <1>5
      <4> QED
        BY <1>3, <1>4, <1>5, <1>6, <3>1, <4>1 DEF Queued
    <3>2. ASSUME NEW i \in DOMAIN toCopy, toCopy[i] # d PROVE toCopy[i] \in Queued'
      <4>1. i - 1 \in DOMAIN toCopy' /\ (i - 1) + 1 = i
        BY <1>4, <1>5, <3>2
      <4> QED
        BY <1>5, <4>1 DEF Queued
    <3> QED
      BY <3>1, <3>2 DEF Queued
  <2>2. \A i, j \in DOMAIN toCopy' : toCopy'[i] = toCopy'[j] => i = j
    <3> SUFFICES ASSUME NEW i \in DOMAIN toCopy', NEW j \in DOMAIN toCopy', toCopy'[i] = toCopy'[j]
                 PROVE  i = j
      OBVIOUS
    <3>1. /\ i + 1 \in DOMAIN toCopy /\ j + 1 \in DOMAIN toCopy /\ i \in Int /\ j \in Int
          /\ toCopy[i + 1] = toCopy[j + 1]
      BY <1>4, <1>5
    <3>2. i + 1 = j + 1
      BY <1>3, <3>1
    <3> QED
      BY <3>1, <3>2
  <2>3. Busy = {} /\ Busy' = {d}
    BY <1>1, <1>12 DEF Busy
  <2>4. PICK done \in SUBSET Dirs : IsDone(done)
    BY <1>1 DEF InstallInv, CopiedDirs
  <2>5. \A n \in Dirs \cup Files : Settled(n, done) => Settled(n, done)'
    <3> SUFFICES ASSUME NEW n \in Dirs \cup Files, Settled(n, done) PROVE Settled(n, done)'
      OBVIOUS
    <3>1. n \in Dirs => n \in done \cup Busy' \cup Queued'
      BY <1>6, <2>1, <2>3 DEF Settled
    <3>2. n \in Files => n \in DOMAIN disk' /\ disk'[n] = Size[n]
      BY <1>7, <1>8, TreeIsRooted DEF Settled, Present
    <3> QED
      BY <3>1, <3>2 DEF Settled, Present
  <2>6. /\ Root \in done \cup Queued /\ Queued \cap done = {}
        /\ \A n \in done : IsDirectory(n)
        /\ \A n \in (done \cup Queued) \ {Root} : Parent[n] \in done
        /\ \A n \in done : \A m \in Children(n, Dirs \cup Files) \ hit : Settled(m, done)
    BY <2>3, <2>4 DEF IsDone
  <2>7. IsDone(done)'
    <3>1. Root \in done \cup Busy' \cup Queued'
      BY <1>6, <2>1, <2>3, <2>6
    <3>2. /\ done \cap Busy' = {} /\ Queued' \cap (done \cup Busy') = {}
          /\ todo' \cap (done \cup Busy' \cup Queued') = {}
      BY <1>1, <1>3, <1>6, <2>1, <2>3, <2>6
    <3>3. \A n \in done \cup Busy' : IsDirectory(n)'
      BY <1>8, <1>12, <2>3, <2>6 DEF Present, IsDirectory
    <3>4. \A n \in (done \cup Busy' \cup Queued') \ {Root} : Parent[n] \in done
      BY <1>6, <2>1, <2>3, <2>6
    <3>5. \A n \in done : \A m \in Children(n, Dirs \cup Files) \ hit : Settled(m, done)'
      BY <2>5, <2>6 DEF Children
    <3>6. step' \notin InDirectory
      BY <1>12
    <3> QED
      BY <1>8, <3>1, <3>2, <3>3, <3>4, <3>5, <3>6 DEF IsDone
  <2>8. CopiedDirs'
    BY <2>7 DEF CopiedDirs
  <2>9. Queue' /\ CopyingFile'
    BY <1>1, <1>3, <1>12, <2>2 DEF Queue, CopyingFile
  <2> QED
    BY <1>8, <1>9, <1>10, <1>12, <2>8, <2>9, NothingIsDeleted DEF InstallInv
<1> QED
  BY <1>8, <1>11, <1>12

(* Its entries are listed: those a listing cut short misses are hit.        *)
LEMMA ListSourceHolds == ASSUME InstallInv, ListSource PROVE InstallInv'
<1> DEFINE names == Children(current, Dirs \cup Files)
<1>1. /\ step = "source"
      /\ UNCHANGED <<disk, stack, toCopy, current, file, source, dest, open, copied>>
      /\ \/ Works /\ step' = "entries" /\ todo' = names
         \/ /\ step' = "entries" /\ todo' \in CutShort(names)
            /\ BreaksFor("listing", names \ todo')
         \/ BreaksFor("list", {}) /\ step' = "failed" /\ UNCHANGED todo
  BY DEF ListSource, copy, StepTo, Breaks
<1>2. InstallTypes /\ DiskIsTree /\ Noticed /\ NothingElse /\ open = {} /\ names \subseteq Dirs \cup Files
  BY <1>1 DEF InstallInv, CopyingFile, Children
<1>3. DiskIsTree'
  BY <1>1, <1>2 DEF DiskIsTree, IsTree
<1>4. CASE BreaksFor("list", {}) /\ step' = "failed" /\ UNCHANGED todo
  <2>1. /\ faults' \in 0..MaxFaults /\ starts' \in 0..MaxStarts /\ hit' \subseteq Dirs \cup Files
        /\ broken' = broken \cup {"list"} /\ hit' = hit
    BY <1>2, <1>4, CallBreaks
  <2>2. InstallTypes' /\ Noticed' /\ NothingElse'
    BY <1>1, <1>2, <1>4, <2>1 DEF InstallTypes, Noticed, NothingElse
  <2>3. CopiedDirs' /\ Queue' /\ CopyingFile'
    BY <1>1, <1>2, <1>4, NothingIsCopied DEF Idle
  <2> QED
    BY <1>3, <1>4, <2>2, <2>3, NothingIsDeleted DEF InstallInv
<1>5. CASE /\ step' = "entries" /\ todo' \subseteq names
           /\ (Works /\ todo' = names) \/ BreaksFor("listing", names \ todo')
  <2>1. /\ faults' \in 0..MaxFaults /\ starts' \in 0..MaxStarts /\ hit' \subseteq Dirs \cup Files
        /\ hit \subseteq hit' /\ broken \subseteq broken' /\ broken' \subseteq broken \cup {"listing"}
        /\ names \ todo' \subseteq hit' /\ (hit' # {} => broken' # {})
    <3>1. names \ todo' \in SUBSET (Dirs \cup Files)
      BY <1>2
    <3>2. hit # {} => broken # {}
      BY <1>2 DEF Noticed
    <3> HIDE DEF names
    <3>3. CASE Works /\ todo' = names
      BY <1>2, <3>1, <3>2, <3>3, CallHolds
    <3>4. CASE BreaksFor("listing", names \ todo')
      BY <1>2, <3>1, <3>4, CallHolds
    <3> QED
      BY <1>5, <3>3, <3>4
  <2>2. InstallTypes' /\ Noticed' /\ NothingElse'
    BY <1>1, <1>2, <1>5, <2>1 DEF InstallTypes, Noticed, NothingElse
  <2>3. PICK done \in SUBSET Dirs : IsDone(done)
    BY <1>1 DEF InstallInv, CopiedDirs
  <2>4. Busy = {current} /\ Busy' = {current} /\ Queued' = Queued
    BY <1>1, <1>5 DEF Busy, Queued
  <2>5. \A n : Settled(n, done) => Settled(n, done)'
    BY <1>1, <2>4 DEF Settled, Present
  <2>6. IsDone(done)'
    <3>1. todo' \cap (done \cup Busy' \cup Queued') = {}
      <4> SUFFICES ASSUME NEW n \in todo', n \in done \cup {current} \cup Queued PROVE FALSE
        BY <2>4
      <4>1. n # Root /\ Parent[n] = current
        BY <1>5 DEF Children
      <4>2. current \in done
        BY <1>1, <2>3, <2>4, <4>1 DEF IsDone
      <4> QED
        BY <2>3, <2>4, <4>2 DEF IsDone
    <3>2. /\ Root \in done \cup Busy' \cup Queued'
          /\ done \cap Busy' = {} /\ Queued' \cap (done \cup Busy') = {}
          /\ \A n \in done \cup Busy' : IsDirectory(n)'
          /\ \A n \in (done \cup Busy' \cup Queued') \ {Root} : Parent[n] \in done \cup Busy'
      BY <1>1, <2>3, <2>4 DEF IsDone, IsDirectory, Present
    <3>3. \A d \in done : \A n \in Children(d, Dirs \cup Files) \ hit' : Settled(n, done)'
      BY <2>1, <2>3, <2>5 DEF IsDone
    <3>4. \A n \in names \ hit' : n \in todo'
      BY <2>1
    <3> QED
      BY <1>1, <1>5, <3>1, <3>2, <3>3, <3>4 DEF IsDone
  <2>7. CopiedDirs' /\ Queue' /\ CopyingFile'
    <3>1. CopiedDirs'
      BY <2>6 DEF CopiedDirs
    <3>2. Queue'
      BY <1>1, <1>5 DEF InstallInv, Queue
    <3>3. CopyingFile'
      BY <1>1, <1>2, <1>5 DEF CopyingFile
    <3> QED
      BY <3>1, <3>2, <3>3
  <2> QED
    BY <1>3, <1>5, <2>2, <2>7, NothingIsDeleted DEF InstallInv
<1> QED
  BY <1>1, <1>4, <1>5 DEF CutShort

(* An entry that is a directory is queued.                                  *)
LEMMA QueueDirectoryHolds == ASSUME InstallInv, QueueDirectory PROVE InstallInv'
<1>1. PICK d \in todo \cap Dirs : toCopy' = Append(toCopy, d) /\ todo' = todo \ {d}
  BY DEF QueueDirectory
<1>2. /\ step = "entries"
      /\ UNCHANGED <<disk, step, stack, current, file, source, dest, open, copied>>
      /\ UNCHANGED <<faults, starts, broken, hit>>
  BY DEF QueueDirectory, copy, history
<1>3. toCopy \in Seq(Dirs) /\ Len(toCopy) \in Nat /\ DOMAIN toCopy = 1..Len(toCopy)
  BY DEF InstallInv, InstallTypes
<1>4. /\ toCopy' \in Seq(Dirs) /\ DOMAIN toCopy' = 1..(Len(toCopy) + 1)
      /\ toCopy'[Len(toCopy) + 1] = d /\ \A i \in 1..Len(toCopy) : toCopy'[i] = toCopy[i]
  BY <1>1, <1>3
<1>5. Queued' = Queued \cup {d}
  <2>1. DOMAIN toCopy' = DOMAIN toCopy \cup {Len(toCopy) + 1}
    BY <1>3, <1>4
  <2> QED
    BY <1>3, <1>4, <2>1 DEF Queued
<1>6. PICK done \in SUBSET Dirs : IsDone(done)
  BY <1>2 DEF InstallInv, CopiedDirs
<1>7. Busy = {current} /\ Busy' = {current}
  BY <1>2 DEF Busy
<1>8. /\ d \notin done \cup {current} \cup Queued
      /\ d # Root /\ Parent[d] = current /\ d \in Dirs
      /\ todo \subseteq Children(current, Dirs \cup Files)
  <2>1. todo \subseteq Children(current, Dirs \cup Files)
    BY <1>2 DEF InstallInv, Queue
  <2> QED
    BY <1>1, <1>6, <1>7, <2>1 DEF IsDone, Children
<1>9. IsDone(done)'
  <2>1. \A n : Settled(n, done) => Settled(n, done)'
    BY <1>2, <1>5, <1>7 DEF Settled, Present
  <2>2. Settled(d, done)'
    BY <1>5, <1>8, TreeIsRooted DEF Settled
  <2>3. /\ Root \in done \cup {current} \cup Queued
        /\ done \cap {current} = {} /\ Queued \cap (done \cup {current}) = {}
        /\ todo \cap (done \cup {current} \cup Queued) = {}
        /\ \A n \in done \cup {current} : IsDirectory(n)
        /\ \A n \in (done \cup {current} \cup Queued) \ {Root} : Parent[n] \in done \cup {current}
        /\ \A n \in done : \A m \in Children(n, Dirs \cup Files) \ hit : Settled(m, done)
        /\ \A n \in Children(current, Dirs \cup Files) \ hit : n \in todo \/ Settled(n, done)
    BY <1>2, <1>6, <1>7 DEF IsDone
  <2>4. /\ Root \in done \cup {current} \cup Queued'
        /\ done \cap {current} = {} /\ Queued' \cap (done \cup {current}) = {}
        /\ todo' \cap (done \cup {current} \cup Queued') = {}
        /\ \A n \in (done \cup {current} \cup Queued') \ {Root} : Parent[n] \in done \cup {current}
    BY <1>1, <1>5, <1>8, <2>3
  <2>5. \A n \in done \cup {current} : IsDirectory(n)'
    BY <1>2, <2>3 DEF IsDirectory, Present
  <2>6. /\ \A n \in done : \A m \in Children(n, Dirs \cup Files) \ hit : Settled(m, done)'
        /\ \A n \in Children(current, Dirs \cup Files) \ hit : n \in todo' \/ Settled(n, done)'
    BY <1>1, <2>1, <2>2, <2>3
  <2> QED
    BY <1>2, <1>7, <2>4, <2>5, <2>6 DEF IsDone
<1>10. CopiedDirs'
  BY <1>9 DEF CopiedDirs
<1>11. Queue'
  <2>1. \A i \in DOMAIN toCopy : toCopy[i] # d
    BY <1>8 DEF Queued
  <2>2. \A i, j \in DOMAIN toCopy : toCopy[i] = toCopy[j] => i = j
    BY <1>2 DEF InstallInv, Queue
  <2>3. \A i \in DOMAIN toCopy' : i \in DOMAIN toCopy \/ i = Len(toCopy) + 1
    BY <1>3, <1>4
  <2>4. \A i, j \in DOMAIN toCopy' : toCopy'[i] = toCopy'[j] => i = j
    BY <1>3, <1>4, <2>1, <2>2, <2>3
  <2> QED
    BY <1>1, <1>2, <1>8, <2>4 DEF Queue
<1>12. InstallTypes' /\ DiskIsTree' /\ NothingElse' /\ Noticed'
  BY <1>1, <1>2, <1>4 DEF InstallInv, InstallTypes, DiskIsTree, IsTree, NothingElse, Noticed
<1>13. CopyingFile'
  BY <1>2 DEF InstallInv, CopyingFile
<1> QED
  BY <1>2, <1>10, <1>11, <1>12, <1>13, NothingIsDeleted DEF InstallInv

(* A directory whose entries are done is copied.                            *)
LEMMA EntriesDoneHolds == ASSUME InstallInv, EntriesDone PROVE InstallInv'
<1>1. /\ step = "entries" /\ todo = {} /\ step' = "next"
      /\ UNCHANGED <<disk, stack, toCopy, current, todo, file, source, dest, open, copied>>
      /\ UNCHANGED <<faults, starts, broken, hit>>
  BY DEF EntriesDone, tree, copy, history, StepTo
<1>2. PICK done \in SUBSET Dirs : IsDone(done)
  BY <1>1 DEF InstallInv, CopiedDirs
<1>3. Busy = {current} /\ Busy' = {} /\ Queued' = Queued
  BY <1>1 DEF Busy, Queued
<1>4. PICK now \in SUBSET Dirs : now = done \cup {current}
  BY DEF InstallInv, InstallTypes
<1>5. IsDone(now)'
  <2>1. \A n : Settled(n, done) => Settled(n, now)'
    BY <1>1, <1>3, <1>4 DEF Settled, Present
  <2>2. /\ \A n \in done : \A m \in Children(n, Dirs \cup Files) \ hit : Settled(m, done)
        /\ \A n \in Children(current, Dirs \cup Files) \ hit : Settled(n, done)
    BY <1>1, <1>2 DEF IsDone
  <2>3. \A n \in now : \A m \in Children(n, Dirs \cup Files) \ hit : Settled(m, now)'
    BY <1>4, <2>1, <2>2
  <2>4. /\ Root \in now \cup Queued
        /\ Queued \cap now = {} /\ todo' \cap (now \cup Queued) = {}
        /\ \A n \in now : IsDirectory(n)'
        /\ \A n \in (now \cup Queued) \ {Root} : Parent[n] \in now
    BY <1>1, <1>2, <1>3, <1>4 DEF IsDone, IsDirectory, Present
  <2> QED
    BY <1>1, <1>3, <2>3, <2>4 DEF IsDone
<1>6. CopiedDirs'
  BY <1>5 DEF CopiedDirs
<1>7. Queue' /\ CopyingFile'
  BY <1>1 DEF InstallInv, Queue, CopyingFile
<1>8. InstallTypes' /\ DiskIsTree' /\ NothingElse' /\ Noticed'
  BY <1>1 DEF InstallInv, InstallTypes, DiskIsTree, IsTree, NothingElse, Noticed
<1> QED
  BY <1>1, <1>6, <1>7, <1>8, NothingIsDeleted DEF InstallInv

(* When nothing is queued everything was copied.                            *)
LEMMA AllCopiedHolds == ASSUME InstallInv, AllCopied PROVE InstallInv'
<1>1. /\ step = "next" /\ toCopy = <<>> /\ step' = "installed"
      /\ UNCHANGED <<disk, stack, toCopy, current, todo, file, source, dest, open, copied>>
      /\ UNCHANGED <<faults, starts, broken, hit>>
  BY DEF AllCopied, tree, copy, history, StepTo
<1>2. PICK done \in SUBSET Dirs : IsDone(done)
  BY <1>1 DEF InstallInv, CopiedDirs
<1>3. Busy = {} /\ Busy' = {} /\ Queued' = Queued
  BY <1>1 DEF Busy, Queued
<1>4. IsDone(done)'
  <2>1. \A n : Settled(n, done) => Settled(n, done)'
    BY <1>1, <1>3 DEF Settled, Present
  <2> QED
    BY <1>1, <1>2, <1>3, <2>1 DEF IsDone, IsDirectory, Present
<1>5. CopiedDirs'
  BY <1>4 DEF CopiedDirs
<1>6. Queue' /\ CopyingFile'
  BY <1>1 DEF InstallInv, Queue, CopyingFile
<1>7. InstallTypes' /\ DiskIsTree' /\ NothingElse' /\ Noticed'
  BY <1>1 DEF InstallInv, InstallTypes, DiskIsTree, IsTree, NothingElse, Noticed
<1> QED
  BY <1>1, <1>5, <1>6, <1>7, NothingIsDeleted DEF InstallInv

-----------------------------------------------------------------------------
(* Steps on one file leave what else is done as it was.                     *)
LEMMA OthersStay ==
  ASSUME InstallInv, step \in InDirectory, step' \in InDirectory \cap InFile,
         UNCHANGED <<stack, toCopy, current>>, todo' \subseteq todo,
         file' \in Files, Parent[file'] = current, file' \notin todo',
         todo \ todo' \subseteq {file'},
         step \in InFile => file' = file,
         hit \subseteq hit', DOMAIN disk \subseteq DOMAIN disk',
         \A n \in DOMAIN disk \ {file'} : disk'[n] = disk[n]
  PROVE  CopiedDirs' /\ Queue'
<1>1. PICK done \in SUBSET Dirs : IsDone(done)
  BY DEF InstallInv, CopiedDirs
<1>2. Busy = {current} /\ Busy' = {current} /\ Queued' = Queued
  BY DEF Busy, Queued
<1>3. \A n : n # file' /\ Settled(n, done) => Settled(n, done)'
  BY <1>2 DEF Settled, Present
<1>4. /\ Root \in done \cup {current} \cup Queued
      /\ done \cap {current} = {} /\ Queued \cap (done \cup {current}) = {}
      /\ todo \cap (done \cup {current} \cup Queued) = {}
      /\ \A n \in done \cup {current} : IsDirectory(n)
      /\ \A n \in (done \cup {current} \cup Queued) \ {Root} : Parent[n] \in done \cup {current}
      /\ \A n \in done : \A m \in Children(n, Dirs \cup Files) \ hit : Settled(m, done)
      /\ \A n \in Children(current, Dirs \cup Files) \ hit :
           n \in todo \/ (step \in InFile /\ n = file) \/ Settled(n, done)
  BY <1>1, <1>2 DEF IsDone
<1>5. \A n \in done : \A m \in Children(n, Dirs \cup Files) \ hit' : Settled(m, done)'
  <2> SUFFICES ASSUME NEW n \in done, NEW m \in Children(n, Dirs \cup Files) \ hit'
               PROVE  Settled(m, done)'
    OBVIOUS
  <2>1. m # file'
    BY <1>4 DEF Children
  <2> QED
    BY <1>3, <1>4, <2>1
<1>6. \A n \in Children(current, Dirs \cup Files) \ hit' :
        n \in todo' \/ n = file' \/ Settled(n, done)'
  BY <1>3, <1>4
<1>7. \A n \in done \cup {current} : IsDirectory(n)'
  <2>1. \A n \in done \cup {current} : n # file'
    BY TreeIsRooted DEF InstallInv, InstallTypes
  <2> QED
    BY <1>4, <2>1 DEF IsDirectory, Present
<1>8. todo' \cap (done \cup {current} \cup Queued) = {}
  BY <1>4
<1>9. step' # "source" /\ step' \in InFile
  OBVIOUS
<1>10. IsDone(done)'
  BY <1>2, <1>4, <1>5, <1>6, <1>7, <1>8, <1>9 DEF IsDone
<1>11. CopiedDirs'
  BY <1>10 DEF CopiedDirs
<1>12. /\ \A i, j \in DOMAIN toCopy : toCopy[i] = toCopy[j] => i = j
       /\ todo \subseteq Children(current, Dirs \cup Files)
  BY DEF InstallInv, Queue
<1>13. Queue'
  BY <1>12 DEF Queue
<1> QED
  BY <1>11, <1>13

(* An entry that is a file is copied next.                                  *)
LEMMA CopyFileHolds == ASSUME InstallInv, CopyFile PROVE InstallInv'
<1>1. PICK f \in todo \cap Files : file' = f /\ todo' = todo \ {f}
  BY DEF CopyFile
<1>2. /\ step = "entries" /\ step' = "openSource" /\ copied' = 0
      /\ UNCHANGED <<disk, stack, toCopy, current, source, dest, open>>
      /\ UNCHANGED <<faults, starts, broken, hit>>
  BY DEF CopyFile, history, StepTo
<1>3. Parent[f] = current
  BY <1>1, <1>2 DEF InstallInv, Queue, Children
<1>4. CopiedDirs' /\ Queue'
  BY <1>1, <1>2, <1>3, OthersStay
<1>5. CopyingFile'
  BY <1>2 DEF InstallInv, CopyingFile
<1>6. InstallTypes' /\ DiskIsTree' /\ NothingElse' /\ Noticed'
  BY <1>1, <1>2 DEF InstallInv, InstallTypes, DiskIsTree, IsTree, NothingElse, Noticed
<1> QED
  BY <1>2, <1>4, <1>5, <1>6, NothingIsDeleted DEF InstallInv

(* Its source is opened, or the file is hit.                                *)
LEMMA OpenSourceHolds == ASSUME InstallInv, OpenSource PROVE InstallInv'
<1>1. /\ step = "openSource" /\ step' = "openDest"
      /\ \/ Works /\ source' = "S" /\ open' = {"S"}
         \/ BreaksFor("open", {file}) /\ source' \in {"D", Closed} /\ UNCHANGED open
      /\ UNCHANGED <<disk, stack, toCopy, current, todo, file, dest, copied>>
  BY DEF OpenSource, tree, StepTo, BreaksFile
<1>2. InstallTypes /\ Noticed /\ file \in Files \ todo /\ Parent[file] = current /\ open = {} /\ copied = 0
  BY <1>1 DEF InstallInv, Queue, CopyingFile
<1>3. {file} \in SUBSET (Dirs \cup Files)
  BY <1>2
<1>4. /\ faults' \in 0..MaxFaults /\ starts' \in 0..MaxStarts /\ hit' \subseteq Dirs \cup Files
      /\ hit \subseteq hit' /\ broken \subseteq broken' /\ broken' \subseteq broken \cup {"open"}
      /\ hit' # {} => broken' # {}
      /\ (source' = "S" /\ open' = {"S"}) \/ (file \in hit' /\ open' = {})
      /\ {source', dest'} \subseteq {"S", "D", Closed} /\ open' \subseteq {"S", "D"}
  <2>1. hit # {} => broken # {}
    BY <1>2 DEF Noticed
  <2>2. {source, dest} \subseteq {"S", "D", Closed}
    BY <1>2 DEF InstallTypes
  <2>3. CASE Works /\ source' = "S" /\ open' = {"S"}
    <3>1. /\ faults' \in 0..MaxFaults /\ starts' \in 0..MaxStarts /\ hit' \subseteq Dirs \cup Files
          /\ broken' = broken /\ hit' = hit
      BY <1>2, <1>3, <2>3, CallHolds
    <3> QED
      BY <1>1, <2>1, <2>2, <2>3, <3>1
  <2>4. CASE BreaksFor("open", {file}) /\ source' \in {"D", Closed} /\ UNCHANGED open
    <3>1. /\ faults' \in 0..MaxFaults /\ starts' \in 0..MaxStarts /\ hit' \subseteq Dirs \cup Files
          /\ broken' = broken \cup {"open"} /\ hit' = hit \cup {file}
      BY <1>2, <1>3, <2>4, CallHolds
    <3> QED
      BY <1>1, <1>2, <2>2, <2>4, <3>1
  <2> QED
    BY <1>1, <2>3, <2>4
<1>5. CopiedDirs' /\ Queue'
  BY <1>1, <1>2, <1>4, OthersStay
<1>6. CopyingFile'
  BY <1>1, <1>2, <1>4 DEF CopyingFile
<1>7. InstallTypes' /\ DiskIsTree' /\ NothingElse' /\ Noticed'
  BY <1>1, <1>4 DEF InstallInv, InstallTypes, DiskIsTree, IsTree, NothingElse, Noticed
<1> QED
  BY <1>1, <1>5, <1>6, <1>7, NothingIsDeleted DEF InstallInv

(* What a file's content is set to.                                         *)
LEMMA FileHolds ==
  ASSUME InstallInv, step \in InFile, NEW c \in Nat, disk' = With(file, c),
         IsDirectory(current) \/ file \in DOMAIN disk, ~IsDirectory(file)
  PROVE  /\ disk' \in [DOMAIN disk' -> Contents] /\ DOMAIN disk' = DOMAIN disk \cup {file}
         /\ DOMAIN disk' \subseteq Names
         /\ disk'[file] = c /\ \A m \in DOMAIN disk \ {file} : disk'[m] = disk[m]
         /\ DiskIsTree'
         /\ step # "giveUp" =>
              \/ "query" \in broken
              \/ /\ DOMAIN disk' \subseteq Dirs \cup Files
                 /\ \A d \in DOMAIN disk' \cap Dirs : disk'[d] = Directory
<1>1. InstallTypes /\ DiskIsTree /\ file \in Files /\ Parent[file] = current /\ file # Root
  BY TreeIsRooted DEF InstallInv, Queue
<1>2. IsDirectory(Parent[file])
  BY <1>1 DEF DiskIsTree, IsTree, IsDirectory, Present
<1>3. c \in Contents /\ file \notin Dirs /\ file \in Dirs \cup Files
  BY <1>1, TreeIsRooted
<1> HIDE DEF Names, Contents, InFile
<1>4. /\ disk' \in [DOMAIN disk' -> Contents] /\ DOMAIN disk' = DOMAIN disk \cup {file}
      /\ DOMAIN disk' \subseteq Names
      /\ disk'[file] = c /\ \A m \in DOMAIN disk \ {file} : disk'[m] = disk[m]
      /\ DiskIsTree'
  BY <1>1, <1>2, <1>3, WithHolds
<1>5. step # "giveUp" =>
        \/ "query" \in broken
        \/ /\ DOMAIN disk' \subseteq Dirs \cup Files
           /\ \A d \in DOMAIN disk' \cap Dirs : disk'[d] = Directory
  BY <1>1, <1>3, <1>4 DEF InstallInv, NothingElse, InFile, Opened, Copying
<1> QED
  BY <1>4, <1>5

(* So is its destination, which is empty then.                              *)
LEMMA OpenDestHolds == ASSUME InstallInv, OpenDest PROVE InstallInv'
<1>1. /\ step = "openDest" /\ step' = "read"
      /\ \/ ~IsDirectory(file) /\ Works /\ dest' = "D" /\ open' = open \cup {"D"} /\ disk' = With(file, 0)
         \/ /\ BreaksFor("open", {file}) \/ (Records("open", {file}) /\ UNCHANGED faults)
            /\ dest' \in {"S", Closed} /\ UNCHANGED <<open, disk>>
      /\ UNCHANGED <<stack, toCopy, current, todo, file, source, copied>>
  BY DEF OpenDest, tree, StepTo, BreaksFile
<1>2. /\ InstallTypes /\ Noticed /\ file \in Files \ todo /\ Parent[file] = current /\ copied = 0
      /\ (source = "S" /\ open = {"S"}) \/ (file \in hit /\ open = {})
  BY <1>1 DEF InstallInv, Queue, CopyingFile
<1>3. {file} \in SUBSET (Dirs \cup Files) /\ Size[file] \in Nat
  BY <1>2, SizesAreNumbers
<1>4. CASE ~IsDirectory(file) /\ Works /\ dest' = "D" /\ open' = open \cup {"D"} /\ disk' = With(file, 0)
  <2>1. /\ faults' \in 0..MaxFaults /\ starts' \in 0..MaxStarts /\ hit' \subseteq Dirs \cup Files
        /\ broken' = broken /\ hit' = hit
    BY <1>2, <1>3, <1>4, CallHolds
  <2>2. IsDirectory(current)
    BY <1>1, CurrentIsThere
  <2>3. /\ disk' \in [DOMAIN disk' -> Contents] /\ DOMAIN disk' = DOMAIN disk \cup {file}
        /\ DOMAIN disk' \subseteq Names
        /\ disk'[file] = 0 /\ \A m \in DOMAIN disk \ {file} : disk'[m] = disk[m]
        /\ DiskIsTree'
        /\ \/ "query" \in broken
           \/ /\ DOMAIN disk' \subseteq Dirs \cup Files
              /\ \A d \in DOMAIN disk' \cap Dirs : disk'[d] = Directory
    <3>1. step \in InFile /\ 0 \in Nat /\ step # "giveUp"
      BY <1>1
    <3> QED
      BY <1>4, <2>2, <3>1, FileHolds
  <2>4. CopiedDirs' /\ Queue'
    BY <1>1, <1>2, <2>1, <2>3, OthersStay
  <2>5. CopyingFile'
    BY <1>1, <1>2, <1>3, <1>4, <2>1, <2>3 DEF CopyingFile, Present
  <2>6. NothingElse' /\ Noticed'
    BY <1>1, <1>2, <2>1, <2>3 DEF NothingElse, Noticed
  <2>7. InstallTypes'
    BY <1>1, <1>2, <1>4, <2>1, <2>3 DEF InstallTypes
  <2> QED
    BY <1>1, <2>3, <2>4, <2>5, <2>6, <2>7, NothingIsDeleted DEF InstallInv
<1>5. CASE /\ BreaksFor("open", {file}) \/ (Records("open", {file}) /\ UNCHANGED faults)
           /\ dest' \in {"S", Closed} /\ UNCHANGED <<open, disk>>
  <2>1. /\ faults' \in 0..MaxFaults /\ starts' \in 0..MaxStarts /\ hit' \subseteq Dirs \cup Files
        /\ broken' = broken \cup {"open"} /\ hit' = hit \cup {file}
    <3>1. CASE BreaksFor("open", {file})
      BY <1>2, <1>3, <3>1, CallHolds
    <3>2. CASE Records("open", {file}) /\ UNCHANGED faults
      BY <1>2, <1>3, <3>2 DEF Records, InstallTypes
    <3> QED
      BY <1>5, <3>1, <3>2
  <2>2. CopiedDirs' /\ Queue'
    BY <1>1, <1>2, <1>5, <2>1, OthersStay
  <2>3. CopyingFile'
    BY <1>1, <1>2, <1>5, <2>1 DEF CopyingFile
  <2>4. DiskIsTree' /\ NothingElse' /\ Noticed'
    BY <1>1, <1>2, <1>5, <2>1 DEF InstallInv, DiskIsTree, IsTree, NothingElse, Noticed
  <2>5. InstallTypes'
    BY <1>1, <1>2, <1>5, <2>1 DEF InstallTypes
  <2> QED
    BY <1>1, <2>2, <2>3, <2>4, <2>5, NothingIsDeleted DEF InstallInv
<1> QED
  BY <1>1, <1>4, <1>5

(* Giving the file up leaves everything as it was.                          *)
LEMMA GivingUp ==
  ASSUME InstallInv, step \in {"read", "write"}, step' = "giveUp", hit' = hit,
         UNCHANGED <<disk, stack, toCopy, current, todo, file, source, dest, open, copied>>
  PROVE  DiskIsTree' /\ NothingElse' /\ CopiedDirs' /\ Queue' /\ CopyingFile'
<1>1. DiskIsTree' /\ NothingElse' /\ CopiedDirs'
  BY DEF InstallInv, DiskIsTree, IsTree, NothingElse, CopiedDirs
<1>2. Queue'
  BY DEF InstallInv, Queue
<1>3. CopyingFile'
  BY DEF InstallInv, CopyingFile, Present
<1> QED
  BY <1>1, <1>2, <1>3

(* FileRead has another block, or comes to the end; before the end of a     *)
(* file that was not hit it fails only by hitting it.                       *)
LEMMA ReadBlockHolds == ASSUME InstallInv, ReadBlock PROVE InstallInv'
<1>1. /\ step = "read"
      /\ UNCHANGED <<disk, stack, toCopy, current, todo, file, source, dest, open, copied>>
      /\ \/ source \notin open /\ step' = "giveUp" /\ Works
         \/ source = "S" /\ source \in open /\ copied < Size[file] /\ step' = "write" /\ Works
         \/ source = "S" /\ source \in open /\ copied = Size[file] /\ step' = "close" /\ Works
         \/ source = "S" /\ source \in open /\ BreaksFor("read", {file}) /\ step' = "close"
         \/ source = "D" /\ source \in open /\ step' = "close" /\ Works
  BY DEF ReadBlock, tree, copy, StepTo, BreaksFile
<1>2. /\ InstallTypes /\ Noticed /\ CopyingFile /\ file \in Files \ todo /\ Parent[file] = current
      /\ file \notin hit => source = "S" /\ dest = "D" /\ open = {"S", "D"}
  BY <1>1 DEF InstallInv, Queue, CopyingFile
<1>3. {file} \in SUBSET (Dirs \cup Files)
  BY <1>2
<1>4. CASE source \notin open /\ step' = "giveUp" /\ Works
  <2>1. /\ faults' \in 0..MaxFaults /\ starts' \in 0..MaxStarts /\ hit' \subseteq Dirs \cup Files
        /\ broken' = broken /\ hit' = hit
    BY <1>2, <1>3, <1>4, CallHolds
  <2>2. DiskIsTree' /\ NothingElse' /\ CopiedDirs' /\ Queue' /\ CopyingFile'
    BY <1>1, <1>4, <2>1, GivingUp
  <2>3. file \in hit
    BY <1>2, <1>4
  <2>4. Noticed'
    BY <1>2, <1>4, <2>1, <2>3 DEF Noticed
  <2>5. InstallTypes'
    BY <1>1, <1>2, <1>4, <2>1 DEF InstallTypes
  <2> QED
    BY <1>4, <2>2, <2>4, <2>5, NothingIsDeleted DEF InstallInv
<1>5. CASE /\ step' \in {"write", "close"}
           /\ (Works /\ (file \in hit \/ step' = "write" \/ copied = Size[file])) \/ BreaksFor("read", {file})
           /\ step' = "write" => copied < Size[file]
  <2>1. /\ faults' \in 0..MaxFaults /\ starts' \in 0..MaxStarts /\ hit' \subseteq Dirs \cup Files
        /\ hit \subseteq hit' /\ broken \subseteq broken' /\ broken' \subseteq broken \cup {"read"}
        /\ hit' # {} => broken' # {}
        /\ file \in hit' \/ step' = "write" \/ copied = Size[file]
    <3>1. hit # {} => broken # {}
      BY <1>2 DEF Noticed
    <3>2. CASE Works
      <4>1. /\ faults' \in 0..MaxFaults /\ starts' \in 0..MaxStarts /\ hit' \subseteq Dirs \cup Files
            /\ broken' = broken /\ hit' = hit
        BY <1>2, <1>3, <3>2, CallHolds
      <4>2. BreaksFor("read", {file}) => file \in hit'
        BY DEF BreaksFor, Records
      <4> QED
        BY <1>5, <3>1, <4>1, <4>2
    <3>3. CASE BreaksFor("read", {file})
      <4>1. /\ faults' \in 0..MaxFaults /\ starts' \in 0..MaxStarts /\ hit' \subseteq Dirs \cup Files
            /\ broken' = broken \cup {"read"} /\ hit' = hit \cup {file}
        BY <1>2, <1>3, <3>3, CallHolds
      <4> QED
        BY <4>1
    <3> QED
      BY <1>5, <3>2, <3>3
  <2>2. CopiedDirs' /\ Queue'
    BY <1>1, <1>2, <1>5, <2>1, OthersStay
  <2>3. CopyingFile'
    BY <1>1, <1>2, <1>5, <2>1 DEF CopyingFile, Present
  <2>4. DiskIsTree' /\ NothingElse' /\ Noticed'
    BY <1>1, <1>2, <1>5, <2>1 DEF InstallInv, DiskIsTree, IsTree, NothingElse, Noticed
  <2>5. InstallTypes'
    BY <1>1, <1>2, <1>5, <2>1 DEF InstallTypes
  <2> QED
    BY <1>5, <2>2, <2>3, <2>4, <2>5, NothingIsDeleted DEF InstallInv
<1> QED
  <2>1. source = "D" => file \in hit
    BY <1>2
  <2> QED
    BY <1>1, <1>4, <1>5, <2>1

(* A block that was read is written or the file is given up.                *)
LEMMA WriteBlockHolds == ASSUME InstallInv, WriteBlock PROVE InstallInv'
<1>1. /\ step = "write"
      /\ UNCHANGED <<stack, toCopy, current, todo, file, source, dest, open>>
      /\ \/ /\ dest = "D" /\ dest \in open /\ Works /\ step' = "read"
            /\ copied' = copied + 1 /\ disk' = With(file, copied')
         \/ /\ (dest = "D" => dest \notin open) /\ Works /\ step' = "giveUp"
            /\ UNCHANGED <<copied, disk>>
         \/ BreaksFor("write", {}) /\ step' = "giveUp" /\ UNCHANGED <<copied, disk>>
  BY DEF WriteBlock, tree, StepTo, Breaks
<1>2. /\ InstallTypes /\ Noticed /\ CopyingFile /\ file \in Files \ todo /\ Parent[file] = current
      /\ file \notin hit => source = "S" /\ dest = "D" /\ open = {"S", "D"}
      /\ copied < Size[file] /\ copied \in Nat /\ Size[file] \in Nat
  BY <1>1, SizesAreNumbers DEF InstallInv, Queue, CopyingFile, InstallTypes
<1>3. {} \in SUBSET (Dirs \cup Files)
  OBVIOUS
<1>4. CASE /\ dest = "D" /\ dest \in open /\ Works /\ step' = "read"
           /\ copied' = copied + 1 /\ disk' = With(file, copied')
  <2>1. /\ faults' \in 0..MaxFaults /\ starts' \in 0..MaxStarts /\ hit' \subseteq Dirs \cup Files
        /\ broken' = broken /\ hit' = hit
    BY <1>2, <1>3, <1>4, CallHolds
  <2>2. IsDirectory(current) /\ ~IsDirectory(file)
    <3>1. disk[file] \in Nat
      BY <1>1, <1>2, <1>4 DEF CopyingFile
    <3> QED
      BY <1>1, <3>1, CurrentIsThere, ContentsDiffer DEF IsDirectory
  <2>3. /\ disk' \in [DOMAIN disk' -> Contents] /\ DOMAIN disk' = DOMAIN disk \cup {file}
        /\ DOMAIN disk' \subseteq Names
        /\ disk'[file] = copied' /\ \A m \in DOMAIN disk \ {file} : disk'[m] = disk[m]
        /\ DiskIsTree'
        /\ \/ "query" \in broken
           \/ /\ DOMAIN disk' \subseteq Dirs \cup Files
              /\ \A d \in DOMAIN disk' \cap Dirs : disk'[d] = Directory
    <3>1. step \in InFile /\ copied' \in Nat /\ step # "giveUp"
      BY <1>1, <1>2, <1>4
    <3> QED
      BY <1>4, <2>2, <3>1, FileHolds
  <2>4. CopiedDirs' /\ Queue'
    BY <1>1, <1>2, <1>4, <2>1, <2>3, OthersStay
  <2>5. CopyingFile'
    BY <1>1, <1>2, <1>4, <2>1, <2>3 DEF CopyingFile, Present
  <2>6. NothingElse' /\ Noticed'
    BY <1>1, <1>2, <1>4, <2>1, <2>3 DEF NothingElse, Noticed
  <2>7. InstallTypes'
    BY <1>1, <1>2, <1>4, <2>1, <2>3 DEF InstallTypes
  <2> QED
    BY <1>4, <2>3, <2>4, <2>5, <2>6, <2>7, NothingIsDeleted DEF InstallInv
<1>5. CASE /\ step' = "giveUp" /\ UNCHANGED <<copied, disk>>
           /\ ((dest = "D" => dest \notin open) /\ Works) \/ BreaksFor("write", {})
  <2>1. /\ faults' \in 0..MaxFaults /\ starts' \in 0..MaxStarts /\ hit' \subseteq Dirs \cup Files
        /\ hit' = hit /\ broken' # {}
    <3>1. CASE (dest = "D" => dest \notin open) /\ Works
      <4>1. file \in hit
        BY <1>2, <3>1
      <4> QED
        BY <1>2, <1>3, <3>1, <4>1, CallHolds DEF Noticed
    <3>2. CASE BreaksFor("write", {})
      BY <1>2, <3>2, CallBreaks
    <3> QED
      BY <1>5, <3>1, <3>2
  <2>2. DiskIsTree' /\ NothingElse' /\ CopiedDirs' /\ Queue' /\ CopyingFile'
    BY <1>1, <1>5, <2>1, GivingUp
  <2>3. Noticed'
    BY <1>5, <2>1 DEF Noticed
  <2>4. InstallTypes'
    BY <1>1, <1>2, <1>5, <2>1 DEF InstallTypes
  <2> QED
    BY <1>5, <2>2, <2>3, <2>4, NothingIsDeleted DEF InstallInv
<1> QED
  BY <1>1, <1>4, <1>5
(* Both handles are closed: a file that was not hit is whole then.          *)
LEMMA CloseFilesHolds == ASSUME InstallInv, CloseFiles PROVE InstallInv'
<1>1. /\ step \in {"close", "giveUp"} /\ step' = IF step = "close" THEN "entries" ELSE "failed"
      /\ open' = open \ {source, dest}
      /\ \/ Works /\ UNCHANGED disk
         \/ "D" \in open /\ disk[file] > 0 /\ BreaksFor("flush", {file}) /\ disk' = With(file, disk[file] - 1)
      /\ UNCHANGED <<stack, toCopy, current, todo, file, source, dest, copied>>
  BY DEF CloseFiles, tree, StepTo, BreaksFile
<1>2. /\ InstallTypes /\ Noticed /\ DiskIsTree /\ NothingElse
      /\ file \in Files /\ Parent[file] = current /\ Size[file] \in Nat
      /\ "D" \in open => dest = "D" /\ file \in DOMAIN disk /\ disk[file] \in Nat
      /\ "S" \in open => source = "S"
      /\ open \subseteq {"S", "D"}
  BY <1>1, SizesAreNumbers DEF InstallInv, Queue, CopyingFile, InstallTypes, Present
<1>3. open' = {}
  BY <1>1, <1>2
<1>4. {file} \in SUBSET (Dirs \cup Files)
  BY <1>2
<1>5. /\ disk' \in [DOMAIN disk' -> Contents] /\ DOMAIN disk' = DOMAIN disk
      /\ DOMAIN disk' \subseteq Names
      /\ \A m \in DOMAIN disk \ {file} : disk'[m] = disk[m]
      /\ DiskIsTree'
      /\ faults' \in 0..MaxFaults /\ starts' \in 0..MaxStarts /\ hit' \subseteq Dirs \cup Files
      /\ hit \subseteq hit' /\ broken \subseteq broken' /\ broken' \subseteq broken \cup {"flush"}
      /\ hit' # {} => broken' # {}
      /\ file \notin hit' => disk' = disk
  <2>1. CASE Works /\ UNCHANGED disk
    <3>1. /\ faults' \in 0..MaxFaults /\ starts' \in 0..MaxStarts /\ hit' \subseteq Dirs \cup Files
          /\ broken' = broken /\ hit' = hit
      BY <1>2, <1>4, <2>1, CallHolds
    <3>2. DiskIsTree' /\ disk' \in [DOMAIN disk' -> Contents] /\ DOMAIN disk' \subseteq Names
      BY <1>2, <2>1 DEF InstallTypes, DiskIsTree, IsTree
    <3>3. hit # {} => broken # {}
      BY <1>2 DEF Noticed
    <3> QED
      BY <2>1, <3>1, <3>2, <3>3
  <2>2. CASE "D" \in open /\ disk[file] > 0 /\ BreaksFor("flush", {file}) /\ disk' = With(file, disk[file] - 1)
    <3>1. /\ faults' \in 0..MaxFaults /\ starts' \in 0..MaxStarts /\ hit' \subseteq Dirs \cup Files
          /\ broken' = broken \cup {"flush"} /\ hit' = hit \cup {file}
      BY <1>2, <1>4, <2>2, CallHolds
    <3>2. PICK c \in Nat : c = disk[file] - 1
      BY <1>2, <2>2
    <3>3. step \in InFile /\ disk' = With(file, c) /\ file \in DOMAIN disk /\ ~IsDirectory(file)
      BY <1>1, <1>2, <2>2, <3>2, ContentsDiffer DEF IsDirectory
    <3>4. /\ disk' \in [DOMAIN disk' -> Contents] /\ DOMAIN disk' = DOMAIN disk \cup {file}
          /\ DOMAIN disk' \subseteq Names
          /\ \A m \in DOMAIN disk \ {file} : disk'[m] = disk[m]
          /\ DiskIsTree'
      BY <3>3, FileHolds
    <3>5. DOMAIN disk' = DOMAIN disk
      BY <3>3, <3>4
    <3> QED
      BY <3>1, <3>4, <3>5
  <2> QED
    BY <1>1, <2>1, <2>2
<1>6. InstallTypes'
  BY <1>1, <1>2, <1>3, <1>5 DEF InstallTypes
<1>7. NothingElse'
  <2>1. file \notin Dirs
    BY <1>2, TreeIsRooted
  <2> QED
    BY <1>1, <1>2, <1>5, <2>1 DEF NothingElse
<1>8. Noticed'
  BY <1>1, <1>2, <1>5 DEF Noticed
<1>9. CASE step = "giveUp"
  <2>1. step' = "failed"
    BY <1>1, <1>9
  <2>2. CopiedDirs' /\ Queue' /\ CopyingFile'
    BY <1>3, <2>1, NothingIsCopied DEF Idle
  <2> QED
    BY <1>5, <1>6, <1>7, <1>8, <2>1, <2>2, NothingIsDeleted DEF InstallInv
<1>10. CASE step = "close"
  <2>1. step' = "entries"
    BY <1>1, <1>10
  <2>2. file \notin hit' => Present(file)' /\ disk'[file] = Size[file]
    <3> SUFFICES ASSUME file \notin hit'
                 PROVE  Present(file)' /\ disk'[file] = Size[file]
      OBVIOUS
    <3>1. file \notin hit /\ disk' = disk
      BY <1>5
    <3>2. disk[file] = copied /\ copied = Size[file] /\ "D" \in open
      BY <1>10, <3>1 DEF InstallInv, CopyingFile
    <3> QED
      BY <1>1, <1>2, <3>1, <3>2 DEF Present
  <2>3. PICK done \in SUBSET Dirs : IsDone(done)
    BY <1>10 DEF InstallInv, CopiedDirs
  <2>4. Busy = {current} /\ Busy' = {current} /\ Queued' = Queued
    BY <1>1, <1>10, <2>1 DEF Busy, Queued
  <2>5. \A n : n # file /\ Settled(n, done) => Settled(n, done)'
    <3>1. \A n \in Files : n # file /\ Present(n) => Present(n)' /\ disk'[n] = disk[n]
      BY <1>5 DEF Present
    <3> QED
      BY <1>1, <2>4, <3>1 DEF Settled
  <2>6. file \notin hit' => Settled(file, done)'
    BY <1>1, <1>2, <2>2, TreeIsRooted DEF Settled, Present
  <2>7. /\ Root \in done \cup {current} \cup Queued
        /\ done \cap {current} = {} /\ Queued \cap (done \cup {current}) = {}
        /\ todo \cap (done \cup {current} \cup Queued) = {}
        /\ \A n \in done \cup {current} : IsDirectory(n)
        /\ \A n \in (done \cup {current} \cup Queued) \ {Root} : Parent[n] \in done \cup {current}
        /\ \A n \in done : \A m \in Children(n, Dirs \cup Files) \ hit : Settled(m, done)
        /\ \A n \in Children(current, Dirs \cup Files) \ hit :
             n \in todo \/ n = file \/ Settled(n, done)
    BY <1>10, <2>3, <2>4 DEF IsDone
  <2>8. \A n \in done : \A m \in Children(n, Dirs \cup Files) \ hit' : Settled(m, done)'
    <3> SUFFICES ASSUME NEW n \in done, NEW m \in Children(n, Dirs \cup Files) \ hit'
                 PROVE  Settled(m, done)'
      OBVIOUS
    <3>1. m \notin hit /\ Settled(m, done)
      BY <1>5, <2>7
    <3> QED
      BY <1>1, <2>5, <2>6, <3>1
  <2>9. \A n \in Children(current, Dirs \cup Files) \ hit' : n \in todo \/ Settled(n, done)'
    <3> SUFFICES ASSUME NEW n \in Children(current, Dirs \cup Files) \ hit', n \notin todo
                 PROVE  Settled(n, done)'
      OBVIOUS
    <3>1. n \notin hit /\ (n = file \/ Settled(n, done))
      BY <1>5, <2>7
    <3> QED
      BY <1>1, <2>5, <2>6, <3>1
  <2>10. \A n \in done \cup {current} : IsDirectory(n)'
    <3>1. \A n \in done \cup {current} : n # file
      BY <1>2, TreeIsRooted DEF InstallTypes
    <3> QED
      BY <1>5, <2>7, <3>1 DEF Present, IsDirectory
  <2>11. step' # "source" /\ UNCHANGED <<current, todo>>
    BY <1>1, <2>1
  <2>12. IsDone(done)'
    BY <2>4, <2>7, <2>8, <2>9, <2>10, <2>11 DEF IsDone
  <2>13. CopiedDirs'
    BY <2>12 DEF CopiedDirs
  <2>14. Queue' /\ CopyingFile'
    BY <1>1, <1>3, <1>10, <2>1 DEF InstallInv, Queue, CopyingFile
  <2> QED
    BY <1>5, <1>6, <1>7, <1>8, <2>1, <2>13, <2>14, NothingIsDeleted DEF InstallInv
<1> QED
  BY <1>1, <1>9, <1>10

-----------------------------------------------------------------------------
(* UwpInit's end.                                                           *)
LEMMA FlowOffHolds == ASSUME InstallInv, FlowOff PROVE InstallInv'
<1>1. /\ step = "installed" /\ step' \in {"tests", "stopped"}
      /\ UNCHANGED <<disk, stack, toCopy, current, todo, file, source, dest, open, copied>>
      /\ UNCHANGED <<faults, starts, broken, hit>>
  BY DEF FlowOff, tree, copy, history, StepTo
<1>2. open' = {}
  BY <1>1 DEF InstallInv, CopyingFile
<1>3. CopiedDirs' /\ Queue' /\ CopyingFile'
  BY <1>1, <1>2, NothingIsCopied DEF Idle
<1>4. InstallTypes' /\ DiskIsTree' /\ NothingElse' /\ Noticed'
  BY <1>1 DEF InstallInv, InstallTypes, DiskIsTree, IsTree, NothingElse, Noticed
<1> QED
  BY <1>1, <1>3, <1>4, NothingIsDeleted DEF InstallInv

(* The program is started again: the disk is a tree still.                  *)
LEMMA RestartHolds == ASSUME InstallInv, Restart PROVE InstallInv'
<1>1. /\ starts < MaxStarts /\ starts' = starts + 1 /\ step' = "check"
      /\ stack' = <<>> /\ toCopy' = <<>> /\ current' = Root /\ todo' = {}
      /\ source' = Closed /\ dest' = Closed /\ open' = {} /\ copied' = 0
      /\ broken' = {} /\ hit' = {} /\ UNCHANGED <<disk, faults>>
  BY DEF Restart, StepTo
<1>2. CopiedDirs' /\ Queue' /\ CopyingFile'
  BY <1>1, NothingIsCopied DEF Idle
<1>3. stack' \in Seq(Frames) /\ toCopy' \in Seq(Dirs)
  BY <1>1
<1>4. starts' \in 0..MaxStarts
  BY <1>1, BoundsAreNumbers DEF InstallInv, InstallTypes
<1>5. InstallTypes'
  BY <1>1, <1>3, <1>4, TreeIsRooted DEF InstallInv, InstallTypes
<1>6. DiskIsTree' /\ NothingElse' /\ Noticed'
  BY <1>1 DEF InstallInv, DiskIsTree, IsTree, NothingElse, Noticed
<1> QED
  BY <1>1, <1>2, <1>5, <1>6, NothingIsDeleted DEF InstallInv

(* Nothing changes.                                                         *)
LEMMA StutteringHolds == ASSUME InstallInv, UNCHANGED installVars PROVE InstallInv'
<1>1. /\ UNCHANGED <<disk, step, stack, toCopy, current, todo, file, source, dest, open, copied>>
      /\ UNCHANGED <<faults, starts, broken, hit>>
  BY DEF installVars, tree, copy, history
<1>2. InstallTypes' /\ DiskIsTree' /\ NothingElse'
  BY <1>1 DEF InstallInv, InstallTypes, DiskIsTree, IsTree, NothingElse
<1>3. Deleting' /\ Noticed' /\ Queue' /\ CopyingFile'
  BY <1>1 DEF InstallInv, Deleting, Children, Noticed, Queue, CopyingFile, Present
<1>4. DeletingAll'
  BY <1>1 DEF InstallInv, DeletingAll, Remaining, Children
<1>5. CopiedDirs'
  <2> SUFFICES ASSUME step \in Copying PROVE \E done \in SUBSET Dirs : IsDone(done)'
    BY <1>1 DEF CopiedDirs
  <2>1. PICK done \in SUBSET Dirs : IsDone(done)
    BY DEF InstallInv, CopiedDirs
  <2>2. Busy' = Busy /\ Queued' = Queued
    BY <1>1 DEF Busy, Queued
  <2>3. \A n : IsDirectory(n)' = IsDirectory(n) /\ (Settled(n, done) => Settled(n, done)')
    BY <1>1, <2>2 DEF Settled, Present, IsDirectory
  <2>4. IsDone(done)'
    BY <1>1, <2>1, <2>2, <2>3 DEF IsDone
  <2> QED
    BY <2>4
<1> QED
  BY <1>2, <1>3, <1>4, <1>5 DEF InstallInv

(* InstallInv holds for ever.                                               *)
THEOREM InstallInvHolds == InstallSpec => []InstallInv
<1>1. InstallInit => InstallInv
  BY InstallInitHolds
<1>2. InstallInv /\ [InstallNext]_installVars => InstallInv'
  <2> SUFFICES ASSUME InstallInv, [InstallNext]_installVars PROVE InstallInv'
    OBVIOUS
  <2>1. CASE CheckMedia \/ ListToDelete \/ DeleteFile \/ DeleteSubdirectory \/ RemoveDirectory
    BY <2>1, CheckMediaHolds, ListToDeleteHolds, DeleteFileHolds, DeleteSubdirectoryHolds,
       RemoveDirectoryHolds
  <2>2. CASE CreateMedia \/ NextDirectory \/ ListSource \/ QueueDirectory \/ EntriesDone \/ AllCopied
    BY <2>2, CreateMediaHolds, NextDirectoryHolds, ListSourceHolds, QueueDirectoryHolds,
       EntriesDoneHolds, AllCopiedHolds
  <2>3. CASE CopyFile \/ OpenSource \/ OpenDest \/ ReadBlock \/ WriteBlock \/ CloseFiles
    BY <2>3, CopyFileHolds, OpenSourceHolds, OpenDestHolds, ReadBlockHolds, WriteBlockHolds,
       CloseFilesHolds
  <2>4. CASE FlowOff \/ Restart
    BY <2>4, FlowOffHolds, RestartHolds
  <2>5. CASE UNCHANGED installVars
    BY <2>5, StutteringHolds
  <2> QED
    BY <2>1, <2>2, <2>3, <2>4, <2>5 DEF InstallNext, Run
<1> QED
  BY <1>1, <1>2, PTL DEF InstallSpec

(* What is intact of the assets was copied, from the root downwards.        *)
LEMMA IntactIsSettled ==
  ASSUME InstallInv, step = "installed", NEW n \in Dirs \cup Files, Intact(n)
  PROVE  /\ n \in Dirs => IsDirectory(n)
         /\ n \in Files => Present(n) /\ disk[n] = Size[n]
<1>1. PICK done \in SUBSET Dirs : IsDone(done)
  BY DEF InstallInv, CopiedDirs
<1>2. Busy = {} /\ Queued = {}
  <2>1. toCopy = <<>>
    BY DEF InstallInv, Queue
  <2> QED
    BY <2>1 DEF Busy, Queued
<1>3. /\ Root \in done /\ \A d \in done : IsDirectory(d)
      /\ \A d \in done : \A m \in Children(d, Dirs \cup Files) \ hit :
           /\ m \in Dirs => m \in done
           /\ m \in Files => Present(m) /\ disk[m] = Size[m]
  BY <1>1, <1>2 DEF IsDone, Settled
<1>4. PICK above \in SUBSET (Dirs \cup Files) :
        n \in above /\ above \cap hit = {} /\ \A m \in above \ {Root} : Parent[m] \in above
  BY DEF Intact
<1>5. \A m \in above \ {Root} : Parent[m] \in done => m \in done \cup Files
  BY <1>3, <1>4 DEF Children
<1>6. above \cap Dirs \subseteq done
  <2> DEFINE S == (above \cap Dirs) \ done
  <2>1. S \in SUBSET Dirs
    OBVIOUS
  <2>2. \A d \in S : d # Root /\ Parent[d] \in S
    BY <1>3, <1>4, <1>5, TreeIsRooted
  <2>3. S = {} \/ \E d \in S : d = Root \/ Parent[d] \notin S
    BY <2>1, TreeIsRooted
  <2> QED
    BY <2>2, <2>3
<1>7. CASE n \in Dirs
  BY <1>3, <1>4, <1>6, <1>7, TreeIsRooted
<1>8. CASE n \in Files
  <2>1. n # Root /\ Parent[n] \in above \cap Dirs
    BY <1>4, <1>8, TreeIsRooted
  <2>2. n \in Children(Parent[n], Dirs \cup Files) \ hit
    BY <1>4, <1>8, <2>1 DEF Children
  <2> QED
    BY <1>3, <1>6, <1>8, <2>1, <2>2
<1> QED
  BY <1>7, <1>8

-----------------------------------------------------------------------------
(* Whatever earlier versions and earlier starts left, when DirectoryCopy    *)
(* has returned TRUE the media is the assets, but for what an unnoticed     *)
(* failure hit.                                                             *)
THEOREM InstallsAreExact == InstallSpec => []InstallIsExact
<1>1. InstallInv => InstallIsExact
  <2> SUFFICES ASSUME InstallInv, step = "installed"
               PROVE  /\ \A d \in Dirs : Intact(d) => IsDirectory(d)
                      /\ \A f \in Files : Intact(f) => Present(f) /\ disk[f] = Size[f]
                      /\ DOMAIN disk \subseteq Dirs \cup Files \/ "query" \in broken
    BY DEF InstallIsExact
  <2>1. \A d \in Dirs : Intact(d) => IsDirectory(d)
    BY IntactIsSettled
  <2>2. \A f \in Files : Intact(f) => Present(f) /\ disk[f] = Size[f]
    BY IntactIsSettled
  <2>3. DOMAIN disk \subseteq Dirs \cup Files \/ "query" \in broken
    BY DEF InstallInv, NothingElse
  <2> QED
    BY <2>1, <2>2, <2>3
<1> QED
  BY <1>1, InstallInvHolds, PTL

(* A call that fails stops the installation, but for the kinds listed, and  *)
(* nothing else stops it.                                                   *)
THEOREM FailuresNoticed == InstallSpec => []FailuresAreNoticed
<1>1. InstallInv => FailuresAreNoticed
  <2> SUFFICES ASSUME InstallInv PROVE FailuresAreNoticed
    OBVIOUS
  <2>1. InstallTypeOK
    <3>1. \A n \in DOMAIN disk : disk[n] \in {Directory, Old} \cup Nat
      BY DEF InstallInv, InstallTypes
    <3> QED
      BY <3>1 DEF InstallInv, InstallTypes, InstallTypeOK
  <2> QED
    BY <2>1 DEF InstallInv, Noticed, FailuresAreNoticed
<1> QED
  BY <1>1, InstallInvHolds, PTL
=============================================================================
