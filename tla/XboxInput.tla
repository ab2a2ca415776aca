----------------------------- MODULE XboxInput ------------------------------
(***************************************************************************)
(* Controllers, keyboards and mice on the Xbox: XboxOGWindowHelper.cpp     *)
(* opens and closes them as XGetDeviceChanges reports, and tells the       *)
(* script what changed, once a frame in PollEvents.                        *)
(*                                                                         *)
(* The player plugs, pulls, types and moves at any moment between the      *)
(* three parts of a poll. A report holds the insertions and the removals   *)
(* since the last one of the same kind: both for a device that was pulled  *)
(* and plugged in again. Devices are opened and the key queue is made      *)
(* without failure. A position the script sets is whole, as the code       *)
(* truncates it, and fits int32_t with any motion added. One mouse button  *)
(* stands for the five; modifiers, characters and the wheel, which are     *)
(* passed on as they come, are left out, and so are the controllers'       *)
(* buttons, which are read on request. A behaviour touches devices of one  *)
(* kind only, as the three parts of a poll share nothing else.             *)
(***************************************************************************)
EXTENDS Integers, Sequences, FiniteSetsExt

CONSTANTS Places,       \* ports, and slots of keyboards and mice, numbered from 1
          Keys,         \* keys of m_virtualKeyToScancodeMap
          QueueSize,    \* dwQueueSize
          Width, Height, Motions, \* of the window; of a mouse, as <<x, y>>
          Positions,    \* the script sets the cursor to, in the window or not
          MaxEvents     \* bounds what the player and the script do

ASSUME PlacesAreNumbered == Places = 1..Cardinality(Places)
ASSUME SizesArePositive == {QueueSize, Width, Height} \subseteq Nat \ {0}
ASSUME MotionsAreSteps == Motions \cup Positions \subseteq Int \X Int
ASSUME BoundIsNumber == MaxEvents \in Nat

VARIABLES
  busy,     \* the kind of devices the player touches
  turn,     \* which part of PollEvents comes next
  plugged, known, pulled, \* by kind: what is plugged in, was at the last report, was pulled since
  handles,  \* m_controllerHandles, m_keyboardHandles, m_mouseHandles that are not NULL
  held,     \* keys that are down, with their keyboard
  queue,    \* keystrokes XInputDebugGetKeystroke has yet to return
  keys,     \* m_keyboardKeys
  mouse,    \* each mouse: its packet's number, motion and button
  states,   \* m_mouseStates
  seen,     \* m_lastMousePacket
  cursor,   \* m_mouseX and m_mouseY
  button,   \* m_mouseButtons
  told,     \* what the script's callbacks were told
  events,
  crossed,  \* history: controllers last reported inserted and removed at once
  missed,   \* history: keyboards whose last change the loop did not get to
  doubtful, \* history: keys whose last stroke was lost or released one that is still held
  mover,    \* history: the mouse whose packet was applied last, or 0
  fresh     \* history: mice plugged in since a packet of theirs was noticed

devices == <<plugged, known, pulled>>
keyboard == <<held, queue, keys, missed, doubtful>>
pointer == <<states, seen, cursor, button, mover>>
inputVars == <<busy, turn, devices, handles, keyboard, mouse, pointer, told, events, crossed, fresh>>

Kinds == {"pad", "keyboard", "mouse"}
Still == [packet |-> 0, motion |-> <<0, 0>>, button |-> FALSE]
Put(f, kind, set) == [f EXCEPT ![kind] = set]

(* Init opens the keyboards and mice it finds; the constructor's state.     *)
InputInit ==
  /\ turn = "pad" /\ busy \in Kinds
  /\ plugged \in {Put([kind \in Kinds |-> {}], busy, set) : set \in SUBSET Places}
  /\ known = Put(plugged, "pad", {}) /\ handles = known
  /\ pulled = [kind \in Kinds |-> {}]
  /\ held = {} /\ queue = <<>> /\ keys = [key \in Keys |-> FALSE]
  /\ mouse = [m \in Places |-> Still] /\ states = mouse /\ seen = [m \in Places |-> 0]
  /\ cursor = <<0, 0>> /\ button = FALSE
  /\ told = [pads |-> {}, keys |-> keys, cursor |-> cursor, button |-> button]
  /\ events = 0 /\ crossed = {} /\ missed = {} /\ doubtful = {} /\ mover = 0 /\ fresh = {}

----------------------------------------------------------------------------
(* The player.                                                              *)
Happens == events < MaxEvents /\ events' = events + 1

Plug(kind, n) ==
  /\ Happens /\ n \notin plugged[kind]
  /\ plugged' = Put(plugged, kind, plugged[kind] \cup {n})
  /\ IF kind = "mouse"
     THEN mouse' = [mouse EXCEPT ![n] = Still] /\ fresh' = fresh \cup {n}
     ELSE UNCHANGED <<mouse, fresh>>
  /\ UNCHANGED <<turn, known, pulled, handles, keyboard, pointer, told, crossed>>

IsHeld(key, holders) == \E k \in Places : <<k, key>> \in holders

Unplug(kind, n) ==
  /\ Happens /\ n \in plugged[kind]
  /\ plugged' = Put(plugged, kind, plugged[kind] \ {n})
  /\ pulled' = Put(pulled, kind, pulled[kind] \cup (known[kind] \cap {n}))
  /\ IF kind = "keyboard"
     THEN /\ held' = {h \in held : h[1] # n}
          /\ doubtful' = doubtful \cup {key \in Keys : IsHeld(key, held) /\ ~IsHeld(key, held')}
     ELSE UNCHANGED <<held, doubtful>>
  /\ UNCHANGED <<turn, known, handles, queue, keys, missed, mouse, pointer, told, crossed, fresh>>

(* Only a keyboard the program has opened is heard, and only up to the      *)
(* queue's size.                                                            *)
Heard(k) == k \in (handles["keyboard"] \cap known["keyboard"]) \ (missed \cup pulled["keyboard"])

Stroke(k, key, down) ==
  IF Heard(k) /\ Len(queue) < QueueSize
  THEN /\ queue' = Append(queue, [key |-> key, down |-> down])
       /\ doubtful' = IF down = IsHeld(key, held') THEN doubtful \ {key} ELSE doubtful \cup {key}
  ELSE UNCHANGED queue /\ doubtful' = IF held' = held THEN doubtful ELSE doubtful \cup {key}

Press(k, key) ==
  /\ Happens /\ k \in plugged["keyboard"]
  /\ held' = held \cup {<<k, key>>}   \* again: the stroke of a repeated key
  /\ Stroke(k, key, TRUE)
  /\ UNCHANGED <<turn, devices, handles, keys, missed, mouse, pointer, told, crossed, fresh>>

Release(k, key) ==
  /\ Happens /\ <<k, key>> \in held
  /\ held' = held \ {<<k, key>>}
  /\ Stroke(k, key, FALSE)
  /\ UNCHANGED <<turn, devices, handles, keys, missed, mouse, pointer, told, crossed, fresh>>

Move(m) ==
  /\ Happens /\ m \in plugged["mouse"]
  /\ \E motion \in Motions, pressed \in BOOLEAN :
       mouse' = [mouse EXCEPT ![m] =
                  [packet |-> mouse[m].packet + 1, motion |-> motion, button |-> pressed]]
  /\ UNCHANGED <<turn, devices, handles, keyboard, pointer, told, crossed, fresh>>

(* The script may move the cursor, between the polls: nothing keeps it in   *)
(* the window.                                                              *)
SetMouseCursorPosition ==
  /\ Happens /\ turn = "pad" /\ busy = "mouse"
  /\ cursor' \in Positions
  /\ told' = [told EXCEPT !.cursor = cursor']
  /\ UNCHANGED <<turn, devices, handles, keyboard, mouse, states, seen, button, mover, crossed, fresh>>

----------------------------------------------------------------------------
(* XGetDeviceChanges                                                        *)
Insertions(kind) == plugged[kind] \ (known[kind] \ pulled[kind])
Removals(kind) == pulled[kind]
Changed(kind) == Insertions(kind) \cup Removals(kind)
Report(kind) ==
  known' = Put(known, kind, plugged[kind]) /\ pulled' = Put(pulled, kind, {}) /\ UNCHANGED plugged

ProcessControllerKeeping ==   \* mutant: a closed controller's handle is not set to NULL
  /\ turn = "pad" /\ turn' = "keyboard" /\ Report("pad")
  /\ handles' = Put(handles, "pad", handles["pad"] \cup Insertions("pad"))
  /\ told' = [told EXCEPT !.pads = handles'["pad"]]
  /\ crossed' = (crossed \ Changed("pad")) \cup (Insertions("pad") \cap Removals("pad"))
  /\ UNCHANGED <<keyboard, mouse, pointer, events, fresh>>

(* Each port's insertion is done before its removal.                        *)
ProcessController ==
  /\ turn = "pad" /\ turn' = "keyboard" /\ Report("pad")
  /\ handles' = Put(handles, "pad", (handles["pad"] \cup Insertions("pad")) \ Removals("pad"))
  /\ told' = [told EXCEPT !.pads = (told.pads \cup Insertions("pad")) \ Removals("pad")]
  /\ crossed' = (crossed \ Changed("pad")) \cup (Insertions("pad") \cap Removals("pad"))
  /\ UNCHANGED <<keyboard, mouse, pointer, events, fresh>>

(* Here removals come first.  The loop ends at the first place with a       *)
(* handle once there is a keystroke.                                        *)
IsOpen(k) ==
  \/ k \in Insertions("keyboard")
  \/ k \in handles["keyboard"] \ Removals("keyboard")
Answering == {k \in Places : IsOpen(k) /\ queue # <<>>}
Reached == IF Answering = {} THEN Places ELSE 1..Min(Answering)

TakeStrokeOfFirst ==   \* mutant: only the first place is asked for keystrokes
  IF 1 \notin Answering THEN UNCHANGED <<queue, keys, told>>
  ELSE /\ queue' = Tail(queue)
       /\ keys' = [keys EXCEPT ![Head(queue).key] = Head(queue).down]
       /\ told' = [told EXCEPT !.keys = keys']

TakeStrokePressed ==   \* mutant: the flag of a release is not looked at
  IF Answering = {} THEN UNCHANGED <<queue, keys, told>>
  ELSE /\ queue' = Tail(queue)
       /\ keys' = [keys EXCEPT ![Head(queue).key] = TRUE]
       /\ told' = [told EXCEPT !.keys = keys']

TakeStroke ==
  IF Answering = {} THEN UNCHANGED <<queue, keys, told>>
  ELSE /\ queue' = Tail(queue)
       /\ keys' = [keys EXCEPT ![Head(queue).key] = Head(queue).down]
       /\ told' = [told EXCEPT !.keys = keys']

ProcessKeyboard ==
  /\ turn = "keyboard" /\ turn' = "mouse" /\ Report("keyboard")
  /\ handles' = Put(handles, "keyboard",
                    {k \in Reached : IsOpen(k)} \cup (handles["keyboard"] \ Reached))
  /\ missed' = (missed \ Changed("keyboard")) \cup (Changed("keyboard") \ Reached)
  /\ TakeStroke
  /\ UNCHANGED <<held, doubtful, mouse, pointer, events, crossed, fresh>>

(* The packet numbers of all mice are stored, then the first that moved is  *)
(* applied.                                                                 *)
Clamp(n, max) == IF n < 0 THEN 0 ELSE IF n > max THEN max ELSE n

ApplyTellingMotion(m) ==   \* mutant: buttons are told with the motion only
  LET motion == states'[m].motion
      moves == motion[1] > 0 \/ motion[2] > 0 IN
    /\ cursor' = <<Clamp(cursor[1] + motion[1], Width), Clamp(cursor[2] + motion[2], Height)>>
    /\ button' = states'[m].button /\ mover' = m
    /\ told' = IF moves THEN [told EXCEPT !.cursor = cursor', !.button = button'] ELSE told

Apply(m) ==
  LET motion == states'[m].motion IN
    /\ cursor' = <<Clamp(cursor[1] + motion[1], Width), Clamp(cursor[2] + motion[2], Height)>>
    /\ button' = states'[m].button /\ mover' = m
    /\ told' = [told EXCEPT
                 !.cursor = IF motion[1] > 0 \/ motion[2] > 0 THEN cursor' ELSE told.cursor,
                 !.button = button']

ProcessMouse ==
  /\ turn = "mouse" /\ turn' = "pad" /\ Report("mouse")
  /\ handles' = Put(handles, "mouse", (handles["mouse"] \ Removals("mouse")) \cup Insertions("mouse"))
  /\ states' = [m \in Places |-> IF m \in handles'["mouse"] THEN mouse[m] ELSE states[m]]
  /\ seen' = [m \in Places |-> states'[m].packet]
  /\ LET moved == {m \in Places : seen'[m] # seen[m]} IN
       /\ fresh' = fresh \ moved
       /\ IF moved = {} THEN UNCHANGED <<cursor, button, told, mover>> ELSE Apply(Min(moved))
  /\ UNCHANGED <<keyboard, mouse, events, crossed>>

PollEvents == ProcessController \/ ProcessKeyboard \/ ProcessMouse

Player ==
  \E n \in Places :
    \/ Plug(busy, n) \/ Unplug(busy, n)
    \/ \E key \in Keys : Press(n, key) \/ Release(n, key)
    \/ Move(n)

InputNext == UNCHANGED busy /\ (Player \/ SetMouseCursorPosition \/ PollEvents)

InputSpec == InputInit /\ [][InputNext]_inputVars

(* RenderLoop polls in every frame.                                         *)
FairInputSpec == InputSpec /\ WF_inputVars(PollEvents /\ UNCHANGED busy)

----------------------------------------------------------------------------
InputTypeOK ==
  /\ turn \in Kinds /\ {plugged, known, pulled, handles} \subseteq [Kinds -> SUBSET Places]
  /\ held \subseteq Places \X Keys /\ Len(queue) <= QueueSize /\ keys \in [Keys -> BOOLEAN]
  /\ {states[m].packet : m \in Places} \cup {seen[m] : m \in Places} \subseteq 0..MaxEvents
  /\ cursor \in Int \X Int /\ button \in BOOLEAN
  /\ crossed \cup missed \subseteq Places /\ doubtful \subseteq Keys /\ mover \in Places \cup {0}

(* After any order of plugging and pulling, a device has a handle exactly   *)
(* when it was plugged in at the last report, but for two kinds: a          *)
(* controller pulled and plugged in between two polls has none, and a       *)
(* keyboard's change is lost when a keystroke ended the loop before it.     *)
HandlesFollowDevices ==
  /\ InputTypeOK
  /\ handles["pad"] = known["pad"] \ crossed
  /\ handles["keyboard"] \ missed = known["keyboard"] \ missed
  /\ handles["mouse"] = known["mouse"]

(* A key's state, once the strokes in the queue are taken, is the           *)
(* keyboard's, but for keys doubtful since a stroke was lost - the queue    *)
(* full, the keyboard pulled or not opened - or since one of two keyboards  *)
(* released it.                                                             *)
Waits(key, after) == \E n \in DOMAIN queue : n > after /\ queue[n].key = key
KeysFollowTheKeyboard ==
  \A key \in Keys \ doubtful :
    /\ ~Waits(key, 0) => (keys[key] <=> IsHeld(key, held))
    /\ \A n \in DOMAIN queue :
         queue[n].key = key /\ ~Waits(key, n) => (queue[n].down <=> IsHeld(key, held))

(* What the callbacks told the script is what it would read: controllers,   *)
(* keys, and the button, which is that of the mouse whose packet was        *)
(* applied last unless that mouse was plugged in again with the packet      *)
(* number it had.  A cursor moved left or up only is not told, so the       *)
(* script's is never left of or above the real one, unless the script put   *)
(* it left of or above the window, from where such a motion moves it to the *)
(* window's edge; and a cursor outside the window is the script's own.      *)
ScriptIsTold ==
  /\ told.pads = handles["pad"] /\ told.keys = keys /\ told.button = button
  /\ mover \in Places \ fresh => button = states[mover].button
  /\ \A axis \in 1..2 :
       \/ told.cursor[axis] >= cursor[axis]
       \/ told.cursor[axis] < 0 /\ cursor[axis] = 0
  /\ cursor \in (0..Width) \X (0..Height) \/ cursor = told.cursor

(* One keystroke is taken a frame: while some keyboard has a handle the     *)
(* queue empties once the player stops typing.                              *)
StrokesAreTaken == <>[](handles["keyboard"] # {}) => <>[](queue = <<>>)
=============================================================================
