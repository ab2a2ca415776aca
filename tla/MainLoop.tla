------------------------------ MODULE MainLoop ------------------------------
(***************************************************************************)
(* The life of the program on a desktop: main of src/NexgenRedux-PC, the   *)
(* RenderLoop of WindowManager.cpp and the window of                       *)
(* OpenGLWindowHelper.cpp.  The script runs in ExecuteInit, in             *)
(* ExecuteUpdate and in the callbacks glfwPollEvents raises, and may open  *)
(* and close the window in each; window, context and GLFW itself may fail. *)
(*                                                                         *)
(* What the frame's other calls do is the subject of other modules.  GLFW  *)
(* and GL are kept as far as the code relies on them: a window lives until *)
(* it is destroyed or GLFW is terminated, and at most one context is       *)
(* current.  The audio device is taken to start (see Audio).               *)
(***************************************************************************)
EXTENDS Naturals, Sequences

CONSTANT MaxWindows   \* bounds the windows ever made

ASSUME BoundIsPositive == MaxWindows \in Nat \ {0}

VARIABLES
  phase,       \* where main is
  left,        \* the early return main took: "config", "start", "engine", "init", "loop" or "none"
  loader,      \* TextureManager's thread: "none", "runs" or "stopped"
  audio,       \* the audio device's thread, likewise
  engine,      \* AngelScriptRunner: "none", "open" or "closed"
  marked,      \* the helper's m_initialized
  up,          \* is GLFW initialised?
  alive,       \* windows GLFW has made and not destroyed
  window,      \* m_window
  context,     \* the window whose context is current
  made,        \* windows made so far
  shouldClose, \* the flag glfwWindowShouldClose reads
  exiting,     \* exitRequested
  helper,      \* the context in which OpenGLRenderingHelper made its objects
  closed       \* history: the script has closed a window since RenderLoop began

threads == <<loader, audio, engine>>
glfw == <<marked, up, alive, window, context, made, shouldClose>>
vars == <<phase, left, threads, glfw, exiting, helper, closed>>

NoWindow == 0

Init ==
  /\ phase = "config" /\ left = "none"
  /\ loader = "none" /\ audio = "none" /\ engine = "none"
  /\ marked = FALSE /\ up = FALSE
  /\ alive = {} /\ window = NoWindow /\ context = NoWindow /\ made = 0
  /\ shouldClose = FALSE /\ exiting = FALSE /\ helper = NoWindow /\ closed = FALSE

(* The order in which main closes what it has opened.                       *)
WindowFirst == <<"closeWindow", "closeRender", "closeScript", "closeAudio", "exit">>   \* mutant

Closing == <<"closeRender", "closeWindow", "closeScript", "closeAudio", "exit">>

After(p) == Closing[1 + CHOOSE n \in DOMAIN Closing : Closing[n] = p]

GoTo(next) == phase' = next /\ UNCHANGED left
Leave(from) == phase' = "exit" /\ left' = from

----------------------------------------------------------------------------
(* main, up to the render loop.                                             *)
LoadConfig ==
  /\ phase = "config" /\ (GoTo("start") \/ Leave("config"))
  /\ UNCHANGED <<threads, glfw, exiting, helper, closed>>

Start ==   \* AudioManager, NetworkManager, GetAppDirectory, DebugUtility
  /\ phase = "start" /\ (GoTo("engine") \/ Leave("start"))
  /\ audio' = "runs"
  /\ UNCHANGED <<loader, engine, glfw, exiting, helper, closed>>

InitEngine ==
  /\ phase = "engine"
  /\ \/ GoTo("init") /\ engine' = "open"
     \/ Leave("engine") /\ UNCHANGED engine
  /\ UNCHANGED <<loader, audio, glfw, exiting, helper, closed>>

(* A call into the script returns; what it returned decides in main and in  *)
(* RenderLoop, but not for a callback.                                      *)
InitReturns ==
  /\ phase = "init" /\ (GoTo("loop") \/ Leave("init"))
  /\ UNCHANGED <<threads, glfw, exiting, helper, closed>>

UpdateReturns ==
  /\ phase = "update" /\ (GoTo("draw") \/ Leave("loop"))
  /\ UNCHANGED <<threads, glfw, exiting, helper, closed>>

----------------------------------------------------------------------------
(* What the script may do to the window.                                    *)
ScriptRuns == phase \in {"init", "update"} \/ (phase = "poll" /\ up)

(* Init: glfwInit is called once, and not again after it failed.            *)
AfterInit == IF marked THEN {up} ELSE BOOLEAN
InitFails(inited) == ~marked /\ ~inited

(* Every other function of the helper that starts with Init.                *)
Ask ==
  /\ ScriptRuns /\ ~marked
  /\ marked' = TRUE /\ up' \in AfterInit
  /\ UNCHANGED <<phase, left, threads, alive, window, context, made, shouldClose, exiting, helper, closed>>

(* glfwCreateWindow fails, always without GLFW: GLFW is terminated.         *)
CreateFails ==
  /\ up' = FALSE /\ alive' = {} /\ context' = NoWindow
  /\ UNCHANGED <<window, made, shouldClose>>

(* It succeeds; gladLoadGLES2Loader may not, and then m_window stays NULL.  *)
CreateSucceeds(inited) ==
  /\ inited /\ made < MaxWindows
  /\ up' = TRUE /\ made' = made + 1
  /\ alive' = alive \cup {made'} /\ context' = made'
  /\ \/ window' = made' /\ shouldClose' = FALSE
     \/ UNCHANGED <<window, shouldClose>>

(* WindowCreateWithSize; WindowCreateWithVideoMode may also stop after Init,*)
(* which is Ask.                                                            *)
CreateWindow ==
  /\ ScriptRuns /\ marked' = TRUE
  /\ \E inited \in AfterInit :
       IF InitFails(inited) \/ window # NoWindow
       THEN up' = inited /\ UNCHANGED <<alive, window, context, made, shouldClose>>
       ELSE CreateFails \/ CreateSucceeds(inited)
  /\ UNCHANGED <<phase, left, threads, exiting, helper, closed>>

CloseWindowKeeping ==   \* mutant: m_window is not set to NULL
  /\ ScriptRuns /\ window # NoWindow
  /\ alive' = alive \ {window}
  /\ context' = IF context = window THEN NoWindow ELSE context
  /\ closed' = (closed \/ phase # "init")
  /\ UNCHANGED <<phase, left, threads, marked, up, window, made, shouldClose, exiting, helper>>

CloseWindow ==
  /\ ScriptRuns /\ window # NoWindow
  /\ alive' = alive \ {window} /\ window' = NoWindow
  /\ context' = IF context = window THEN NoWindow ELSE context
  /\ closed' = (closed \/ phase # "init")
  /\ UNCHANGED <<phase, left, threads, marked, up, made, shouldClose, exiting, helper>>

----------------------------------------------------------------------------
(* RenderLoop: nothing at all without a window.  RenderStateManager::Init   *)
(* makes shaders and buffer in the current context, the first time only.    *)
EnterLoop ==
  /\ phase = "loop"
  /\ IF window = NoWindow
     THEN GoTo(Head(Closing)) /\ UNCHANGED <<helper, loader>>
     ELSE GoTo("pre") /\ helper' = context /\ loader' = "runs"
  /\ UNCHANGED <<audio, engine, glfw, exiting, closed>>

(* WindowPreRender, AudioManager and SceneManager::Update.  A window that   *)
(* is to close gets this frame still.                                       *)
PreRender ==
  /\ phase = "pre"
  /\ IF window = NoWindow THEN Leave("loop") /\ UNCHANGED <<context, exiting>>
     ELSE /\ GoTo("update")
          /\ exiting' = (exiting \/ shouldClose)
          /\ context' = IF shouldClose THEN context ELSE window
  /\ UNCHANGED <<threads, marked, up, alive, window, made, shouldClose, helper, closed>>

(* Render, PurgeNodes, PurgeTextures, ApplyTextures.                        *)
Draw ==
  /\ phase = "draw" /\ GoTo("post")
  /\ UNCHANGED <<threads, glfw, exiting, helper, closed>>

PostRender ==
  /\ phase = "post"
  /\ IF window = NoWindow THEN Leave("loop") ELSE GoTo("poll")
  /\ UNCHANGED <<threads, glfw, exiting, helper, closed>>

UserCloses ==
  /\ phase = "poll" /\ window # NoWindow
  /\ shouldClose' = TRUE
  /\ UNCHANGED <<phase, left, threads, marked, up, alive, window, context, made, exiting, helper, closed>>

PollReturns ==
  /\ phase = "poll" /\ GoTo(IF exiting THEN "stopLoader" ELSE "pre")
  /\ UNCHANGED <<threads, glfw, exiting, helper, closed>>

(* TextureManager::Close                                                    *)
ForgetLoader ==   \* mutant: RenderLoop returns without TextureManager::Close
  /\ phase = "stopLoader" /\ GoTo(Head(Closing))
  /\ UNCHANGED <<threads, glfw, exiting, helper, closed>>

StopLoader ==
  /\ phase = "stopLoader" /\ GoTo(Head(Closing))
  /\ loader' = "stopped"
  /\ UNCHANGED <<audio, engine, glfw, exiting, helper, closed>>

----------------------------------------------------------------------------
(* The rest of main.  NodeManager and FontManager need no window;           *)
(* ~OpenGLRenderingHelper deletes GL's objects.                             *)
CloseRender ==
  /\ phase = "closeRender" /\ GoTo(After(phase))
  /\ helper' = NoWindow
  /\ UNCHANGED <<threads, glfw, exiting, closed>>

(* ~OpenGLWindowHelper: WindowClose and glfwTerminate.                      *)
CloseWindowManager ==
  /\ phase = "closeWindow" /\ GoTo(After(phase))
  /\ marked' = FALSE /\ up' = FALSE /\ alive' = {} /\ window' = NoWindow /\ context' = NoWindow
  /\ UNCHANGED <<threads, made, shouldClose, exiting, helper, closed>>

CloseScript ==
  /\ phase = "closeScript" /\ GoTo(After(phase))
  /\ engine' = "closed"
  /\ UNCHANGED <<loader, audio, glfw, exiting, helper, closed>>

CloseAudio ==
  /\ phase = "closeAudio" /\ GoTo(After(phase))
  /\ audio' = "stopped"
  /\ UNCHANGED <<loader, engine, glfw, exiting, helper, closed>>

Main ==
  \/ LoadConfig \/ Start \/ InitEngine \/ InitReturns
  \/ EnterLoop \/ PreRender \/ UpdateReturns \/ Draw \/ PostRender \/ PollReturns \/ StopLoader
  \/ CloseRender \/ CloseWindowManager \/ CloseScript \/ CloseAudio

Next == Main \/ Ask \/ CreateWindow \/ CloseWindow \/ UserCloses

Spec == Init /\ [][Next]_vars

----------------------------------------------------------------------------
TypeOK ==
  /\ phase \in {"config", "start", "engine", "init", "loop", "pre", "update", "draw", "post", "poll",
                "stopLoader", "closeRender", "closeWindow", "closeScript", "closeAudio", "exit"}
  /\ left \in {"none", "config", "start", "engine", "init", "loop"}
  /\ loader \in {"none", "runs", "stopped"} /\ audio \in {"none", "runs", "stopped"}
  /\ engine \in {"none", "open", "closed"}
  /\ made \in 0..MaxWindows /\ alive \subseteq 1..made
  /\ window \in 0..made /\ context \in 0..made /\ helper \in 0..made
  /\ marked \in BOOLEAN /\ up \in BOOLEAN /\ shouldClose \in BOOLEAN
  /\ exiting \in BOOLEAN /\ closed \in BOOLEAN

(* m_window, which the getters and the render loop trust, is NULL or a      *)
(* window GLFW still has, although every failed creation terminates GLFW    *)
(* and a window whose GL could not be loaded is left behind.                *)
WindowIsReal == TypeOK /\ (window # NoWindow => up /\ window \in alive)

(* GL's objects are used and deleted in the context they were made in: the  *)
(* frame draws, and RenderStateManager::Close deletes, with that context    *)
(* current, unless the script closed the window during the render loop.     *)
GlObjectsMeetTheirContext ==
  phase \in {"draw", "closeRender"} /\ helper # NoWindow /\ ~closed =>
    context = helper /\ helper = window

(* When main returns, and the statics its threads work on are destroyed,    *)
(* the loader's thread still runs exactly after an early return of          *)
(* RenderLoop, the audio device's after every early return but the first;   *)
(* at the end of main everything is closed, the windows left behind too.    *)
ThreadsEndFirst ==
  phase = "exit" =>
    /\ loader = "runs" <=> left = "loop"
    /\ audio = "runs" <=> left \in {"start", "engine", "init", "loop"}
    /\ left = "none" => engine = "closed" /\ ~up /\ alive = {}
=============================================================================
