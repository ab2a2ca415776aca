# A verification of NexgenRedux in TLA+

NexgenRedux is a game engine in C++ for desktops, the original Xbox and the
Xbox 360, whose game code is AngelScript.  This directory holds TLA+ modules
that model the engine's own logic, TLC configurations that check them on small
instances, and theorems checked by TLAPS.

In this file `Shared/` is `src/NexgenRedux-Shared/`, `EE/` is
`src/NexgenRedux-Shared/EntityEngine/` and `Gensys/` is
`src/Libraries/Gensys/`.  `PROJECT.json` gives, for every definition, the source
lines it stands for.

## 1. Inventory

| Part | Source | State | Operations | What makes it correct | Module |
|---|---|---|---|---|---|
| Node and scene tables | `EE/Node`, `NodeManager`, `SceneManager` | node map, parent ids, child and scene lists, assigned and delete flags, current scene | Create*, AssignNode, AssignNodeAt, DeleteNode, CreateScene, SetCurrentScene, Update, Render, PurgeNodes | a list names live nodes, each once; a frame draws the visible nodes and no others; a deleted subtree is freed by the next purge | SceneGraph |
| Texture loader thread | `Shared/TextureManager` | the vector of requests shared by two threads, the stop flag | Request, ApplyTextures, Close, ProcessThread | requests are served in order, an image reaches the texture that asked for it, no request waits for ever, Close returns | TextureLoader, LoadQueue |
| Texture references | `EE/Sprite`, `Text`, `PreLoader`, `Shared/OpenGLRenderingHelper` | containers with key and reference count; a node's texture id and dirty flag; the preloader's keys | SetTexture, SetText, Update, destructors, LoadTexture, UnLoadTexture, PurgeTextures | counts equal holders; one container per key; what is held stays; meshes fit their image | TextureRefs |
| Render state cache | `Shared/RenderStateManager`, `OpenGLRenderingHelper`, the `Render` of cameras, fog, lights and quads | last value and dirty flag of each device state; what the device has | setters, ApplyChanges, CanBatch, LoadTextureData | a draw uses the values last set; nothing is sent twice | RenderState |
| Audio, desktop | `Shared/AudioManager` (first half) | map of sounds shared with the device's thread, decoders, close event | PlayAudio, Update, Close, data_callback | a sound that is read has its node and its decoder; sounds are heard in full; Close frees everything and returns | Audio |
| Audio, Xbox | `Shared/AudioManager` (second half) | map of containers, a thread, packets and a stream per sound | PlayAudio, PlayAudioContainer, Update, Close | packets are heard in order and to the end; a container outlives its thread | AudioStream |
| Script calls | `Shared/AngelScriptRunner`, `AngelScriptDebugger`, `contextmgr.cpp` | the context manager's threads and co-routines, the pool of contexts | Execute*, ExecuteScripts, createCoRoutine, yield, RequestContext, ReturnContext | no access out of bounds; contexts are neither lost nor given out twice; co-routines take turns; calls return | ScriptContexts, Scripting |
| Script callbacks | `Shared/AngelScriptRunner` | twelve function pointers, reference counts | Set*Callback, Execute*Callback, Close | a function that is stored or running exists; Close leaves none | ScriptCallbacks, Scripting |
| Script debugger | `Shared/AngelScriptDebuggerCore` | action, stack level, last function, break points | LineCallback, CheckBreakPoint, TakeCommands | break points stop; steps stop where they were asked to | Debugger |
| Frame loop and life cycle | `src/NexgenRedux-PC/main.cpp`, `-OG`, `-360`, `Shared/WindowManager` | where main is, which managers are up | Init and Close of each manager, RenderLoop | every thread ends before the statics it reads | MainLoop |
| Window and input, desktop | `Shared/OpenGLWindowHelper` | `m_initialized`, `m_window`, GLFW's context | Init, WindowCreate, WindowClose, Pre- and PostRender, PollEvents | the window exists when used; GL's objects meet their context | MainLoop |
| Window and input, Xbox | `Shared/XboxOGWindowHelper` | device handles, packet numbers, key and mouse state | polling of controllers, keyboards and mice, SetMouseCursorPosition | what has a handle is there; keys are as on the keyboard; the script is told what it would read | XboxInput |
| Files and drives | `Gensys/FileSystem`, `DriveManager`, `Drive`, `src/NexgenRedux-UWP/main.cpp` | the disk, open handles | DirectoryCreate, DirectoryDelete, DirectoryCopy, FileCopy | a copy that counts as done is whole; what an interrupted start left does no harm | MediaInstall (as UWP uses them) |
| Transforms and cameras | `EE/Node`, the cameras, `Shared/MathUtility` | matrices and their dirty flags | SetPosition..., CalculateTransforms | no matrix is stale when used | Transforms (the nodes' matrices) |
| Rendering helper, Xbox | `Shared/XboxOGRenderingHelper` | as OpenGLRenderingHelper | as there | as there | no |
| Fonts | `EE/FontManager`, `Text` | font map, SSFN contexts | LoadFont, Select, Render | a font's bytes outlive it | a Text's texture only, in TextureRefs |
| Configuration, paths | `Shared/ConfigLoader` | the parsed values | LoadConfig, MapPath | a file means what its lines say | no |
| Script API bindings | `Shared/AngelScriptMethods`, `AngelScriptRunner` | none | registration, forwarding | - | no |
| Sockets, log, network | `Gensys/SocketUtility`, `DebugUtility`, `NetworkManager` | sockets | Open, Close, SendUDP, Log | a socket in use is open | no |
| Helpers | `Gensys/StringUtility`, `TimeUtility`, `Crc32`, ... | none | Trim, Split, Replace, ... | they agree with their definition | no |
| Mesh mathematics, icon | `Shared/MeshUtility`, `MathUtility`, `Icon` | none | | floating point | no |
| FTP server, virtual files | `Gensys/FtpServer`, `VirtualFileSystem`, `SocketUtilityOld` | | | built into nothing | no |
| Third-party libraries | `src/Libraries/{AngelScript,GLFW,MinAudio,STB,SSFN,...}` | | | only `contextmgr` is modelled, with the script calls | no |

### How the parts interact

`main` reads the configuration, starts audio, network, log and script engine,
calls the script's `OnInit`, runs `WindowManager::RenderLoop` and closes the
managers.  The loop (`Shared/WindowManager.cpp:147-179`) is, per frame:

    WindowPreRender, AudioManager::Update, SceneManager::Update, the script's
    OnUpdate, SceneManager::Render, NodeManager::PurgeNodes,
    RenderStateManager::PurgeTextures, TextureManager::ApplyTextures,
    WindowPostRender, PollEvents (which calls the script's callbacks)

Everything in it is one thread.  Script code runs in OnUpdate and in the
callbacks of PollEvents; there it creates, links and deletes nodes, changes
their textures, plays sounds and changes the callbacks, and what it did meets
the walks and purges of the same frame.  Beside that thread there are the
texture loader, the device thread of miniaudio and, on the Xbox, a thread per
sound; none of the containers they share with the main thread is locked
throughout.  The script may also open and close the window, with GLFW and the
GL context under it, while the frame that called it goes on.  On UWP the program
installs its media before anything else, at every start.

### What is hard here

Ids kept in lists while the nodes they name are deleted; a flag that says a
state or a mesh is fresh; reference counts spread over three kinds of holders;
pointers into a vector that another thread moves; a map walked and erased from
without a lock; co-routines that start others while the manager walks its
vectors, and functions replaced while they run; a debugger whose state outlives
the call it was set for; early returns that skip every Close; devices that come
and go between two polls; an installation that is killed half way or whose
calls fail unseen.  The list
with lines is `hazards` in `PROJECT.json`.

## 2. Modules

**SceneGraph** follows one frame through `phase`: `update` and `render` are
walks over `pending`, the nodes still to visit; `purge` goes through the ids with
`cursor`, as PurgeNodes goes through its map; script calls may come in `script`
(OnUpdate) and `poll`.  `live`, `marked`, `assigned` are the keys of `m_nodeMap`
and two flags of Node; `childNodes` and `sceneMap` the lists.  A call through a
NULL pointer sets `fault` and ends the run.

**Transforms** extends SceneGraph: each of its actions is an action of SceneGraph
together with what it does to the nodes' matrices, or a call that touches matrices
only.  `stale` is the dirty flags; a matrix is nothing but right or not (`exact`).
`late` is a history of the nodes that something above them left behind.

**TextureLoader** models memory as far as the race needs it: the thread's pointer
into the vector is the number of the buffer it points into.  While that is the
current buffer the pointer means the first request *now*; after a `push_back`
that grew the vector it means freed memory, reads give anything and writes are
lost.  `corrupt`, chosen at the start, are the textures whose file cannot be
decoded; `spoiled` is a history: such a file has been marked.  **LoadQueue** is
what the manager shows the rest of the program, with no thread and no memory:
requests are served first come, first served, each after the loader has marked
it.  It does not hide what the race and a bad file do to a request: a push may
cost the first request its mark (`stalled`), and after a bad file a request may
leave the queue unread.  TextureLoader's instance `Queue` maps the vector to
`waiting` (between upload and erase a request counts as served), the container
table to `present` and the images to `filled`.

**TextureRefs** takes the containers, the nodes' links to them and the
preloader through the same frame.  The loader beside them is LoadQueue's:
`Request` is its Enqueue, `LoaderProcesses` its Mark, `ServeRequest` its Serve,
with the same `stalled` and `spoiled`.  So what TextureRefs relies on is what
TextureLoader is shown to implement.

**RenderState** treats 24 of the 25 states alike (`States`) and the texture on
its own, because LoadTextureData binds behind the cache's back.  `wanted` is a
history of what was last asked for.

**Audio** and **AudioStream** count frames and packets instead of decoding.  In
Audio, adding to the map and erasing from it take two steps each.  A callback
whose iterator reads a node that is gone, or a link that is being written, may
go astray (`Stray`): what the code does then is undefined and the model ends; a
read of a sound that was erased is never a step like any other.
**ScriptContexts** has a stack of calls, each with the co-routines of its thread;
`since` is a history of who had a turn.  A callback may come between two calls or
inside one, from a joystick function the script calls; `nested` is a history of
the latter.  **ScriptCallbacks** has AngelScript's
counts of the functions and the handles that make them up.  **Scripting** composes
the two, as instances `Contexts` and `Functions`: `function` links a context to
what it was prepared with; an action of Scripting is a step of the context manager
together with what that step does to the functions (a request prepares one, a
return to the pool lets one go), or a call of the running script that changes
handles or callbacks.  **Debugger** is the
line callback over a stack of functions; `entered` and `asked` are histories.

**MainLoop** is main's thread: `phase` goes from one call of main and RenderLoop to
the next, `left` is the early return that was taken.  `marked` is the helper's
own idea of GLFW, `up`, `alive` and `context` GLFW's.  The script acts in `init`,
`update` and `poll`; each creation can fail in GLFW, in the window or in GL.

**MediaInstall** has the disk as a function from names to contents, a stack for
DirectoryDelete's recursion, DirectoryCopy's queue, and FileCopy's two handles.
An action is one call of the operating system: it works or, while `faults` lasts,
breaks.  `Restart` may come at any point, and keeps `disk` only.  What is there at
first is nothing or one of `OldDisks`: any trees, also with directories the assets
no longer have and names that were directories and are files now.  `broken` and
`hit` are histories of what failed in this start and what it was copying.

**XboxInput** has, beside the helper's state, the devices as they are (`plugged`,
`held`, `mouse`) and as XGetDeviceChanges reports them (`known`, `pulled`).  `told`
is what the script's callbacks were told.  The script sets the cursor to any of
`Positions`, which need not lie in the window.  `turn` is the part of the poll that
comes next, and the player may act between any two parts.

`MC*.tla` give the model values; `*Proofs.tla` hold the theorems.  PlatformProofs
extends MainLoop, XboxInput and MediaInstall, one part per platform, together, and
ScriptingProofs extends Scripting and Debugger; XboxInput, MediaInstall and Debugger
therefore name their parts `InputInit`, `InputSpec`, `InstallInit`, `DebugInit` and
so on.  The operators
named after `Mutant` comments are plausible mistakes in the operator that
follows; putting one in its place makes the property given in `PROJECT.json`
fail.

## 3. What the runs show

| Run | Bounds | Shows |
|---|---|---|
| scene_graph | 3 nodes, a scene, one node that is moved, one that is hit-tested | `ListsOwnTheirNodes`, `PictureIsRight` (visible as judged by parent ids, drawn as the walk follows lists), `DrawnInPlace`, `FamiliesGoTogether`, `FramesComplete` |
| scene_graph_purge | 2 nodes, 1 scene | a violation, below |
| texture_loader | 3 textures, one perhaps bad | `ImplementsLoadQueue`, `LoadedOrMarkLost`, `QueueDrains`, `CloseReturns` |
| render_state | 5 states, one per kind of renderer, 2 values, 2 textures | `DrawUsesLastValues`, `DirtyIsExact`, `WrongTextureOnlyAfterUpload` |
| texture_refs | 2 sprites, a text, a good path and the empty one, which is a bad file, a word, 2 containers | `RefCountsAreHolders`, `HeldTexturesStay`, `PendingIsQueued`, `DrawnMeshIsFitted`, `PreloadsFinish` |
| audio | 2 sounds of 1 to 3 frames, looping or not, buffers of 2 | `DecodersAreSafe`, `HeardInFull`, `OneShotsLeave`, `CloseReturns` |
| audio_stream | 2 sounds, 2 packets, files of 3 | `FileIsHeard`, `ThreadHasContainer`, `SoundsLeave` |
| scripting | 3 contexts, 4 steps of a call, a global function, a delegate, a callback pointer, 2 handles | `NeverFaults`, `PoolIsTheRest`, `UsedFunctionsLive`, `NoSecondTurn`, `CallsReturn` |
| debugger | 2 functions in 2 files, depth 2, 2 break points | `NoBreakPointIsPassed`, `StepsStopWhereAsked` |
| main_loop | 3 windows | `WindowIsReal`, `GlObjectsMeetTheirContext`, `ThreadsEndFirst` |
| media_install | 2 directories, 2 files, 2 older versions, 3 failing calls, 3 starts | `FailuresAreNoticed`, `InstallIsExact` |
| xbox_input | 2 places, 2 keys, a queue of 2, a 1 by 1 window, 2 positions outside it, 5 acts of player and script | `HandlesFollowDevices`, `KeysFollowTheKeyboard`, `ScriptIsTold`, `StrokesAreTaken` |

**Why the bounds are enough to be interesting.**  Three nodes make a chain, two
siblings, a parent that goes before or after its child, and re-use of a list place; a
matrix can be left behind one node up or two.  The current scene is that one or none.
Without matrices the scene graph was also run with two scenes, where a node can be
asked for by both (377 000 states); that its lists stay right is proved for any
number.  Three textures make the vector grow three times, also while the thread is
between its stores, and leave a request behind the one that is moved.  Files of 1, 2
and 3 frames against buffers of 2 end before, at and after a buffer's end; files of 3
packets against 2 places make every place be used again.  Three contexts allow a main
function, its co-routine, a co-routine of that one, and contexts back from the pool;
four contexts with three steps were also run for the safety properties (2.7 million
states), with callbacks inside calls.  Three windows let one be left behind by a GL
that could not be loaded, one be current and one follow.  One directory below another,
with a file in it and one beside it, is the least tree on which a listing that breaks
off, an interrupted delete and an older file matter; of the two older versions one has
a file in place of the directory, and the other way round, with a directory below it
that is gone since.  With three starts one that was killed can meet one that failed.
Two places are the least on which the loops over devices can end too early.  Two keys
and a queue of two (the code's has 25) let a stroke wait behind one of the same key or
of another, the last of a key be behind the first, and a full queue lose one.  Line 3
of the debugger's `main` has no code and the files' lines have the same numbers, so
break points move and could move in the wrong file; `f` has a `for` with a part of its
header on a line of its own, whose code comes behind the body's.  `texture_refs` was
also run for its invariants with three containers (5.4 million states).  Bounds are on
what grows without limit in the code (ids, counters, depth); none replaces a guard the
code has, and where a bound stops the system its configuration turns the deadlock
check off.

### Where the code does not do what its text says

* `scene_graph_purge`: PurgeNodes looks up the parent of a marked child "if
  exists" (`EE/NodeManager.cpp:160`), but calls through the NULL it gets when
  the parent, with the smaller id, was freed earlier in the same pass (:169).

The others were seen while modelling; the models contain them, the properties name
them as the exceptions they are, and no run states them:

* Request grows the vector without the lock (`Shared/TextureManager.cpp:95`).  If
  that happens between the thread's store of the pixels and its store of
  `processed` (:76, :77), the first request has pixels and is never processed:
  thread and main thread each leave it to the other, and nothing loads any more.
  `MarkLost` names that state (`stalled` in LoadQueue and TextureRefs), and
  `LoadedOrMarkLost` shows it is the only way to wait for ever with good files.
* Break points of functions are looked for only when the function differs from
  that of the last *checked* statement
  (`Shared/AngelScriptDebuggerCore.cpp:257`), so a recursive or repeated call
  passes one; `NoBreakPointIsPassed` asks for the others.
* A new break point is to be adjusted unless it falls "on a line with code" (:283),
  but FindNextLineWithCode returns the first statement on the line *or behind it*
  in the order of the code (`AngelScript/as_scriptfunction.cpp:867`), and a `for`'s
  code has the body before the parts of the header that follow it
  (`as_compiler.cpp:4597`).  A break point on a header's second or third line moves
  to the body's; `ComesInOrder` excepts such lines.  The proof asked for the exception.
* Moving a node, or giving it a parent, does not make its children's matrices or
  its own anew (`EE/Node.cpp:141`, `EE/NodeManager.cpp:98`): they are drawn where they
  were until they are moved themselves.  `late` names them, `DrawnInPlace` shows
  that every other node is drawn in place.  HitTest of a node whose parent was purged calls
  through NULL (`EE/Node.cpp:169`); on parents that form a cycle it may not return.
* An early return of RenderLoop leaves the loader's thread running, and any but
  main's first the audio device, while the statics they use are destroyed
  (`Shared/WindowManager.cpp:150`, `src/NexgenRedux-PC/main.cpp:53`);
  `ThreadsEndFirst` says exactly when.
* A controller pulled and plugged in between two polls has no handle
  (`Shared/XboxOGWindowHelper.cpp:837`, `crossed`); a keyboard's change behind the
  place whose keystroke ended the loop is lost (:898, `missed`); a cursor moved
  only left or up is not told (:1011).  SetMouseCursorPosition stores what it is
  given (:452), also outside the window; the next motion moves the cursor to the
  window's edge, and when that motion is left or up the script is not told.
* FileCopy looks at no FileOpen and a listing that breaks off counts as complete
  (`Gensys/FileSystem.cpp:682`, :424), so an installation may count as done and
  lack files: `FailuresAreNoticed` lists which failures pass.  UwpInit has no
  return statement at its end (`src/NexgenRedux-UWP/main.cpp:53`), so what main
  does after a good installation is undefined; `FlowOff` has both outcomes.  It also
  calls `DebugUtility::SetLogFile` (:31), which `Gensys/DebugUtility.h` does not
  declare at this commit: the program is modelled as written, as if it compiled.
* With a bad file first, the thread tries it again while ApplyTextures erases it,
  and its mark lands on the next request, which is then dropped without pixels;
  with two good files behind it a container can also receive the other's image.
  `spoiled` names the behaviours in which this may have happened;
  `LoadedOrMarkLost`, `PendingIsQueued` and `PreloadsFinish` except them.
* The callback's walk is not protected from Update: the iterator it increments or
  reads through may stand on a node that Update has erased
  (`Shared/AudioManager.cpp:91`, :93, :101).  `DecodersAreSafe` says where this can
  happen and that a sound the callback will read is not concerned.
* A callback GLFW raises inside a joystick function the script has called runs
  ExecuteScripts again over the threads of the outer one and drops the context that
  executes.  `NeverFaults`, `PoolIsTheRest`, `NoSecondTurn` and `CallsReturn` speak of
  a behaviour up to the first such callback (`nested`); without that exception TLC
  finds each of the first two violated.  `UsedFunctionsLive` has no exception.
* A debugger's empty command keeps the stack level of an older step
  (`AngelScriptDebuggerCore.cpp:337`) and may stop in a function that step over
  should skip; a desktop loop's restart writes over what other sounds have mixed
  into the buffer (`Shared/AudioManager.cpp:103`), so `HeardInFull` speaks of
  behaviours in which nothing loops.

## 4. Fairness

* SceneGraph and Transforms: `WF` of the steps of the frame, the render loop keeps
  turning; scripts need never act.
* TextureLoader: `WF` of the thread's step and of ApplyTexture and EraseFirst,
  which RenderLoop calls every frame; EndClose is the main thread's busy wait.
  No fairness makes a script request, release or leave.
* TextureRefs: `WF` of the steps of a frame, ServeRequest among them, and of the
  loader's mark, its thread's pass.  A lost mark disables the latter for good, which
  is why `PreloadsFinish` excepts `stalled`; no strong fairness is assumed.
* Audio: `WF` of the device's callback and of the main loop.  A device that
  fails to start runs no callback, and Close waits for ever: `CloseReturns` is
  conditional on the device, and on no callback having gone astray.
* AudioStream: `WF` of threads, of the stream's progress and of finishing what the
  main thread began; `SF` of BeginErase, since a frame's Update visits every sound.
* Scripting: `WF` of the manager's steps and of the script ending or yielding: a
  script that loops for ever keeps its call.  A program that has used what is not
  there (`fault`) owes nothing more.
* XboxInput: `WF` of the poll, which RenderLoop makes every frame.
* RenderState, Debugger, MainLoop, MediaInstall: safety only.  An installation ends or is
  killed; what is of interest is what it leaves.

## 5. What is proved

For every value of the constants, under the assumptions named in the modules.

**SceneGraphProofs** (assumes `BoundsAreNaturals`).  `Typing`: `Spec => []TypeOK`.
`ListsAreOwned`: `Spec => []ListsOwnTheirNodes`; `RenderIsSafe`: the render walk
never meets an id whose node is gone, the pointer Render does not test.  Neither
is inductive.  `Inv` adds `UnassignedAreRoots` (a node nobody has assigned has no
parent, so that assigning it puts it in its first list) and `WalkIsLive` (what a
walk has yet to visit is live, because nothing frees nodes between a walk's start
and its end).  The argument: only AssignNode, AssignNodeAt and AssignToScene add to
a list, and they add an unassigned live node; only the purge frees, and it takes
the node out of the one list it can be in.  Lemmas about EraseFirst,
InsertBefore and Append say what these do to the elements and distinctness of a
list.

`PictureHolds`: `Spec => []PictureIsRight`.  `Account` says what the walk can answer
for while it is under way: what it has drawn or has still to visit is listed, and
its parent is drawn or 0; what can be seen, is listed and has a drawn parent or
none has been met; nothing is met twice, and parents are drawn first.  At the end
nothing is left to visit, so going up from a visible node never leaves what was not
drawn, and going up from a drawn one never leaves what was.  That a chain of drawn
nodes ends at a root uses that each parent was drawn before.

`FamiliesAreKept`: `Spec => FamiliesGoTogether`.  `NoneIsOrphaned` is what follows for
a reader of NodeManager: from the moment a node hangs under an unmarked parent,
no pass of PurgeNodes leaves it alive without that parent.  The mark goes down
the lists by `Heirs`, a recursive function; `HeirsAreWhole` says that it leaves out
no child of what it reaches, by counting: rounds that grow must end.
`PurgeIsWhole`: the cursor of the purge never passes a marked node (ids are visited
in order and no script runs meanwhile).  The pass that faults (section 3) does not
come to its end, and the property says nothing of it.

`DrawingIsInPlace`: `PlacedSpec => []DrawnInPlace`.  Its invariant `Placing` says of
every live node what DrawnInPlace says of the drawn ones, because a node that is
asked for its matrix may find that an ancestor answers with the one it has.  A change at a
node makes late whatever hangs from it with its flag down and leaves all other chains as
they are (`ChainStays`); a matrix that is made anew is as right as the one ancestor's
it starts from, and that ancestor is above every node made anew (`RecomputedSteps`).
`Account` gives that the ancestors of what Render draws are there.

`ChainOf` and `Recomputed` are values of recursive functions.  What the proofs
need of them (`ChainInduction`, `ChainContains`, `RecomputedSteps`) is proved
without an induction principle: the function exists, and a least number of rounds at which
a fact would fail leads to a contradiction (`LeastNumber`, from the well-foundedness
of the naturals).  `GrowthCloses`, that as many rounds as there are nodes are
enough, counts elements.

**RenderStateProofs** (assumes `RenderersSetStates`, `NoTextureIsNoId`).  `IInv`
says that the cache holds what was last wanted, that before the first render every
state is dirty, that from then on the device has the cached value of each state
that is not dirty and only of those (`DirtyIsExact`), and that nothing a renderer
has still to set is dirty; the last is what makes the set of calls exact.  From it: `FlagsAreExact`, `DrawsUseLastValues`.  `BindInv`,
inductive relative to `IInv`, relates the bound texture to the cached one and
gives `OnlyUploadsMislead`: a quad shows another texture than the one set only
if an upload came between.

**TextureLoaderProofs** (assumes `DoubtfulAreTextures`, `NoTextureIsNone`).
`LoadsInOrder`: `Spec => ImplementsLoadQueue`, the whole refinement, with any bad
files.  Serving maps to ApplyTextures, so the proof needs that a processed first
request holds its own image until a bad file was marked.  The thread stores without
the lock through a pointer taken earlier, so that is not inductive: `RightSoFar` adds,
as long as nothing is spoiled, that a thread about to store through a pointer still
good stores into the request whose path it has read (`StoresAreRight`), and that an
erased request left in the first slot keeps the thread away (`NothingIsLeft`); and
always the requests behind the first are as they were pushed (`Untouched`) and pixels
are stored where there are none (`StoresAreFirst`).  The argument: only a processed
request is erased, and no thread is about to store into a processed one; a push that
moves the vector leaves the pointer behind for good, because buffers only grow.  A
late store after a bad file is a Mark of the next request, which LoadQueue allows once
it is spoiled. `TypesHold` comes first.

**AudioStreamProofs** (assumes `SizesArePositive`).  `FilesAreHeard`:
`Spec => []FileIsHeard`; `ThreadsHaveContainers`: `Spec => []ThreadHasContainer`.
`Order` says that the places pending in a stream are distinct, that their packets
follow one another, the first following what was heard and the last being what was
decoded; FileIsHeard is its consequence, but without distinct places a fill could
overwrite a pending packet.  `Ending` says that a thread which has asked to stop
decodes no more and frees only an empty stream; `Mapped`, that what is erased has
ended.  Three lemmas say how playing and filling move along such a sequence.

**TextureRefsProofs** (assumes `KeysAreDistinct`). `CountsHold`, `TexturesStay`,
`PendingStays` and `MeshesFit` prove the four invariants of the run, with a loader
that loses marks and meets bad files as LoadQueue says. A request leaves the queue
only by ServeRequest, which fills its container unless the queue is spoiled; that is
all `PendingIsQueued` needs of the loader. They hold each other up: a count that was
too low would let the purge free a held container, and a mesh can only be fitted late
if the container still waits in the queue. `IInv` adds that every dirty node still has
an id to take (`IdsSuffice`), that a name without a node refers to nothing, that texts
ask for words, and `MeshesWait`: a sprite whose mesh is not built on its texture is
dirty or waits for an answer. `FrameIsFitted` carries that from a sprite's update over
the script's calls to its drawing in the same frame; the order of the calls in
RenderLoop is what makes it hold, because a texture is only loaded after the render.

**AudioProofs** (assumes `SizesAreNaturals`). `DecodersSafe`, `ErasedWereHeard`. The
callback walks a map which the main thread erases from, without a lock. What is proved
is how far this goes wrong: only the main thread erases, only what has ended, and the
callback reads no decoder of what has ended, so decoders are safe; but the iterator
may stand on the node of a sound that has ended, and then, or while links are written,
the callback may go astray (`Astray`), and nowhere else. `IInv` says so for each
thread at each of its steps: `FreedAreOver`, `MapIsFresh`, `Erased`, and while the
engine closes `Freeing` (the callback frees the sounds in the map's order) and
`Closed` (its signal means all of them). `Played` relates what a decoder has read to
what was heard or is in the buffer. That the walk has a next sound rests on
`SmallestIsLeast`, from the well-foundedness of the naturals.

**ScriptingProofs** (assumes `BoundsArePositive`, `KindsDiffer`,
`CallbacksAreFinite`). `ContextsAreThere`, `PoolIsExact`, `FunctionsAreKept`,
`TurnsAreFair`. Callbacks come between calls and inside them. `IInv` has a part that
holds always, `UInv`, of the functions, and one that holds until a callback comes
inside a call (`nested`), of the contexts. From `UInv` alone follows
`FunctionsAreKept`: whatever the nested call does to the vectors, a function is kept
by the contexts that have it. The other three theorems need both. `CInv`, of the
contexts: `Shape` says there is one call and one thread at most, and that while a
co-routine runs the frame's thread and slot are the manager's; `Ready`, that every
listed co-routine but the running one can be resumed and is listed once; `Rest`, that
the pool is what remains; `InTurn`, that whoever had a turn since a listed co-routine
had one comes behind it, counting from whose turn is next round the list. A co-routine
that is created goes last, one that ends leaves its place to the one behind it, a
yield moves the start by one, so the order survives each. `FInv`, of the functions:
references are handles plus callback pointers plus contexts, and nothing without
references is left undeleted or deleted twice. `KInv` joins the two: the contexts that
hold on to a function are those outside the pool that were prepared with it. Without
it a function's count could fall below the number of contexts that run it.

**ScriptingProofs, Debugger** (assumes `CodeFollowsDeclaration`: a function has code
and none of it above the line it is declared at; `LinesAreTyped`).
`BreakPointsHold`, `StepsHold`, for any script, any break points and any sequence of
commands.  `DebugInv` relates what LineCallback keeps of a command, `action` and
`level`, to what was asked for and where (`Goal`), and says that LineCallback runs
for a statement of some function.  The first theorem needs of FindNextLineWithCode
that it finds a line itself where the code comes in order (`FoundLine`), so that
CheckBreakPoint's look at a new function leaves the break points of this line where
they are (`AdjustKeeps`); the second, that comparing the stack with the kept level is
comparing it with the depth at the command (`StepEndsWhereDone`).

**PlatformProofs, MainLoop** (assumes `BoundIsPositive`).  `WindowsAreReal`,
`ThreadsAreKnown`, `ObjectsMeetTheirContext`, from one invariant, `LoopInv`:
`WindowInv` (a helper that has not initialised GLFW has no window, a window that
is there is the current context), `ThreadInv` (which threads run in which phase of
main, and what is torn down by then) and `GlInv` (until the script closes the
window, GL's objects belong to it).

**PlatformProofs, XboxInput** (assumes `PlacesAreNumbered`, `SizesArePositive`,
`MotionsAreSteps`, `BoundIsNumber`).  `HandlesHold`, `KeysHold`, `ScriptHears`.  Two
of the three are almost inductive; `InputInv` adds `Reports` (a device that was known
and not pulled since is plugged in, so that a report has every difference) and
`PacketsTell`: a mouse that was not plugged in again has new data only under a new
packet number, without which a mouse whose packet was not applied could press a button
unseen.  The script may set any position; a motion clamps the cursor into the window,
so one outside is what the script has set, and what it was told.  For the keys the
argument is about the last stroke of each key in the queue: a stroke that is heard
becomes the last, and one taken from the front is the state until the next of its key
(`StrokeHolds`, `TakingHolds`).

**PlatformProofs, MediaInstall** (assumes that names do not contain each other and
that the assets are a tree, `TreeIsRooted`, that each of the older media is one,
`OldDisksAreTrees`, that contents differ, and numbers).  An older tree need not
resemble the assets: it may have any names, and a directory where they have a file.
`InstallsAreExact`, `FailuresNoticed`.  At "installed" nothing is left to see of what
was done before; `InstallInv` carries it there.  `DiskIsTree` holds at any moment,
so a start finds a tree wherever the last one was killed, and a tree without its
root is empty (`EmptyTree`).  `Deleting` and `DeletingAll` say that DirectoryDelete's
stack is a path from the root, each directory in the one below it, and that what a
directory holds is what its call has left or the call above it deletes, unless a
listing was cut short; so what it finds empty is empty.  `CopiedDirs` says that
there is a set of directories that were copied, whose entries are copied, being
copied or queued, but for what was hit; `CopyingFile`, that a file that was not
hit is written so far as it was read.  At the end nothing is queued, and going down
from the root along what was not hit never leaves the copied set: a set of
directories closed under parents without the root is empty
(`IntactIsSettled`).

**Only model-checked**: all liveness and the use of fairness, which are out of the
prover's reach.  Every other property of the passing runs has a theorem.

## 6. What the models leave out

* SceneGraph: `NodeManager::Close`; the wrap of 32-bit ids.  Transforms: the numbers;
  the cameras' view and projection matrices.
* TextureLoader: sleeps; MapPath's refusal, which no supported platform reports;
  the mutex, which covers two single steps.
* TextureRefs: PreLoader::Close, which nothing calls; the content of fonts.  A
  good path is taken not to be a text's words as well.
* RenderState: the translation of values to GL enums; window re-creation; the
  vertex buffer.
* Audio: what a callback that has gone astray does to memory: the model ends there.
  AudioStream: what threads do after Close.
* Scripting: garbage collection; a failing RequestContext; `sleep`, which is not
  registered; the objects behind delegates; script code that runs outside
  ExecuteScripts, in the initialisers of global variables, which ResetGlobalVars
  runs before the first call (`Shared/AngelScriptRunner.cpp:1131`, :1172).
* MainLoop: what the frame's other calls do (other modules have it); the queries of
  GLFW but for their call of Init; an audio device that does not start.
* MediaInstall: times, sizes and the log file; a buffer of 32758 bytes that is
  read into with 32768 (`Gensys/FileSystem.cpp:687`), since contents are blocks.
* XboxInput: modifiers, characters, the wheel, four of five buttons, the buttons and
  sticks of controllers, which are read on request; failing XInputOpen; the limits
  of a position's 32 bits.  XInputClose of a controller that has no handle, which is
  called when a crossed one is pulled out (`Shared/XboxOGWindowHelper.cpp:848`), is
  taken to do nothing.
* Debugger: commands that print; a second context; overloads of one name.

## 7. Not modelled, and what could follow

The modules cover what its own code does with state that
outlives a call: tables, lists, threads, contexts, devices, the disk.  Of what is
left,

* most of the repository's lines are vendored: miniaudio, dr_flac, dr_wav, stb,
  miniz, AngelScript's compiler and engine, GLFW's header.  They are modelled as
  their callers rely on them; `contextmgr.cpp` alone, which the engine uses as its
  scheduler, is modelled for itself.  The share of all lines that the map covers
  is small for that reason;
* the script bindings forward arguments, and the configuration's parser, string
  helpers, meshes and matrices are functions of text and floating-point numbers,
  which a state model would copy and not abstract;
* the Xbox rendering helper repeats the containers of TextureRefs over Direct3D;
  sockets and the log are single calls on one thread.
