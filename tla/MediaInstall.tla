---------------------------- MODULE MediaInstall ----------------------------
(***************************************************************************)
(* The installation of the media on UWP: UwpInit of                        *)
(* src/NexgenRedux-UWP/main.cpp deletes the media directory and copies the *)
(* application's assets into it, at every start, with the directory and    *)
(* file functions of src/Libraries/Gensys/FileSystem.cpp.                  *)
(*                                                                         *)
(* Each call of the operating system may fail, and the program may be      *)
(* killed between any two of them and started again: what was in memory is *)
(* lost, what is on the disk stays.  A name is relative to the media or    *)
(* the assets directory; a file's content is the number of its blocks that *)
(* were copied, or Old.  The log file, the times and the sizes of files    *)
(* are left out.                                                           *)
(***************************************************************************)
EXTENDS Naturals, Sequences, Functions

CONSTANTS Root, Dirs, Files, Parent,  \* the assets: directories, files, where each name is
          Size,                       \* blocks of each file
          Directory, Old,             \* a directory's content, and that of an older file
          OldDisks,                   \* the media directories earlier versions may have left
          MaxFaults, MaxStarts        \* bound the failed calls and the program's starts

Names == Dirs \cup Files \cup UNION {DOMAIN old : old \in OldDisks}

(* Names do not contain each other.  An old media directory is any tree of  *)
(* names: with directories the assets no longer have, or a directory where  *)
(* they have a file and the other way round.                                *)
ASSUME TreeIsRooted ==
  /\ Root \in Dirs /\ Dirs \cap Files = {}
  /\ \A n \in (Dirs \cup Files) \ {Root} : Parent[n] \in Dirs
  /\ \A S \in SUBSET Names : S = {} \/ \E n \in S : n = Root \/ Parent[n] \notin S
ASSUME OldDisksAreTrees ==
  \A old \in OldDisks :
    /\ old \in [DOMAIN old -> {Directory, Old}]
    /\ \A n \in DOMAIN old :
         IF n = Root THEN old[n] = Directory
         ELSE Parent[n] \in DOMAIN old /\ old[Parent[n]] = Directory
ASSUME SizesAreNumbers == Size \in [Files -> Nat]
ASSUME ContentsDiffer == Directory # Old /\ Directory \notin Nat /\ Old \notin Nat
ASSUME BoundsAreNumbers == MaxFaults \in Nat /\ MaxStarts \in Nat \ {0}

VARIABLES
  disk,    \* the media directory: what is there, with its content
  step,    \* where UwpInit is
  stack,   \* the calls of DirectoryDelete, each with the entries it has yet to delete
  toCopy,  \* directoriesToCopy
  current, \* directoryToCopy
  todo,    \* the entries DirectoryCopy has yet to copy
  file,    \* the file FileCopy copies
  source, dest, \* its two handles: "S" and "D" when opened, or some other value
  open,    \* handles in m_fileContainerMap
  copied,  \* blocks read
  faults, starts,
  broken,  \* history: the kinds of calls that have failed since the start
  hit      \* history: the files and directories whose copying met such a call

tree == <<stack, toCopy, current, todo>>
copy == <<file, source, dest, open, copied>>
history == <<faults, starts, broken, hit>>
installVars == <<disk, step, tree, copy, history>>

Closed == "none"
Present(n) == n \in DOMAIN disk
IsDirectory(n) == Present(n) /\ disk[n] = Directory
Children(d, names) == {n \in names \ {Root} : Parent[n] = d}
With(n, content) == [m \in DOMAIN disk \cup {n} |-> IF m = n THEN content ELSE disk[m]]
Without(n) == Restrict(disk, DOMAIN disk \ {n})

StepTo(next) == step' = next
Works == UNCHANGED history
Records(kind, names) == broken' = broken \cup {kind} /\ hit' = hit \cup names /\ UNCHANGED starts
BreaksFor(kind, names) ==
  faults < MaxFaults /\ faults' = faults + 1 /\ Records(kind, names)
Breaks(kind) == BreaksFor(kind, {})
BreaksFile(kind) == BreaksFor(kind, {file})

InstallInit ==
  /\ step = "check"
  /\ stack = <<>> /\ toCopy = <<>> /\ current = Root /\ todo = {}
  /\ file = Root /\ source = Closed /\ dest = Closed /\ open = {} /\ copied = 0
  /\ faults = 0 /\ starts = 1 /\ broken = {} /\ hit = {}
  /\ \/ disk = <<>>
     \/ disk \in OldDisks

(* DirectoryExists: a query that fails says that nothing is there.          *)
Exists(n, answer) ==
  \/ answer = IsDirectory(n) /\ Works
  \/ answer = FALSE /\ Breaks("query")

----------------------------------------------------------------------------
(* UwpInit first looks for an old media directory.                          *)
SkipOldMedia ==   \* mutant: what is there is copied over
  /\ step = "check" /\ StepTo("create") /\ Works
  /\ UNCHANGED <<disk, tree, copy>>

CheckMedia ==
  /\ step = "check"
  /\ \E exists \in BOOLEAN :
       /\ Exists(Root, exists)
       /\ StepTo(IF exists THEN "list" ELSE "create")
       /\ stack' = IF exists THEN <<[dir |-> Root, left |-> {}]>> ELSE stack
  /\ UNCHANGED <<disk, toCopy, current, todo, copy>>

(* FileGetFileInfoDetails.  An error of FindNextFile is the end of the list *)
(* to it: the list that it returns is then cut short.                       *)
CutShort(names) == (SUBSET names) \ {names}

(* DirectoryDelete: list, delete the entries in the order they come, then   *)
(* remove the directory, which must be empty.                               *)
Top == stack[Len(stack)]
Left(frames, set) == [frames EXCEPT ![Len(frames)].left = set]
Popped == SubSeq(stack, 1, Len(stack) - 1)

ListToDelete ==
  /\ step = "list"
  /\ LET names == Children(Top.dir, DOMAIN disk) IN
       \/ Works /\ StepTo("delete") /\ stack' = Left(stack, names)
       \/ /\ Breaks("listing") /\ StepTo("delete")
          /\ \E part \in CutShort(names) : stack' = Left(stack, part)
       \/ Breaks("list") /\ StepTo("failed") /\ UNCHANGED stack
  /\ UNCHANGED <<disk, toCopy, current, todo, copy>>

DeleteFile ==
  /\ step = "delete"
  /\ \E n \in Top.left :
       /\ disk[n] # Directory
       /\ \/ Works /\ disk' = Without(n) /\ stack' = Left(stack, Top.left \ {n}) /\ UNCHANGED step
          \/ Breaks("delete") /\ StepTo("failed") /\ UNCHANGED <<disk, stack>>
  /\ UNCHANGED <<toCopy, current, todo, copy>>

SkipSubdirectory ==   \* mutant: as with recursive FALSE
  /\ step = "delete"
  /\ \E n \in Top.left : disk[n] = Directory /\ stack' = Left(stack, Top.left \ {n})
  /\ UNCHANGED <<disk, step, toCopy, current, todo, copy, history>>

DeleteSubdirectory ==
  /\ step = "delete"
  /\ \E n \in Top.left :
       /\ disk[n] = Directory
       /\ stack' = Append(Left(stack, Top.left \ {n}), [dir |-> n, left |-> {}])
  /\ StepTo("list") /\ Works
  /\ UNCHANGED <<disk, toCopy, current, todo, copy>>

RemoveDirectory ==
  /\ step = "delete" /\ Top.left = {}
  /\ \/ /\ Works /\ Children(Top.dir, DOMAIN disk) = {}
        /\ disk' = Without(Top.dir) /\ stack' = Popped
        /\ StepTo(IF Popped = <<>> THEN "create" ELSE "delete")
     \/ /\ Works /\ Children(Top.dir, DOMAIN disk) # {}
        /\ StepTo("failed") /\ UNCHANGED <<disk, stack>>
     \/ Breaks("delete") /\ StepTo("failed") /\ UNCHANGED <<disk, stack>>
  /\ UNCHANGED <<toCopy, current, todo, copy>>

----------------------------------------------------------------------------
(* DirectoryCreate: nothing is made of a directory that is there, and none  *)
(* can be made of a file that is.                                           *)
DirectoryCreate(n, next) ==
  \/ \E exists \in BOOLEAN :
       /\ Exists(n, exists)
       /\ \/ exists /\ StepTo(next) /\ UNCHANGED disk
          \/ ~exists /\ ~Present(n) /\ StepTo(next) /\ disk' = With(n, Directory)
          \/ ~exists /\ Present(n) /\ StepTo("failed") /\ UNCHANGED disk
  \/ ~Present(n) /\ Breaks("create") /\ StepTo("failed") /\ UNCHANGED disk

(* DirectoryCopy: the directories of the assets, breadth first.             *)
CreateMedia ==
  /\ step = "create" /\ DirectoryCreate(Root, "next")
  /\ toCopy' = <<Root>>
  /\ UNCHANGED <<stack, current, todo, copy>>

NextDirectory ==
  /\ step = "next" /\ toCopy # <<>>
  /\ DirectoryCreate(Head(toCopy), "source")
  /\ current' = Head(toCopy) /\ toCopy' = Tail(toCopy)
  /\ UNCHANGED <<stack, todo, copy>>

ListSource ==
  /\ step = "source"
  /\ LET names == Children(current, Dirs \cup Files) IN
       \/ Works /\ StepTo("entries") /\ todo' = names
       \/ /\ StepTo("entries") /\ todo' \in CutShort(names)
          /\ BreaksFor("listing", names \ todo')
       \/ Breaks("list") /\ StepTo("failed") /\ UNCHANGED todo
  /\ UNCHANGED <<disk, stack, toCopy, current, copy>>

QueueDirectory ==
  /\ step = "entries"
  /\ \E d \in todo \cap Dirs : toCopy' = Append(toCopy, d) /\ todo' = todo \ {d}
  /\ UNCHANGED <<disk, step, stack, current, copy, history>>

EntriesDone ==
  /\ step = "entries" /\ todo = {} /\ StepTo("next")
  /\ UNCHANGED <<disk, tree, copy, history>>

AllCopied ==
  /\ step = "next" /\ toCopy = <<>> /\ StepTo("installed")
  /\ UNCHANGED <<disk, tree, copy, history>>

----------------------------------------------------------------------------
(* FileCopy.  The results of the two FileOpen are not looked at: after one  *)
(* that failed the handle is whatever was on the stack, the other handle    *)
(* perhaps, or one that names no file.  A directory in the file's place     *)
(* cannot be opened.                                                        *)
CopyFile ==
  /\ step = "entries" /\ StepTo("openSource")
  /\ \E f \in todo \cap Files : file' = f /\ todo' = todo \ {f}
  /\ copied' = 0
  /\ UNCHANGED <<disk, stack, toCopy, current, source, dest, open, history>>

OpenSource ==
  /\ step = "openSource" /\ StepTo("openDest")
  /\ \/ Works /\ source' = "S" /\ open' = {"S"}
     \/ BreaksFile("open") /\ source' \in {"D", Closed} /\ UNCHANGED open
  /\ UNCHANGED <<disk, tree, file, dest, copied>>

OpenDest ==
  /\ step = "openDest" /\ StepTo("read")
  /\ \/ ~IsDirectory(file) /\ Works /\ dest' = "D" /\ open' = open \cup {"D"} /\ disk' = With(file, 0)
     \/ /\ BreaksFile("open") \/ (IsDirectory(file) /\ Records("open", {file}) /\ UNCHANGED faults)
        /\ dest' \in {"S", Closed} /\ UNCHANGED <<open, disk>>
  /\ UNCHANGED <<tree, file, source, copied>>

(* FileRead is false for an unknown handle only: an error, or a file opened *)
(* for writing, reads no bytes, which is the end of the file to FileCopy.   *)
ReadBlock ==
  /\ step = "read"
  /\ \/ source \notin open /\ StepTo("giveUp") /\ Works
     \/ source = "S" /\ source \in open /\ copied < Size[file] /\ StepTo("write") /\ Works
     \/ source = "S" /\ source \in open /\ copied = Size[file] /\ StepTo("close") /\ Works
     \/ source = "S" /\ source \in open /\ BreaksFile("read") /\ StepTo("close")
     \/ source = "D" /\ source \in open /\ StepTo("close") /\ Works
  /\ UNCHANGED <<disk, tree, copy>>

WriteIgnoring ==   \* mutant: FileWrite's result is not looked at
  /\ step = "write" /\ StepTo("read")
  /\ copied' = copied + 1
  /\ \/ dest = "D" /\ dest \in open /\ Works /\ disk' = With(file, copied')
     \/ (dest = "D" => dest \notin open) /\ Works /\ UNCHANGED disk
     \/ Breaks("write") /\ UNCHANGED disk
  /\ UNCHANGED <<tree, file, source, dest, open>>

WriteBlock ==
  /\ step = "write"
  /\ \/ /\ dest = "D" /\ dest \in open /\ Works /\ StepTo("read")
        /\ copied' = copied + 1 /\ disk' = With(file, copied')
     \/ /\ (dest = "D" => dest \notin open) /\ Works /\ StepTo("giveUp")
        /\ UNCHANGED <<copied, disk>>
     \/ dest = "D" /\ dest \in open /\ Breaks("write") /\ StepTo("giveUp") /\ UNCHANGED <<copied, disk>>
  /\ UNCHANGED <<tree, file, source, dest, open>>

(* The two FileClose, whose results are not looked at either: the last      *)
(* block may not reach the disk.                                            *)
CloseFiles ==
  /\ step \in {"close", "giveUp"}
  /\ StepTo(IF step = "close" THEN "entries" ELSE "failed")
  /\ open' = open \ {source, dest}
  /\ \/ Works /\ UNCHANGED disk
     \/ "D" \in open /\ disk[file] > 0 /\ BreaksFile("flush") /\ disk' = With(file, disk[file] - 1)
  /\ UNCHANGED <<tree, file, source, dest, copied>>

----------------------------------------------------------------------------
(* UwpInit has no return statement at its end: what main takes for its      *)
(* result is any value, and it goes on to the tests or stops.               *)
FlowOff ==
  /\ step = "installed" /\ (StepTo("tests") \/ StepTo("stopped"))
  /\ UNCHANGED <<disk, tree, copy, history>>

Run ==
  \/ CheckMedia \/ ListToDelete \/ DeleteFile \/ DeleteSubdirectory \/ RemoveDirectory
  \/ CreateMedia \/ NextDirectory \/ ListSource \/ QueueDirectory \/ EntriesDone \/ AllCopied
  \/ CopyFile \/ OpenSource \/ OpenDest \/ ReadBlock \/ WriteBlock \/ CloseFiles
  \/ FlowOff

(* The program is started again, after it ended or was killed.              *)
Restart ==
  /\ starts < MaxStarts /\ starts' = starts + 1
  /\ StepTo("check")
  /\ stack' = <<>> /\ toCopy' = <<>> /\ current' = Root /\ todo' = {}
  /\ file' = Root /\ source' = Closed /\ dest' = Closed /\ open' = {} /\ copied' = 0
  /\ broken' = {} /\ hit' = {}
  /\ UNCHANGED <<disk, faults>>

InstallNext == Run \/ Restart

InstallSpec == InstallInit /\ [][InstallNext]_installVars

----------------------------------------------------------------------------
InstallTypeOK ==
  /\ DOMAIN disk \subseteq Names
  /\ \A n \in DOMAIN disk : disk[n] \in {Directory, Old} \cup Nat
  /\ todo \subseteq Dirs \cup Files /\ current \in Dirs
  /\ open \subseteq {"S", "D"} /\ {source, dest} \subseteq {"S", "D", Closed}
  /\ faults \in 0..MaxFaults /\ starts \in 0..MaxStarts /\ hit \subseteq Files \cup Dirs

(* No unnoticed failure hit n or a directory above it.                      *)
Intact(n) ==
  \E above \in SUBSET (Dirs \cup Files) :
    n \in above /\ above \cap hit = {} /\ \A m \in above \ {Root} : Parent[m] \in above

(* Whatever earlier starts left half done, when DirectoryCopy has returned  *)
(* TRUE the media is the assets: every directory and every file, whole, but *)
(* for what an unnoticed failure hit or was below, and nothing else unless  *)
(* the query for the old media failed.                                      *)
InstallIsExact ==
  step = "installed" =>
    /\ \A d \in Dirs : Intact(d) => IsDirectory(d)
    /\ \A f \in Files : Intact(f) => Present(f) /\ disk[f] = Size[f]
    /\ DOMAIN disk \subseteq Dirs \cup Files \/ "query" \in broken

(* The calls whose failure goes unnoticed are the queries, the opening,     *)
(* reading and closing of a file and the rest of a listing: any other stops *)
(* the installation.  And nothing else stops it: a start in which no call   *)
(* fails installs the media from whatever state of the disk a start that    *)
(* failed or was killed has left.                                           *)
FailuresAreNoticed ==
  /\ InstallTypeOK
  /\ step = "installed" => broken \subseteq {"query", "listing", "open", "read", "flush"}
  /\ step = "failed" => broken # {}
=============================================================================
