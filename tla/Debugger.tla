------------------------------ MODULE Debugger ------------------------------
(***************************************************************************)
(* The script debugger of                                                  *)
(* src/NexgenRedux-Shared/AngelScriptDebuggerCore.cpp: LineCallback runs   *)
(* before each statement of the script and decides whether to stop; the    *)
(* commands typed at the prompt set the way to go on and the break points. *)
(*                                                                         *)
(* A script is a stack of functions, each at a line of its own; any line   *)
(* of a function may follow any other, and a statement may call any number *)
(* of functions.  The commands that only print are left out, and so is a   *)
(* file's path: File is what CheckBreakPoint keeps of it, the last part.   *)
(***************************************************************************)
EXTENDS Integers, SequencesExt

CONSTANTS Funcs, File, Declared, Code,  \* each function's file, first line and line table
          NoFunction,
          BreakLines,      \* lines the user sets break points at
          MaxDepth,        \* bounds the call stack
          MaxBreakPoints   \* bounds m_breakPoints

ASSUME CodeFollowsDeclaration ==
  \A f \in Funcs :
     /\ Code[f] \in Seq(Nat) /\ Code[f] # <<>> /\ Declared[f] \in Nat
     /\ \A n \in DOMAIN Code[f] : Declared[f] <= Code[f][n]
ASSUME LinesAreTyped == BreakLines \subseteq Int   \* by atoi

VARIABLES
  stack,        \* the active context's functions and their lines
  mode,         \* "prompt", "line" before a statement's LineCallback, or "run"
  action,       \* m_action
  level,        \* m_lastCommandAtStackLevel
  lastFunction, \* m_lastFunction
  breakPoints,  \* m_breakPoints
  entered,      \* history: is the pending statement its function's first?
  asked         \* history: the last command to go on, and the stack's depth then

script == <<stack, entered>>
debugVars == <<stack, mode, action, level, lastFunction, breakPoints, entered, asked>>

Files == {File[f] : f \in Funcs}
Depth == Len(stack)
Func == Last(stack).func
Line == Last(stack).line

(* AngelScriptDebugger::Init takes commands before any script runs.         *)
DebugInit ==
  /\ stack = <<>> /\ mode = "prompt"
  /\ action = "CONTINUE" /\ level = 0
  /\ lastFunction = NoFunction /\ breakPoints = <<>>
  /\ entered = FALSE /\ asked = [command |-> "c", depth |-> 0]

(* The script: a function begins at its first line, called by the engine or *)
(* by a statement; another statement of the function begins; it returns.    *)
Enter(f) ==
  /\ mode = "run" /\ Depth < MaxDepth
  /\ stack' = Append(stack, [func |-> f, line |-> Head(Code[f])])
  /\ entered' = TRUE /\ mode' = "line"
  /\ UNCHANGED <<action, level, lastFunction, breakPoints, asked>>

NextStatement ==
  /\ mode = "run" /\ stack # <<>>
  /\ \E line \in ToSet(Code[Func]) : stack' = [stack EXCEPT ![Depth].line = line]
  /\ entered' = FALSE /\ mode' = "line"
  /\ UNCHANGED <<action, level, lastFunction, breakPoints, asked>>

Return ==
  /\ mode = "run" /\ stack # <<>>
  /\ stack' = Front(stack)
  /\ UNCHANGED <<mode, action, level, lastFunction, breakPoints, entered, asked>>

(* asIScriptFunction::FindNextLineWithCode, -1 outside the function.        *)
(* (Constructors, whose lines it sorts, are left out.)                      *)
FindLineAfter(f, line) ==   \* mutant: strictly after
  IF line < Declared[f] \/ line >= Last(Code[f]) THEN -1
  ELSE Code[f][Min({n \in DOMAIN Code[f] : line < Code[f][n]})]

FindNextLineWithCode(f, line) ==
  IF line < Declared[f] \/ line > Last(Code[f]) THEN -1
  ELSE Code[f][Min({n \in DOMAIN Code[f] : line <= Code[f][n]})]

(* What CheckBreakPoint makes of a break point when the function is new: a  *)
(* function's becomes one of this line, a line's moves to a line with code. *)
Adjust(bp) ==
  LET line == FindNextLineWithCode(Func, bp.line)
  IN  IF bp.func
      THEN IF bp.name = Func
           THEN [name |-> File[Func], line |-> Line, func |-> FALSE, needsAdjusting |-> FALSE]
           ELSE bp
      ELSE IF bp.needsAdjusting /\ bp.name = File[Func] /\ line >= 0
           THEN [bp EXCEPT !.line = line, !.needsAdjusting = FALSE]
      ELSE bp

Adjusted ==
  IF lastFunction = Func THEN breakPoints
  ELSE [n \in DOMAIN breakPoints |-> Adjust(breakPoints[n])]

IsHere(bp) == ~bp.func /\ bp.line = Line /\ bp.name = File[Func]
BreaksHere(bps) == \E n \in DOMAIN bps : IsHere(bps[n])

CheckBreakPoint ==
  /\ breakPoints' = Adjusted
  /\ lastFunction' = Func

(* LineCallback: a step stops by the depth of the stack, which spares it    *)
(* the look at the break points; whatever else goes on looks at them.       *)
StepDoneAtDepth ==   \* mutant: STEP_OVER compared like STEP_OUT
  action \in {"STEP_OVER", "STEP_OUT"} /\ Depth < level

StepDone ==
  \/ action = "STEP_OVER" /\ Depth <= level
  \/ action = "STEP_OUT" /\ Depth < level

StopByStep ==
  /\ mode = "line" /\ StepDone
  /\ mode' = "prompt"
  /\ UNCHANGED <<script, action, level, lastFunction, breakPoints, asked>>

CheckLine ==
  /\ mode = "line" /\ ~StepDone
  /\ CheckBreakPoint
  /\ mode' = IF action = "STEP_INTO" \/ BreaksHere(breakPoints') THEN "prompt" ELSE "run"
  /\ UNCHANGED <<script, action, level, asked>>

(* The commands that go on; an empty line leaves action and level as set.   *)
GoOn(command) ==
  /\ mode = "prompt" /\ mode' = "run"
  /\ asked' = [command |-> command, depth |-> Depth]
  /\ UNCHANGED <<script, lastFunction, breakPoints>>

Continue == GoOn("c") /\ action' = "CONTINUE" /\ UNCHANGED level
StepInto == GoOn("s") /\ action' = "STEP_INTO" /\ UNCHANGED level
StepOver == GoOn("n") /\ action' = "STEP_OVER" /\ level' = IF stack = <<>> THEN 1 ELSE Depth
StepOut == GoOn("o") /\ action' = "STEP_OUT" /\ level' = Depth
EmptyLine == GoOn("") /\ UNCHANGED <<action, level>>

(* The commands that set and remove break points, and abort.                *)
AddBreakPoint(bp) ==
  /\ mode = "prompt" /\ Len(breakPoints) < MaxBreakPoints
  /\ breakPoints' = Append(breakPoints, bp)
  /\ UNCHANGED <<script, mode, action, level, lastFunction, asked>>

AddFuncBreakPoint(f) == AddBreakPoint([name |-> f, line |-> 0, func |-> TRUE, needsAdjusting |-> TRUE])
AddFileBreakPoint(file, line) ==
  AddBreakPoint([name |-> file, line |-> line, func |-> FALSE, needsAdjusting |-> TRUE])

RemoveBreakPoint(n) ==
  /\ mode = "prompt" /\ n \in DOMAIN breakPoints
  /\ breakPoints' = RemoveAt(breakPoints, n)
  /\ UNCHANGED <<script, mode, action, level, lastFunction, asked>>

RemoveAllBreakPoints ==
  /\ mode = "prompt"
  /\ breakPoints' = <<>>
  /\ UNCHANGED <<script, mode, action, level, lastFunction, asked>>

AbortScript ==
  /\ mode = "prompt" /\ stack # <<>>
  /\ stack' = <<>> /\ mode' = "run" /\ entered' = FALSE
  /\ asked' = [command |-> "", depth |-> 0]
  /\ UNCHANGED <<action, level, lastFunction, breakPoints>>

DebugNext ==
  \/ \E f \in Funcs : Enter(f) \/ AddFuncBreakPoint(f)
  \/ NextStatement \/ Return \/ StopByStep \/ CheckLine
  \/ Continue \/ StepInto \/ StepOver \/ StepOut \/ EmptyLine
  \/ \E file \in Files, line \in BreakLines : AddFileBreakPoint(file, line)
  \/ \E n \in 1..MaxBreakPoints : RemoveBreakPoint(n)
  \/ RemoveAllBreakPoints \/ AbortScript

DebugSpec == DebugInit /\ [][DebugNext]_debugVars

----------------------------------------------------------------------------
(* The first statement of a function with a break point of its own.         *)
EntryBreaks ==
  entered /\ \E n \in DOMAIN breakPoints : breakPoints[n].func /\ breakPoints[n].name = Func

(* FindNextLineWithCode takes a function's first statement on or after a    *)
(* line, in the order of its code.  That is a statement of the line itself  *)
(* unless a later line's comes first, as that of a for's body comes before  *)
(* a part of its header on a line of its own.                               *)
ComesInOrder(f, line) ==
  \E n \in DOMAIN Code[f] : Code[f][n] = line /\ \A m \in 1..(n - 1) : Code[f][m] < line
StopsHere(bp) ==
  IsHere(bp) /\ (bp.needsAdjusting /\ lastFunction # Func => ComesInOrder(Func, Line))

BreaksAtLine ==
  \/ \E n \in DOMAIN breakPoints : StopsHere(breakPoints[n])
  \/ EntryBreaks /\ lastFunction # Func

(* No statement with a break point on its line begins without a stop, in    *)
(* whatever way the script was told to go on, and the break point is not    *)
(* moved away from under it, but for a new one on a line of which the code  *)
(* does not come in order; and a function is entered past its own break     *)
(* point only when the statement checked last was of that function, too.    *)
NoBreakPointIsPassed ==
  [][mode = "line" /\ BreaksAtLine => mode' = "prompt"]_debugVars

StepEnds ==
  CASE asked.command = "s" -> TRUE
    [] asked.command = "n" -> Depth <= asked.depth \/ (asked.depth = 0 /\ Depth = 1)
    [] asked.command = "o" -> Depth < asked.depth
    [] OTHER -> FALSE

(* A step typed as a command stops where it was asked to, neither sooner,   *)
(* unless at a break point, nor later.                                      *)
StepsStopWhereAsked ==
  [][mode = "line" /\ asked.command # "" =>
       (mode' = "prompt" <=> StepEnds \/ BreaksHere(breakPoints'))]_debugVars

=============================================================================
