----------------------------- MODULE BassPhases -----------------------------
(***************************************************************************)
(* The two passes of the bass assembler over one program.                  *)
(*                                                                         *)
(* bass executes the whole program twice: the Query pass computes the      *)
(* values of constants and labels (a name that is not declared yet reads   *)
(* as the current pc), the Write pass executes it again with those values  *)
(* and writes bytes.  The output is right only if both passes lay the      *)
(* program out the same way.  This module keeps everything that decides    *)
(* the layout and the place bytes are written to; macros, scopes and       *)
(* nested blocks are the subject of BassControl.                           *)
(***************************************************************************)
EXTENDS Integers, Sequences, FiniteSets

CONSTANTS
    Names,          \* identifiers of constants, labels and variables
    Files,          \* output files
    NoFile,         \* targetFile is closed
    DefaultTarget,  \* the file named by -o or -m, or NoFile
    Modulus,        \* uint arithmetic is modulo this (2^32 in the build)
    Statements,     \* the statements a source file may hold
    MaxLength       \* bound: statements in a program

NoValue == -1
Word    == 0 .. Modulus - 1

ASSUME ModulusAssumption == Modulus \in Nat \ {0, 1}
ASSUME LengthAssumption  == MaxLength \in Nat
ASSUME FileAssumption    == NoFile \notin Files /\ DefaultTarget \in Files \cup {NoFile}

(***************************************************************************)
(* Expressions: a number, pc(), a name, a call f() of an `expression`      *)
(* whose body is that name, and the relative labels "-" and "+".           *)
(* A statement is one line, wrapped in `if cond { ... }`; a bare line has  *)
(* the number 1 as its condition.                                          *)
(***************************************************************************)
Expr == [kind : {"number", "pc", "name", "call", "-", "+"}, value : Word, name : Names]

Ops == {"label", "constant", "variable", "-", "+", "origin", "base", "ds",
        "enqueue origin", "enqueue base", "enqueue pc",
        "dequeue origin", "dequeue base", "dequeue pc",
        "d", "fill", "copy", "output", "output create",
        "tracker enable", "tracker disable", "tracker reset", "error"}

Statement == [op : Ops, name : Names, e : Expr, at : Word,
              file : Files \cup {NoFile}, cond : Expr]

ASSUME StatementAssumption ==
    /\ Statements \subseteq Statement
    /\ \A s \in Statements : s.op \in {"output", "output create"} => s.file \in Files

\* Constants are found by name, relative labels by kind and instance number.
Counters == 0 .. MaxLength + 1
Keys     == (Names \X {0}) \cup ({"-", "+"} \X Counters)

VARIABLES
    phase,      \* Tokenize (before assemble), Query, Write, Done or Failed
    program,    \* the statements read so far
    ip,         \* index of the next statement (the code counts from 0)
    layout,     \* the state both passes must repeat, see Layout
    constants,  \* value of each key, or NoValue
    target,     \* targetFile
    offset,     \* targetFile.offset()
    written,    \* addresses of each file holding bytes of this run
    tracking,   \* tracker.enable
    tracked,    \* tracker.addresses
    \* history, read by no action
    trace,      \* layout before each statement of the Query pass
    soft,       \* keys whose Query value was computed from a guess
    guessed,    \* the layout of the Query pass depended on a guess
    astray      \* a copy or output moved the file away from origin

vars == <<phase, program, ip, layout, constants, target, offset, written,
          tracking, tracked, trace, soft, guessed, astray>>

Layout == [origin : Word, base : Word, queue : Seq(Word),
           last : 1 .. MaxLength + 1, next : 1 .. MaxLength + 1,
           variables : [Names -> Word \cup {NoValue}]]

\* What initialize() and execute() reset at the start of a pass.
Reset == [origin |-> 0, base |-> 0, queue |-> <<>>, last |-> 1, next |-> 1,
          variables |-> [n \in Names |-> NoValue]]

-----------------------------------------------------------------------------
Pc(l) == (l.origin + l.base) % Modulus

KeyOf(e, l) == CASE e.kind = "-" -> <<"-", l.last - 1>>
                 [] e.kind = "+" -> <<"+", l.next>>
                 [] OTHER        -> <<e.name, 0>>

IsVariable(e, l) == e.kind \in {"name", "call"} /\ l.variables[e.name] # NoValue

\* Mutant: constants hide variables.
LookupConstantsFirst(e, l, c) ==
    CASE e.kind = "number" -> e.value
      [] e.kind = "pc"     -> Pc(l)
      [] IsVariable(e, l) /\ c[KeyOf(e, l)] = NoValue -> l.variables[e.name]
      [] OTHER             -> c[KeyOf(e, l)]

\* The declared value of an expression: variables hide constants.
Lookup(e, l, c) == CASE e.kind = "number" -> e.value
                     [] e.kind = "pc"     -> Pc(l)
                     [] IsVariable(e, l)  -> l.variables[e.name]
                     [] OTHER             -> c[KeyOf(e, l)]

Declared(e) == Lookup(e, layout, constants) # NoValue

\* In the Query pass an undeclared name reads as pc().  Strict evaluation
\* refuses it, but only where the name stands in the expression itself: the
\* body of an expression is evaluated in the default mode.
MayGuess(e, strict) == phase = "Query" /\ ~(strict /\ e.kind = "name")

Legal(e, strict) == Declared(e) \/ MayGuess(e, strict)

ValueIn(e, l, c) == IF Lookup(e, l, c) # NoValue THEN Lookup(e, l, c) ELSE Pc(l)
Value(e)         == ValueIn(e, layout, constants)

-----------------------------------------------------------------------------
\* The key a statement declares, and its value.
Declares(s)         == s.op \in {"label", "constant", "-", "+"}
DeclaredKey(s, l)   == CASE s.op = "-" -> <<"-", l.last>>
                         [] s.op = "+" -> <<"+", l.next>>
                         [] OTHER      -> <<s.name, 0>>
DeclaredValue(s, l, c) == IF s.op = "constant" THEN ValueIn(s.e, l, c) ELSE Pc(l)

Butlast(q) == SubSeq(q, 1, Len(q) - 1)
Last(q)    == q[Len(q)]

\* How many values a dequeue takes.
Taken(op) == CASE op \in {"dequeue origin", "dequeue base"} -> 1
               [] op = "dequeue pc"                         -> 2
               [] OTHER                                     -> 0

\* Mutant: the displacement keeps its sign.
SignedDisplacement(v, o) == v - o

\* base is stored relative to origin, in the width of an int.
Displacement(v, o) == (v - o) % Modulus

\* The layout after statement s, v being the value of its expression.
Moved(s, l, v) ==
    CASE s.op = "-"        -> [l EXCEPT !.last = @ + 1]
      [] s.op = "+"        -> [l EXCEPT !.next = @ + 1]
      [] s.op = "variable" -> [l EXCEPT !.variables[s.name] = v]
      [] s.op = "origin"   -> [l EXCEPT !.origin = v]
      [] s.op = "base"     -> [l EXCEPT !.base = Displacement(v, l.origin)]
      [] s.op = "ds"       -> [l EXCEPT !.origin = (@ + v) % Modulus]
      [] s.op = "enqueue origin" -> [l EXCEPT !.queue = Append(@, l.origin)]
      [] s.op = "enqueue base"   -> [l EXCEPT !.queue = Append(@, l.base)]
      [] s.op = "enqueue pc"     -> [l EXCEPT !.queue = Append(Append(@, l.origin), l.base)]
      [] s.op = "dequeue origin" -> [l EXCEPT !.queue = Butlast(@), !.origin = Last(l.queue)]
      [] s.op = "dequeue base"   -> [l EXCEPT !.queue = Butlast(@), !.base = Last(l.queue)]
      [] s.op = "dequeue pc"     -> [l EXCEPT !.queue = Butlast(Butlast(@)),
                                              !.base = Last(l.queue),
                                              !.origin = Last(Butlast(l.queue))]
      [] s.op = "d"              -> [l EXCEPT !.origin = (@ + 1) % Modulus]
      [] s.op \in {"fill", "copy"} -> [l EXCEPT !.origin = (@ + v) % Modulus]
      [] OTHER                   -> l

\* The operations that evaluate their expression, and those whose expression
\* decides the layout of the program.
LayoutOps == {"variable", "origin", "base", "ds", "fill", "copy"}
Evaluates == LayoutOps \cup {"constant", "d"}

\* The layout after a whole line: a false condition jumps over the statement.
After(s, l, c) == IF ValueIn(s.cond, l, c) = 0 THEN l
                                               ELSE Moved(s, l, ValueIn(s.e, l, c))

-----------------------------------------------------------------------------
\* History: an expression is firm if the Query pass already knows its value.
Firm(e, l, c, soft0) ==
    \/ e.kind \in {"number", "pc"}
    \/ IsVariable(e, l)
    \/ c[KeyOf(e, l)] # NoValue /\ KeyOf(e, l) \notin soft0

FirmLine(s, l, c, soft0) ==
    /\ Firm(s.cond, l, c, soft0)
    /\ (s.op \in LayoutOps /\ ValueIn(s.cond, l, c) # 0) => Firm(s.e, l, c, soft0)

-----------------------------------------------------------------------------
Init == /\ phase = "Tokenize"
        /\ program = <<>>
        /\ ip = 1
        /\ layout = Reset
        /\ constants = [k \in Keys |-> NoValue]
        /\ target = DefaultTarget
        /\ offset = 0
        /\ written = [f \in Files |-> {}]
        /\ tracking = FALSE
        /\ tracked = {}
        /\ trace = <<>>
        /\ soft = {}
        /\ guessed = FALSE
        /\ astray = FALSE

\* source(): the statements of every file are appended to the program.
Source(s) ==
    /\ phase = "Tokenize"
    /\ Len(program) < MaxLength
    /\ program' = Append(program, s)
    /\ UNCHANGED <<phase, ip, layout, constants, target, offset, written,
                   tracking, tracked, trace, soft, guessed, astray>>

\* Mutant: the relative labels of the Write pass count on from the Query pass.
StartPassCountingOn(p) ==
    /\ phase' = p
    /\ ip' = 1
    /\ layout' = [Reset EXCEPT !.next = IF phase = "Query" THEN layout.next ELSE 1]
    /\ astray' = FALSE

\* assemble(): a pass starts from a fresh layout, but keeps the constants, the
\* open file, its offset and the tracker.
StartPass(p) ==
    /\ phase' = p
    /\ ip' = 1
    /\ layout' = Reset
    /\ astray' = FALSE

StartQuery ==
    /\ phase = "Tokenize"
    /\ StartPass("Query")
    /\ UNCHANGED <<program, constants, target, offset, written, tracking,
                   tracked, trace, soft, guessed>>

StartWrite ==
    /\ phase = "Query"
    /\ ip = Len(program) + 1
    /\ StartPass("Write")
    /\ trace' = Append(trace, layout)
    /\ UNCHANGED <<program, constants, target, offset, written, tracking,
                   tracked, soft, guessed>>

Finish ==
    /\ phase = "Write"
    /\ ip = Len(program) + 1
    /\ phase' = "Done"
    /\ UNCHANGED <<program, ip, layout, constants, target, offset, written,
                   tracking, tracked, trace, soft, guessed, astray>>

-----------------------------------------------------------------------------
S == program[ip]

Executing == phase \in {"Query", "Write"} /\ ip <= Len(program)

\* The statement is reached and its expression can be evaluated.
Runs(ops) == /\ Executing
             /\ S.op \in ops
             /\ Legal(S.cond, TRUE) /\ Value(S.cond) # 0
             /\ S.op \in Evaluates => Legal(S.e, FALSE)

\* Every line moves ip and the layout, and leaves its mark in the history.
Step == /\ ip' = ip + 1
        /\ layout' = After(S, layout, constants)
        /\ trace' = IF phase = "Query" THEN Append(trace, layout) ELSE trace
        /\ guessed' = (guessed \/ (phase = "Query" /\ ~FirmLine(S, layout, constants, soft)))
        /\ UNCHANGED <<phase, program>>

\* Mutant: the pass is tested the wrong way round.
SeekInQuery(a) == IF phase = "Query" /\ target # NoFile
                    THEN offset' = a /\ astray' = FALSE
                    ELSE UNCHANGED <<offset, astray>>

\* seek(): only the Write pass moves the file.
Seek(a) == IF phase = "Write" /\ target # NoFile
             THEN offset' = a /\ astray' = FALSE
             ELSE UNCHANGED <<offset, astray>>

\* if: a false condition continues behind the block.
SkipBlock ==
    /\ Executing
    /\ Legal(S.cond, TRUE) /\ Value(S.cond) = 0
    /\ Step
    /\ UNCHANGED <<constants, target, offset, written, tracking, tracked, soft,
                   astray>>

\* label:, function, constant, - and +: setConstant().  Only the Query pass
\* objects to a second declaration; the Write pass stores the value again.
SetConstant ==
    /\ Runs({"label", "constant", "-", "+"})
    /\ LET k == DeclaredKey(S, layout)
           v == DeclaredValue(S, layout, constants)
       IN  /\ ~(phase = "Query" /\ constants[k] # NoValue)
           /\ constants' = [constants EXCEPT ![k] = v]
           /\ soft' = IF phase = "Query" /\ S.op = "constant"
                         /\ ~Firm(S.e, layout, constants, soft)
                      THEN soft \cup {k} ELSE soft
    /\ Step
    /\ UNCHANGED <<target, offset, written, tracking, tracked, astray>>

SetVariable ==
    /\ Runs({"variable"})
    /\ Step
    /\ UNCHANGED <<constants, target, offset, written, tracking, tracked, soft,
                   astray>>

\* origin, ds, dequeue origin, dequeue pc: the file follows the new origin.
SetOrigin ==
    /\ Runs({"origin", "ds", "dequeue origin", "dequeue pc"})
    /\ Len(layout.queue) >= Taken(S.op)
    /\ Step
    /\ Seek(layout'.origin)
    /\ UNCHANGED <<constants, target, written, tracking, tracked, soft>>

\* base, dequeue base and every enqueue leave the file alone.
SetBase ==
    /\ Runs({"base", "dequeue base"})
    /\ Len(layout.queue) >= Taken(S.op)
    /\ Step
    /\ UNCHANGED <<constants, target, offset, written, tracking, tracked, soft,
                   astray>>

Enqueue ==
    /\ Runs({"enqueue origin", "enqueue base", "enqueue pc"})
    /\ Step
    /\ UNCHANGED <<constants, target, offset, written, tracking, tracked, soft,
                   astray>>

\* The bytes a statement writes: d one, fill and copy the value of theirs.
Size  == IF S.op = "d" THEN 1 ELSE Value(S.e)
Start == IF S.op = "copy" THEN S.at ELSE offset
Clash == {i \in 0 .. Size - 1 : tracking /\ Start + i \in tracked}

\* write() for every byte.  copy seeks to its target and back, while origin
\* counts the bytes it wrote.
Emit ==
    /\ Runs({"d", "fill", "copy"})
    /\ Step
    /\ IF phase = "Write" /\ target # NoFile
         THEN /\ Clash = {}
              /\ written' = [written EXCEPT ![target] = @ \cup (Start .. Start + Size - 1)]
              /\ tracked' = IF tracking THEN tracked \cup (Start .. Start + Size - 1)
                                        ELSE tracked
              /\ offset' = IF S.op = "copy" THEN offset ELSE offset + Size
              /\ astray' = (astray \/ (S.op = "copy" /\ Size > 0))
         ELSE UNCHANGED <<written, tracked, offset, astray>>
    /\ UNCHANGED <<constants, target, tracking, soft>>

\* track(): the bytes before the first one written twice are in the file.
Overwrite ==
    /\ Runs({"d", "fill", "copy"})
    /\ phase = "Write" /\ target # NoFile
    /\ \E n \in Clash :
         /\ \A i \in Clash : n <= i
         /\ written' = [written EXCEPT ![target] = @ \cup (Start .. Start + n - 1)]
         /\ tracked' = tracked \cup (Start .. Start + n - 1)
         /\ offset' = Start + n
         /\ layout' = [layout EXCEPT !.origin = (@ + n) % Modulus]
    /\ phase' = "Failed"
    /\ UNCHANGED <<program, ip, constants, target, tracking, trace, soft, guessed,
                   astray>>

\* output: target() closes the open file, then opens the new one at offset 0, in
\* either pass; create truncates it.  A file that cannot be opened is a warning
\* nobody acts on.  origin is not moved.
Output ==
    /\ Runs({"output", "output create"})
    /\ Step
    /\ \/ /\ target' = S.file
          /\ offset' = 0
          /\ written' = IF S.op = "output create" THEN [written EXCEPT ![S.file] = {}]
                                                  ELSE written
          /\ tracked' = {}
       \/ /\ target' = NoFile
          /\ UNCHANGED <<offset, written, tracked>>
    /\ astray' = (layout.origin # 0)
    /\ UNCHANGED <<constants, tracking, soft>>

\* tracker enable, disable, reset: only the Write pass obeys.
Tracker ==
    /\ Runs({"tracker enable", "tracker disable", "tracker reset"})
    /\ Step
    /\ tracking' = CASE phase = "Write" /\ S.op = "tracker enable"  -> TRUE
                     [] phase = "Write" /\ S.op = "tracker disable" -> FALSE
                     [] OTHER                                       -> tracking
    /\ tracked' = IF phase = "Write" /\ S.op = "tracker reset" THEN {} ELSE tracked
    /\ UNCHANGED <<constants, target, offset, written, soft, astray>>

\* error: only the Write pass stops; in the Query pass the layout may not be final.
IgnoreError ==
    /\ Runs({"error"})
    /\ phase = "Query"
    /\ Step
    /\ UNCHANGED <<constants, target, offset, written, tracking, tracked, soft,
                   astray>>

\* error(): the exception ends assemble(), whatever the pass.  A dequeue from an
\* empty queue reads outside the vector, which ends the process as well.
Error ==
    /\ Executing
    /\ \/ ~Legal(S.cond, TRUE)
       \/ /\ Legal(S.cond, TRUE) /\ Value(S.cond) # 0
          /\ \/ S.op \in Evaluates /\ ~Legal(S.e, FALSE)
             \/ phase = "Write" /\ S.op = "error"
             \/ /\ Declares(S) /\ phase = "Query"
                /\ constants[DeclaredKey(S, layout)] # NoValue
             \/ Len(layout.queue) < Taken(S.op)
    /\ phase' = "Failed"
    /\ UNCHANGED <<program, ip, layout, constants, target, offset, written,
                   tracking, tracked, trace, soft, guessed, astray>>

Execute == \/ SkipBlock \/ SetConstant \/ SetVariable \/ SetOrigin \/ SetBase
           \/ Enqueue \/ Emit \/ Overwrite \/ Output \/ Tracker \/ IgnoreError
           \/ Error

Next == \/ \E s \in Statements : Source(s)
        \/ StartQuery \/ StartWrite \/ Finish
        \/ Execute

Spec == Init /\ [][Next]_vars

-----------------------------------------------------------------------------
\* Every variable holds a value of its type.
TypeOK ==
    /\ phase \in {"Tokenize", "Query", "Write", "Done", "Failed"}
    /\ program \in Seq(Statements) /\ Len(program) <= MaxLength
    /\ ip \in 1 .. Len(program) + 1
    /\ layout \in Layout
    /\ constants \in [Keys -> Word \cup {NoValue}]
    /\ target \in Files \cup {NoFile}
    /\ offset \in Nat
    /\ written \in [Files -> SUBSET Nat]
    /\ tracking \in BOOLEAN
    /\ tracked \in SUBSET Nat
    /\ trace \in Seq(Layout)
    /\ soft \in SUBSET Keys
    /\ guessed \in BOOLEAN
    /\ astray \in BOOLEAN

\* Unless some origin, base, ds, fill, copy, variable or condition was computed
\* from a guess in the Query pass, the Write pass meets every statement in the
\* very state the Query pass met it: labels stand where they were computed.
WriteReplaysQuery ==
    phase = "Write" /\ ~guessed => layout = trace[ip]

\* In that case the Write pass stores every label, and every constant computed
\* without a guess, with the value it has already been used with.
ConstantsSettle ==
    [][phase = "Write" /\ ~guessed =>
         \A k \in Keys \ soft : constants'[k] = constants[k]]_vars

\* A byte is written at the file offset its label was computed from: the file
\* stands at origin, but for what a copy wrote, or for an output statement in
\* the middle of a file, until the next seek.
FileFollowsOrigin ==
    phase = "Write" /\ target # NoFile /\ ~astray => offset % Modulus = layout.origin

\* What bass.html says of the Write pass: it uses the previously computed values
\* of constants and labels.
PreviousValuesUsed ==
    [][phase = "Write" => \A k \in Keys : constants'[k] = constants[k]]_vars
=============================================================================
