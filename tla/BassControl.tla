----------------------------- MODULE BassControl -----------------------------
(***************************************************************************)
(* The control flow of bass: how analyze() pairs the blocks of a program   *)
(* and how execute() walks through it.                                     *)
(*                                                                         *)
(* bass has no syntax tree.  analyze() turns each "}" into a typed end and *)
(* stores jump targets in the statements; execute() keeps three separate   *)
(* stacks (frames, conditionals, scope) that only stay in step if every    *)
(* path through the jumps opens and closes the same blocks.  Macros and    *)
(* variables live in the frames and have scoped names; a macro's arguments *)
(* are variables of its own frame.  Conditions are outcomes chosen freely; *)
(* what statements do to the output is the subject of BassPhases.          *)
(***************************************************************************)
EXTENDS Integers, Sequences, FiniteSets

CONSTANTS
    Names,       \* identifiers of macros, namespaces, functions and variables
    Programs,    \* the statements of the source files, in order
    MaxDepth     \* bound: height of frames, conditionals and scope

(***************************************************************************)
(* Kinds of statements.  "{" stands for every opener that has no effect of *)
(* its own ("{", "label: {", "- {"); "variable" is a declaration, "assign" *)
(* an assignment, and "other" any other statement without braces.  The     *)
(* ends are written by analyze(), a source only has "}".                   *)
(***************************************************************************)
Scopes   == {"namespace", "function"}
Macros   == {"macro", "inline"}
Openers  == {"{", "if", "while"} \cup Scopes \cup Macros
Branches == {"else if", "else"}
End(t)   == CASE t = "{"         -> "endblock"
              [] t = "if"        -> "endif"
              [] t = "while"     -> "endwhile"
              [] t = "namespace" -> "endnamespace"
              [] t = "function"  -> "endfunction"
              [] t = "macro"     -> "endmacro"
              [] t = "inline"    -> "endinline"
Ends     == {End(t) : t \in Openers}
Values   == {"variable", "assign"}
Sources  == Openers \cup Branches \cup Values \cup {"}", "call", "other"}

\* The prefix of a declaration, none being "active".
Levels == {"active", "parent", "global"}

\* list has the parameters of a macro, all of them variables, or the arguments
\* of a call, all of them names.
Line == [op : Sources, name : Names, level : Levels, list : Seq(Names)]

ASSUME ProgramsAssumption == Programs \subseteq Seq(Line)
ASSUME DepthAssumption    == MaxDepth \in Nat \ {0}

VARIABLES
    phase,         \* Tokenize, Analyze, Query, Write, Done or Failed
    program,       \* the statements, each with its jump, Instruction::ip
    ip,            \* index of the next statement (the code counts from 0)
    blocks,        \* analyze(): [ip, type] of the open blocks
    frames,        \* [ip, inlined, macros, variables] of the running invocations
    conditionals,  \* one boolean for each open if
    scope,         \* names of the open scopes
    \* history, read by no action
    misplaced,     \* an else was met whose block is not an if
    entered        \* for each open if, the number of its branches entered

vars == <<phase, program, ip, blocks, frames, conditionals, scope, misplaced, entered>>

\* The jump target of a statement analyze() gave none: it is not initialized.
Unset == 0

Top(q)     == q[Len(q)]
Butlast(q) == SubSeq(q, 1, Len(q) - 1)
\* removeRight() of an empty vector does nothing.
Pop(q)     == IF q = <<>> THEN q ELSE Butlast(q)

Root == [ip |-> 1, inlined |-> FALSE, macros |-> {}, variables |-> {}]

-----------------------------------------------------------------------------
Init == /\ phase = "Tokenize"
        /\ program = <<>>
        /\ ip = 1
        /\ blocks = <<>>
        /\ frames = <<>>
        /\ conditionals = <<>>
        /\ scope = <<>>
        /\ misplaced = FALSE
        /\ entered = <<>>

\* source(): the statements of the files, their ip not set.
Source ==
    /\ phase = "Tokenize" /\ program = <<>>
    /\ \E p \in Programs : program' =
         [i \in DOMAIN p |-> [op |-> p[i].op, name |-> p[i].name, level |-> p[i].level,
                              list |-> p[i].list, jump |-> Unset]]
    /\ UNCHANGED <<phase, ip, blocks, frames, conditionals, scope, misplaced, entered>>

-----------------------------------------------------------------------------
(* analyze() *)

StartAnalyze ==
    /\ phase = "Tokenize"
    /\ phase' = "Analyze"
    /\ blocks' = <<>>
    /\ ip' = 1
    /\ UNCHANGED <<program, frames, conditionals, scope, misplaced, entered>>

S == program[ip]

Analyzing == phase = "Analyze" /\ ip <= Len(program)

\* Every statement of the analysis leaves the execution state alone.
Analyzed == /\ ip' = ip + 1
            /\ UNCHANGED <<phase, frames, conditionals, scope, entered>>

OpenBlock ==
    /\ Analyzing
    /\ S.op \in Openers
    /\ blocks' = Append(blocks, [ip |-> ip, type |-> S.op])
    /\ Analyzed
    /\ UNCHANGED <<program, misplaced>>

\* Mutant: ip already points behind the end.
CloseTargetBehind(t) == IF t = "if" THEN ip ELSE ip + 2

\* Where the opener of a block of type t jumps to when it is not entered: past
\* the end of a macro or while, but onto the end of an if.
CloseTarget(t) == IF t = "if" THEN ip ELSE ip + 1

\* "}" takes the type of the innermost block.
CloseBlock ==
    /\ Analyzing
    /\ S.op = "}" /\ blocks # <<>>
    /\ LET b == Top(blocks)
       IN  program' = [i \in DOMAIN program |->
             IF i = ip THEN [S EXCEPT !.op = End(b.type),
                                      !.jump = IF b.type = "while" THEN b.ip ELSE @]
             ELSE IF i = b.ip /\ b.type \in Macros \cup {"if", "while"}
                    THEN [program[i] EXCEPT !.jump = CloseTarget(b.type)]
                    ELSE program[i]]
    /\ blocks' = Butlast(blocks)
    /\ Analyzed
    /\ UNCHANGED misplaced

\* Mutant: a branch that is not entered jumps back to itself.
BranchTargetSelf(b) == b.ip

\* Where the branch before an else jumps to when it is not entered.
BranchTarget(b) == ip

\* "} else if" and "} else": the branch before jumps here, and the block goes
\* on from here.  The type of the block is not looked at.
Branch ==
    /\ Analyzing
    /\ S.op \in Branches /\ blocks # <<>>
    /\ program' = [program EXCEPT ![Top(blocks).ip].jump = BranchTarget(Top(blocks))]
    /\ blocks' = [blocks EXCEPT ![Len(blocks)].ip = ip]
    /\ misplaced' = (misplaced \/ Top(blocks).type # "if")
    /\ Analyzed

Pass ==
    /\ Analyzing
    /\ S.op \in Values \cup {"call", "other"}
    /\ Analyzed
    /\ UNCHANGED <<program, blocks, misplaced>>

\* "}" without a block is an error; an else without one writes outside the
\* vector, and what the process does then is not modelled any further.
Unmatched ==
    /\ Analyzing
    /\ S.op \in Branches \cup {"}"} /\ blocks = <<>>
    /\ phase' = "Failed"
    /\ UNCHANGED <<program, ip, blocks, frames, conditionals, scope, misplaced, entered>>

Analyze == OpenBlock \/ CloseBlock \/ Branch \/ Pass \/ Unmatched

-----------------------------------------------------------------------------
(* execute() *)

\* Blocks still open at the end of the analysis are not reported.
StartExecute(p) ==
    /\ ip = Len(program) + 1
    /\ phase' = p
    /\ ip' = 1
    /\ frames' = <<Root>>
    /\ conditionals' = <<>>
    /\ scope' = <<>>
    /\ entered' = <<>>
    /\ UNCHANGED <<program, blocks, misplaced>>

StartQuery == phase = "Analyze" /\ StartExecute("Query")
StartWrite == phase = "Query" /\ StartExecute("Write")

Finish ==
    /\ phase = "Write" /\ ip = Len(program) + 1
    /\ phase' = "Done"
    /\ frames' = Pop(frames)
    /\ UNCHANGED <<program, ip, blocks, conditionals, scope, misplaced, entered>>

Executing == phase \in {"Query", "Write"} /\ ip <= Len(program)

Executes(ops) == Executing /\ S.op \in ops

\* ip = i.ip.  A target that was never set is any number; one behind the
\* program ends it.
Jump == IF S.jump = Unset THEN ip' \in 1 .. Len(program) + 1 ELSE ip' = S.jump

Executed == UNCHANGED <<phase, program, blocks, misplaced>>

Largest(ns) == CHOOSE n \in ns : \A m \in ns : m <= n

\* Mutant: the parent of an inline is what invoked it.
ReceiversNext(level) ==
    LET plain == {n \in DOMAIN frames : ~frames[n].inlined}
    IN  CASE level = "active" -> plain
          [] level = "parent" -> {n \in plain : n < Len(frames) \/ n = 1}
          [] level = "global" -> plain \cap {1}

\* The frames that may receive what is declared with a prefix, of which the
\* last one does: none that is inlined, and for "parent" not the last other.
Receivers(level) ==
    LET plain == {n \in DOMAIN frames : ~frames[n].inlined}
    IN  CASE level = "active" -> plain
          [] level = "parent" -> {n \in plain : n < Largest(plain) \/ n = 1}
          [] level = "global" -> plain \cap {1}

\* A name is its path of scopes and the number of its parameters.
Store(objects, object) == {o \in objects : o.name # object.name} \cup {object}

Declare(kind, level, object) ==
    IF Receivers(level) = {} THEN frames
    ELSE [frames EXCEPT ![Largest(Receivers(level))][kind] = Store(@, object)]

\* macro and inline: setMacro(); the body is jumped over.
DefineMacro ==
    /\ Executes(Macros)
    /\ frames' = Declare("macros", S.level,
                         [name |-> <<Append(scope, S.name), Len(S.list)>>, parameters |-> S.list,
                          ip |-> ip + 1, inlined |-> S.op = "inline"])
    /\ Jump
    /\ Executed
    /\ UNCHANGED <<conditionals, scope, entered>>

\* setVariable(); the value is known by the statement that gave it.
DeclareVariable ==
    /\ Executes({"variable"})
    /\ frames' = Declare("variables", S.level,
                         [name |-> <<Append(scope, S.name), 0>>, value |-> ip])
    /\ ip' = ip + 1
    /\ Executed
    /\ UNCHANGED <<conditionals, scope, entered>>

If ==
    /\ Executes({"if"}) /\ Len(conditionals) < MaxDepth
    /\ \E match \in BOOLEAN :
         /\ conditionals' = Append(conditionals, match)
         /\ entered' = Append(entered, IF match THEN 1 ELSE 0)
         /\ IF match THEN ip' = ip + 1 ELSE Jump
    /\ Executed
    /\ UNCHANGED <<frames, scope>>

\* The last entry of the conditionals becomes match, and a branch is entered.
Matched(match) ==
    /\ conditionals' = [conditionals EXCEPT ![Len(conditionals)] = match]
    /\ entered' = [entered EXCEPT ![Len(entered)] = @ + (IF match THEN 1 ELSE 0)]

\* Mutant: a later branch that does not match forgets the earlier one.
ElseIfForgets ==
    /\ Executes({"else if"}) /\ conditionals # <<>>
    /\ \E match \in BOOLEAN : /\ Matched(match)
                              /\ IF match THEN ip' = ip + 1 ELSE Jump
    /\ Executed
    /\ UNCHANGED <<frames, scope>>

ElseIf ==
    /\ Executes({"else if"}) /\ conditionals # <<>>
    /\ \/ /\ Top(conditionals)
          /\ Jump
          /\ UNCHANGED <<conditionals, entered>>
       \/ /\ ~Top(conditionals)
          /\ \E match \in BOOLEAN : /\ Matched(match)
                                    /\ IF match THEN ip' = ip + 1 ELSE Jump
    /\ Executed
    /\ UNCHANGED <<frames, scope>>

Else ==
    /\ Executes({"else"}) /\ conditionals # <<>>
    /\ \/ /\ Top(conditionals)
          /\ Jump
          /\ UNCHANGED <<conditionals, entered>>
       \/ /\ ~Top(conditionals)
          /\ Matched(TRUE)
          /\ ip' = ip + 1
    /\ Executed
    /\ UNCHANGED <<frames, scope>>

EndIf ==
    /\ Executes({"endif"})
    /\ conditionals' = Pop(conditionals)
    /\ entered' = Pop(entered)
    /\ ip' = ip + 1
    /\ Executed
    /\ UNCHANGED <<frames, scope>>

While ==
    /\ Executes({"while"})
    /\ ip' = ip + 1 \/ Jump
    /\ Executed
    /\ UNCHANGED <<frames, conditionals, scope, entered>>

EndWhile ==
    /\ Executes({"endwhile"})
    /\ Jump
    /\ Executed
    /\ UNCHANGED <<frames, conditionals, scope, entered>>

\* findMacro(), findVariable(): what a path may name in given frames and scope,
\* and of that the one in the innermost frame and there in the innermost scope.
VisibleIn(fs, sc, kind, path, arity) ==
    {x \in UNION {{n} \X (0 .. Len(sc)) \X fs[n][kind] : n \in DOMAIN fs} :
       x[3].name = <<SubSeq(sc, 1, x[2]) \o path, arity>>}

Nearest(found) == CHOOSE x \in found :
    \A y \in found : y[1] < x[1] \/ (y[1] = x[1] /\ y[2] <= x[2])

\* evaluateAssign(): wherever the variable is.
Variables == VisibleIn(frames, scope, "variables", <<S.name>>, 0)

Assign ==
    /\ Executes({"assign"}) /\ Variables # {}
    /\ LET found == Nearest(Variables)
       IN  frames' = [frames EXCEPT ![found[1]].variables =
                        Store(@, [found[3] EXCEPT !.value = ip])]
    /\ ip' = ip + 1
    /\ Executed
    /\ UNCHANGED <<conditionals, scope, entered>>

\* evaluateLiteral(): a name that is not known is guessed, and an error in the
\* Write pass.  (Labels and constants are left out.)
Guess == 0

ValueIn(fs, sc, path) ==
    LET found == VisibleIn(fs, sc, "variables", path, 0)
    IN  IF found = {} THEN Guess ELSE Nearest(found)[3].value

\* The macro a call invokes.
Callees == VisibleIn(frames, scope, "macros", <<S.name>>, Len(S.list))
Callee == Nearest(Callees)[3]

Inside(macro) == IF macro.inlined THEN scope ELSE Append(scope, S.name)

\* Mutant: the arguments of an inline are looked up under its name as well.
ArgumentsUnderName(macro) ==
    LET bound[i \in 0 .. Len(S.list)] ==
          IF i = 0 THEN {}
          ELSE Store(bound[i - 1],
                     [name |-> <<Append(Inside(macro), macro.parameters[i]), 0>>,
                      value |-> ValueIn(Append(frames, [variables |-> bound[i - 1]]),
                                        Append(scope, S.name), <<S.list[i]>>)])
    IN  bound[Len(S.list)]

\* Each argument is evaluated in the new frame and scope, where the parameters
\* before it already are.
Arguments(macro) ==
    LET bound[i \in 0 .. Len(S.list)] ==
          IF i = 0 THEN {}
          ELSE Store(bound[i - 1],
                     [name |-> <<Append(Inside(macro), macro.parameters[i]), 0>>,
                      value |-> ValueIn(Append(frames, [variables |-> bound[i - 1]]),
                                        Inside(macro), <<S.list[i]>>)])
    IN  bound[Len(S.list)]

Known(arguments) == phase = "Write" => \A x \in arguments : x.value # Guess

\* A macro runs in a frame and a scope of its own, an inline only in a frame.
Call ==
    /\ Executes({"call"})
    /\ Callees # {} /\ Known(Arguments(Callee))
    /\ Len(frames) < MaxDepth /\ Len(scope) < MaxDepth
    /\ frames' = Append(frames, [ip |-> ip + 1, inlined |-> Callee.inlined,
                                 macros |-> {}, variables |-> Arguments(Callee)])
    /\ scope' = Inside(Callee)
    /\ ip' = Callee.ip
    /\ Executed
    /\ UNCHANGED <<conditionals, entered>>

\* Mutant: an inline takes a scope away that it did not open.
ReturnFromScope ==
    /\ Executes({"endmacro", "endinline"}) /\ frames # <<>>
    /\ ip' = Top(frames).ip
    /\ scope' = Pop(scope)
    /\ frames' = Butlast(frames)
    /\ Executed
    /\ UNCHANGED <<conditionals, entered>>

Return ==
    /\ Executes({"endmacro", "endinline"}) /\ frames # <<>>
    /\ ip' = Top(frames).ip
    /\ scope' = IF Top(frames).inlined THEN scope ELSE Pop(scope)
    /\ frames' = Butlast(frames)
    /\ Executed
    /\ UNCHANGED <<conditionals, entered>>

OpenScope ==
    /\ Executes(Scopes) /\ Len(scope) < MaxDepth
    /\ scope' = Append(scope, S.name)
    /\ ip' = ip + 1
    /\ Executed
    /\ UNCHANGED <<frames, conditionals, entered>>

CloseScope ==
    /\ Executes({End(t) : t \in Scopes})
    /\ scope' = Pop(scope)
    /\ ip' = ip + 1
    /\ Executed
    /\ UNCHANGED <<frames, conditionals, entered>>

Plain ==
    /\ Executes({"{", "endblock", "other"})
    /\ ip' = ip + 1
    /\ Executed
    /\ UNCHANGED <<frames, conditionals, scope, entered>>

\* A call that finds no macro is an unrecognized expression, a name that finds
\* no variable an unrecognized variable.  An else outside any if, or the end of
\* a macro outside any frame, reads outside the vector.
Abort ==
    /\ Executing
    /\ \/ S.op = "call" /\ (Callees = {} \/ ~Known(Arguments(Callee)))
       \/ S.op = "assign" /\ Variables = {}
       \/ S.op \in Branches /\ conditionals = <<>>
       \/ S.op \in {"endmacro", "endinline"} /\ frames = <<>>
    /\ phase' = "Failed"
    /\ UNCHANGED <<program, ip, blocks, frames, conditionals, scope, misplaced, entered>>

Execute == \/ DefineMacro \/ DeclareVariable \/ Assign \/ If \/ ElseIf \/ Else \/ EndIf \/ While \/ EndWhile
           \/ Call \/ Return \/ OpenScope \/ CloseScope \/ Plain \/ Abort

Assemble == \/ StartAnalyze \/ Analyze
            \/ StartQuery \/ StartWrite \/ Finish
            \/ Execute

Next == Source \/ Assemble

Spec == Init /\ [][Next]_vars

\* bass is one thread that waits for nothing: once started it takes every
\* step it can.
FairSpec == Spec /\ WF_vars(Assemble)

-----------------------------------------------------------------------------
(* The text *)

\* The context of a place between two statements: the opener of the innermost
\* block around it and the innermost macro, with 0 for none; and what the blocks
\* from that macro inwards add to the scope and to the conditionals.
Outside == [opener |-> 0, macro |-> 0, names |-> <<>>, ifs |-> 0]

\* The context behind statement s at i, which opens a block, if c is the one before.
Enter(s, i, c) ==
    [opener |-> i,
     macro  |-> IF s.op \in Macros THEN i ELSE c.macro,
     names  |-> IF s.op = "macro" THEN <<s.name>>
                ELSE IF s.op = "inline" THEN <<>>
                ELSE IF s.op \in Scopes THEN Append(c.names, s.name)
                ELSE c.names,
     ifs    |-> IF s.op \in Macros THEN 0 ELSE IF s.op = "if" THEN c.ifs + 1 ELSE c.ifs]

\* The context before each statement of p: behind the end of a block it is what
\* it was before its opener.
ContextIn(p) ==
    LET context[i \in Nat] ==
          IF i <= 1 THEN Outside
          ELSE IF p[i - 1].op \in Openers THEN Enter(p[i - 1], i - 1, context[i - 1])
          ELSE IF p[i - 1].op \in Ends    THEN context[context[i - 1].opener]
          ELSE context[i - 1]
    IN  context

Context == ContextIn(program)

\* Where each running invocation stands: its return address, or ip.
Places == [n \in DOMAIN frames |-> IF n = Len(frames) THEN ip ELSE frames[n + 1].ip]

\* What the first invocations add to the scope and to the conditionals together,
\* the contexts of a program and their places given.
Sum(context, places) ==
    LET sum[n \in 0 .. Len(places)] ==
          IF n = 0 THEN [names |-> <<>>, ifs |-> 0]
          ELSE [names |-> sum[n - 1].names \o context[places[n]].names,
                ifs   |-> sum[n - 1].ifs + context[places[n]].ifs]
    IN  sum

UpTo(n) == Sum(Context, Places)[n]

-----------------------------------------------------------------------------
(* The properties *)

Statement(n) == [op : Sources \cup Ends, name : Names, level : Levels,
                 list : Seq(Names), jump : 0 .. n + 1]

Macro(n) == [name : Seq(Names) \X Nat, parameters : Seq(Names),
             ip : 1 .. n + 1, inlined : BOOLEAN]

Variable(n) == [name : Seq(Names) \X {0}, value : 0 .. n]

Frame(n) == [ip : 1 .. n + 1, inlined : BOOLEAN,
             macros : SUBSET Macro(n), variables : SUBSET Variable(n)]

\* Every variable holds a value of its type; every jump stays in the program,
\* and a macro is known by the number of its parameters.
TypeOK ==
    /\ phase \in {"Tokenize", "Analyze", "Query", "Write", "Done", "Failed"}
    /\ program \in Seq(Statement(Len(program)))
    /\ ip \in 1 .. Len(program) + 1
    /\ blocks \in Seq([ip : 1 .. Len(program), type : Openers])
    /\ frames \in Seq(Frame(Len(program))) /\ Len(frames) <= MaxDepth
    /\ \A n \in DOMAIN frames : \A m \in frames[n].macros : Len(m.parameters) = m.name[2]
    /\ phase = "Tokenize" => blocks = <<>> /\ frames = <<>>
    /\ conditionals \in Seq(BOOLEAN)
    /\ scope \in Seq(Names)
    /\ misplaced \in BOOLEAN
    /\ entered \in Seq(Nat)

\* A program whose blocks are all closed and whose elses belong to ifs.
WellFormed == blocks = <<>> /\ ~misplaced

\* The stacks stay in step with the text: the scope holds the names of the
\* blocks around every running invocation, the conditionals one entry for each
\* if around it, and at the end of a pass only the root frame is left.
StacksMatchText ==
    phase \in {"Query", "Write"} /\ WellFormed =>
      /\ scope = UpTo(Len(frames)).names
      /\ Len(conditionals) = UpTo(Len(frames)).ifs
      /\ ip = Len(program) + 1 => Len(frames) = 1

\* Of the branches of an if at most one is entered, and exactly one if there is
\* an else.
OneBranch ==
    phase \in {"Query", "Write"} /\ WellFormed =>
      /\ \A n \in DOMAIN entered : entered[n] <= 1
      /\ Executes({"endif"}) /\ Top(entered) = 0 =>
           \A j \in 1 .. ip : program[j].op = "else" => Context[j].opener # Context[ip].opener

\* An argument means in the macro what it meant where the macro was invoked,
\* but for the two names the code captures: that of a parameter before it, and
\* one the macro's own scope has a variable for, left there by an earlier
\* invocation or a namespace of the same name (execute.cpp:180-191).
ArgumentsMeant ==
    [][Executes({"call"}) /\ Len(frames') > Len(frames) =>
         LET parameters == Callee.parameters
             own(x) == <<Append(Append(scope, S.name), x), 0>>
         IN  \A i \in DOMAIN S.list :
               \/ \E j \in 1 .. i - 1 : parameters[j] = S.list[i]
               \/ /\ scope' # scope
                  /\ \E n \in DOMAIN frames : \E x \in frames[n].variables : x.name = own(S.list[i])
               \/ ValueIn(frames', scope', <<parameters[i]>>) = ValueIn(frames, scope, <<S.list[i]>>)
               \/ \E j \in i + 1 .. Len(parameters) : parameters[j] = parameters[i]]_vars

\* What a macro hands back with "parent" is what its caller reads under the
\* macro's name, from the frame and scope it made the call in, through whatever
\* inlines stand between (doc/bass.html:304-318), unless one of these has a
\* parameter of that name: the lookup stops in its frame, which the prefix skips
\* (utility.cpp:125-165).
CallerReads ==
    [][Executes({"variable"}) /\ S.level = "parent" /\ WellFormed =>
         LET plain == {n \in DOMAIN frames : ~frames[n].inlined}
             macro == Largest(plain)
             inlines == SubSeq(frames, Largest({n \in plain : n < macro}) + 1, macro - 1)
             outside == UpTo(macro - 1).names
             path == SubSeq(scope, Len(outside) + 1, Len(scope)) \o <<S.name>>
         IN  macro > 1 /\ VisibleIn(inlines, outside, "variables", path, 0) = {} =>
               ValueIn(SubSeq(frames', 1, macro - 1), outside, path) = ip]_vars

\* A program without loops and without calls from a macro: none can recur.
Straight ==
    /\ WellFormed
    /\ \A i \in DOMAIN program :
         /\ program[i].op # "while"
         /\ program[i].op = "call" => Context[i].macro = 0

\* Such a program is assembled to its end, or to an error.
Terminates == phase = "Query" /\ Straight ~> phase \in {"Done", "Failed"}
=============================================================================
