-------------------------- MODULE BassPhases_proofs --------------------------
(***************************************************************************)
(* Proofs about the two passes of bass, for every set of names, files and  *)
(* statements, every modulus and every program length.                     *)
(*                                                                         *)
(* The invariant relates the Query pass, recorded in trace, to the         *)
(* constants: as long as no layout decision was a guess, every line of the *)
(* program, executed again with the constants as they are now, leads from  *)
(* its recorded layout to the next one.  The Write pass then has no choice *)
(* but to repeat the recording.                                            *)
(***************************************************************************)
EXTENDS BassPhases, TLAPS

\* The recorded layout before line i; the last one of a running Query pass is
\* the current one.
At(i) == IF i <= Len(trace) THEN trace[i] ELSE layout

\* The lines the Query pass has executed.
Executed == IF phase = "Query" THEN ip - 1 ELSE Len(program)

\* Counters stay below the number of lines, the recording has its length.
Shape ==
    /\ layout.last <= ip /\ layout.next <= ip
    /\ phase = "Tokenize" => ip = 1 /\ layout = Reset /\ trace = <<>> /\ soft = {} /\ ~guessed
    /\ phase = "Query" => Len(trace) = ip - 1
    /\ phase = "Write" => Len(trace) = Len(program) + 1
    /\ phase \in {"Query", "Write"} => At(1) = Reset

Recorded == 1 .. Executed

\* Line s leads from layout l to layout m, whatever else is declared later.
Leads(s, l, m, c, t) == FirmLine(s, l, c, t) /\ m = After(s, l, c)

\* A declaration met by the Query pass has a value, and one made without a
\* guess has the value it would be given again.
Settled(s, l, c, t) ==
    Declares(s) /\ ValueIn(s.cond, l, c) # 0 =>
      LET k == DeclaredKey(s, l)
      IN  /\ c[k] # NoValue
          /\ k \notin t => /\ s.op = "constant" => Firm(s.e, l, c, t)
                           /\ c[k] = DeclaredValue(s, l, c)

Replay ==
    phase \in {"Query", "Write"} /\ ~guessed =>
      /\ \A i \in Recorded : /\ Leads(program[i], At(i), At(i + 1), constants, soft)
                             /\ Settled(program[i], At(i), constants, soft)
      /\ phase = "Write" => layout = trace[ip]

IInv == TypeOK /\ Shape /\ Replay

-----------------------------------------------------------------------------
(* The operators the steps are built from. *)

\* The program counter is a machine word.
LEMMA PcType == \A l \in Layout : Pc(l) \in Word
  BY ModulusAssumption DEF Layout, Word, Pc

\* A relative or a named reference selects a key of the constants.
LEMMA KeyType == \A e \in Expr, l \in Layout : KeyOf(e, l) \in Keys
  BY LengthAssumption DEF Expr, Layout, KeyOf, Keys, Counters

\* A declaration stores under a key of the constants.
LEMMA DeclaredKeyType == \A s \in Statement, l \in Layout : DeclaredKey(s, l) \in Keys
  BY LengthAssumption DEF Statement, Layout, DeclaredKey, Keys, Counters

\* Every expression evaluates to a machine word, guessed or not.
LEMMA ValueType ==
  ASSUME NEW e \in Expr, NEW l \in Layout, NEW c \in [Keys -> Word \cup {NoValue}]
  PROVE  /\ Lookup(e, l, c) \in Word \cup {NoValue}
         /\ ValueIn(e, l, c) \in Word
  <1>1. Pc(l) \in Word /\ KeyOf(e, l) \in Keys
    BY PcType, KeyType
  <1>2. c[KeyOf(e, l)] \in Word \cup {NoValue}
    BY <1>1
  <1>3. e.kind = "number" => e.value \in Word
    BY DEF Expr
  <1>4. IsVariable(e, l) => l.variables[e.name] \in Word \cup {NoValue}
    BY DEF Expr, Layout
  <1> QED BY <1>1, <1>2, <1>3, <1>4 DEF Lookup, ValueIn

\* From constants c with the soft keys t to d with u: no declared key is lost,
\* those that are not soft keep their value and do not become soft.
Stable(c, t, d, u) ==
    /\ t \subseteq u
    /\ \A k \in Keys : c[k] # NoValue =>
         d[k] # NoValue /\ (k \notin t => d[k] = c[k] /\ k \notin u)

\* A firm expression keeps its value, and stays firm, when the constants
\* change so.
LEMMA FirmStable ==
  ASSUME NEW e \in Expr, NEW l \in Layout, NEW c, NEW d, NEW t, NEW u,
         Firm(e, l, c, t), Stable(c, t, d, u)
  PROVE  Firm(e, l, d, u) /\ ValueIn(e, l, d) = ValueIn(e, l, c)
  <1>1. KeyOf(e, l) \in Keys
    BY KeyType
  <1>2. CASE e.kind \in {"number", "pc"} \/ IsVariable(e, l)
    BY <1>2 DEF Firm, Lookup, ValueIn
  <1>3. CASE c[KeyOf(e, l)] # NoValue /\ KeyOf(e, l) \notin t
    BY <1>1, <1>3 DEF Firm, Lookup, ValueIn, Stable
  <1> QED BY <1>2, <1>3 DEF Firm

\* The result of one step of a statement: a layout whose counters are at most
\* one higher.
Follows(m, l) == m \in Layout /\ m.last <= l.last + 1 /\ m.next <= l.next + 1

\* A layout remains one when a counter goes up by one.
LEMMA CounterType ==
  ASSUME NEW l \in Layout, l.last <= MaxLength, l.next <= MaxLength
  PROVE  /\ Follows(l, l)
         /\ Follows([l EXCEPT !.last = @ + 1], l)
         /\ Follows([l EXCEPT !.next = @ + 1], l)
  <1>1. l.last \in Int /\ l.next \in Int
    BY DEF Layout
  <1>2. Follows([l EXCEPT !.last = @ + 1], l)
    <2>1. [l EXCEPT !.last = @ + 1] \in Layout
      BY LengthAssumption DEF Layout
    <2>2. [l EXCEPT !.last = @ + 1].last = l.last + 1 /\ [l EXCEPT !.last = @ + 1].next = l.next
      BY DEF Layout
    <2> QED BY <1>1, <2>1, <2>2 DEF Follows
  <1>3. Follows([l EXCEPT !.next = @ + 1], l)
    <2>1. [l EXCEPT !.next = @ + 1] \in Layout
      BY LengthAssumption DEF Layout
    <2>2. [l EXCEPT !.next = @ + 1].last = l.last /\ [l EXCEPT !.next = @ + 1].next = l.next + 1
      BY DEF Layout
    <2> QED BY <1>1, <2>1, <2>2 DEF Follows
  <1>4. Follows(l, l)
    BY <1>1 DEF Follows
  <1> QED BY <1>2, <1>3, <1>4

\* A layout remains one when another of its fields is replaced.
LEMMA FieldType ==
  ASSUME NEW l \in Layout,
         NEW o \in Word, NEW b \in Word, NEW q \in Seq(Word), NEW n \in Names
  PROVE  /\ Follows([l EXCEPT !.variables[n] = o], l)
         /\ Follows([l EXCEPT !.origin = o], l)
         /\ Follows([l EXCEPT !.base = b], l)
         /\ Follows([l EXCEPT !.queue = q], l)
         /\ Follows([l EXCEPT !.queue = q, !.origin = o], l)
         /\ Follows([l EXCEPT !.queue = q, !.base = b], l)
         /\ Follows([l EXCEPT !.queue = q, !.base = b, !.origin = o], l)
  <1>1. l.last \in Int /\ l.next \in Int
    BY DEF Layout
  <1>4. Follows([l EXCEPT !.variables[n] = o], l)
    <2>1. [l EXCEPT !.variables[n] = o] \in Layout
      BY LengthAssumption DEF Layout
    <2>2. [l EXCEPT !.variables[n] = o].last = l.last /\ [l EXCEPT !.variables[n] = o].next = l.next
      BY DEF Layout
    <2> QED BY <1>1, <2>1, <2>2 DEF Follows
  <1>5. Follows([l EXCEPT !.origin = o], l)
    <2>1. [l EXCEPT !.origin = o] \in Layout
      BY LengthAssumption DEF Layout
    <2>2. [l EXCEPT !.origin = o].last = l.last /\ [l EXCEPT !.origin = o].next = l.next
      BY DEF Layout
    <2> QED BY <1>1, <2>1, <2>2 DEF Follows
  <1>6. Follows([l EXCEPT !.base = b], l)
    <2>1. [l EXCEPT !.base = b] \in Layout
      BY LengthAssumption DEF Layout
    <2>2. [l EXCEPT !.base = b].last = l.last /\ [l EXCEPT !.base = b].next = l.next
      BY DEF Layout
    <2> QED BY <1>1, <2>1, <2>2 DEF Follows
  <1>7. Follows([l EXCEPT !.queue = q], l)
    <2>1. [l EXCEPT !.queue = q] \in Layout
      BY LengthAssumption DEF Layout
    <2>2. [l EXCEPT !.queue = q].last = l.last /\ [l EXCEPT !.queue = q].next = l.next
      BY DEF Layout
    <2> QED BY <1>1, <2>1, <2>2 DEF Follows
  <1>8. Follows([l EXCEPT !.queue = q, !.origin = o], l)
    <2>1. [l EXCEPT !.queue = q, !.origin = o] \in Layout
      BY LengthAssumption DEF Layout
    <2>2. [l EXCEPT !.queue = q, !.origin = o].last = l.last /\ [l EXCEPT !.queue = q, !.origin = o].next = l.next
      BY DEF Layout
    <2> QED BY <1>1, <2>1, <2>2 DEF Follows
  <1>9. Follows([l EXCEPT !.queue = q, !.base = b], l)
    <2>1. [l EXCEPT !.queue = q, !.base = b] \in Layout
      BY LengthAssumption DEF Layout
    <2>2. [l EXCEPT !.queue = q, !.base = b].last = l.last /\ [l EXCEPT !.queue = q, !.base = b].next = l.next
      BY DEF Layout
    <2> QED BY <1>1, <2>1, <2>2 DEF Follows
  <1>10. Follows([l EXCEPT !.queue = q, !.base = b, !.origin = o], l)
    <2>1. [l EXCEPT !.queue = q, !.base = b, !.origin = o] \in Layout
      BY LengthAssumption DEF Layout
    <2>2. [l EXCEPT !.queue = q, !.base = b, !.origin = o].last = l.last /\ [l EXCEPT !.queue = q, !.base = b, !.origin = o].next = l.next
      BY DEF Layout
    <2> QED BY <1>1, <2>1, <2>2 DEF Follows
  <1> QED BY <1>4, <1>5, <1>6, <1>7, <1>8, <1>9, <1>10

\* Executing a statement leaves a layout behind, counters at most one higher.
LEMMA MovedType ==
  ASSUME NEW s \in Statement, NEW l \in Layout, NEW v \in Word,
         l.last <= MaxLength, l.next <= MaxLength, Len(l.queue) >= Taken(s.op)
  PROVE  Follows(Moved(s, l, v), l)
  <1>1. s.op \in Ops /\ s.name \in Names
    BY DEF Statement
  <1>2. l.queue \in Seq(Word) /\ l.origin \in Word /\ l.base \in Word
    BY DEF Layout
  <1>3. CASE s.op = "-"
    <2>1. Moved(s, l, v) = [l EXCEPT !.last = @ + 1]
      BY <1>3 DEF Moved
    <2> QED BY <2>1, CounterType
  <1>4. CASE s.op = "+"
    <2>1. Moved(s, l, v) = [l EXCEPT !.next = @ + 1]
      BY <1>4 DEF Moved
    <2> QED BY <2>1, CounterType
  <1>5. CASE s.op = "variable"
    <2>1. Moved(s, l, v) = [l EXCEPT !.variables[s.name] = v]
      BY <1>5 DEF Moved
    <2>2. Follows([l EXCEPT !.variables[s.name] = v], l)
      BY <1>1, <1>2, FieldType
    <2> QED BY <2>1, <2>2
  <1>6. CASE s.op \in {"origin", "ds", "d", "fill", "copy"}
    <2>1. PICK o \in Word : Moved(s, l, v) = [l EXCEPT !.origin = o]
      <3>1. (l.origin + v) % Modulus \in Word /\ (l.origin + 1) % Modulus \in Word
        BY <1>2, ModulusAssumption DEF Word
      <3>2. s.op = "origin" => Moved(s, l, v) = [l EXCEPT !.origin = v]
        BY DEF Moved
      <3>3. s.op = "ds" => Moved(s, l, v) = [l EXCEPT !.origin = (l.origin + v) % Modulus]
        BY DEF Moved
      <3>4. s.op = "d" => Moved(s, l, v) = [l EXCEPT !.origin = (l.origin + 1) % Modulus]
        BY DEF Moved
      <3>5. s.op \in {"fill", "copy"} =>
              Moved(s, l, v) = [l EXCEPT !.origin = (l.origin + v) % Modulus]
        BY DEF Moved
      <3> QED BY <1>6, <3>1, <3>2, <3>3, <3>4, <3>5
    <2>2. Follows([l EXCEPT !.origin = o], l)
      BY <1>1, <1>2, FieldType
    <2> QED BY <2>1, <2>2
  <1>7. CASE s.op = "base"
    <2>1. Moved(s, l, v) = [l EXCEPT !.base = Displacement(v, l.origin)]
      BY <1>7 DEF Moved
    <2>2. Displacement(v, l.origin) \in Word
      BY <1>2, ModulusAssumption, SMTT(30) DEF Displacement, Word
    <2>3. Follows([l EXCEPT !.base = Displacement(v, l.origin)], l)
      BY <1>1, <1>2, <2>2, FieldType
    <2> QED BY <2>1, <2>3
  <1>8. CASE s.op \in {"enqueue origin", "enqueue base", "enqueue pc"}
    <2>1. PICK q \in Seq(Word) : Moved(s, l, v) = [l EXCEPT !.queue = q]
      <3>1. /\ Append(l.queue, l.origin) \in Seq(Word)
            /\ Append(l.queue, l.base) \in Seq(Word)
            /\ Append(Append(l.queue, l.origin), l.base) \in Seq(Word)
        BY <1>2
      <3>2. s.op = "enqueue origin" =>
              Moved(s, l, v) = [l EXCEPT !.queue = Append(l.queue, l.origin)]
        BY DEF Moved
      <3>3. s.op = "enqueue base" =>
              Moved(s, l, v) = [l EXCEPT !.queue = Append(l.queue, l.base)]
        BY DEF Moved
      <3>4. s.op = "enqueue pc" => Moved(s, l, v) =
              [l EXCEPT !.queue = Append(Append(l.queue, l.origin), l.base)]
        BY DEF Moved
      <3> QED BY <1>8, <3>1, <3>2, <3>3, <3>4
    <2>2. Follows([l EXCEPT !.queue = q], l)
      BY <1>1, <1>2, FieldType
    <2> QED BY <2>1, <2>2
  <1>9. CASE s.op \in {"dequeue origin", "dequeue base"}
    <2>1. Len(l.queue) >= 1
      BY <1>9 DEF Taken
    <2>2. Butlast(l.queue) \in Seq(Word) /\ Last(l.queue) \in Word
      BY <1>2, <2>1 DEF Butlast, Last
    <2>3. s.op = "dequeue origin" => Moved(s, l, v) =
            [l EXCEPT !.queue = Butlast(l.queue), !.origin = Last(l.queue)]
      BY DEF Moved
    <2>4. s.op = "dequeue base" => Moved(s, l, v) =
            [l EXCEPT !.queue = Butlast(l.queue), !.base = Last(l.queue)]
      BY DEF Moved
    <2>5. /\ Follows([l EXCEPT !.queue = Butlast(l.queue), !.origin = Last(l.queue)], l)
          /\ Follows([l EXCEPT !.queue = Butlast(l.queue), !.base = Last(l.queue)], l)
      BY <1>1, <2>2, FieldType
    <2> QED BY <1>9, <2>3, <2>4, <2>5
  <1>10. CASE s.op = "dequeue pc"
    <2>1. Len(l.queue) >= 2
      BY <1>10 DEF Taken
    <2>2. Butlast(l.queue) \in Seq(Word) /\ Last(l.queue) \in Word
          /\ Len(Butlast(l.queue)) >= 1
      BY <1>2, <2>1 DEF Butlast, Last
    <2>3. Butlast(Butlast(l.queue)) \in Seq(Word) /\ Last(Butlast(l.queue)) \in Word
      BY <2>2 DEF Butlast, Last
    <2>4. Moved(s, l, v) = [l EXCEPT !.queue = Butlast(Butlast(l.queue)),
                                     !.base = Last(l.queue),
                                     !.origin = Last(Butlast(l.queue))]
      BY <1>10 DEF Moved
    <2>5. Follows([l EXCEPT !.queue = Butlast(Butlast(l.queue)),
                            !.base = Last(l.queue),
                            !.origin = Last(Butlast(l.queue))], l)
      BY <1>1, <2>2, <2>3, FieldType
    <2> QED BY <2>4, <2>5
  <1>11. CASE s.op \notin {"-", "+", "variable", "origin", "base", "ds", "d", "fill", "copy",
                          "enqueue origin", "enqueue base", "enqueue pc",
                          "dequeue origin", "dequeue base", "dequeue pc"}
    <2>1. Moved(s, l, v) = l
      BY <1>11 DEF Moved
    <2> QED BY <2>1, CounterType
  <1> QED BY <1>3, <1>4, <1>5, <1>6, <1>7, <1>8, <1>9, <1>10, <1>11

\* What a firm line does, and what it has declared, survives such a change.
LEMMA LineStable ==
  ASSUME NEW s \in Statement, NEW l \in Layout, NEW m, NEW c, NEW d, NEW t, NEW u,
         Leads(s, l, m, c, t), Settled(s, l, c, t), Stable(c, t, d, u)
  PROVE  Leads(s, l, m, d, u) /\ Settled(s, l, d, u)
  <1>1. s.cond \in Expr /\ s.e \in Expr
    BY DEF Statement
  <1>2. Firm(s.cond, l, d, u) /\ ValueIn(s.cond, l, d) = ValueIn(s.cond, l, c)
    BY <1>1, FirmStable DEF Leads, FirmLine
  <1>3. ASSUME Firm(s.e, l, c, t)
        PROVE  Firm(s.e, l, d, u) /\ ValueIn(s.e, l, d) = ValueIn(s.e, l, c)
    BY <1>1, <1>3, FirmStable
  <1>4. Leads(s, l, m, d, u)
    <2>1. FirmLine(s, l, d, u)
      BY <1>2, <1>3 DEF Leads, FirmLine
    <2>2. CASE ValueIn(s.cond, l, c) = 0
      BY <1>2, <2>1, <2>2 DEF Leads, After
    <2>3. CASE ValueIn(s.cond, l, c) # 0 /\ s.op \in LayoutOps
      BY <1>2, <1>3, <2>1, <2>3 DEF Leads, After, FirmLine
    <2>4. CASE s.op \notin LayoutOps
      <3>1. Moved(s, l, ValueIn(s.e, l, d)) = Moved(s, l, ValueIn(s.e, l, c))
        BY <2>4 DEF Moved, LayoutOps
      <3> QED BY <1>2, <2>1, <3>1 DEF Leads, After
    <2> QED BY <2>2, <2>3, <2>4
  <1>5. Settled(s, l, d, u)
    <2> DEFINE k == DeclaredKey(s, l)
    <2> SUFFICES ASSUME Declares(s), ValueIn(s.cond, l, d) # 0
                 PROVE  /\ d[k] # NoValue
                        /\ k \notin u => /\ s.op = "constant" => Firm(s.e, l, d, u)
                                         /\ d[k] = DeclaredValue(s, l, d)
      BY DEF Settled
    <2>1. k \in Keys
      BY DeclaredKeyType
    <2>2. /\ c[k] # NoValue
          /\ k \notin t => /\ s.op = "constant" => Firm(s.e, l, c, t)
                           /\ c[k] = DeclaredValue(s, l, c)
      BY <1>2 DEF Settled
    <2>3. d[k] # NoValue /\ (k \notin u => k \notin t /\ d[k] = c[k])
      BY <2>1, <2>2 DEF Stable
    <2>4. CASE s.op = "constant"
      BY <1>3, <2>2, <2>3, <2>4 DEF DeclaredValue
    <2>5. CASE s.op # "constant"
      BY <2>2, <2>3, <2>5 DEF DeclaredValue
    <2> QED BY <2>4, <2>5
  <1> QED BY <1>4, <1>5

-----------------------------------------------------------------------------
(* Type correctness. *)

\* The statement about to be executed is a statement, and its line number
\* leaves room for the counters.
LEMMA StatementType ==
  ASSUME TypeOK, Shape, Executing
  PROVE  /\ S \in Statements /\ S \in Statement /\ S.cond \in Expr /\ S.e \in Expr
         /\ layout.last <= MaxLength /\ layout.next <= MaxLength
         /\ Value(S.cond) \in Word /\ Value(S.e) \in Word
  <1>1. S \in Statements
    BY DEF TypeOK, Executing, S
  <1>2. S \in Statement /\ S.cond \in Expr /\ S.e \in Expr
    BY <1>1, StatementAssumption DEF Statement
  <1>3. layout.last <= MaxLength /\ layout.next <= MaxLength
    BY LengthAssumption DEF TypeOK, Shape, Executing, Layout
  <1>4. Value(S.cond) \in Word /\ Value(S.e) \in Word
    BY <1>2, ValueType DEF TypeOK, Value
  <1> QED BY <1>1, <1>2, <1>3, <1>4

\* A line that completes leads to a layout.
LEMMA AfterType ==
  ASSUME TypeOK, Shape, Executing,
         Value(S.cond) # 0 => Len(layout.queue) >= Taken(S.op)
  PROVE  Follows(After(S, layout, constants), layout)
  <1>1. S \in Statement /\ Value(S.e) \in Word /\ layout \in Layout
        /\ layout.last <= MaxLength /\ layout.next <= MaxLength
    BY StatementType DEF TypeOK
  <1>2. CASE Value(S.cond) = 0
    <2>1. After(S, layout, constants) = layout
      BY <1>2 DEF After, Value
    <2> QED BY <1>1, <2>1 DEF Follows, Layout
  <1>3. CASE Value(S.cond) # 0
    <2>1. Follows(Moved(S, layout, Value(S.e)), layout)
      BY <1>1, <1>3, MovedType
    <2> QED BY <1>3, <2>1 DEF After, Value
  <1> QED BY <1>2, <1>3

\* A completed line: the common part of every action that moves ip.
Line == /\ Executing /\ Step
        /\ Value(S.cond) # 0 => Len(layout.queue) >= Taken(S.op)

Failing == /\ phase' = "Failed"
           /\ layout' \in Layout /\ layout'.last = layout.last /\ layout'.next = layout.next
           /\ UNCHANGED <<program, ip, constants, trace, soft, guessed, astray>>

\* The bytes a statement writes have addresses.
LEMMA EmitType ==
  ASSUME TypeOK, Shape, Executing
  PROVE  Size \in Nat /\ Start \in Nat
  <1>1. S \in Statement /\ Value(S.e) \in Word
    BY StatementType
  <1> QED BY <1>1, ModulusAssumption DEF Size, Start, Statement, Word, TypeOK

\* Every execution step completes a line or ends the program.
LEMMA ExecuteSteps ==
  ASSUME TypeOK, Shape, Execute
  PROVE  Line \/ Failing
  <1>0. Len(layout.queue) >= 0
    BY DEF TypeOK, Layout
  <1> USE <1>0 DEF Line, Runs, Taken
  <1>1. CASE SkipBlock
    BY <1>1 DEF SkipBlock
  <1>2. CASE SetConstant
    BY <1>2 DEF SetConstant
  <1>3. CASE SetVariable
    BY <1>3 DEF SetVariable
  <1>4. CASE SetOrigin
    BY <1>4 DEF SetOrigin
  <1>5. CASE SetBase
    BY <1>5 DEF SetBase
  <1>6. CASE Enqueue
    BY <1>6 DEF Enqueue
  <1>7. CASE Emit
    BY <1>7 DEF Emit
  <1>8. CASE Overwrite
    <2>1. PICK n \in Clash : layout' = [layout EXCEPT !.origin = (@ + n) % Modulus]
      BY <1>8 DEF Overwrite
    <2>2. n \in Nat
      BY <1>8, EmitType DEF Overwrite, Runs, Clash
    <2>3. layout \in Layout /\ (layout.origin + n) % Modulus \in Word
      BY <2>2, ModulusAssumption, SMTT(30) DEF TypeOK, Layout, Word
    <2> QED BY <1>8, <2>1, <2>3 DEF Overwrite, Failing, Layout
  <1>9. CASE Output
    BY <1>9 DEF Output
  <1>10. CASE Tracker
    BY <1>10 DEF Tracker
  <1>11. CASE IgnoreError
    BY <1>11 DEF IgnoreError
  <1>12. CASE Error
    BY <1>12 DEF Error, Failing, TypeOK
  <1> QED BY <1>1, <1>2, <1>3, <1>4, <1>5, <1>6, <1>7, <1>8, <1>9, <1>10, <1>11,
             <1>12 DEF Execute

\* The types of what every line changes, and of what only some statements do.
LineType ==
    /\ phase \in {"Tokenize", "Query", "Write", "Done", "Failed"}
    /\ program \in Seq(Statements) /\ Len(program) <= MaxLength
    /\ ip \in 1 .. Len(program) + 1
    /\ layout \in Layout
    /\ trace \in Seq(Layout)
    /\ guessed \in BOOLEAN

EffectType ==
    /\ constants \in [Keys -> Word \cup {NoValue}]
    /\ target \in Files \cup {NoFile}
    /\ offset \in Nat
    /\ written \in [Files -> SUBSET Nat]
    /\ tracking \in BOOLEAN
    /\ tracked \in SUBSET Nat
    /\ soft \in SUBSET Keys
    /\ astray \in BOOLEAN

\* The two parts are the whole type invariant.
LEMMA TypeParts == TypeOK <=> LineType /\ EffectType
  BY DEF TypeOK, LineType, EffectType

\* Completing a line keeps the recording next to the instruction pointer.
LEMMA LineShape ==
  ASSUME TypeOK, Shape, Line
  PROVE  LineType' /\ Shape'
  <1>1. /\ phase \in {"Query", "Write"} /\ ip \in 1 .. Len(program)
        /\ program \in Seq(Statements) /\ Len(program) <= MaxLength
        /\ trace \in Seq(Layout) /\ layout \in Layout
    BY DEF TypeOK, Line, Executing
  <1>2. /\ ip' = ip + 1 /\ phase' = phase /\ program' = program
        /\ layout' = After(S, layout, constants)
        /\ trace' = IF phase = "Query" THEN Append(trace, layout) ELSE trace
    BY DEF Line, Step
  <1>3. Follows(layout', layout)
    BY <1>2, AfterType DEF Line
  <1>4. /\ layout' \in Layout /\ layout'.last <= layout.last + 1
        /\ layout'.next <= layout.next + 1
    BY <1>3 DEF Follows
  <1>5. trace' \in Seq(Layout)
    BY <1>1, <1>2
  <1>6. guessed' \in BOOLEAN
    BY DEF TypeOK, Line, Step
  <1>7. LineType'
    BY <1>1, <1>2, <1>4, <1>5, <1>6 DEF LineType, TypeOK
  <1>8. layout'.last <= ip' /\ layout'.next <= ip'
    <2>1. layout.last \in Int /\ layout.next \in Int /\ layout'.last \in Int
          /\ layout'.next \in Int
      BY <1>1, <1>4 DEF Layout
    <2>2. layout.last <= ip /\ layout.next <= ip
      BY DEF Shape
    <2> QED BY <1>1, <1>2, <1>4, <2>1, <2>2, SMTT(30)
  <1>9. phase = "Query" => Len(trace') = ip' - 1
    BY <1>1, <1>2 DEF Shape
  <1>10. At(1)' = Reset
    BY <1>1, <1>2 DEF Shape, At
  <1> QED BY <1>1, <1>2, <1>7, <1>8, <1>9, <1>10 DEF Shape

\* No statement breaks the type of what it changes besides the line.
LEMMA ExecuteType ==
  ASSUME TypeOK, Shape, Execute
  PROVE  EffectType'
  <1>1. EffectType
    BY TypeParts
  <1> USE DEF EffectType
  <1>2. CASE SkipBlock \/ SetVariable \/ SetBase \/ Enqueue \/ IgnoreError \/ Error
    BY <1>1, <1>2 DEF SkipBlock, SetVariable, SetBase, Enqueue, IgnoreError, Error
  <1>3. CASE SetConstant
    <2> DEFINE k == DeclaredKey(S, layout)
               v == DeclaredValue(S, layout, constants)
    <2>1. Executing /\ S \in Statement /\ Value(S.e) \in Word /\ layout \in Layout
      BY <1>3, StatementType DEF SetConstant, Runs, TypeOK
    <2>2. k \in Keys /\ v \in Word
      BY <2>1, DeclaredKeyType, PcType DEF DeclaredValue, Value
    <2>3. constants' = [constants EXCEPT ![k] = v] /\ soft' \in {soft, soft \cup {k}}
      BY <1>3 DEF SetConstant
    <2> QED BY <1>1, <1>3, <2>2, <2>3 DEF SetConstant
  <1>4. CASE SetOrigin
    <2>1. Line /\ layout' = After(S, layout, constants)
      BY <1>4 DEF SetOrigin, Runs, Line, Step
    <2>2. layout'.origin \in Nat
      BY <2>1, AfterType, ModulusAssumption DEF Line, Follows, Layout, Word
    <2> QED BY <1>1, <1>4, <2>2 DEF SetOrigin, Seek
  <1>5. CASE Emit
    <2>1. Size \in Nat /\ Start \in Nat
      BY <1>5, EmitType DEF Emit, Runs
    <2>2. Start .. Start + Size - 1 \in SUBSET Nat
      BY <2>1
    <2>3. UNCHANGED <<constants, target, tracking, soft>>
      BY <1>5 DEF Emit
    <2>4. CASE phase = "Write" /\ target # NoFile
      <3>1. /\ written' = [written EXCEPT ![target] = @ \cup (Start .. Start + Size - 1)]
            /\ tracked' \in {tracked, tracked \cup (Start .. Start + Size - 1)}
            /\ offset' \in {offset, offset + Size}
            /\ astray' \in BOOLEAN
        BY <1>5, <2>4 DEF Emit
      <3>2. written' \in [Files -> SUBSET Nat]
        BY <1>1, <2>2, <3>1
      <3> QED BY <1>1, <2>1, <2>2, <2>3, <3>1, <3>2
    <2>5. CASE ~(phase = "Write" /\ target # NoFile)
      BY <1>1, <1>5, <2>3, <2>5 DEF Emit
    <2> QED BY <2>4, <2>5
  <1>6. CASE Overwrite
    <2>1. Start \in Nat
      BY <1>6, EmitType DEF Overwrite, Runs
    <2>2. PICK n \in Clash :
            /\ written' = [written EXCEPT ![target] = @ \cup (Start .. Start + n - 1)]
            /\ tracked' = tracked \cup (Start .. Start + n - 1)
            /\ offset' = Start + n
      BY <1>6 DEF Overwrite
    <2>3. n \in Nat /\ Start .. Start + n - 1 \in SUBSET Nat
      BY <2>1, <2>2 DEF Clash
    <2> QED BY <1>1, <1>6, <2>1, <2>2, <2>3 DEF Overwrite
  <1>7. CASE Output
    <2>1. S \in Statements /\ S.file \in Files
      BY <1>7, StatementType, StatementAssumption DEF Output, Runs
    <2>2. /\ UNCHANGED <<constants, tracking, soft>>
          /\ astray' \in BOOLEAN
      BY <1>7 DEF Output
    <2>3. target' \in Files \cup {NoFile} /\ offset' \in Nat /\ tracked' \in SUBSET Nat
      <3>1. \/ target' = S.file /\ offset' = 0 /\ tracked' = {}
            \/ target' = NoFile /\ offset' = offset /\ tracked' = tracked
        BY <1>7 DEF Output
      <3>2. target' \in Files \cup {NoFile}
        BY <2>1, <3>1
      <3>3. offset' \in Nat
        BY <1>1, <3>1
      <3>4. tracked' \in SUBSET Nat
        BY <1>1, <3>1
      <3> QED BY <3>2, <3>3, <3>4
    <2>4. written' \in {written, [written EXCEPT ![S.file] = {}]}
      BY <1>7 DEF Output
    <2>5. written' \in [Files -> SUBSET Nat]
      BY <1>1, <2>4
    <2> QED BY <1>1, <2>2, <2>3, <2>5
  <1>8. CASE Tracker
    BY <1>1, <1>8 DEF Tracker
  <1> QED BY <1>2, <1>3, <1>4, <1>5, <1>6, <1>7, <1>8 DEF Execute

\* A pass starts with a layout.
LEMMA ResetType == Reset \in Layout /\ Reset.last = 1 /\ Reset.next = 1
  BY LengthAssumption, ModulusAssumption DEF Reset, Layout, Word

\* The assembler starts well typed, with an empty recording.
LEMMA InitShape == Init => TypeOK /\ Shape
  <1> SUFFICES ASSUME Init PROVE TypeOK /\ Shape
    OBVIOUS
  <1>1. LineType
    <2>1. program = <<>> /\ trace = <<>> /\ ip = 1 /\ layout \in Layout
          /\ phase = "Tokenize" /\ guessed = FALSE
      BY ResetType DEF Init
    <2>2. program \in Seq(Statements) /\ trace \in Seq(Layout)
      BY <2>1
    <2>3. Len(program) = 0
      BY <2>1
    <2>4. ip \in 1 .. Len(program) + 1 /\ Len(program) <= MaxLength
      BY <2>1, <2>3, LengthAssumption
    <2> QED BY <2>1, <2>2, <2>4 DEF LineType
  <1>2. EffectType
    BY FileAssumption DEF Init, EffectType
  <1>3. Shape
    BY ResetType DEF Init, Shape
  <1> QED BY <1>1, <1>2, <1>3, TypeParts

\* Every step keeps the types and the shape of the recording.
LEMMA NextShape ==
  ASSUME TypeOK, Shape, [Next]_vars
  PROVE  TypeOK' /\ Shape'
  <1> SUFFICES LineType' /\ EffectType' /\ Shape'
    BY DEF TypeOK, LineType, EffectType
  <1>0. LineType /\ EffectType
    BY TypeParts
  <1>1. ASSUME NEW s \in Statements, Source(s)
        PROVE  LineType' /\ EffectType' /\ Shape'
    <2>1. program' \in Seq(Statements) /\ Len(program') = Len(program) + 1
      BY <1>0, <1>1 DEF LineType, Source
    <2>2. LineType'
      BY <1>0, <1>1, <2>1, LengthAssumption DEF LineType, Source
    <2>3. EffectType'
      BY <1>0, <1>1 DEF EffectType, Source
    <2>4. Shape'
      BY <1>1 DEF Shape, Source, At
    <2> QED BY <2>2, <2>3, <2>4
  <1>2. CASE StartQuery
    <2>1. LineType'
      BY <1>0, <1>2, ResetType DEF LineType, StartQuery, StartPass
    <2>2. EffectType'
      BY <1>0, <1>2 DEF EffectType, StartQuery, StartPass
    <2>3. Shape'
      BY <1>2, ResetType DEF Shape, StartQuery, StartPass, At
    <2> QED BY <2>1, <2>2, <2>3
  <1>3. CASE StartWrite
    <2>1. /\ trace' = Append(trace, layout) /\ Len(trace) = ip - 1
          /\ ip = Len(program) + 1 /\ program' = program
      BY <1>3 DEF Shape, StartWrite, StartPass
    <2>2. LineType'
      BY <1>0, <1>3, <2>1, ResetType DEF LineType, StartWrite, StartPass
    <2>3. EffectType'
      BY <1>0, <1>3 DEF EffectType, StartWrite, StartPass
    <2>4. Len(trace') = Len(program') + 1
      BY <1>0, <2>1 DEF LineType
    <2>5. At(1)' = At(1)
      BY <1>0, <2>1 DEF LineType, At
    <2>6. Shape'
      BY <1>3, <2>4, <2>5, ResetType DEF Shape, StartWrite, StartPass
    <2> QED BY <2>2, <2>3, <2>6
  <1>4. CASE Finish
    <2>1. LineType' /\ EffectType'
      BY <1>0, <1>4 DEF LineType, EffectType, Finish
    <2>2. Shape'
      BY <1>4 DEF Shape, Finish
    <2> QED BY <2>1, <2>2
  <1>5. CASE Execute
    <2>1. EffectType'
      BY <1>5, ExecuteType
    <2>2. CASE Line
      BY <2>1, <2>2, LineShape
    <2>3. CASE Failing
      BY <1>0, <2>1, <2>3 DEF Failing, LineType, Shape
    <2> QED BY <1>5, <2>2, <2>3, ExecuteSteps
  <1>6. CASE UNCHANGED vars
    <2>1. LineType' /\ EffectType'
      BY <1>0, <1>6 DEF LineType, EffectType, vars
    <2>2. Shape'
      BY <1>6 DEF Shape, vars, At
    <2> QED BY <2>1, <2>2
  <1> QED BY <1>1, <1>2, <1>3, <1>4, <1>5, <1>6 DEF Next

-----------------------------------------------------------------------------
(* The Write pass repeats the Query pass. *)

\* No line takes a declaration back; the Query pass declares a name once, and
\* the Write pass declares it again with the value it has.
LEMMA LineDeclares ==
  ASSUME TypeOK, Shape, Replay, Execute, Line, ~guessed
  PROVE  Stable(constants, soft, constants', soft')
  <1>1. CASE SetConstant
    <2> DEFINE k == DeclaredKey(S, layout)
               v == DeclaredValue(S, layout, constants)
    <2>1. /\ Executing /\ S \in Statement /\ layout \in Layout
          /\ Value(S.e) \in Word /\ Value(S.cond) # 0 /\ Declares(S)
      BY <1>1, StatementType DEF SetConstant, Runs, TypeOK, Declares
    <2>2. k \in Keys /\ v \in Word
      BY <2>1, DeclaredKeyType, PcType DEF DeclaredValue, Value
    <2>3. v # NoValue
      BY <2>2, ModulusAssumption DEF Word, NoValue
    <2>4. constants' = [constants EXCEPT ![k] = v]
      BY <1>1 DEF SetConstant
    <2>5. constants \in [Keys -> Word \cup {NoValue}]
      BY DEF TypeOK
    <2>6. CASE phase = "Query"
      <3>1. constants[k] = NoValue /\ soft' \in {soft, soft \cup {k}}
        BY <1>1, <2>6 DEF SetConstant
      <3> QED BY <2>2, <2>3, <2>4, <2>5, <3>1 DEF Stable
    <2>7. CASE phase = "Write"
      <3>1. soft' = soft
        BY <1>1, <2>7 DEF SetConstant
      <3>2. ip \in Recorded /\ layout = trace[ip] /\ At(ip) = layout
        BY <2>1, <2>7 DEF Recorded, Executed, Executing, Replay, At, Shape, TypeOK
      <3>3. Settled(S, layout, constants, soft)
        BY <2>7, <3>2 DEF Replay, S
      <3>4. k \notin soft => v = constants[k]
        BY <2>1, <3>3 DEF Settled, Value
      <3> QED BY <2>2, <2>3, <2>4, <2>5, <3>1, <3>4 DEF Stable
    <2> QED BY <2>1, <2>6, <2>7 DEF Executing
  <1>2. CASE ~SetConstant
    <2>1. UNCHANGED <<constants, soft>>
      <3>1. CASE SkipBlock \/ SetVariable \/ SetOrigin \/ SetBase \/ Enqueue
        BY <3>1 DEF SkipBlock, SetVariable, SetOrigin, SetBase, Enqueue
      <3>2. CASE Emit \/ Output \/ Tracker \/ IgnoreError
        BY <3>2 DEF Emit, Output, Tracker, IgnoreError
      <3>3. CASE Overwrite \/ Error
        BY <3>3 DEF Overwrite, Error
      <3> QED BY <1>2, <3>1, <3>2, <3>3 DEF Execute
    <2> QED BY <2>1 DEF Stable
  <1> QED BY <1>1, <1>2

\* The line the Query pass has just executed is recorded as it will be repeated.
LEMMA NewLine ==
  ASSUME TypeOK, Shape, Replay, Execute, Line, ~guessed', phase = "Query"
  PROVE  /\ Leads(S, layout, layout', constants', soft')
         /\ Settled(S, layout, constants', soft')
  <1>1. /\ FirmLine(S, layout, constants, soft) /\ ~guessed /\ Executing
        /\ layout' = After(S, layout, constants)
    BY DEF Line, Step
  <1>2. Stable(constants, soft, constants', soft')
    BY <1>1, LineDeclares
  <1>3. S \in Statement /\ S.cond \in Expr /\ S.e \in Expr /\ layout \in Layout
    BY <1>1, StatementType DEF TypeOK
  <1>4. CASE ~(Declares(S) /\ Value(S.cond) # 0)
    <2>1. Settled(S, layout, constants, soft)
      BY <1>4 DEF Settled, Value
    <2> QED BY <1>1, <1>2, <1>3, <2>1, LineStable DEF Leads
  <1>5. CASE Declares(S) /\ Value(S.cond) # 0
    <2> DEFINE k == DeclaredKey(S, layout)
    <2>1. Firm(S.cond, layout, constants', soft')
          /\ ValueIn(S.cond, layout, constants') = ValueIn(S.cond, layout, constants)
      BY <1>1, <1>2, <1>3, FirmStable DEF FirmLine
    <2>2. S.op \notin LayoutOps
      BY <1>5 DEF Declares, LayoutOps
    <2>3. Leads(S, layout, layout', constants', soft')
      <3>1. FirmLine(S, layout, constants', soft')
        BY <2>1, <2>2 DEF FirmLine
      <3>2. Moved(S, layout, ValueIn(S.e, layout, constants'))
              = Moved(S, layout, ValueIn(S.e, layout, constants))
        BY <2>2 DEF Moved, LayoutOps
      <3> QED BY <1>1, <2>1, <3>1, <3>2 DEF Leads, After
    <2>4. SetConstant
      BY <1>5 DEF Execute, SkipBlock, SetVariable, SetOrigin, SetBase, Enqueue, Emit,
                  Overwrite, Output, Tracker, IgnoreError, Error, Runs, Declares,
                  Line, Step, Executing
    <2>5. k \in Keys /\ constants \in [Keys -> Word \cup {NoValue}]
      BY <1>3, DeclaredKeyType DEF TypeOK
    <2>6. constants'[k] = DeclaredValue(S, layout, constants)
      BY <2>4, <2>5 DEF SetConstant
    <2>7. constants'[k] # NoValue
      <3>1. Value(S.e) \in Word /\ Pc(layout) \in Word
        BY <1>1, <1>3, StatementType, PcType
      <3> QED BY <2>6, <3>1, ModulusAssumption DEF DeclaredValue, Value, Word, NoValue
    <2>8. ASSUME k \notin soft', S.op = "constant"
          PROVE  Firm(S.e, layout, constants, soft)
      BY <2>4, <2>8 DEF SetConstant
    <2>9. ASSUME k \notin soft', S.op = "constant"
          PROVE  /\ Firm(S.e, layout, constants', soft')
                 /\ ValueIn(S.e, layout, constants') = ValueIn(S.e, layout, constants)
      BY <1>2, <1>3, <2>8, <2>9, FirmStable
    <2>10. Settled(S, layout, constants', soft')
      BY <2>6, <2>7, <2>9 DEF Settled, DeclaredValue
    <2> QED BY <2>3, <2>10
  <1> QED BY <1>4, <1>5

\* Completing a line keeps the recording valid and, in the Write pass, arrives
\* where the recording says.
LEMMA LineReplay ==
  ASSUME TypeOK, Shape, Replay, Execute, Line
  PROVE  Replay'
  <1> SUFFICES ASSUME ~guessed'
               PROVE  /\ (\A i \in Recorded :
                             /\ Leads(program[i], At(i), At(i + 1), constants, soft)
                             /\ Settled(program[i], At(i), constants, soft))'
                      /\ phase' = "Write" => layout' = trace'[ip']
    BY DEF Replay
  <1>1. /\ ~guessed /\ phase' = phase /\ program' = program /\ ip' = ip + 1
        /\ phase \in {"Query", "Write"} /\ ip \in 1 .. Len(program)
        /\ layout' = After(S, layout, constants)
        /\ trace' = IF phase = "Query" THEN Append(trace, layout) ELSE trace
    BY DEF Line, Step, Executing, TypeOK
  <1>2. Stable(constants, soft, constants', soft')
    BY <1>1, LineDeclares
  <1>3. /\ trace \in Seq(Layout) /\ layout \in Layout /\ program \in Seq(Statements)
        /\ phase = "Query" => Len(trace) = ip - 1
        /\ phase = "Write" => Len(trace) = Len(program) + 1
    BY DEF TypeOK, Shape
  <1>4. ASSUME NEW i \in Recorded
        PROVE  /\ At(i)' = At(i) /\ At(i + 1)' = At(i + 1)
               /\ At(i) \in Layout /\ program[i] \in Statement
    <2>1. i \in 1 .. Len(program) /\ (phase = "Query" => i <= ip - 1)
      BY <1>1, <1>4 DEF Recorded, Executed
    <2>2. program[i] \in Statement
      <3>1. program[i] \in Statements
        BY <1>3, <2>1
      <3> QED BY <3>1, StatementAssumption
    <2>3. CASE phase = "Query"
      BY <1>1, <1>3, <2>1, <2>2, <2>3 DEF At
    <2>4. CASE phase = "Write"
      BY <1>1, <1>3, <2>1, <2>2, <2>4 DEF At
    <2> QED BY <1>1, <2>3, <2>4
  <1>5. ASSUME NEW i \in Recorded
        PROVE  /\ Leads(program'[i], At(i)', At(i + 1)', constants', soft')
               /\ Settled(program'[i], At(i)', constants', soft')
    <2>1. /\ Leads(program[i], At(i), At(i + 1), constants, soft)
          /\ Settled(program[i], At(i), constants, soft)
      BY <1>1 DEF Replay
    <2> QED BY <1>1, <1>2, <1>4, <2>1, LineStable
  <1>6. CASE phase = "Query"
    <2>1. Recorded' = Recorded \cup {ip}
      BY <1>1, <1>6 DEF Recorded, Executed
    <2>2. ASSUME NEW n \in Nat, n = ip
          PROVE  At(n)' = layout /\ At(n + 1)' = layout' /\ program'[n] = S
      BY <1>1, <1>3, <1>6, <2>2 DEF At, S
    <2>3. /\ Leads(S, layout, layout', constants', soft')
          /\ Settled(S, layout, constants', soft')
      BY <1>6, NewLine
    <2>4. ASSUME NEW i \in Recorded'
          PROVE  /\ Leads(program'[i], At(i)', At(i + 1)', constants', soft')
                 /\ Settled(program'[i], At(i)', constants', soft')
      <3>1. CASE i \in Recorded
        BY <1>5, <3>1
      <3>2. CASE i = ip
        <4>1. i \in Nat
          BY <1>1, <3>2
        <4> QED BY <2>2, <2>3, <3>2, <4>1
      <3> QED BY <2>1, <3>1, <3>2
    <2> QED BY <1>1, <1>6, <2>4
  <1>7. CASE phase = "Write"
    <2>1. Recorded' = Recorded /\ ip \in Recorded
      BY <1>1, <1>7 DEF Recorded, Executed
    <2>2. layout = trace[ip] /\ At(ip) = layout /\ At(ip + 1) = trace[ip + 1]
      BY <1>1, <1>3, <1>7 DEF Replay, At
    <2>3. Leads(S, layout, trace[ip + 1], constants, soft)
      BY <1>1, <2>1, <2>2 DEF Replay, S
    <2>4. layout' = trace'[ip']
      BY <1>1, <1>7, <2>3 DEF Leads
    <2> QED BY <1>5, <2>1, <2>4
  <1> QED BY <1>1, <1>6, <1>7

\* Between the passes the whole recording is handed over, and a new pass starts
\* where the recorded one started.
LEMMA NextReplay ==
  ASSUME IInv, [Next]_vars
  PROVE  Replay'
  <1> USE DEF IInv
  <1>1. ASSUME NEW s \in Statements, Source(s)
        PROVE  Replay'
    BY <1>1 DEF Source, Replay
  <1>2. CASE StartQuery
    BY <1>2 DEF StartQuery, StartPass, Replay, Recorded, Executed
  <1>3. CASE StartWrite
    <2> SUFFICES ASSUME ~guessed
                 PROVE  /\ (\A i \in Recorded :
                               /\ Leads(program[i], At(i), At(i + 1), constants, soft)
                               /\ Settled(program[i], At(i), constants, soft))'
                        /\ layout' = trace'[ip']
      BY <1>3 DEF StartWrite, Replay
    <2>1. /\ phase = "Query" /\ phase' = "Write" /\ program' = program
          /\ ip = Len(program) + 1 /\ ip' = 1 /\ layout' = Reset
          /\ trace' = Append(trace, layout) /\ Len(trace) = ip - 1
          /\ UNCHANGED <<constants, soft>>
      BY <1>3 DEF StartWrite, StartPass, Shape
    <2>2. trace \in Seq(Layout) /\ layout \in Layout /\ program \in Seq(Statements)
      BY DEF TypeOK
    <2>3. Recorded' = Recorded
      BY <2>1, <2>2 DEF Recorded, Executed
    <2>4. ASSUME NEW i \in 1 .. Len(program) + 1
          PROVE  At(i)' = At(i) /\ trace'[i] = At(i)
      BY <2>1, <2>2 DEF At
    <2>5. \A i \in Recorded : At(i)' = At(i) /\ At(i + 1)' = At(i + 1)
      BY <2>1, <2>2, <2>4 DEF Recorded, Executed
    <2>6. layout' = trace'[ip']
      BY <2>1, <2>2, <2>4 DEF Shape
    <2> QED BY <2>1, <2>3, <2>5, <2>6 DEF Replay
  <1>4. CASE Finish
    BY <1>4 DEF Finish, Replay
  <1>5. CASE Execute
    <2>1. CASE Line
      BY <1>5, <2>1, LineReplay
    <2>2. CASE Failing
      BY <2>2 DEF Failing, Replay
    <2> QED BY <1>5, <2>1, <2>2, ExecuteSteps
  <1>6. CASE UNCHANGED vars
    BY <1>6 DEF vars, Replay, Recorded, Executed, At
  <1> QED BY <1>1, <1>2, <1>3, <1>4, <1>5, <1>6 DEF Next

\* The inductive invariant.
THEOREM Invariance == Spec => []IInv
  <1>1. Init => IInv
    <2>1. Init => Replay
      BY DEF Init, Replay
    <2> QED BY <2>1, InitShape DEF IInv
  <1>2. IInv /\ [Next]_vars => IInv'
    BY NextShape, NextReplay DEF IInv
  <1> QED BY <1>1, <1>2, PTL DEF Spec

\* Every variable of bass keeps its type over both passes: counters stay within
\* the program, the layout holds machine words, the queue never underflows.
THEOREM TypeCorrect == Spec => []TypeOK
  BY Invariance, PTL DEF IInv

\* For every program whose layout the Query pass computed without a guess, the
\* Write pass executes each statement with the same origin, base, queue,
\* counters and variables as the Query pass.
THEOREM ReplayCorrect == Spec => []WriteReplaysQuery
  <1>1. IInv => WriteReplaysQuery
    BY DEF IInv, Replay, WriteReplaysQuery
  <1> QED BY <1>1, Invariance, PTL

\* For such a program the Write pass gives every label, and every constant that
\* was computed without a guess, the value it already has.
THEOREM SettleCorrect == Spec => ConstantsSettle
  <1> DEFINE Settles == phase = "Write" /\ ~guessed =>
                          \A k \in Keys \ soft : constants'[k] = constants[k]
  <1>1. IInv /\ [Next]_vars => [Settles]_vars
    <2> SUFFICES ASSUME IInv, Next, phase = "Write", ~guessed, NEW k \in Keys \ soft
                 PROVE  constants'[k] = constants[k]
      OBVIOUS
    <2> USE DEF IInv
    <2>1. CASE \/ StartQuery \/ StartWrite \/ Finish
               \/ \E s \in Statements : Source(s)
      BY <2>1 DEF StartQuery, StartWrite, Finish, Source
    <2>2. CASE Execute /\ ~SetConstant
      BY <2>2 DEF Execute, SkipBlock, SetVariable, SetOrigin, SetBase, Enqueue, Emit,
                  Output, Tracker, IgnoreError, Overwrite, Error
    <2>3. CASE SetConstant
      <3>1. ip \in Recorded /\ At(ip) = layout
        BY <2>3 DEF SetConstant, Runs, Executing, Recorded, Executed, Replay, At,
                    Shape, TypeOK
      <3>2. Settled(S, layout, constants, soft)
        BY <3>1 DEF Replay, S
      <3>3. Declares(S) /\ Value(S.cond) # 0
        BY <2>3 DEF SetConstant, Runs, Declares
      <3>4. constants' = [constants EXCEPT ![DeclaredKey(S, layout)] =
                                           DeclaredValue(S, layout, constants)]
        BY <2>3 DEF SetConstant
      <3> QED BY <3>2, <3>3, <3>4 DEF Settled, Value, TypeOK
    <2> QED BY <2>1, <2>2, <2>3 DEF Next
  <1> QED BY <1>1, Invariance, PTL DEF Spec, ConstantsSettle

-----------------------------------------------------------------------------
(* Where the bytes go. *)

\* Division with a positive divisor.
LEMMA DivMod ==
  ASSUME NEW m \in Nat \ {0}, NEW a \in Int
  PROVE  a = m * (a \div m) + (a % m) /\ (a % m) \in 0 .. m - 1 /\ a \div m \in Int
  OBVIOUS

\* The remainder is the only one of its range.
LEMMA OneRemainder ==
  ASSUME NEW m \in Nat \ {0}, NEW q \in Int, NEW r \in 0 .. m - 1
  PROVE  (m * q + r) % m = r
  OBVIOUS

\* A sum of words may be reduced early.
LEMMA ReduceEarly ==
  ASSUME NEW m \in Nat \ {0}, NEW a \in Int, NEW b \in Int
  PROVE  (a + b) % m = ((a % m) + b) % m
  <1>1. PICK q \in Int, c \in 0 .. m - 1 : a = m * q + c /\ a % m = c
    BY DivMod
  <1>2. c + b \in Int
    BY <1>1
  <1>3. PICK p \in Int, r \in 0 .. m - 1 : c + b = m * p + r /\ (c + b) % m = r
    BY <1>2, DivMod
  <1>4. a + b = m * (q + p) + r /\ q + p \in Int
    BY <1>1, <1>3
  <1>5. (m * (q + p) + r) % m = r
    BY <1>3, <1>4, OneRemainder
  <1>6. (a + b) % m = r
    BY <1>4, <1>5
  <1> QED BY <1>1, <1>3, <1>6

\* A word is its own remainder.
LEMMA WordRemainder == \A w \in Word : w % Modulus = w
  BY ModulusAssumption DEF Word

\* The statements that leave origin alone.
Standing == Ops \ {"origin", "ds", "dequeue origin", "dequeue pc", "d", "fill", "copy"}

\* A line with one of them, or one that is skipped, leaves origin alone.
LEMMA OriginStands ==
  ASSUME NEW s \in Statement, NEW l \in Layout, NEW c,
         ValueIn(s.cond, l, c) = 0 \/ s.op \in Standing
  PROVE  After(s, l, c).origin = l.origin
  <1> DEFINE v == ValueIn(s.e, l, c)
  <1>1. CASE ValueIn(s.cond, l, c) = 0
    BY <1>1 DEF After
  <1>2. CASE ValueIn(s.cond, l, c) # 0 /\ s.op \in Standing
    <2>1. After(s, l, c) = Moved(s, l, v)
      BY <1>2 DEF After
    <2> HIDE DEF v
    <2>2. Moved(s, l, v).origin = l.origin
      BY <1>2 DEF Moved, Standing, Ops, Layout
    <2> QED BY <2>1, <2>2
  <1> QED BY <1>1, <1>2

\* Until the Write pass no statement has moved the file, so that it starts where
\* the Write pass does; from then on it stands where the property says.
FileInv == /\ phase \in {"Tokenize", "Query"} => offset = 0
           /\ FileFollowsOrigin

\* A statement that takes a step completes its line.
LEMMA Completes ==
  ASSUME TypeOK, Shape, Execute, Step
  PROVE  Line /\ layout' = After(S, layout, constants)
  <1>1. Executing
    BY DEF Execute, SkipBlock, SetConstant, SetVariable, SetOrigin, SetBase, Enqueue, Emit,
           Overwrite, Output, Tracker, IgnoreError, Error, Runs
  <1>2. ~Failing
    BY <1>1 DEF Failing, Step, Executing
  <1> QED BY <1>2, ExecuteSteps DEF Step

\* A statement that neither writes nor seeks keeps the file where it is.
LEMMA FileStands ==
  ASSUME FileInv, Line, layout'.origin = layout.origin, UNCHANGED <<target, offset, astray>>
  PROVE  FileInv'
  BY DEF FileInv, FileFollowsOrigin, Line, Step

LEMMA FileStep ==
  ASSUME IInv, FileInv, [Next]_vars
  PROVE  FileInv'
  <1> USE DEF IInv
  <1> DEFINE Standstill == SkipBlock \/ SetConstant \/ SetVariable \/ SetBase \/ Enqueue
                           \/ Tracker \/ IgnoreError
  <1>1. CASE \E s \in Statements : Source(s)
    BY <1>1 DEF Source, FileInv, FileFollowsOrigin
  <1>2. CASE StartQuery
    BY <1>2 DEF StartQuery, StartPass, FileInv, FileFollowsOrigin
  <1>3. CASE StartWrite
    BY <1>3, ModulusAssumption DEF StartWrite, StartPass, Reset, FileInv, FileFollowsOrigin
  <1>4. CASE Finish \/ Error \/ Overwrite
    BY <1>4 DEF Finish, Error, Overwrite, FileInv, FileFollowsOrigin
  <1>5. CASE Standstill
    <2>1. Line /\ layout' = After(S, layout, constants)
      BY <1>5, Completes DEF Execute, SkipBlock, SetConstant, SetVariable, SetBase, Enqueue,
                             Tracker, IgnoreError
    <2>2. S \in Statement /\ layout \in Layout
      BY <2>1, StatementType DEF Line, TypeOK
    <2>3. ValueIn(S.cond, layout, constants) = 0 \/ S.op \in Standing
      BY <1>5 DEF SkipBlock, SetConstant, SetVariable, SetBase, Enqueue, Tracker,
                  IgnoreError, Value, Runs, Standing, Ops
    <2>4. layout'.origin = layout.origin
      BY <2>1, <2>2, <2>3, OriginStands
    <2>5. UNCHANGED <<target, offset, astray>>
      BY <1>5 DEF SkipBlock, SetConstant, SetVariable, SetBase, Enqueue, Tracker, IgnoreError
    <2> QED BY <2>1, <2>4, <2>5, FileStands
  <1>6. CASE SetOrigin
    <2>1. Line /\ layout' = After(S, layout, constants)
      BY <1>6, Completes DEF Execute, SetOrigin
    <2>2. layout'.origin \in Word
      BY <2>1, AfterType DEF Line, Follows, Layout
    <2>3. layout'.origin % Modulus = layout'.origin
      BY <2>2, WordRemainder
    <2> QED BY <1>6, <2>1, <2>3 DEF SetOrigin, Seek, Line, Step, FileInv, FileFollowsOrigin
  <1>7. CASE Output
    <2>1. Line /\ layout' = After(S, layout, constants) /\ S.op \in Standing
      BY <1>7, Completes DEF Execute, Output, Runs, Standing, Ops
    <2>2. S \in Statement /\ layout \in Layout
      BY <2>1, StatementType DEF Line, TypeOK
    <2>3. layout'.origin = layout.origin
      BY <2>1, <2>2, OriginStands
    <2>4. 0 % Modulus = 0
      BY ModulusAssumption
    <2> QED BY <1>7, <2>1, <2>3, <2>4 DEF Output, Line, Step, FileInv, FileFollowsOrigin
  <1>8. CASE Emit
    <2>1. Line /\ layout' = After(S, layout, constants) /\ Value(S.cond) # 0
          /\ S.op \in {"d", "fill", "copy"}
      BY <1>8, Completes DEF Execute, Emit, Runs
    <2>2. S \in Statement /\ layout \in Layout /\ layout.origin \in Word
      BY <2>1, StatementType DEF Line, TypeOK, Layout
    <2>3. layout' = Moved(S, layout, Value(S.e))
      BY <2>1 DEF After, Value
    <2>4. layout'.origin = (layout.origin + Size) % Modulus
      BY <2>1, <2>2, <2>3 DEF Moved, Size, Layout
    <2>5. Size \in Nat
      BY <1>8, EmitType DEF Emit, Runs
    <2>6. CASE phase = "Write" /\ target # NoFile /\ ~astray'
      <3>1. ~astray /\ (S.op = "copy" => Size = 0) /\ UNCHANGED <<phase, target>>
            /\ offset' = IF S.op = "copy" THEN offset ELSE offset + Size
        <4>1. /\ UNCHANGED <<phase, target>>
              /\ offset' = IF S.op = "copy" THEN offset ELSE offset + Size
              /\ astray' = (astray \/ (S.op = "copy" /\ Size > 0))
          BY <1>8, <2>6 DEF Emit, Step
        <4>2. ~astray /\ ~(S.op = "copy" /\ Size > 0)
          BY <2>6, <4>1, Zenon
        <4> QED BY <2>5, <4>1, <4>2
      <3>2. offset \in Nat /\ offset % Modulus = layout.origin
        BY <2>6, <3>1 DEF FileInv, FileFollowsOrigin, TypeOK
      <3>3. (offset + Size) % Modulus = layout'.origin
        <4>1. Modulus \in Nat \ {0} /\ offset \in Int /\ Size \in Int
          BY <2>5, <3>2, ModulusAssumption
        <4>2. (offset + Size) % Modulus = ((offset % Modulus) + Size) % Modulus
          BY <4>1, ReduceEarly
        <4> QED BY <2>4, <3>2, <4>2
      <3>4. offset' = offset + Size
        BY <2>5, <3>1, <3>2
      <3> QED BY <2>6, <3>1, <3>3, <3>4 DEF FileInv, FileFollowsOrigin
    <2>7. CASE ~(phase = "Write" /\ target # NoFile)
      BY <1>8, <2>7 DEF Emit, Step, FileInv, FileFollowsOrigin
    <2>8. CASE phase = "Write" /\ target # NoFile /\ astray'
      BY <1>8, <2>8 DEF Emit, Step, FileInv, FileFollowsOrigin
    <2> QED BY <2>6, <2>7, <2>8
  <1>9. CASE UNCHANGED vars
    BY <1>9 DEF vars, FileInv, FileFollowsOrigin
  <1> QED BY <1>1, <1>2, <1>3, <1>4, <1>5, <1>6, <1>7, <1>8, <1>9 DEF Next, Execute

\* Whatever the program, a byte of the Write pass goes to the file offset its
\* label was computed from, unless a copy wrote before or the file was opened
\* with origin elsewhere.
THEOREM FileCorrect == Spec => []FileFollowsOrigin
  <1>1. Init => FileInv
    BY DEF Init, FileInv, FileFollowsOrigin
  <1>2. FileInv => FileFollowsOrigin
    BY DEF FileInv
  <1> QED BY <1>1, <1>2, FileStep, Invariance, PTL DEF Spec
=============================================================================
