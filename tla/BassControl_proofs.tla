------------------------- MODULE BassControl_proofs -------------------------
(***************************************************************************)
(* Proofs about the control flow of bass, for every set of programs, of    *)
(* any length, and every bound on the stacks.  analyze() leaves every jump *)
(* where its block says (Annotated), so that every step of execute() keeps *)
(* its stacks in the sum of the contexts the running invocations stand in  *)
(* (Running).  What a macro is given and hands back is a matter of lookup: *)
(* which frame, and there which scope, is the innermost that has a name.   *)
(***************************************************************************)
EXTENDS BassControl, SequenceTheorems, Recursion, TLAPS

-----------------------------------------------------------------------------
(* The context *)

\* The context before statement i, given f before the statements before it.
Step(p, f, i) ==
    IF i <= 1 THEN Outside
    ELSE IF p[i - 1].op \in Openers THEN Enter(p[i - 1], i - 1, f[i - 1])
    ELSE IF p[i - 1].op \in Ends    THEN f[f[i - 1].opener]
    ELSE f[i - 1]

\* Contexts of a program, whose statements may have any names.
Wide(p) == Names \cup {p[j].name : j \in Nat}
Contexts(p) == [opener : Nat, macro : Nat, names : Seq(Wide(p)), ifs : Nat]

LEMMA OutsideType == \A p : Outside \in Contexts(p)
  BY EmptySeq DEF Outside, Contexts

LEMMA EnterType ==
  ASSUME NEW p, NEW i \in Nat, NEW c \in Contexts(p)
  PROVE  Enter(p[i], i, c) \in Contexts(p)
  <1>1. p[i].name \in Wide(p)
    BY DEF Wide
  <1>2. c.names \in Seq(Wide(p)) /\ c.macro \in Nat /\ c.ifs \in Nat
    BY DEF Contexts
  <1>3. /\ <<>> \in Seq(Wide(p)) /\ <<p[i].name>> \in Seq(Wide(p))
        /\ Append(c.names, p[i].name) \in Seq(Wide(p))
    BY <1>1, <1>2, EmptySeq, AppendProperties
  <1> QED BY <1>2, <1>3 DEF Enter, Contexts

\* The recursive definition has a value, ...
LEMMA ContextDef == ASSUME NEW p
                    PROVE  ContextIn(p) = [i \in Nat |-> Step(p, ContextIn(p), i)]
  <1> DEFINE D == Contexts(p)
             Far(f, i) == f[i - 1].opener \notin 0 .. i - 1
             Value(f, i) == IF i > 1 /\ Far(f, i) THEN Outside ELSE Step(p, f, i)
             G == [i \in Nat |-> [f \in [0 .. i - 1 -> D] |-> Value(f, i)]]
  <1>1. ASSUME NEW i \in Nat, NEW f \in [0 .. i - 1 -> D]
        PROVE  Value(f, i) \in D
    <2>1. CASE i > 1 /\ ~Far(f, i)
      <3>1. f[i - 1] \in D /\ f[f[i - 1].opener] \in D
        BY <2>1
      <3>2. Enter(p[i - 1], i - 1, f[i - 1]) \in D
        BY <2>1, <3>1, EnterType
      <3> QED BY <2>1, <3>1, <3>2, OutsideType DEF Step
    <2> QED BY <2>1, OutsideType DEF Step
  <1> HIDE DEF D, Value
  <1>2. Builds(G, D)
    BY <1>1 DEF Builds
  <1>3. PICK g \in [Nat -> D] : \A i \in Nat : g[i] = G[i][Prior(g, i)]
    <2> HIDE DEF G
    <2> QED BY <1>2, Recursive
  <1>4. ASSUME NEW i \in Nat
        PROVE  g[i] = Value(g, i)
    <2>1. Prior(g, i) \in [0 .. i - 1 -> D]
      BY DEF Prior
    <2>2. g[i] = Value(Prior(g, i), i)
      BY <1>3, <2>1
    <2>3. \A k \in 0 .. i - 1 : Prior(g, i)[k] = g[k]
      BY DEF Prior
    <2>4. i > 1 => i - 1 \in 0 .. i - 1
      OBVIOUS
    <2> QED BY <2>2, <2>3, <2>4 DEF Value, Step
  <1> DEFINE T == {i \in Nat : g[i].opener <= i /\ (i > 0 => g[i].opener < i)}
  <1>5. ASSUME NEW i \in Nat, \A j \in Nat : j < i => j \in T
        PROVE  i \in T
    <2>1. CASE i <= 1
      BY <1>4, <2>1 DEF Value, Step, Outside
    <2>2. CASE i > 1
      <3>1. g[i - 1].opener < i - 1 /\ g[i - 1].opener \in Nat
        BY <1>5, <2>2 DEF D, Contexts
      <3>2. g[g[i - 1].opener].opener <= g[i - 1].opener /\ g[g[i - 1].opener].opener \in Nat
        BY <1>5, <2>2, <3>1 DEF D, Contexts
      <3> QED BY <1>4, <2>2, <3>1, <3>2 DEF Value, Step, Enter
    <2> QED BY <2>1, <2>2
  <1> HIDE DEF T
  <1>6. \A i \in Nat : i \in T
    BY <1>5, Induction
  <1>7. ASSUME NEW i \in Nat
        PROVE  g[i] = Step(p, g, i)
    <2>1. i > 1 => g[i - 1].opener \in 0 .. i - 1
      BY <1>6 DEF T, D, Contexts
    <2> QED BY <1>4, <2>1 DEF Value
  <1>8. g = [i \in Nat |-> Step(p, g, i)]
    BY <1>7
  <1>9. ContextIn(p) = CHOOSE f : f = [i \in Nat |-> Step(p, f, i)]
    BY DEF ContextIn, Step
  <1> QED BY <1>8, <1>9

\* ... given by the statement before.
LEMMA ContextStep ==
  ASSUME NEW p, NEW i \in Nat \ {0}
  PROVE  /\ ContextIn(p)[1] = Outside
         /\ p[i].op \in Openers => ContextIn(p)[i + 1] = Enter(p[i], i, ContextIn(p)[i])
         /\ p[i].op \in Ends \ Openers => ContextIn(p)[i + 1] = ContextIn(p)[ContextIn(p)[i].opener]
         /\ p[i].op \notin Openers \cup Ends => ContextIn(p)[i + 1] = ContextIn(p)[i]
  <1>1. \A j \in Nat : ContextIn(p)[j] = Step(p, ContextIn(p), j)
    BY ContextDef
  <1>2. i + 1 \in Nat /\ (i + 1) - 1 = i /\ ~(i + 1 <= 1)
    OBVIOUS
  <1> QED BY <1>1, <1>2 DEF Step

\* A context is that of its innermost block.
LEMMA ContextFacts ==
  ASSUME NEW p, NEW i \in Nat
  PROVE  /\ ContextIn(p)[i] \in Contexts(p)
         /\ ContextIn(p)[i].opener <= i
         /\ i > 0 => ContextIn(p)[i].opener < i
         /\ ContextIn(p)[i].opener = 0 => ContextIn(p)[i] = Outside
         /\ ContextIn(p)[i].opener > 0 =>
              LET o == ContextIn(p)[i].opener
              IN  p[o].op \in Openers /\ ContextIn(p)[i] = Enter(p[o], o, ContextIn(p)[o])
  <1> DEFINE C == ContextIn(p)
             Right(j) == /\ C[j] \in Contexts(p)
                         /\ C[j].opener <= j
                         /\ j > 0 => C[j].opener < j
                         /\ C[j].opener = 0 => C[j] = Outside
                         /\ C[j].opener > 0 =>
                              p[C[j].opener].op \in Openers /\ C[j] = Enter(p[C[j].opener], C[j].opener, C[C[j].opener])
             T == {j \in Nat : Right(j)}
  <1>1. \A j \in Nat : C[j] = Step(p, C, j)
    BY ContextDef
  <1> HIDE DEF C
  <1>2. ASSUME NEW j \in Nat, \A k \in Nat : k < j => Right(k)
        PROVE  Right(j)
    <2>1. CASE j <= 1
      BY <1>1, <2>1, OutsideType DEF Step, Outside
    <2>2. CASE j > 1
      <3>1. Right(j - 1) /\ j - 1 \in Nat
        BY <1>2, <2>2
      <3>2. CASE p[j - 1].op \in Openers
        <4>1. C[j] = Enter(p[j - 1], j - 1, C[j - 1])
          BY <1>1, <2>2, <3>2 DEF Step
        <4>2. C[j] \in Contexts(p) /\ C[j].opener = j - 1
          BY <3>1, <4>1, EnterType DEF Enter
        <4> QED BY <2>2, <3>2, <4>1, <4>2
      <3>3. CASE p[j - 1].op \in Ends \ Openers
        <4>1. C[j] = C[C[j - 1].opener]
          BY <1>1, <2>2, <3>3 DEF Step
        <4>2. C[j - 1].opener \in Nat /\ C[j - 1].opener < j
          BY <2>2, <3>1 DEF Contexts
        <4>3. Right(C[j - 1].opener) /\ C[C[j - 1].opener].opener \in Nat
          BY <1>2, <4>2 DEF Contexts
        <4> QED BY <2>2, <4>1, <4>2, <4>3
      <3>4. CASE p[j - 1].op \notin Openers \cup Ends
        <4>1. C[j] = C[j - 1]
          BY <1>1, <2>2, <3>4 DEF Step
        <4>2. C[j - 1].opener \in Nat
          BY <3>1 DEF Contexts
        <4> QED BY <2>2, <3>1, <4>1, <4>2
      <3> QED BY <3>2, <3>3, <3>4
    <2> QED BY <2>1, <2>2
  <1> HIDE DEF Right
  <1>3. \A j \in Nat : (\A k \in Nat : k < j => k \in T) => j \in T
    BY <1>2
  <1>4. Right(i)
    <2> HIDE DEF T
    <2>1. i \in T
      BY <1>3, Induction
    <2> QED BY <2>1 DEF T
  <1> QED BY <1>4 DEF Right, C

\* The context depends on the statements before it only.
SameBefore(p, q, n) == \A j \in 1 .. n - 1 : p[j].op = q[j].op /\ p[j].name = q[j].name

LEMMA ContextSame ==
  ASSUME NEW p, NEW q, NEW n \in Nat, SameBefore(p, q, n)
  PROVE  \A i \in 0 .. n : ContextIn(p)[i] = ContextIn(q)[i]
  <1> DEFINE T == {i \in Nat : i <= n => ContextIn(p)[i] = ContextIn(q)[i]}
  <1>1. ASSUME NEW i \in Nat, \A j \in Nat : j < i => j \in T
        PROVE  i \in T
    <2> SUFFICES ASSUME i <= n
                 PROVE  ContextIn(p)[i] = ContextIn(q)[i]
      OBVIOUS
    <2>1. \A j \in Nat : j < i => ContextIn(p)[j] = ContextIn(q)[j]
      BY <1>1
    <2>2. ContextIn(p)[i] = Step(p, ContextIn(p), i) /\ ContextIn(q)[i] = Step(q, ContextIn(q), i)
      BY ContextDef
    <2>3. CASE i <= 1
      BY <2>2, <2>3 DEF Step
    <2>4. CASE i > 1
      <3>1. i - 1 \in 1 .. n - 1 /\ i - 1 \in Nat /\ i - 1 < i
        BY <2>4
      <3>2. p[i - 1].op = q[i - 1].op /\ p[i - 1].name = q[i - 1].name
        BY <3>1 DEF SameBefore
      <3>3. ContextIn(p)[i - 1] = ContextIn(q)[i - 1]
        BY <2>1, <3>1
      <3>4. ContextIn(p)[i - 1].opener \in Nat /\ ContextIn(p)[i - 1].opener <= i - 1
        BY <3>1, ContextFacts DEF Contexts
      <3>5. ContextIn(p)[ContextIn(p)[i - 1].opener] = ContextIn(q)[ContextIn(p)[i - 1].opener]
        BY <2>1, <3>1, <3>4
      <3>6. Enter(p[i - 1], i - 1, ContextIn(p)[i - 1]) = Enter(q[i - 1], i - 1, ContextIn(q)[i - 1])
        BY <3>2, <3>3 DEF Enter
      <3> QED BY <2>2, <2>4, <3>2, <3>3, <3>5, <3>6 DEF Step
    <2> QED BY <2>3, <2>4
  <1> HIDE DEF T
  <1>2. \A i \in Nat : i \in T
    BY <1>1, Induction
  <1> QED BY <1>2 DEF T

-----------------------------------------------------------------------------
(* The analysis *)

Opener(p, i) == ContextIn(p)[i].opener

\* The opener of an open block, which analyze() has gone on from a branch of.
OpenerOf(p, b) == IF p[b.ip].op \in Openers THEN b.ip ELSE Opener(p, b.ip)

\* Between statements j and t there is no branch of the block of opener o.
NoBranch(p, j, t, o) == \A k \in j + 1 .. t - 1 : p[k].op \in Branches => Opener(p, k) # o

\* Statement j, before statement i, has its jump: past its block, to the next
\* branch or the end of its if, or back to its loop; ends fit their openers.
Settled(p, j, i) ==
    /\ p[j].op \in Macros \cup {"while"} =>
         p[j].jump \in 1 .. i /\ Opener(p, p[j].jump) = Opener(p, j)
    /\ p[j].op \in {"if"} \cup Branches =>
         /\ p[j].jump \in j + 1 .. i - 1
         /\ Opener(p, p[j].jump) = Opener(p, j + 1)
         /\ p[p[j].jump].op \in Branches \cup {"endif"}
         /\ NoBranch(p, j, p[j].jump, Opener(p, j + 1))
    /\ p[j].op \in Branches => Opener(p, j) > 0 /\ p[Opener(p, j)].op = "if"
    /\ p[j].op \in Ends => Opener(p, j) > 0 /\ p[j].op = End(p[Opener(p, j)].op)
    /\ p[j].op = "endwhile" => p[j].jump = Opener(p, j)

Block == [ip : Nat \ {0}, type : Openers]

\* Block b is open before statement i, that of opener below around it; there has
\* been no branch since the one analyze() goes on from, and none at all if b is
\* no if.
Pending(p, i, b, below) ==
    /\ b.ip \in 1 .. i - 1 /\ OpenerOf(p, b) \in 1 .. b.ip
    /\ p[b.ip].op \in Openers \cup Branches
    /\ p[OpenerOf(p, b)].op = b.type
    /\ b.type # "if" => b.ip = OpenerOf(p, b)
    /\ Opener(p, OpenerOf(p, b)) = below
    /\ NoBranch(p, b.ip, i, OpenerOf(p, b))

Below(p, bl, n) == IF n = 1 THEN 0 ELSE OpenerOf(p, bl[n - 1])

\* Block n of those open before statement i, outermost first.
Nested(p, i, bl, n) ==
    /\ Pending(p, i, bl[n], Below(p, bl, n))
    /\ \A m \in 1 .. n - 1 : OpenerOf(p, bl[m]) < OpenerOf(p, bl[n])

\* analyze() is done with statement j, or will come back to it.
Treated(p, i, bl, j) == (\E n \in 1 .. Len(bl) : bl[n].ip = j) \/ Settled(p, j, i)

\* What analyze() knows before statement i.
Annotated(p, i, bl) ==
    /\ bl \in Seq(Block)
    /\ \A n \in 1 .. Len(bl) : Nested(p, i, bl, n)
    /\ Opener(p, i) = Below(p, bl, Len(bl) + 1)
    /\ \A j \in 1 .. i - 1 : Treated(p, i, bl, j)

\* The kinds of statements are disjoint.
LEMMA Kinds ==
  /\ Openers \cap (Branches \cup Ends \cup Values \cup {"call", "other", "}"}) = {}
  /\ Branches \cap (Ends \cup Values \cup {"call", "other", "}"}) = {}
  /\ Ends \cap (Values \cup {"call", "other", "}"}) = {}
  /\ Macros \cup Scopes \cup {"if", "while", "{"} = Openers
  /\ Ends = {"endblock", "endif", "endwhile", "endnamespace", "endfunction", "endmacro", "endinline"}
  /\ \A t \in Openers : End(t) \in Ends
  /\ \A t \in Openers : /\ End(t) = "endwhile" <=> t = "while"
                        /\ End(t) = "endif" <=> t = "if"
                        /\ End(t) \in {"endmacro", "endinline"} <=> t \in Macros
                        /\ End(t) \in {"endnamespace", "endfunction"} <=> t \in Scopes
                        /\ End(t) = "endblock" <=> t = "{"
  <1>1. Openers = {"{", "if", "while", "namespace", "function", "macro", "inline"}
    BY DEF Openers, Scopes, Macros
  <1>2. /\ End("{") = "endblock" /\ End("if") = "endif" /\ End("while") = "endwhile"
        /\ End("namespace") = "endnamespace" /\ End("function") = "endfunction"
        /\ End("macro") = "endmacro" /\ End("inline") = "endinline"
    BY DEF End
  <1>3. Ends = {"endblock", "endif", "endwhile", "endnamespace", "endfunction", "endmacro", "endinline"}
    BY <1>1, <1>2, ZenonT(30) DEF Ends
  <1> QED BY <1>1, <1>2, <1>3 DEF Branches, Values, Scopes, Macros

\* A statement remains settled while others change.
LEMMA SettledKept ==
  ASSUME NEW p, NEW q, NEW i \in Nat \ {0}, NEW j \in 1 .. i - 1,
         SameBefore(p, q, i), p[j].jump = q[j].jump, Settled(p, j, i)
  PROVE  Settled(q, j, i + 1)
  <1>1. \A k \in 0 .. i : Opener(p, k) = Opener(q, k)
    BY ContextSame DEF Opener
  <1>2. Opener(p, j) \in 0 .. j
    BY ContextFacts DEF Opener, Contexts
  <1>3. \A t \in 1 .. i : \A o : NoBranch(p, j, t, o) => NoBranch(q, j, t, o)
    BY <1>1 DEF NoBranch, SameBefore
  <1> QED BY <1>1, <1>2, <1>3 DEF Settled, SameBefore

\* The open blocks are a sequence.
LEMMA BlocksFacts ==
  ASSUME NEW bl \in Seq(Block)
  PROVE  /\ Len(bl) \in Nat /\ DOMAIN bl = 1 .. Len(bl) /\ (bl = <<>> <=> Len(bl) = 0)
         /\ \A n \in 1 .. Len(bl) : bl[n] \in Block /\ bl[n].ip \in Nat \ {0} /\ bl[n].type \in Openers
  <1>1. Len(bl) \in Nat /\ DOMAIN bl = 1 .. Len(bl) /\ (bl = <<>> <=> Len(bl) = 0)
    BY EmptySeq, LenProperties
  <1>2. \A n \in 1 .. Len(bl) : bl[n] \in Block
    BY ElementOfSeq
  <1> QED BY <1>1, <1>2 DEF Block

\* An open block remains one, unless statement i is a branch of it.
LEMMA PendingKept ==
  ASSUME NEW p, NEW q, NEW i \in Nat \ {0}, NEW b \in Block, NEW below,
         SameBefore(p, q, i), Pending(p, i, b, below),
         q[i].op \in Branches => Opener(q, i) # OpenerOf(p, b)
  PROVE  OpenerOf(q, b) = OpenerOf(p, b) /\ Pending(q, i + 1, b, below)
  <1>1. \A k \in 0 .. i : Opener(p, k) = Opener(q, k)
    BY ContextSame DEF Opener
  <1>2. b.ip \in 1 .. i - 1
    BY DEF Pending
  <1>3. OpenerOf(q, b) = OpenerOf(p, b)
    BY <1>1, <1>2 DEF OpenerOf, SameBefore
  <1>4. NoBranch(q, b.ip, i + 1, OpenerOf(p, b))
    BY <1>1, <1>2 DEF Pending, NoBranch, SameBefore
  <1>5. OpenerOf(p, b) \in 1 .. i - 1
    BY <1>2 DEF Pending
  <1> QED BY <1>1, <1>2, <1>3, <1>4, <1>5 DEF Pending, SameBefore

\* The first m of the open blocks remain as they are, and with them the statements
\* analyze() is done with or will come back to.
SameBlocks(bl, cl, m) == m <= Len(bl) /\ m <= Len(cl) /\ \A n \in 1 .. m : cl[n] = bl[n]

Remain(p, q, i, bl, cl, m) ==
    /\ \A n \in 1 .. m : Nested(q, i + 1, cl, n) /\ OpenerOf(q, cl[n]) = OpenerOf(p, bl[n])
    /\ \A j \in 1 .. i - 1 : q[j].jump = p[j].jump /\ (\A n \in m + 1 .. Len(bl) : bl[n].ip # j)
         => Treated(q, i + 1, cl, j)

LEMMA Remaining ==
  ASSUME NEW p, NEW q, NEW i \in Nat \ {0}, NEW bl, NEW cl \in Seq(Block), NEW m \in Nat,
         Annotated(p, i, bl), SameBefore(p, q, i), SameBlocks(bl, cl, m),
         q[i].op \in Branches => m < Len(bl)
  PROVE  Remain(p, q, i, bl, cl, m)
  <1> USE DEF SameBlocks
  <1>1. bl \in Seq(Block) /\ Len(bl) \in Nat /\ Len(cl) \in Nat
    BY LenProperties DEF Annotated
  <1>2. Opener(q, i) = Opener(p, i)
    BY ContextSame DEF Opener
  <1>3. ASSUME NEW n \in 1 .. m
        PROVE  OpenerOf(q, bl[n]) = OpenerOf(p, bl[n]) /\ Pending(q, i + 1, bl[n], Below(p, bl, n))
    <2>1. n \in 1 .. Len(bl) /\ bl[n] \in Block
      BY <1>1, BlocksFacts
    <2>2. Nested(p, i, bl, n)
      BY <2>1 DEF Annotated
    <2>3. q[i].op \in Branches => Opener(q, i) # OpenerOf(p, bl[n])
      <3> SUFFICES ASSUME q[i].op \in Branches
                   PROVE  Opener(p, i) # OpenerOf(p, bl[n])
        BY <1>2
      <3>1. Len(bl) \in 1 .. Len(bl) /\ n \in 1 .. Len(bl) - 1 /\ Len(bl) + 1 # 1 /\ (Len(bl) + 1) - 1 = Len(bl)
        BY <1>1, <2>1
      <3>2. OpenerOf(p, bl[n]) < OpenerOf(p, bl[Len(bl)]) /\ Opener(p, i) = OpenerOf(p, bl[Len(bl)])
        BY <3>1 DEF Annotated, Nested, Below
      <3>3. OpenerOf(p, bl[n]) \in Nat
        BY <2>1, <2>2, BlocksFacts DEF Nested, Pending, Block
      <3> QED BY <3>2, <3>3
    <2> QED BY <2>1, <2>2, <2>3, PendingKept DEF Nested
  <1>4. ASSUME NEW n \in 1 .. m
        PROVE  Nested(q, i + 1, cl, n) /\ OpenerOf(q, cl[n]) = OpenerOf(p, bl[n])
    <2>1. n \in 1 .. Len(bl) /\ cl[n] = bl[n]
      BY <1>1
    <2>2. n # 1 => n - 1 \in 1 .. m /\ cl[n - 1] = bl[n - 1]
      OBVIOUS
    <2>3. Below(q, cl, n) = Below(p, bl, n)
      BY <1>3, <2>2 DEF Below
    <2>4. ASSUME NEW k \in 1 .. n - 1
          PROVE  OpenerOf(q, cl[k]) < OpenerOf(q, cl[n])
      <3>1. k \in 1 .. m /\ cl[k] = bl[k] /\ OpenerOf(p, bl[k]) < OpenerOf(p, bl[n])
        BY <2>1 DEF Annotated, Nested
      <3> QED BY <1>3, <2>1, <3>1
    <2> QED BY <1>3, <2>1, <2>3, <2>4 DEF Nested
  <1>5. ASSUME NEW j \in 1 .. i - 1, q[j].jump = p[j].jump, \A n \in m + 1 .. Len(bl) : bl[n].ip # j
        PROVE  Treated(q, i + 1, cl, j)
    <2>1. CASE Settled(p, j, i)
      BY <1>5, <2>1, SettledKept DEF Treated
    <2>2. CASE \E n \in 1 .. Len(bl) : bl[n].ip = j
      <3>1. PICK n \in 1 .. Len(bl) : bl[n].ip = j
        BY <2>2
      <3>2. n \in 1 .. m
        BY <1>1, <1>5, <3>1
      <3>3. n \in 1 .. Len(cl) /\ cl[n].ip = j
        BY <1>1, <3>1, <3>2
      <3> QED BY <3>3 DEF Treated
    <2> QED BY <2>1, <2>2 DEF Annotated, Treated
  <1> QED BY <1>4, <1>5 DEF Remain

\* An opener adds an open block, ...
LEMMA OpenAnnotated ==
  ASSUME NEW p, NEW i \in Nat \ {0}, NEW bl, Annotated(p, i, bl), p[i].op \in Openers
  PROVE  Annotated(p, i + 1, Append(bl, [ip |-> i, type |-> p[i].op]))
  <1>1. PICK b : b = [ip |-> i, type |-> p[i].op]
    OBVIOUS
  <1>2. PICK cl : cl = Append(bl, b)
    OBVIOUS
  <1>3. PICK len : len = Len(bl)
    OBVIOUS
  <1>4. b \in Block /\ b.ip = i /\ b.type = p[i].op /\ OpenerOf(p, b) = i
    BY <1>1 DEF OpenerOf, Block
  <1>5. bl \in Seq(Block) /\ len \in Nat
    BY <1>3, LenProperties DEF Annotated
  <1>6. /\ cl \in Seq(Block) /\ Len(cl) = len + 1
        /\ \A n \in 1 .. len : cl[n] = bl[n]
        /\ cl[len + 1] = b
    BY <1>2, <1>3, <1>4, <1>5, AppendProperties
  <1>7. p[i].op \notin Branches /\ SameBefore(p, p, i)
    BY Kinds DEF SameBefore
  <1>8. /\ \A n \in 1 .. len : Nested(p, i + 1, cl, n) /\ OpenerOf(p, cl[n]) = OpenerOf(p, bl[n])
        /\ \A j \in 1 .. i - 1 : (\A n \in len + 1 .. Len(bl) : bl[n].ip # j) => Treated(p, i + 1, cl, j)
    <2>1. SameBlocks(bl, cl, len)
      BY <1>3, <1>5, <1>6 DEF SameBlocks
    <2>2. Remain(p, p, i, bl, cl, len)
      BY <1>3, <1>5, <1>6, <1>7, <2>1, Remaining
    <2> QED BY <2>2 DEF Remain
  <1>9. Opener(p, i + 1) = i
    <2>1. ContextIn(p)[i + 1] = Enter(p[i], i, ContextIn(p)[i])
      BY ContextStep
    <2> QED BY <2>1 DEF Opener, Enter
  <1>10. Nested(p, i + 1, cl, len + 1)
    <2>1. Opener(p, i) = Below(p, cl, len + 1)
      <3>1. len + 1 # 1 => len \in 1 .. len /\ (len + 1) - 1 = len
        BY <1>5
      <3> QED BY <1>3, <1>6, <3>1 DEF Annotated, Below
    <2>2. NoBranch(p, i, i + 1, i)
      BY DEF NoBranch
    <2>3. Pending(p, i + 1, b, Below(p, cl, len + 1))
      BY <1>4, <2>1, <2>2 DEF Pending
    <2>4. ASSUME NEW m \in 1 .. len
          PROVE  OpenerOf(p, cl[m]) < i
      <3>1. Nested(p, i, bl, m)
        BY <1>3 DEF Annotated
      <3>2. OpenerOf(p, bl[m]) \in 1 .. bl[m].ip /\ bl[m].ip \in 1 .. i - 1
        BY <3>1 DEF Nested, Pending
      <3> QED BY <1>6, <3>2
    <2> QED BY <1>4, <1>5, <1>6, <2>3, <2>4 DEF Nested
  <1>11. \A n \in 1 .. Len(cl) : Nested(p, i + 1, cl, n)
    BY <1>5, <1>6, <1>8, <1>10
  <1>12. Opener(p, i + 1) = Below(p, cl, Len(cl) + 1)
    <2>1. Len(cl) + 1 # 1 /\ (Len(cl) + 1) - 1 = len + 1
      BY <1>5, <1>6
    <2> QED BY <1>4, <1>6, <1>9, <2>1 DEF Below
  <1>13. \A j \in 1 .. (i + 1) - 1 : Treated(p, i + 1, cl, j)
    <2>1. \A j \in 1 .. i - 1 : Treated(p, i + 1, cl, j)
      BY <1>3, <1>5, <1>8
    <2>2. Treated(p, i + 1, cl, i)
      BY <1>4, <1>5, <1>6 DEF Treated
    <2> QED BY <2>1, <2>2
  <1> QED BY <1>1, <1>2, <1>6, <1>11, <1>12, <1>13 DEF Annotated

\* ... "}" takes the last one away and sets the jumps of its two ends, ...
LEMMA CloseAnnotated ==
  ASSUME NEW p, NEW q, NEW i \in Nat \ {0}, NEW bl, NEW cl \in Seq(Block), NEW len \in Nat \ {0},
         Annotated(p, i, bl), Len(bl) = len, Len(cl) = len - 1,
         \A n \in 1 .. len - 1 : cl[n] = bl[n],
         SameBefore(p, q, i), q[i].op = End(bl[len].type),
         bl[len].type = "while" => q[i].jump = bl[len].ip,
         bl[len].type \in Macros \cup {"if", "while"} =>
           q[bl[len].ip].jump = IF bl[len].type = "if" THEN i ELSE i + 1,
         \A j \in 1 .. i - 1 : j # bl[len].ip => q[j].jump = p[j].jump
  PROVE  Annotated(q, i + 1, cl)
  <1>1. PICK b : b = bl[len]
    OBVIOUS
  <1>2. /\ bl \in Seq(Block) /\ b \in Block /\ b.type \in Openers
        /\ Nested(p, i, bl, len)
    BY <1>1, BlocksFacts DEF Annotated
  <1>3. Pending(p, i, b, Below(p, bl, len))
    BY <1>1, <1>2 DEF Nested
  <1>4. PICK o : o = OpenerOf(p, b)
    OBVIOUS
  <1>5. /\ b.ip \in 1 .. i - 1 /\ o \in 1 .. b.ip /\ p[o].op = b.type
        /\ p[b.ip].op \in Openers \cup Branches /\ (b.type # "if" => b.ip = o)
        /\ Opener(p, o) = Below(p, bl, len) /\ NoBranch(p, b.ip, i, o)
    BY <1>3, <1>4 DEF Pending
  <1>6. q[i].op \in Ends /\ q[i].op \notin Openers /\ q[i].op \notin Branches
    <2>1. q[i].op = End(b.type) /\ End(b.type) \in Ends
      <3>1. End(b.type) \in Ends
        BY <1>2, Kinds
      <3> QED BY <1>1, <3>1
    <2>2. q[i].op \in Ends
      BY <2>1
    <2>3. \A e \in Ends : e \notin Openers /\ e \notin Branches
      BY Kinds
    <2> QED BY <2>2, <2>3
  <1>7. /\ \A n \in 1 .. len - 1 : Nested(q, i + 1, cl, n) /\ OpenerOf(q, cl[n]) = OpenerOf(p, bl[n])
        /\ \A j \in 1 .. i - 1 : q[j].jump = p[j].jump /\ (\A n \in len .. len : bl[n].ip # j)
             => Treated(q, i + 1, cl, j)
    <2>1. PICK m : m = len - 1
      OBVIOUS
    <2>2. m \in Nat /\ m + 1 = len /\ SameBlocks(bl, cl, m)
      BY <2>1 DEF SameBlocks
    <2>3. Remain(p, q, i, bl, cl, m)
      BY <1>6, <2>2, Remaining
    <2> QED BY <2>1, <2>2, <2>3 DEF Remain
  <1>8. \A k \in 0 .. i : Opener(q, k) = Opener(p, k)
    BY ContextSame DEF Opener
  <1>9. Opener(p, i) = o
    <2>1. len + 1 # 1 /\ (len + 1) - 1 = len
      OBVIOUS
    <2> QED BY <1>1, <1>4, <2>1 DEF Annotated, Below
  <1>10. Opener(q, i + 1) = Opener(p, o)
    <2>1. ContextIn(q)[i + 1] = ContextIn(q)[ContextIn(q)[i].opener]
      BY <1>6, ContextStep
    <2>2. Opener(q, i + 1) = Opener(q, Opener(q, i))
      BY <2>1 DEF Opener
    <2> QED BY <1>5, <1>8, <1>9, <2>2
  <1>11. Opener(q, i + 1) = Below(q, cl, Len(cl) + 1)
    <2>1. len # 1 => len - 1 \in 1 .. len - 1 /\ OpenerOf(q, cl[len - 1]) = OpenerOf(p, bl[len - 1])
      BY <1>7
    <2> QED BY <1>5, <1>10, <2>1 DEF Below
  <1>12. Settled(q, i, i + 1)
    <2>1. q[i].op \notin Macros \cup {"while", "if"} \cup Branches
      BY <1>6, Kinds
    <2>2. Opener(q, i) = o /\ q[o].op = b.type /\ o > 0
      BY <1>5, <1>8, <1>9 DEF SameBefore
    <2>3. q[i].op = "endwhile" => q[i].jump = o
      BY <1>1, <1>2, <1>5, Kinds
    <2> QED BY <1>1, <2>1, <2>2, <2>3 DEF Settled
  <1>13. Settled(q, b.ip, i + 1)
    <2>1. q[b.ip].op = p[b.ip].op /\ q[o].op = b.type
      BY <1>5 DEF SameBefore
    <2>2. CASE b.type # "if"
      <3>1. q[b.ip].op = b.type /\ b.ip = o /\ q[b.ip].op \notin Branches \cup Ends \cup {"if"}
        BY <1>2, <1>5, <2>1, <2>2, Kinds
      <3>2. b.type \in Macros \cup {"while"} => q[b.ip].jump = i + 1
        BY <1>1, <2>2
      <3>3. Opener(q, i + 1) = Opener(q, b.ip)
        BY <1>5, <1>8, <1>10, <3>1
      <3>4. q[b.ip].op \in Macros \cup {"while"} =>
              q[b.ip].jump \in 1 .. i + 1 /\ Opener(q, q[b.ip].jump) = Opener(q, b.ip)
        BY <3>1, <3>2, <3>3
      <3>5. q[b.ip].op # "endwhile"
        BY <3>1, Kinds
      <3> QED BY <3>1, <3>4, <3>5 DEF Settled
    <2>3. CASE b.type = "if"
      <3>1. q[b.ip].jump = i
        BY <1>1, <2>3
      <3>2. q[b.ip].op \in {"if"} \cup Branches /\ q[b.ip].op \notin Macros \cup {"while"} \cup Ends
        <4>1. CASE p[b.ip].op \in Openers
          BY <1>4, <1>5, <2>1, <2>3, <4>1, Kinds DEF OpenerOf, Macros
        <4>2. CASE p[b.ip].op \in Branches
          BY <2>1, <4>2, Kinds DEF Branches, Macros
        <4> QED BY <1>5, <4>1, <4>2
      <3>3. q[i].op = "endif"
        BY <1>1, <2>3 DEF End
      <3>4. Opener(q, b.ip + 1) = o /\ (q[b.ip].op \in Branches => Opener(q, b.ip) = o)
        <4>1. CASE p[b.ip].op \in Openers
          <5>1. ContextIn(q)[b.ip + 1] = Enter(q[b.ip], b.ip, ContextIn(q)[b.ip])
            BY <1>5, <2>1, <4>1, ContextStep, SMTT(30)
          <5>2. b.ip = o
            BY <1>4, <4>1 DEF OpenerOf
          <5>3. q[b.ip].op \notin Branches
            BY <2>1, <4>1, Kinds
          <5> QED BY <5>1, <5>2, <5>3 DEF Opener, Enter
        <4>2. CASE p[b.ip].op \in Branches
          <5>1. p[b.ip].op \notin Openers \cup Ends
            BY <4>2, Kinds, ZenonT(30)
          <5>2. ContextIn(q)[b.ip + 1] = ContextIn(q)[b.ip]
            BY <1>5, <2>1, <5>1, ContextStep
          <5>3. Opener(p, b.ip) = o
            BY <1>4, <5>1 DEF OpenerOf
          <5> QED BY <1>5, <1>8, <5>2, <5>3 DEF Opener
        <4> QED BY <1>5, <4>1, <4>2
      <3>5. NoBranch(q, b.ip, i, o)
        BY <1>5, <1>8 DEF NoBranch, SameBefore
      <3>6. q[b.ip].jump \in b.ip + 1 .. (i + 1) - 1
        BY <1>5, <3>1
      <3>7. Opener(q, q[b.ip].jump) = Opener(q, b.ip + 1)
        BY <1>8, <1>9, <3>1, <3>4
      <3>8. q[q[b.ip].jump].op \in Branches \cup {"endif"}
        BY <3>1, <3>3
      <3>9. NoBranch(q, b.ip, q[b.ip].jump, Opener(q, b.ip + 1))
        BY <3>1, <3>4, <3>5
      <3>10. q[b.ip].op \in Branches => Opener(q, b.ip) > 0 /\ q[Opener(q, b.ip)].op = "if"
        BY <1>5, <2>1, <2>3, <3>4
      <3>11. q[b.ip].op \notin Macros \cup {"while"} /\ q[b.ip].op \notin Ends /\ q[b.ip].op # "endwhile"
        BY <3>2 DEF Branches
      <3> QED BY <3>2, <3>6, <3>7, <3>8, <3>9, <3>10, <3>11 DEF Settled
    <2> QED BY <2>2, <2>3
  <1>14. \A j \in 1 .. (i + 1) - 1 : Treated(q, i + 1, cl, j)
    <2>1. \A j \in 1 .. i - 1 : j # b.ip => Treated(q, i + 1, cl, j)
      BY <1>1, <1>7
    <2> QED BY <1>12, <1>13, <2>1 DEF Treated
  <1> QED BY <1>7, <1>11, <1>14 DEF Annotated

\* ... any other statement that has no part in a block changes nothing, ...
LEMMA PassAnnotated ==
  ASSUME NEW p, NEW i \in Nat \ {0}, NEW bl, Annotated(p, i, bl),
         p[i].op \notin Openers \cup Branches \cup Ends
  PROVE  Annotated(p, i + 1, bl)
  <1>1. PICK len : len = Len(bl)
    OBVIOUS
  <1>2. bl \in Seq(Block) /\ len \in Nat /\ SameBefore(p, p, i)
    BY <1>1, LenProperties DEF Annotated, SameBefore
  <1>3. /\ \A n \in 1 .. len : Nested(p, i + 1, bl, n)
        /\ \A j \in 1 .. i - 1 : (\A n \in len + 1 .. Len(bl) : bl[n].ip # j) => Treated(p, i + 1, bl, j)
    <2>1. SameBlocks(bl, bl, len)
      BY <1>1, <1>2 DEF SameBlocks
    <2>2. Remain(p, p, i, bl, bl, len)
      BY <1>2, <2>1, Remaining
    <2> QED BY <2>2 DEF Remain
  <1>4. Opener(p, i + 1) = Opener(p, i)
    <2>1. ContextIn(p)[i + 1] = ContextIn(p)[i]
      BY ContextStep
    <2> QED BY <2>1 DEF Opener
  <1>5. Settled(p, i, i + 1)
    <2>1. p[i].op \notin Macros \cup {"if", "while"}
      BY Kinds
    <2>2. p[i].op # "endwhile"
      BY Kinds
    <2> QED BY <2>1, <2>2 DEF Settled
  <1>6. \A j \in 1 .. (i + 1) - 1 : Treated(p, i + 1, bl, j)
    <2>1. \A j \in 1 .. i - 1 : Treated(p, i + 1, bl, j)
      BY <1>1, <1>2, <1>3
    <2> QED BY <1>5, <2>1 DEF Treated
  <1> QED BY <1>1, <1>2, <1>3, <1>4, <1>6 DEF Annotated

\* ... and an else makes the branch before it jump here.
LEMMA BranchAnnotated ==
  ASSUME NEW p, NEW q, NEW i \in Nat \ {0}, NEW bl, NEW cl \in Seq(Block), NEW len \in Nat \ {0},
         Annotated(p, i, bl), Len(bl) = len, Len(cl) = len,
         \A n \in 1 .. len - 1 : cl[n] = bl[n],
         bl[len].type = "if", cl[len].type = "if", cl[len].ip = i,
         SameBefore(p, q, i), q[i].op \in Branches,
         q[bl[len].ip].jump = i,
         \A j \in 1 .. i - 1 : j # bl[len].ip => q[j].jump = p[j].jump
  PROVE  Annotated(q, i + 1, cl)
  <1>1. PICK b : b = bl[len]
    OBVIOUS
  <1>2. /\ bl \in Seq(Block) /\ b \in Block /\ Nested(p, i, bl, len)
    BY <1>1, BlocksFacts DEF Annotated
  <1>3. Pending(p, i, b, Below(p, bl, len))
    BY <1>1, <1>2 DEF Nested
  <1>4. PICK o : o = OpenerOf(p, b)
    OBVIOUS
  <1>5. /\ b.ip \in 1 .. i - 1 /\ o \in 1 .. b.ip /\ p[o].op = "if"
        /\ p[b.ip].op \in Openers \cup Branches
        /\ Opener(p, o) = Below(p, bl, len) /\ NoBranch(p, b.ip, i, o)
    BY <1>1, <1>3, <1>4 DEF Pending
  <1>6. q[i].op \notin Openers /\ q[i].op \notin Ends /\ q[i].op \notin Macros \cup {"while", "if"}
    BY Kinds, ZenonT(30)
  <1>7. PICK m : m = len - 1
    OBVIOUS
  <1>8. m \in 0 .. Len(bl) /\ m < Len(bl) /\ m <= Len(cl) /\ m + 1 = len /\ \A n \in 1 .. m : cl[n] = bl[n]
    BY <1>7
  <1>9. /\ \A n \in 1 .. m : Nested(q, i + 1, cl, n) /\ OpenerOf(q, cl[n]) = OpenerOf(p, bl[n])
        /\ \A j \in 1 .. i - 1 : q[j].jump = p[j].jump /\ (\A n \in m + 1 .. Len(bl) : bl[n].ip # j)
             => Treated(q, i + 1, cl, j)
    <2>1. m \in Nat /\ SameBlocks(bl, cl, m)
      BY <1>8 DEF SameBlocks
    <2>2. q[i].op \in Branches => m < Len(bl)
      BY <1>8
    <2>3. Remain(p, q, i, bl, cl, m)
      BY <2>1, <2>2, Remaining
    <2> QED BY <2>3 DEF Remain
  <1>10. \A k \in 0 .. i : Opener(q, k) = Opener(p, k)
    BY ContextSame DEF Opener
  <1>11. Opener(q, i) = o
    <2>1. len + 1 # 1 /\ (len + 1) - 1 = len
      OBVIOUS
    <2> QED BY <1>1, <1>4, <1>10, <2>1 DEF Annotated, Below
  <1>12. Opener(q, i + 1) = o
    <2>1. ContextIn(q)[i + 1] = ContextIn(q)[i]
      BY <1>6, ContextStep
    <2> QED BY <1>11, <2>1 DEF Opener
  <1>13. OpenerOf(q, cl[len]) = o
    BY <1>6, <1>11 DEF OpenerOf
  <1>14. Below(q, cl, len) = Below(p, bl, len)
    <2>1. len # 1 => len - 1 \in 1 .. m /\ OpenerOf(q, cl[len - 1]) = OpenerOf(p, bl[len - 1])
      BY <1>8, <1>9
    <2> QED BY <2>1 DEF Below
  <1>15. Nested(q, i + 1, cl, len)
    <2>1. q[o].op = "if" /\ o \in 1 .. i - 1
      BY <1>5 DEF SameBefore
    <2>2. NoBranch(q, i, i + 1, o)
      BY DEF NoBranch
    <2>3. Opener(q, o) = Below(q, cl, len)
      BY <1>5, <1>10, <1>14, <2>1
    <2>4. Pending(q, i + 1, cl[len], Below(q, cl, len))
      BY <1>13, <2>1, <2>2, <2>3 DEF Pending
    <2>5. ASSUME NEW n \in 1 .. len - 1
          PROVE  OpenerOf(q, cl[n]) < OpenerOf(q, cl[len])
      <3>1. OpenerOf(p, bl[n]) < o
        BY <1>1, <1>2, <1>4 DEF Nested
      <3> QED BY <1>8, <1>9, <1>13, <3>1
    <2> QED BY <2>4, <2>5 DEF Nested
  <1>16. Opener(q, i + 1) = Below(q, cl, Len(cl) + 1)
    <2>1. Len(cl) + 1 # 1 /\ (Len(cl) + 1) - 1 = len
      OBVIOUS
    <2> QED BY <1>12, <1>13, <2>1 DEF Below
  <1>17. Treated(q, i + 1, cl, i)
    BY DEF Treated
  <1>18. Settled(q, b.ip, i + 1)
    <2>1. q[b.ip].op = p[b.ip].op /\ q[o].op = "if"
      BY <1>5 DEF SameBefore
    <2>2. q[b.ip].jump = i
      BY <1>1
    <2>3. q[b.ip].op \in {"if"} \cup Branches
      BY <1>4, <1>5, <2>1 DEF OpenerOf
    <2>4. q[b.ip].op \notin Macros \cup {"while"} /\ q[b.ip].op \notin Ends /\ q[b.ip].op # "endwhile"
      <3>1. \A t \in {"if"} \cup Branches : t \notin Macros \cup {"while"}
        BY DEF Branches, Macros
      <3>2. \A t \in {"if"} \cup Branches : t \notin Ends
        BY Kinds
      <3> QED BY <2>3, <3>1, <3>2 DEF Branches
    <2>5. Opener(q, b.ip + 1) = o /\ (q[b.ip].op \in Branches => Opener(q, b.ip) = o)
      <3>1. CASE p[b.ip].op \in Openers
        <4>1. ContextIn(q)[b.ip + 1] = Enter(q[b.ip], b.ip, ContextIn(q)[b.ip])
          <5>1. b.ip \in Nat \ {0} /\ q[b.ip].op \in Openers
            BY <1>5, <2>1, <3>1
          <5> QED BY <5>1, ContextStep
        <4>2. b.ip = o
          BY <1>4, <3>1 DEF OpenerOf
        <4>3. q[b.ip].op \notin Branches
          BY <2>1, <3>1, Kinds
        <4> QED BY <4>1, <4>2, <4>3 DEF Opener, Enter
      <3>2. CASE p[b.ip].op \in Branches
        <4>1. p[b.ip].op \notin Openers \cup Ends
          BY <3>2, Kinds
        <4>2. ContextIn(q)[b.ip + 1] = ContextIn(q)[b.ip]
          BY <1>5, <2>1, <4>1, ContextStep
        <4>3. Opener(p, b.ip) = o
          BY <1>4, <4>1 DEF OpenerOf
        <4> QED BY <1>5, <1>10, <4>2, <4>3 DEF Opener
      <3> QED BY <1>5, <3>1, <3>2
    <2>6. NoBranch(q, b.ip, i, o)
      BY <1>5, <1>10 DEF NoBranch, SameBefore
    <2>7. q[b.ip].jump \in b.ip + 1 .. (i + 1) - 1 /\ Opener(q, q[b.ip].jump) = Opener(q, b.ip + 1)
      BY <1>5, <1>11, <2>2, <2>5
    <2>8. q[q[b.ip].jump].op \in Branches \cup {"endif"}
      BY <2>2
    <2>9. NoBranch(q, b.ip, q[b.ip].jump, Opener(q, b.ip + 1))
      BY <2>2, <2>5, <2>6
    <2>10. q[b.ip].op \in Branches => Opener(q, b.ip) > 0 /\ q[Opener(q, b.ip)].op = "if"
      BY <1>5, <2>1, <2>5
    <2> QED BY <2>3, <2>4, <2>7, <2>8, <2>9, <2>10 DEF Settled
  <1>19. \A j \in 1 .. (i + 1) - 1 : Treated(q, i + 1, cl, j)
    <2>1. \A j \in 1 .. i - 1 : j # b.ip => Treated(q, i + 1, cl, j)
      BY <1>1, <1>8, <1>9
    <2> QED BY <1>17, <1>18, <2>1 DEF Treated
  <1>20. \A n \in 1 .. Len(cl) : Nested(q, i + 1, cl, n)
    BY <1>8, <1>9, <1>15
  <1> QED BY <1>16, <1>19, <1>20 DEF Annotated

-----------------------------------------------------------------------------
(* Looking up and storing *)

\* The largest number of a bounded set is one of it.
LEMMA LargestFacts ==
  ASSUME NEW ns, NEW k \in Nat, ns \subseteq 0 .. k, ns # {}
  PROVE  Largest(ns) \in ns /\ \A m \in ns : m <= Largest(ns)
  <1> DEFINE T == {k - m : m \in ns}
  <1>1. T \subseteq Nat /\ T # {}
    <2>1. \A m \in ns : k - m \in Nat
      OBVIOUS
    <2>2. PICK m : m \in ns
      OBVIOUS
    <2>3. k - m \in T
      BY <2>2
    <2> QED BY <2>1, <2>3
  <1>2. PICK t \in T : \A u \in T : t <= u
    <2> HIDE DEF T
    <2> QED BY <1>1, Smallest
  <1>3. PICK n \in ns : t = k - n
    BY <1>2
  <1>4. \A m \in ns : m <= n
    BY <1>2, <1>3
  <1> QED BY <1>3, <1>4 DEF Largest

\* What a name may mean in frames that are n and scopes that are k high.
Found(found, n, k) == \A x \in found : x[1] \in 1 .. n /\ x[2] \in 0 .. k

LEMMA NearestFacts ==
  ASSUME NEW found, NEW n \in Nat, NEW k \in Nat, Found(found, n, k), found # {}
  PROVE  /\ Nearest(found) \in found
         /\ \A y \in found : \/ y[1] < Nearest(found)[1]
                             \/ (y[1] = Nearest(found)[1] /\ y[2] <= Nearest(found)[2])
  <1> DEFINE Fs == {x[1] : x \in found}
  <1>1. Fs \subseteq 0 .. n /\ Fs # {}
    BY DEF Found
  <1>2. PICK f \in Fs : \A m \in Fs : m <= f
    <2> HIDE DEF Fs
    <2> QED BY <1>1, LargestFacts
  <1> DEFINE Ss == {x[2] : x \in {y \in found : y[1] = f}}
  <1>3. Ss \subseteq 0 .. k /\ Ss # {}
    BY <1>2 DEF Found
  <1>4. PICK s \in Ss : \A m \in Ss : m <= s
    <2> HIDE DEF Ss
    <2> QED BY <1>3, LargestFacts
  <1>5. PICK x \in found : x[1] = f /\ x[2] = s
    BY <1>4
  <1>6. \A y \in found : y[1] < x[1] \/ (y[1] = x[1] /\ y[2] <= x[2])
    <2> TAKE y \in found
    <2>1. y[1] \in Fs /\ y[1] \in Nat /\ f \in Nat
      BY <1>2 DEF Found
    <2>2. y[1] <= f
      BY <1>2, <2>1
    <2>3. CASE y[1] = f
      BY <1>4, <1>5, <2>3
    <2>4. CASE y[1] # f
      BY <1>5, <2>1, <2>2, <2>4
    <2> QED BY <2>3, <2>4
  <1> QED BY <1>5, <1>6 DEF Nearest

\* Each is held by its frame and has the path, in its scope, for a name.
Named(found, fs, sc, kind, path, arity) ==
    \A x \in found : x[3] \in fs[x[1]][kind] /\ x[3].name = <<SubSeq(sc, 1, x[2]) \o path, arity>>

LEMMA VisibleFacts ==
  ASSUME NEW fs, NEW sc, NEW kind, NEW path, NEW arity, NEW n, DOMAIN fs = 1 .. n
  PROVE  LET found == VisibleIn(fs, sc, kind, path, arity)
         IN  Found(found, n, Len(sc)) /\ Named(found, fs, sc, kind, path, arity)
  <1>1. ASSUME NEW x \in VisibleIn(fs, sc, kind, path, arity)
        PROVE  /\ x[1] \in 1 .. n /\ x[2] \in 0 .. Len(sc)
               /\ x[3] \in fs[x[1]][kind]
               /\ x[3].name = <<SubSeq(sc, 1, x[2]) \o path, arity>>
    <2>1. PICK m \in DOMAIN fs : x \in {m} \X (0 .. Len(sc)) \X fs[m][kind]
      BY <1>1 DEF VisibleIn
    <2>2. x[3].name = <<SubSeq(sc, 1, x[2]) \o path, arity>>
      BY <1>1 DEF VisibleIn
    <2> QED BY <2>1, <2>2
  <1> QED BY <1>1 DEF Found, Named

\* Frames whose variables hold values of a program of n statements.
Held(fs, n) == /\ DOMAIN fs = 1 .. Len(fs) /\ Len(fs) \in Nat
               /\ \A k \in 1 .. Len(fs) : fs[k]["variables"] \subseteq Variable(n)

LEMMA ValueType ==
  ASSUME NEW fs, NEW n \in Nat, NEW sc, Len(sc) \in Nat, NEW path, Held(fs, n)
  PROVE  ValueIn(fs, sc, path) \in 0 .. n
  <1>1. PICK found : found = VisibleIn(fs, sc, "variables", path, 0)
    OBVIOUS
  <1>2. Found(found, Len(fs), Len(sc)) /\ \A x \in found : x[3] \in fs[x[1]]["variables"]
    BY <1>1, VisibleFacts DEF Held, Named
  <1>3. CASE found = {}
    BY <1>1, <1>3 DEF ValueIn, Guess
  <1>4. CASE found # {}
    <2>1. Nearest(found) \in found
      BY <1>2, <1>4, NearestFacts DEF Held
    <2>2. Nearest(found)[3] \in Variable(n)
      BY <1>2, <2>1 DEF Found, Held
    <2> QED BY <1>1, <1>4, <2>2 DEF ValueIn, Variable
  <1> QED BY <1>3, <1>4

\* The arguments b before the i-th bound, the i-th is.
Argument(macro, i, b) ==
    [name |-> <<Append(Inside(macro), macro.parameters[i]), 0>>,
     value |-> ValueIn(Append(frames, [variables |-> b]), Inside(macro), <<S.list[i]>>)]

Bound(macro, i, b) == Store(b, Argument(macro, i, b))

\* bs[i] is what is bound after the first i arguments.
Binds(macro, bs, n) ==
    /\ bs[0] = {} /\ Arguments(macro) = bs[Len(S.list)]
    /\ \A i \in 1 .. Len(S.list) : bs[i] = Bound(macro, i, bs[i - 1])
    /\ \A i \in 0 .. Len(S.list) : bs[i] \in SUBSET Variable(n)

LEMMA BoundType ==
  ASSUME NEW n \in Nat, frames \in Seq(Frame(n)), scope \in Seq(Names),
         S.name \in Names, S.list \in Seq(Names),
         NEW macro \in Macro(n), Len(macro.parameters) = Len(S.list),
         NEW i \in 1 .. Len(S.list), NEW b \in SUBSET Variable(n)
  PROVE  Bound(macro, i, b) \in SUBSET Variable(n)
  <1>1. PICK fs : fs = Append(frames, [variables |-> b])
    OBVIOUS
  <1>2. Held(fs, n)
    <2>1. /\ Len(frames) \in Nat /\ DOMAIN frames = 1 .. Len(frames)
          /\ \A k \in 1 .. Len(frames) : frames[k] \in Frame(n)
      BY LenProperties, ElementOfSeq
    <2>2. [variables |-> b]["variables"] = b
      OBVIOUS
    <2>3. \A k \in 1 .. Len(frames) : frames[k]["variables"] \subseteq Variable(n)
      BY <2>1 DEF Frame
    <2>4. PICK F : F = [variables |-> b]
      OBVIOUS
    <2>5. /\ Len(fs) = Len(frames) + 1 /\ DOMAIN fs = 1 .. Len(fs)
          /\ \A k \in 1 .. Len(frames) : fs[k] = frames[k]
          /\ fs[Len(frames) + 1] = F
      <3>1. frames \in Seq(Frame(n) \cup {F}) /\ F \in Frame(n) \cup {F}
        OBVIOUS
      <3> QED BY <1>1, <2>4, <3>1, AppendProperties, LenProperties
    <2> QED BY <2>1, <2>2, <2>3, <2>4, <2>5 DEF Held
  <1>3. Inside(macro) \in Seq(Names) /\ Len(Inside(macro)) \in Nat
    BY AppendProperties, LenProperties DEF Inside
  <1>4. macro.parameters[i] \in Names
    <2>1. macro.parameters \in Seq(Names)
      BY DEF Macro
    <2> QED BY <2>1, ElementOfSeq
  <1>5. PICK path : path = Append(Inside(macro), macro.parameters[i])
    OBVIOUS
  <1>6. path \in Seq(Names)
    BY <1>3, <1>4, <1>5, AppendProperties
  <1>7. PICK v : v = ValueIn(fs, Inside(macro), <<S.list[i]>>)
    OBVIOUS
  <1>8. v \in 0 .. n
    BY <1>2, <1>3, <1>7, ValueType
  <1>9. [name |-> <<path, 0>>, value |-> v] \in Variable(n)
    BY <1>6, <1>8 DEF Variable
  <1> QED BY <1>1, <1>5, <1>7, <1>9 DEF Bound, Argument, Store

LEMMA ArgumentsBound ==
  ASSUME NEW n \in Nat, frames \in Seq(Frame(n)), scope \in Seq(Names),
         S.name \in Names, S.list \in Seq(Names),
         NEW macro \in Macro(n), Len(macro.parameters) = Len(S.list)
  PROVE  \E bs : Binds(macro, bs, n)
  <1> DEFINE D == SUBSET Variable(n)
             L == Len(S.list)
             Term(i, f) == IF i = 0 \/ i > L THEN {} ELSE Bound(macro, i, f[i - 1])
             G == [i \in Nat |-> [f \in [0 .. i - 1 -> D] |-> Term(i, f)]]
  <1>1. L \in Nat
    BY LenProperties
  <1>2. \A i \in 1 .. L, b \in D : Bound(macro, i, b) \in D
    BY BoundType
  <1> HIDE DEF D, L
  <1>3. {} \in D
    BY DEF D
  <1>4. Builds(G, D)
    <2>1. ASSUME NEW i \in Nat, NEW f \in [0 .. i - 1 -> D]
          PROVE  Term(i, f) \in D
      <3>1. CASE i = 0 \/ i > L
        BY <1>3, <3>1
      <3>2. CASE ~(i = 0 \/ i > L)
        <4>1. i \in 1 .. L /\ f[i - 1] \in D
          BY <1>1, <3>2
        <4> QED BY <1>2, <3>2, <4>1
      <3> QED BY <3>1, <3>2
    <2> HIDE DEF Term
    <2> QED BY <2>1 DEF Builds
  <1>5. PICK g \in [Nat -> D] : \A i \in Nat : g[i] = Term(i, Prior(g, i))
    <2> HIDE DEF Term
    <2>1. PICK g \in [Nat -> D] : \A i \in Nat : g[i] = G[i][Prior(g, i)]
      <3> HIDE DEF G
      <3> QED BY <1>4, Recursive, SMTT(30)
    <2>2. \A i \in Nat : Prior(g, i) \in [0 .. i - 1 -> D]
      BY DEF Prior
    <2> QED BY <2>1, <2>2
  <1> DEFINE h == [i \in 0 .. L |-> g[i]]
             Value(f, i) == IF i = 0 THEN {} ELSE Bound(macro, i, f[i - 1])
  <1>6. ASSUME NEW i \in 0 .. L
        PROVE  h[i] = Value(h, i)
    <2>1. i \in Nat /\ i <= L /\ Prior(g, i) \in [0 .. i - 1 -> D]
      BY <1>1 DEF Prior
    <2>2. g[i] = IF i = 0 THEN {} ELSE Bound(macro, i, Prior(g, i)[i - 1])
      BY <1>1, <1>5, <2>1
    <2>3. i # 0 => Prior(g, i)[i - 1] = g[i - 1] /\ h[i - 1] = g[i - 1]
      BY <1>1 DEF Prior
    <2>4. h[i] = g[i]
      OBVIOUS
    <2> QED BY <2>2, <2>3, <2>4
  <1>7. h = [i \in 0 .. L |-> Value(h, i)]
    BY <1>6
  <1> DEFINE A == CHOOSE f : f = [i \in 0 .. L |-> Value(f, i)]
  <1>8. Arguments(macro) = A[L]
    BY DEF Arguments, L, Bound, Argument
  <1>9. A = [i \in 0 .. L |-> Value(A, i)]
    <2> HIDE DEF h, Value
    <2> QED BY <1>7
  <1>10. \A i \in 0 .. L : A[i] = Value(A, i)
    <2> HIDE DEF A, Value
    <2> QED BY <1>9
  <1> HIDE DEF A
  <1> DEFINE T == {i \in Nat : i <= L => A[i] \in D}
  <1>11. ASSUME NEW i \in Nat, \A j \in Nat : j < i => j \in T
         PROVE  i \in T
    <2>1. CASE i = 0 \/ i > L
      BY <1>1, <1>3, <1>10, <2>1
    <2>2. CASE ~(i = 0 \/ i > L)
      <3>1. i - 1 \in Nat /\ i - 1 < i /\ i - 1 <= L /\ i \in 1 .. L
        BY <1>1, <2>2
      <3>2. A[i - 1] \in D
        BY <1>11, <3>1
      <3> QED BY <1>2, <1>10, <2>2, <3>1, <3>2
    <2> QED BY <2>1, <2>2
  <1> HIDE DEF T
  <1>12. \A i \in Nat : i \in T
    BY <1>11, Induction
  <1>13. \A i \in 0 .. L : A[i] \in D
    BY <1>1, <1>12 DEF T
  <1>14. A[0] = {} /\ \A i \in 1 .. L : A[i] = Bound(macro, i, A[i - 1])
    BY <1>1, <1>10
  <1>15. Binds(macro, A, n)
    BY <1>8, <1>13, <1>14 DEF Binds, L, D
  <1> QED BY <1>15

LEMMA ArgumentsType ==
  ASSUME NEW n \in Nat, frames \in Seq(Frame(n)), scope \in Seq(Names),
         S.name \in Names, S.list \in Seq(Names),
         NEW macro \in Macro(n), Len(macro.parameters) = Len(S.list)
  PROVE  Arguments(macro) \in SUBSET Variable(n)
  <1>1. PICK bs : Binds(macro, bs, n)
    BY ArgumentsBound
  <1>2. Len(S.list) \in 0 .. Len(S.list)
    BY LenProperties
  <1> QED BY <1>1, <1>2 DEF Binds

\* Frames of a program of n statements, each macro known by its parameters.
FramesOK(fs, n) ==
    /\ fs \in Seq(Frame(n)) /\ Len(fs) <= MaxDepth
    /\ \A k \in DOMAIN fs : \A m \in fs[k].macros : Len(m.parameters) = m.name[2]

LEMMA FramesFacts ==
  ASSUME NEW n \in Nat, NEW fs, FramesOK(fs, n)
  PROVE  /\ Len(fs) \in Nat /\ DOMAIN fs = 1 .. Len(fs) /\ Len(fs) <= MaxDepth
         /\ \A k \in 1 .. Len(fs) :
              /\ fs[k] \in Frame(n)
              /\ fs[k]["macros"] = fs[k].macros /\ fs[k]["variables"] = fs[k].variables
              /\ fs[k].ip \in 1 .. n + 1 /\ fs[k].inlined \in BOOLEAN
              /\ fs[k].macros \subseteq Macro(n) /\ fs[k].variables \subseteq Variable(n)
              /\ \A m \in fs[k].macros : Len(m.parameters) = m.name[2]
  <1>1. Len(fs) \in Nat /\ DOMAIN fs = 1 .. Len(fs) /\ Len(fs) <= MaxDepth
    BY LenProperties DEF FramesOK
  <1>2. \A k \in 1 .. Len(fs) : fs[k] \in Frame(n)
    BY ElementOfSeq DEF FramesOK
  <1>3. \A r \in Frame(n) : r["macros"] = r.macros /\ r["variables"] = r.variables
    BY DEF Frame
  <1> QED BY <1>1, <1>2, <1>3 DEF FramesOK, Frame

\* gs are the frames fs but for the macros and variables of one of them.
Changed(fs, gs, macros, variables) ==
    /\ Len(gs) = Len(fs) /\ DOMAIN gs = 1 .. Len(fs)
    /\ \A k \in 1 .. Len(fs) :
         /\ gs[k].ip = fs[k].ip /\ gs[k].inlined = fs[k].inlined
         /\ gs[k].macros \subseteq fs[k].macros \cup macros
         /\ gs[k].variables \subseteq fs[k].variables \cup variables

LEMMA MacroStored ==
  ASSUME NEW n \in Nat, NEW fs, FramesOK(fs, n), NEW f \in 1 .. Len(fs),
         NEW object \in Macro(n), Len(object.parameters) = object.name[2],
         NEW gs, gs = [fs EXCEPT ![f]["macros"] = Store(@, object)]
  PROVE  FramesOK(gs, n) /\ Changed(fs, gs, {object}, {})
  <1>1. gs = [fs EXCEPT ![f]["macros"] = Store(@, object)]
    OBVIOUS
  <1>2. /\ Len(fs) \in Nat /\ DOMAIN fs = 1 .. Len(fs) /\ Len(fs) <= MaxDepth
        /\ fs \in Seq(Frame(n)) /\ \A k \in 1 .. Len(fs) : fs[k] \in Frame(n)
    BY FramesFacts DEF FramesOK
  <1>3. PICK r : r = fs[f]
    OBVIOUS
  <1>4. r \in Frame(n) /\ r["macros"] = r.macros /\ r.macros \subseteq Macro(n)
    BY <1>2, <1>3, FramesFacts
  <1>5. PICK M : M = Store(r.macros, object)
    OBVIOUS
  <1>6. M \subseteq Macro(n) /\ M \subseteq r.macros \cup {object}
    BY <1>4, <1>5 DEF Store
  <1>7. PICK t : t = [r EXCEPT !["macros"] = M]
    OBVIOUS
  <1>8. t \in Frame(n) /\ t.ip = r.ip /\ t.inlined = r.inlined /\ t.macros = M /\ t.variables = r.variables
    BY <1>4, <1>6, <1>7 DEF Frame
  <1>9. gs = [fs EXCEPT ![f] = t]
    BY <1>1, <1>3, <1>4, <1>5, <1>7
  <1>10. gs \in Seq(Frame(n)) /\ Len(gs) = Len(fs) /\ DOMAIN gs = 1 .. Len(fs)
         /\ \A k \in 1 .. Len(fs) : gs[k] = IF k = f THEN t ELSE fs[k]
    <2>1. /\ [fs EXCEPT ![f] = t] \in Seq(Frame(n)) /\ Len([fs EXCEPT ![f] = t]) = Len(fs)
          /\ \A k \in 1 .. Len(fs) : [fs EXCEPT ![f] = t][k] = IF k = f THEN t ELSE fs[k]
      BY <1>2, <1>8, ExceptSeq
    <2>2. DOMAIN [fs EXCEPT ![f] = t] = 1 .. Len(fs)
      BY <1>2
    <2> QED BY <1>9, <2>1, <2>2
  <1>11. \A k \in 1 .. Len(fs) : \A m \in gs[k].macros : Len(m.parameters) = m.name[2]
    <2>1. \A k \in 1 .. Len(fs) : \A m \in fs[k].macros : Len(m.parameters) = m.name[2]
      BY FramesFacts
    <2>2. \A m \in t.macros : m \in r.macros \/ m = object
      BY <1>6, <1>8
    <2>3. \A m \in t.macros : Len(m.parameters) = m.name[2]
      BY <1>3, <2>1, <2>2
    <2> QED BY <1>10, <2>1, <2>3
  <1>12. FramesOK(gs, n)
    BY <1>2, <1>10, <1>11 DEF FramesOK
  <1>13. Changed(fs, gs, {object}, {})
    BY <1>3, <1>6, <1>8, <1>10 DEF Changed
  <1> QED BY <1>1, <1>12, <1>13

LEMMA VariableStored ==
  ASSUME NEW n \in Nat, NEW fs, FramesOK(fs, n), NEW f \in 1 .. Len(fs), NEW object \in Variable(n),
         NEW gs, gs = [fs EXCEPT ![f]["variables"] = Store(@, object)]
  PROVE  FramesOK(gs, n) /\ Changed(fs, gs, {}, {object})
  <1>1. gs = [fs EXCEPT ![f]["variables"] = Store(@, object)]
    OBVIOUS
  <1>2. /\ Len(fs) \in Nat /\ DOMAIN fs = 1 .. Len(fs) /\ Len(fs) <= MaxDepth
        /\ fs \in Seq(Frame(n)) /\ \A k \in 1 .. Len(fs) : fs[k] \in Frame(n)
    BY FramesFacts DEF FramesOK
  <1>3. PICK r : r = fs[f]
    OBVIOUS
  <1>4. r \in Frame(n) /\ r["variables"] = r.variables /\ r.variables \subseteq Variable(n)
    BY <1>2, <1>3, FramesFacts
  <1>5. PICK M : M = Store(r.variables, object)
    OBVIOUS
  <1>6. M \subseteq Variable(n) /\ M \subseteq r.variables \cup {object}
    BY <1>4, <1>5 DEF Store
  <1>7. PICK t : t = [r EXCEPT !["variables"] = M]
    OBVIOUS
  <1>8. t \in Frame(n) /\ t.ip = r.ip /\ t.inlined = r.inlined /\ t.variables = M /\ t.macros = r.macros
    BY <1>4, <1>6, <1>7 DEF Frame
  <1>9. gs = [fs EXCEPT ![f] = t]
    BY <1>1, <1>3, <1>4, <1>5, <1>7
  <1>10. gs \in Seq(Frame(n)) /\ Len(gs) = Len(fs) /\ DOMAIN gs = 1 .. Len(fs)
         /\ \A k \in 1 .. Len(fs) : gs[k] = IF k = f THEN t ELSE fs[k]
    <2>1. /\ [fs EXCEPT ![f] = t] \in Seq(Frame(n)) /\ Len([fs EXCEPT ![f] = t]) = Len(fs)
          /\ \A k \in 1 .. Len(fs) : [fs EXCEPT ![f] = t][k] = IF k = f THEN t ELSE fs[k]
      BY <1>2, <1>8, ExceptSeq
    <2>2. DOMAIN [fs EXCEPT ![f] = t] = 1 .. Len(fs)
      BY <1>2
    <2> QED BY <1>9, <2>1, <2>2
  <1>11. \A k \in 1 .. Len(fs) : \A m \in gs[k].macros : Len(m.parameters) = m.name[2]
    BY <1>3, <1>8, <1>10, FramesFacts
  <1>12. FramesOK(gs, n)
    BY <1>2, <1>10, <1>11 DEF FramesOK
  <1>13. Changed(fs, gs, {}, {object})
    BY <1>3, <1>6, <1>8, <1>10 DEF Changed
  <1> QED BY <1>1, <1>12, <1>13

-----------------------------------------------------------------------------
(* Types *)

\* TypeOK, element by element.
LEMMA TypeFacts ==
  ASSUME TypeOK
  PROVE  /\ Len(program) \in Nat /\ DOMAIN program = 1 .. Len(program)
         /\ \A i \in 1 .. Len(program) : program[i] \in Statement(Len(program))
         /\ ip \in 1 .. Len(program) + 1
         /\ FramesOK(frames, Len(program))
         /\ Len(conditionals) \in Nat /\ DOMAIN conditionals = 1 .. Len(conditionals)
         /\ Len(scope) \in Nat /\ Len(entered) \in Nat
  <1>1. /\ program \in Seq(Statement(Len(program))) /\ conditionals \in Seq(BOOLEAN)
        /\ scope \in Seq(Names) /\ entered \in Seq(Nat)
    BY DEF TypeOK
  <1>2. /\ Len(program) \in Nat /\ DOMAIN program = 1 .. Len(program)
        /\ Len(conditionals) \in Nat /\ DOMAIN conditionals = 1 .. Len(conditionals)
        /\ Len(scope) \in Nat /\ Len(entered) \in Nat
    BY <1>1, LenProperties
  <1>3. \A i \in 1 .. Len(program) : program[i] \in Statement(Len(program))
    BY <1>1, ElementOfSeq
  <1> QED BY <1>2, <1>3 DEF TypeOK, FramesOK

LEMMA StatementFacts ==
  ASSUME TypeOK, ip <= Len(program)
  PROVE  /\ ip \in 1 .. Len(program)
         /\ S \in Statement(Len(program))
         /\ S.op \in Sources \cup Ends /\ S.name \in Names /\ S.level \in Levels
         /\ S.list \in Seq(Names) /\ Len(S.list) \in Nat /\ S.jump \in 0 .. Len(program) + 1
  <1>1. ip \in 1 .. Len(program) /\ S \in Statement(Len(program))
    BY TypeFacts DEF S
  <1>2. S.list \in Seq(Names)
    BY <1>1 DEF Statement
  <1>3. Len(S.list) \in Nat
    BY <1>2, LenProperties
  <1> QED BY <1>1, <1>2, <1>3 DEF Statement

LEMMA JumpType ==
  ASSUME TypeOK, Executing, Jump
  PROVE  ip' \in 1 .. Len(program) + 1
  <1>1. S.jump \in 0 .. Len(program) + 1
    BY StatementFacts DEF Executing
  <1> QED BY <1>1 DEF Jump, Unset

\* A step of execute() has only four variables to care about.
LEMMA ExecutedType ==
  ASSUME TypeOK, Executing, Executed,
         ip' \in 1 .. Len(program) + 1, FramesOK(frames', Len(program)),
         conditionals' \in Seq(BOOLEAN), scope' \in Seq(Names), entered' \in Seq(Nat)
  PROVE  TypeOK'
  <1>1. phase \in {"Query", "Write"} /\ phase' = phase
    BY DEF Executing, Executed
  <1>2. program' = program /\ blocks' = blocks
    BY DEF Executed
  <1>3. misplaced' \in BOOLEAN
    BY DEF Executed, TypeOK
  <1>4. phase' \in {"Tokenize", "Analyze", "Query", "Write", "Done", "Failed"} /\ phase' # "Tokenize"
    BY <1>1
  <1>5. /\ program' \in Seq(Statement(Len(program'))) /\ ip' \in 1 .. Len(program') + 1
        /\ blocks' \in Seq([ip : 1 .. Len(program'), type : Openers])
    BY <1>2 DEF TypeOK
  <1>6. /\ frames' \in Seq(Frame(Len(program'))) /\ Len(frames') <= MaxDepth
        /\ \A n \in DOMAIN frames' : \A m \in frames'[n].macros : Len(m.parameters) = m.name[2]
    BY <1>2 DEF FramesOK
  <1> QED BY <1>3, <1>4, <1>5, <1>6 DEF TypeOK

\* Removing the last element keeps the type of a sequence.
LEMMA ButlastFacts ==
  ASSUME NEW T, NEW q \in Seq(T), q # <<>>
  PROVE  /\ Len(q) \in Nat \ {0} /\ Top(q) \in T
         /\ Butlast(q) \in Seq(T) /\ Len(Butlast(q)) = Len(q) - 1
         /\ \A n \in 1 .. Len(q) - 1 : Butlast(q)[n] = q[n]
  <1>1. Len(q) \in Nat \ {0}
    BY EmptySeq, LenProperties
  <1>2. Top(q) \in T
    BY <1>1, ElementOfSeq DEF Top
  <1>3. /\ SubSeq(q, 1, Len(q) - 1) \in Seq(T)
        /\ Len(SubSeq(q, 1, Len(q) - 1)) = Len(q) - 1
        /\ \A n \in 1 .. Len(q) - 1 : SubSeq(q, 1, Len(q) - 1)[n] = q[n]
    <2>1. PICK m : m = Len(q) - 1
      OBVIOUS
    <2>2. m \in 1 - 1 .. Len(q) /\ 1 \in 1 .. Len(q) + 1 /\ \A j \in 1 .. m : (1 + j) - 1 = j
      BY <1>1, <2>1
    <2> QED BY <1>1, <2>1, <2>2, SubSeqProperties, Z3
  <1> QED BY <1>1, <1>2, <1>3 DEF Butlast

LEMMA PopType ==
  ASSUME NEW T, NEW q \in Seq(T)
  PROVE  Pop(q) \in Seq(T)
  BY ButlastFacts DEF Pop

LEMMA FramesPopped ==
  ASSUME NEW n \in Nat, NEW fs, FramesOK(fs, n), fs # <<>>
  PROVE  FramesOK(Butlast(fs), n)
  <1>1. fs \in Seq(Frame(n)) /\ Len(fs) <= MaxDepth
    BY DEF FramesOK
  <1>2. /\ Len(fs) \in Nat \ {0}
        /\ Butlast(fs) \in Seq(Frame(n)) /\ Len(Butlast(fs)) = Len(fs) - 1
        /\ \A k \in 1 .. Len(fs) - 1 : Butlast(fs)[k] = fs[k]
    BY <1>1, ButlastFacts
  <1>3. DOMAIN Butlast(fs) = 1 .. Len(fs) - 1
    BY <1>2, LenProperties
  <1>4. MaxDepth \in Nat
    BY DepthAssumption
  <1>5. DOMAIN fs = 1 .. Len(fs) /\ Len(Butlast(fs)) <= MaxDepth
    BY <1>1, <1>2, <1>4, LenProperties
  <1>6. \A k \in DOMAIN Butlast(fs) : k \in DOMAIN fs /\ Butlast(fs)[k] = fs[k]
    BY <1>2, <1>3, <1>5
  <1>7. \A k \in DOMAIN Butlast(fs) : \A m \in Butlast(fs)[k].macros : Len(m.parameters) = m.name[2]
    BY <1>6 DEF FramesOK
  <1> QED BY <1>2, <1>5, <1>7 DEF FramesOK

LEMMA FramesPushed ==
  ASSUME NEW n \in Nat, NEW fs, FramesOK(fs, n), Len(fs) < MaxDepth,
         NEW f \in Frame(n), f.macros = {}
  PROVE  FramesOK(Append(fs, f), n)
  <1>1. PICK gs : gs = Append(fs, f)
    OBVIOUS
  <1>2. /\ gs \in Seq(Frame(n)) /\ Len(gs) = Len(fs) + 1
        /\ \A k \in 1 .. Len(fs) : gs[k] = fs[k]
        /\ gs[Len(fs) + 1] = f
    BY <1>1, AppendProperties DEF FramesOK
  <1>3. Len(fs) \in Nat /\ MaxDepth \in Nat /\ DOMAIN gs = 1 .. Len(fs) + 1
    BY <1>2, DepthAssumption, LenProperties, FramesFacts
  <1>4. \A k \in 1 .. Len(fs) + 1 : \A m \in gs[k].macros : Len(m.parameters) = m.name[2]
    BY <1>2, <1>3, FramesFacts
  <1> QED BY <1>1, <1>2, <1>3, <1>4 DEF FramesOK

\* What is declared goes to a frame that is not inlined.
LEMMA Received ==
  ASSUME TypeOK, NEW level \in Levels, Receivers(level) # {}
  PROVE  LET f == Largest(Receivers(level))
         IN  f \in 1 .. Len(frames) /\ ~frames[f].inlined
  <1>1. Len(frames) \in Nat /\ DOMAIN frames = 1 .. Len(frames)
    BY TypeFacts, FramesFacts
  <1>2. \A f \in Receivers(level) : f \in DOMAIN frames /\ ~frames[f].inlined
    BY DEF Receivers, Levels
  <1>3. Receivers(level) \subseteq 0 .. Len(frames)
    BY <1>1, <1>2
  <1>4. Largest(Receivers(level)) \in Receivers(level)
    BY <1>1, <1>3, LargestFacts
  <1> QED BY <1>1, <1>2, <1>4

LEMMA MacroDeclared ==
  ASSUME TypeOK, NEW level \in Levels, NEW object \in Macro(Len(program)),
         Len(object.parameters) = object.name[2]
  PROVE  /\ FramesOK(Declare("macros", level, object), Len(program))
         /\ Changed(frames, Declare("macros", level, object), {object}, {})
  <1>1. Len(program) \in Nat /\ FramesOK(frames, Len(program))
    BY TypeFacts
  <1>2. CASE Receivers(level) = {}
    BY <1>1, <1>2, FramesFacts DEF Declare, Changed
  <1>3. CASE Receivers(level) # {}
    <2>1. PICK f \in 1 .. Len(frames) : f = Largest(Receivers(level))
      BY <1>3, Received
    <2>2. Declare("macros", level, object) = [frames EXCEPT ![f]["macros"] = Store(@, object)]
      BY <1>3, <2>1 DEF Declare
    <2> QED BY <1>1, <2>2, MacroStored
  <1> QED BY <1>2, <1>3

LEMMA VariableDeclared ==
  ASSUME TypeOK, NEW level \in Levels, NEW object \in Variable(Len(program))
  PROVE  /\ FramesOK(Declare("variables", level, object), Len(program))
         /\ Changed(frames, Declare("variables", level, object), {}, {object})
  <1>1. Len(program) \in Nat /\ FramesOK(frames, Len(program))
    BY TypeFacts
  <1>2. CASE Receivers(level) = {}
    BY <1>1, <1>2, FramesFacts DEF Declare, Changed
  <1>3. CASE Receivers(level) # {}
    <2>1. PICK f \in 1 .. Len(frames) : f = Largest(Receivers(level))
      BY <1>3, Received
    <2>2. Declare("variables", level, object) = [frames EXCEPT ![f]["variables"] = Store(@, object)]
      BY <1>3, <2>1 DEF Declare
    <2> QED BY <1>1, <2>2, VariableStored
  <1> QED BY <1>2, <1>3

\* The macro a definition makes.
Defined == [name |-> <<Append(scope, S.name), Len(S.list)>>, parameters |-> S.list,
            ip |-> ip + 1, inlined |-> S.op = "inline"]

LEMMA DefinedType ==
  ASSUME TypeOK, ip <= Len(program)
  PROVE  Defined \in Macro(Len(program)) /\ Len(Defined.parameters) = Defined.name[2]
  <1>1. Append(scope, S.name) \in Seq(Names)
    BY StatementFacts, AppendProperties DEF TypeOK
  <1>2. (S.op = "inline") \in BOOLEAN
    OBVIOUS
  <1>3. PICK b \in BOOLEAN : b = (S.op = "inline")
    BY <1>2, Zenon
  <1>4. ip + 1 \in 1 .. Len(program) + 1
    BY StatementFacts, TypeFacts
  <1>5. PICK s : s = Append(scope, S.name)
    OBVIOUS
  <1>6. [name |-> <<s, Len(S.list)>>, parameters |-> S.list, ip |-> ip + 1, inlined |-> b] \in Macro(Len(program))
    BY <1>1, <1>4, <1>5, StatementFacts DEF Macro
  <1> QED BY <1>3, <1>5, <1>6 DEF Defined

LEMMA DefineMacroFrames ==
  ASSUME TypeOK, DefineMacro
  PROVE  FramesOK(frames', Len(program)) /\ Changed(frames, frames', {Defined}, {})
  <1>1. ip <= Len(program) /\ frames' = Declare("macros", S.level, Defined)
    BY DEF DefineMacro, Executes, Executing, Defined
  <1> QED BY <1>1, StatementFacts, DefinedType, MacroDeclared

LEMMA DeclareVariableFrames ==
  ASSUME TypeOK, DeclareVariable
  PROVE  /\ FramesOK(frames', Len(program))
         /\ \E x \in Variable(Len(program)) : Changed(frames, frames', {}, {x})
  <1>1. ip <= Len(program) /\ S.level \in Levels
    BY StatementFacts DEF DeclareVariable, Executes, Executing
  <1>2. PICK path : path = Append(scope, S.name)
    OBVIOUS
  <1>3. path \in Seq(Names)
    BY <1>1, <1>2, StatementFacts, AppendProperties DEF TypeOK
  <1>4. PICK x : x = [name |-> <<path, 0>>, value |-> ip]
    OBVIOUS
  <1>5. x \in Variable(Len(program))
    BY <1>1, <1>3, <1>4, StatementFacts, TypeFacts DEF Variable
  <1>6. frames' = Declare("variables", S.level, x)
    BY <1>2, <1>4 DEF DeclareVariable
  <1> QED BY <1>1, <1>5, <1>6, VariableDeclared

LEMMA AssignFrames ==
  ASSUME TypeOK, Assign
  PROVE  /\ FramesOK(frames', Len(program))
         /\ \E x \in Variable(Len(program)) : Changed(frames, frames', {}, {x})
  <1>1. ip \in 1 .. Len(program) /\ Len(program) \in Nat
    BY StatementFacts, TypeFacts DEF Assign, Executes, Executing
  <1>2. /\ FramesOK(frames, Len(program)) /\ Len(frames) \in Nat
        /\ DOMAIN frames = 1 .. Len(frames) /\ Len(scope) \in Nat
    BY TypeFacts, FramesFacts
  <1>3. /\ Found(Variables, Len(frames), Len(scope))
        /\ \A x \in Variables : x[3] \in frames[x[1]]["variables"]
    BY <1>2, VisibleFacts DEF Variables, Named
  <1>4. PICK found \in Variables : found = Nearest(Variables)
    BY <1>2, <1>3, NearestFacts DEF Assign
  <1>5. found[1] \in 1 .. Len(frames) /\ found[3] \in frames[found[1]].variables
    <2>1. found[1] \in 1 .. Len(frames)
      BY <1>3 DEF Found
    <2> QED BY <1>1, <1>2, <1>3, <2>1, FramesFacts
  <1>6. found[3] \in Variable(Len(program))
    BY <1>1, <1>2, <1>5, FramesFacts
  <1>7. PICK x : x = [found[3] EXCEPT !.value = ip]
    OBVIOUS
  <1>8. x \in Variable(Len(program))
    BY <1>1, <1>6, <1>7 DEF Variable
  <1>9. PICK f : f = found[1]
    OBVIOUS
  <1>10. frames' = [frames EXCEPT ![f].variables = Store(@, x)]
    BY <1>4, <1>7, <1>9 DEF Assign
  <1>11. frames' = [frames EXCEPT ![f]["variables"] = Store(@, x)]
    BY <1>10
  <1> QED BY <1>1, <1>2, <1>5, <1>8, <1>9, <1>11, VariableStored

LEMMA TypeInit == ASSUME Init PROVE TypeOK
  <1>1. /\ program = <<>> /\ Len(program) = 0 /\ ip = 1 /\ frames = <<>> /\ Len(frames) = 0
        /\ DOMAIN frames = {}
    BY DEF Init
  <1>2. \A T : <<>> \in Seq(T)
    BY EmptySeq
  <1>3. 0 <= MaxDepth
    BY DepthAssumption
  <1>4. /\ program \in Seq(Statement(Len(program))) /\ blocks \in Seq([ip : 1 .. Len(program), type : Openers])
        /\ frames \in Seq(Frame(Len(program))) /\ conditionals \in Seq(BOOLEAN) /\ scope \in Seq(Names)
        /\ entered \in Seq(Nat)
    BY <1>2 DEF Init
  <1>5. ip \in 1 .. Len(program) + 1 /\ Len(frames) <= MaxDepth
    BY <1>1, <1>3
  <1> QED BY <1>1, <1>4, <1>5 DEF Init, TypeOK

LEMMA SourceType == ASSUME TypeOK, Source PROVE TypeOK'
  <1>1. PICK p \in Programs : program' =
          [i \in DOMAIN p |-> [op |-> p[i].op, name |-> p[i].name, level |-> p[i].level,
                               list |-> p[i].list, jump |-> Unset]]
    BY DEF Source
  <1>2. p \in Seq(Line)
    BY ProgramsAssumption
  <1>3. PICK n \in Nat : n = Len(p) /\ DOMAIN p = 1 .. n
    BY <1>2, LenProperties
  <1>4. ASSUME NEW i \in 1 .. n
        PROVE  program'[i] \in Statement(n)
    <2>1. p[i] \in Line
      BY <1>2, <1>3, ElementOfSeq
    <2>2. program'[i] = [op |-> p[i].op, name |-> p[i].name, level |-> p[i].level,
                         list |-> p[i].list, jump |-> Unset]
      BY <1>1, <1>3
    <2> QED BY <2>1, <2>2 DEF Line, Statement, Unset
  <1>5. DOMAIN program' = 1 .. n /\ program' = [i \in 1 .. n |-> program'[i]]
    BY <1>1, <1>3
  <1>6. program' \in Seq(Statement(n)) /\ Len(program') = n
    <2>1. program' \in [1 .. n -> Statement(n)]
      BY <1>4, <1>5
    <2>2. program' \in Seq(Statement(n))
      BY <2>1, SeqDef
    <2>3. Len(program') = n
      BY <1>3, <1>5, <2>2, LenProperties
    <2> QED BY <2>2, <2>3
  <1>7. ip' \in 1 .. n + 1
    <2>1. Len(program) = 0
      BY DEF Source
    <2> QED BY <1>3, <2>1 DEF Source, TypeOK
  <1>8. phase = "Tokenize" /\ blocks' = <<>> /\ frames' = <<>>
    BY DEF Source, TypeOK
  <1>9. /\ blocks' \in Seq([ip : 1 .. Len(program'), type : Openers])
        /\ frames' \in Seq(Frame(Len(program'))) /\ Len(frames') <= MaxDepth /\ DOMAIN frames' = {}
    BY <1>8, EmptySeq, DepthAssumption
  <1>10. misplaced' \in BOOLEAN
    BY DEF Source, TypeOK
  <1>11. phase' = "Tokenize"
    BY <1>8 DEF Source
  <1>12. conditionals' \in Seq(BOOLEAN) /\ scope' \in Seq(Names) /\ entered' \in Seq(Nat)
    BY DEF Source, TypeOK
  <1> QED BY <1>6, <1>7, <1>8, <1>9, <1>10, <1>11, <1>12 DEF TypeOK

\* A step of analyze() has only four variables to care about.
LEMMA AnalyzedType ==
  ASSUME TypeOK, Analyzing, Analyzed, Len(program') = Len(program),
         program' \in Seq(Statement(Len(program))),
         blocks' \in Seq([ip : 1 .. Len(program), type : Openers]), misplaced' \in BOOLEAN
  PROVE  TypeOK'
  <1>1. phase' = "Analyze" /\ ip' = ip + 1 /\ ip <= Len(program)
    BY DEF Analyzing, Analyzed
  <1>2. ip' \in 1 .. Len(program') + 1
    BY <1>1, TypeFacts
  <1>3. frames' = frames /\ conditionals' = conditionals /\ scope' = scope /\ entered' = entered
    BY DEF Analyzed
  <1>4. /\ frames' \in Seq(Frame(Len(program'))) /\ Len(frames') <= MaxDepth
        /\ \A n \in DOMAIN frames' : \A m \in frames'[n].macros : Len(m.parameters) = m.name[2]
    BY <1>3 DEF TypeOK
  <1>5. conditionals' \in Seq(BOOLEAN) /\ scope' \in Seq(Names) /\ entered' \in Seq(Nat)
    BY <1>3 DEF TypeOK
  <1> QED BY <1>1, <1>2, <1>4, <1>5 DEF TypeOK

\* A statement with another jump, or a typed end.
LEMMA StatementJumps ==
  ASSUME NEW n \in Nat, NEW s \in Statement(n), NEW j \in 0 .. n + 1
  PROVE  [s EXCEPT !.jump = j] \in Statement(n)
  BY DEF Statement

LEMMA StatementChanged ==
  ASSUME NEW n \in Nat, NEW s \in Statement(n), NEW op \in Sources \cup Ends, NEW j \in 0 .. n + 1
  PROVE  [s EXCEPT !.op = op, !.jump = j] \in Statement(n)
  BY DEF Statement

LEMMA AnalyzeType == ASSUME TypeOK, Analyze PROVE TypeOK'
  <1> DEFINE n == Len(program)
             B == [ip : 1 .. n, type : Openers]
  <1>1. /\ n \in Nat /\ DOMAIN program = 1 .. n /\ ip \in 1 .. n + 1
        /\ program \in Seq(Statement(n)) /\ blocks \in Seq(B) /\ misplaced \in BOOLEAN
        /\ \A i \in 1 .. n : program[i] \in Statement(n)
    BY TypeFacts DEF TypeOK
  <1>2. CASE OpenBlock
    <2>1. [ip |-> ip, type |-> S.op] \in B
      BY <1>1, <1>2 DEF OpenBlock, Analyzing
    <2>2. blocks' \in Seq(B)
      BY <1>1, <1>2, <2>1, AppendProperties DEF OpenBlock
    <2>3. program' = program /\ misplaced' \in BOOLEAN
      BY <1>2 DEF OpenBlock, TypeOK
    <2> QED BY <1>1, <1>2, <2>2, <2>3, AnalyzedType DEF OpenBlock
  <1>3. CASE CloseBlock
    <2>1. PICK b : b = Top(blocks)
      OBVIOUS
    <2>2. b \in B /\ Butlast(blocks) \in Seq(B)
      BY <1>1, <1>3, <2>1, ButlastFacts DEF CloseBlock
    <2>3. ip \in 1 .. n /\ S = program[ip] /\ S \in Statement(n)
      <3>1. ip <= Len(program) /\ S = program[ip]
        BY <1>3 DEF CloseBlock, Analyzing, S
      <3> QED BY <3>1, StatementFacts
    <2>4. PICK e : e = [S EXCEPT !.op = End(b.type), !.jump = IF b.type = "while" THEN b.ip ELSE @]
      OBVIOUS
    <2>5. e \in Statement(n)
      <3>1. End(b.type) \in Ends
        BY <2>2, Kinds
      <3>2. (IF b.type = "while" THEN b.ip ELSE S.jump) \in 0 .. n + 1
        BY <1>1, <2>2, <2>3 DEF Statement
      <3>3. PICK op, j : op = End(b.type) /\ j = IF b.type = "while" THEN b.ip ELSE S.jump
        OBVIOUS
      <3>4. e = [S EXCEPT !.op = op, !.jump = j]
        BY <2>4, <3>3
      <3> QED BY <1>1, <2>3, <3>1, <3>2, <3>3, <3>4, StatementChanged
    <2>6. PICK t : t = CloseTarget(b.type)
      OBVIOUS
    <2>7. t \in 0 .. n + 1
      BY <1>1, <2>3, <2>6 DEF CloseTarget
    <2>8. program' = [i \in 1 .. n |->
            IF i = ip THEN e
            ELSE IF i = b.ip /\ b.type \in Macros \cup {"if", "while"}
                   THEN [program[i] EXCEPT !.jump = t] ELSE program[i]]
      BY <1>1, <1>3, <2>1, <2>4, <2>6 DEF CloseBlock
    <2>9. \A i \in 1 .. n : [program[i] EXCEPT !.jump = t] \in Statement(n)
      BY <1>1, <2>7, StatementJumps
    <2>10. program' \in [1 .. n -> Statement(n)]
      BY <1>1, <2>5, <2>8, <2>9
    <2>11. program' \in Seq(Statement(n)) /\ Len(program') = n
      <3>1. program' \in Seq(Statement(n))
        BY <1>1, <2>10, SeqDef
      <3>2. DOMAIN program' = 1 .. n
        BY <2>10
      <3> QED BY <1>1, <3>1, <3>2, LenProperties
    <2>12. blocks' \in Seq(B) /\ misplaced' \in BOOLEAN
      BY <1>3, <2>2 DEF CloseBlock, TypeOK
    <2> QED BY <1>1, <1>3, <2>11, <2>12, AnalyzedType DEF CloseBlock
  <1>4. CASE Branch
    <2>1. PICK b : b = Top(blocks)
      OBVIOUS
    <2>2. b \in B /\ Len(blocks) \in Nat \ {0} /\ b = blocks[Len(blocks)]
      BY <1>1, <1>4, <2>1, ButlastFacts DEF Branch, Top
    <2>3. ip \in 1 .. n
      BY <1>1, <1>4 DEF Branch, Analyzing
    <2>4. PICK s : s = [program[b.ip] EXCEPT !.jump = ip]
      OBVIOUS
    <2>5. s \in Statement(n)
      <3>1. b.ip \in 1 .. n /\ ip \in 0 .. n + 1
        BY <1>1, <2>2, <2>3
      <3> QED BY <1>1, <2>4, <3>1, StatementJumps
    <2>6. program' = [program EXCEPT ![b.ip] = s]
      BY <1>4, <2>1, <2>4 DEF Branch, BranchTarget
    <2>7. program' \in Seq(Statement(n)) /\ Len(program') = n
      BY <1>1, <2>2, <2>5, <2>6, ExceptSeq
    <2>8. PICK c : c = [b EXCEPT !.ip = ip]
      OBVIOUS
    <2>9. c \in B
      BY <2>2, <2>3, <2>8
    <2>10. blocks' = [blocks EXCEPT ![Len(blocks)] = c]
      BY <1>4, <2>2, <2>8 DEF Branch
    <2>11. blocks' \in Seq(B)
      BY <1>1, <2>2, <2>9, <2>10, ExceptSeq
    <2>12. misplaced' \in BOOLEAN
      BY <1>1, <1>4, Zenon DEF Branch
    <2> QED BY <1>1, <1>4, <2>7, <2>11, <2>12, AnalyzedType DEF Branch
  <1>5. CASE Pass
    <2>1. program' = program /\ blocks' = blocks /\ misplaced' \in BOOLEAN
      BY <1>5 DEF Pass, TypeOK
    <2> QED BY <1>1, <1>5, <2>1, AnalyzedType DEF Pass
  <1>6. CASE Unmatched
    BY <1>6 DEF Unmatched, TypeOK
  <1> QED BY <1>2, <1>3, <1>4, <1>5, <1>6 DEF Analyze

\* The macro a call invokes is one of a frame, with as many parameters.
LEMMA CalleeFacts ==
  ASSUME TypeOK, ip <= Len(program), Callees # {}
  PROVE  \E x \in Callees :
           /\ Callee = x[3] /\ x[1] \in 1 .. Len(frames) /\ x[2] \in 0 .. Len(scope)
           /\ Callee \in frames[x[1]].macros
           /\ Callee.name = <<SubSeq(scope, 1, x[2]) \o <<S.name>>, Len(S.list)>>
           /\ Callee \in Macro(Len(program)) /\ Len(Callee.parameters) = Len(S.list)
  <1>1. /\ FramesOK(frames, Len(program)) /\ Len(frames) \in Nat /\ Len(program) \in Nat
        /\ DOMAIN frames = 1 .. Len(frames) /\ Len(scope) \in Nat
    BY TypeFacts, FramesFacts
  <1>2. /\ Found(Callees, Len(frames), Len(scope))
        /\ \A x \in Callees : /\ x[3] \in frames[x[1]]["macros"]
                              /\ x[3].name = <<SubSeq(scope, 1, x[2]) \o <<S.name>>, Len(S.list)>>
    <2>1. PICK path, arity, found : /\ path = <<S.name>> /\ arity = Len(S.list) /\ found = Callees
                                    /\ found = VisibleIn(frames, scope, "macros", path, arity)
      BY DEF Callees
    <2>2. Found(found, Len(frames), Len(scope)) /\ Named(found, frames, scope, "macros", path, arity)
      BY <1>1, <2>1, VisibleFacts
    <2> QED BY <2>1, <2>2 DEF Named
  <1>3. PICK x \in Callees : x = Nearest(Callees)
    BY <1>1, <1>2, NearestFacts
  <1>4. x[1] \in 1 .. Len(frames) /\ x[2] \in 0 .. Len(scope)
    BY <1>2 DEF Found
  <1>5. x[3] \in frames[x[1]].macros /\ x[3] \in Macro(Len(program)) /\ Len(x[3].parameters) = x[3].name[2]
    BY <1>1, <1>2, <1>4, FramesFacts
  <1>6. x[3].name[2] = Len(S.list)
    BY <1>2
  <1>7. Callee = x[3]
    BY <1>3 DEF Callee
  <1> QED BY <1>2, <1>4, <1>5, <1>6, <1>7

\* The frame of an invocation.
Invocation == [ip |-> ip + 1, inlined |-> Callee.inlined, macros |-> {}, variables |-> Arguments(Callee)]

LEMMA CallType ==
  ASSUME TypeOK, Call
  PROVE  /\ FramesOK(frames', Len(program)) /\ scope' \in Seq(Names) /\ ip' \in 1 .. Len(program) + 1
         /\ Invocation \in Frame(Len(program)) /\ Invocation.macros = {}
         /\ Invocation.ip = ip + 1 /\ Invocation.inlined = Callee.inlined
  <1>1. ip <= Len(program) /\ Callees # {} /\ Len(frames) < MaxDepth
    BY DEF Call, Executes, Executing
  <1>2. Callee \in Macro(Len(program)) /\ Len(Callee.parameters) = Len(S.list)
    BY <1>1, CalleeFacts
  <1>3. Len(program) \in Nat /\ FramesOK(frames, Len(program)) /\ ip + 1 \in 1 .. Len(program) + 1
    BY <1>1, TypeFacts, StatementFacts
  <1>4. S.name \in Names /\ S.list \in Seq(Names) /\ scope \in Seq(Names)
    BY <1>1, StatementFacts DEF TypeOK
  <1>5. Arguments(Callee) \in SUBSET Variable(Len(program))
    BY <1>2, <1>3, <1>4, ArgumentsType DEF FramesOK
  <1>6. PICK c, a : c = Callee /\ a = Arguments(Callee)
    OBVIOUS
  <1>7. c.inlined \in BOOLEAN /\ c.ip \in 1 .. Len(program) + 1
    BY <1>2, <1>6 DEF Macro
  <1>8. Invocation = [ip |-> ip + 1, inlined |-> c.inlined, macros |-> {}, variables |-> a]
    BY <1>6 DEF Invocation
  <1>9. /\ Invocation \in Frame(Len(program)) /\ Invocation.macros = {}
        /\ Invocation.ip = ip + 1 /\ Invocation.inlined = Callee.inlined
    BY <1>3, <1>5, <1>6, <1>7, <1>8 DEF Frame
  <1>10. FramesOK(frames', Len(program))
    <2>1. frames' = Append(frames, Invocation)
      BY DEF Call, Invocation
    <2> QED BY <1>1, <1>3, <1>9, <2>1, FramesPushed
  <1>11. scope' \in Seq(Names)
    <2>1. scope' = scope \/ scope' = Append(scope, S.name)
      BY DEF Call, Inside
    <2> QED BY <1>4, <2>1, AppendProperties
  <1> QED BY <1>6, <1>7, <1>9, <1>10, <1>11 DEF Call

LEMMA MatchedType ==
  ASSUME TypeOK, NEW match \in BOOLEAN, Matched(match), conditionals # <<>>
  PROVE  conditionals' \in Seq(BOOLEAN) /\ entered' \in Seq(Nat)
  <1>1. conditionals \in Seq(BOOLEAN) /\ entered \in Seq(Nat)
    BY DEF TypeOK
  <1>2. Len(conditionals) \in 1 .. Len(conditionals)
    BY <1>1, ButlastFacts
  <1>3. conditionals' \in Seq(BOOLEAN)
    <2>1. conditionals' = [conditionals EXCEPT ![Len(conditionals)] = match]
      BY DEF Matched
    <2> QED BY <1>1, <1>2, <2>1, ExceptSeq
  <1>4. entered' \in Seq(Nat)
    <2>1. PICK k : k = entered[Len(entered)] + IF match THEN 1 ELSE 0
      OBVIOUS
    <2>2. entered' = [entered EXCEPT ![Len(entered)] = k]
      BY <2>1 DEF Matched
    <2>3. CASE entered = <<>>
      <3>1. entered' = entered
        BY <2>2, <2>3
      <3> QED BY <1>1, <3>1
    <2>4. CASE entered # <<>>
      <3>1. Len(entered) \in 1 .. Len(entered) /\ entered[Len(entered)] \in Nat
        BY <1>1, <2>4, ButlastFacts DEF Top
      <3>2. k \in Nat
        BY <2>1, <3>1
      <3> QED BY <1>1, <2>2, <3>1, <3>2, ExceptSeq
    <2> QED BY <2>3, <2>4
  <1> QED BY <1>3, <1>4

LEMMA ExecuteType == ASSUME TypeOK, Execute PROVE TypeOK'
  <1> DEFINE n == Len(program)
  <1>1. /\ n \in Nat /\ ip \in 1 .. n + 1 /\ FramesOK(frames, n) /\ conditionals \in Seq(BOOLEAN)
        /\ scope \in Seq(Names) /\ entered \in Seq(Nat)
    BY TypeFacts DEF TypeOK
  <1>2. Executing => ip + 1 \in 1 .. n + 1 /\ S.name \in Names
    BY <1>1, StatementFacts DEF Executing
  <1> HIDE DEF n
  <1>3. CASE DefineMacro
    <2>1. Executing /\ Executed /\ Jump /\ UNCHANGED <<conditionals, scope, entered>>
      BY <1>3 DEF DefineMacro, Executes
    <2>2. FramesOK(frames', n)
      BY <1>3, DefineMacroFrames DEF n
    <2> QED BY <1>1, <2>1, <2>2, JumpType, ExecutedType DEF n
  <1>4. CASE DeclareVariable
    <2>1. Executing /\ Executed /\ ip' = ip + 1 /\ UNCHANGED <<conditionals, scope, entered>>
      BY <1>4 DEF DeclareVariable, Executes
    <2>2. FramesOK(frames', n)
      BY <1>4, DeclareVariableFrames DEF n
    <2> QED BY <1>1, <1>2, <2>1, <2>2, ExecutedType DEF n
  <1>5. CASE Assign
    <2>1. Executing /\ Executed /\ ip' = ip + 1 /\ UNCHANGED <<conditionals, scope, entered>>
      BY <1>5 DEF Assign, Executes
    <2>2. FramesOK(frames', n)
      BY <1>5, AssignFrames DEF n
    <2> QED BY <1>1, <1>2, <2>1, <2>2, ExecutedType DEF n
  <1>6. CASE If
    <2>1. /\ Executing /\ Executed /\ UNCHANGED <<frames, scope>>
          /\ \E match \in BOOLEAN : /\ conditionals' = Append(conditionals, match)
                                    /\ entered' = Append(entered, IF match THEN 1 ELSE 0)
                                    /\ IF match THEN ip' = ip + 1 ELSE Jump
      BY <1>6 DEF If, Executes
    <2>2. ip' \in 1 .. n + 1
      BY <1>2, <2>1, JumpType DEF n
    <2>3. conditionals' \in Seq(BOOLEAN) /\ entered' \in Seq(Nat)
      BY <1>1, <2>1, AppendProperties
    <2> QED BY <1>1, <2>1, <2>2, <2>3, ExecutedType DEF n
  <1>7. CASE ElseIf
    <2>1. Executing /\ Executed /\ conditionals # <<>> /\ UNCHANGED <<frames, scope>>
      BY <1>7 DEF ElseIf, Executes
    <2>2. ip' \in 1 .. n + 1
      BY <1>2, <1>7, <2>1, JumpType DEF ElseIf, n
    <2>3. conditionals' \in Seq(BOOLEAN) /\ entered' \in Seq(Nat)
      BY <1>1, <1>7, <2>1, MatchedType DEF ElseIf
    <2> QED BY <1>1, <2>1, <2>2, <2>3, ExecutedType DEF n
  <1>8. CASE Else
    <2>1. Executing /\ Executed /\ conditionals # <<>> /\ UNCHANGED <<frames, scope>>
      BY <1>8 DEF Else, Executes
    <2>2. ip' \in 1 .. n + 1
      BY <1>2, <1>8, <2>1, JumpType DEF Else, n
    <2>3. conditionals' \in Seq(BOOLEAN) /\ entered' \in Seq(Nat)
      BY <1>1, <1>8, <2>1, MatchedType DEF Else
    <2> QED BY <1>1, <2>1, <2>2, <2>3, ExecutedType DEF n
  <1>9. CASE EndIf
    <2>1. /\ Executing /\ Executed /\ ip' = ip + 1 /\ UNCHANGED <<frames, scope>>
          /\ conditionals' = Pop(conditionals) /\ entered' = Pop(entered)
      BY <1>9 DEF EndIf, Executes
    <2>2. conditionals' \in Seq(BOOLEAN) /\ entered' \in Seq(Nat)
      BY <1>1, <2>1, PopType
    <2> QED BY <1>1, <1>2, <2>1, <2>2, ExecutedType DEF n
  <1>10. CASE While \/ EndWhile \/ Plain
    <2>1. Executing /\ Executed /\ UNCHANGED <<frames, conditionals, scope, entered>> /\ (ip' = ip + 1 \/ Jump)
      BY <1>10 DEF While, EndWhile, Plain, Executes
    <2>2. ip' \in 1 .. n + 1
      BY <1>2, <2>1, JumpType DEF n
    <2> QED BY <1>1, <2>1, <2>2, ExecutedType DEF n
  <1>11. CASE Call
    <2>1. Executing /\ Executed /\ UNCHANGED <<conditionals, entered>>
      BY <1>11 DEF Call, Executes
    <2> QED BY <1>1, <1>11, <2>1, CallType, ExecutedType DEF n
  <1>12. CASE Return
    <2>1. /\ Executing /\ Executed /\ UNCHANGED <<conditionals, entered>> /\ frames # <<>>
          /\ frames' = Butlast(frames) /\ ip' = Top(frames).ip
          /\ scope' = scope \/ scope' = Pop(scope)
      BY <1>12 DEF Return, Executes
    <2>2. FramesOK(frames', n)
      BY <1>1, <2>1, FramesPopped
    <2>3. ip' \in 1 .. n + 1
      <3>1. Top(frames) \in Frame(n)
        BY <1>1, <2>1, ButlastFacts DEF FramesOK
      <3> QED BY <2>1, <3>1 DEF Frame
    <2>4. scope' \in Seq(Names)
      BY <1>1, <2>1, PopType
    <2> QED BY <1>1, <2>1, <2>2, <2>3, <2>4, ExecutedType DEF n
  <1>13. CASE OpenScope
    <2>1. /\ Executing /\ Executed /\ ip' = ip + 1 /\ UNCHANGED <<frames, conditionals, entered>>
          /\ scope' = Append(scope, S.name)
      BY <1>13 DEF OpenScope, Executes
    <2>2. scope' \in Seq(Names)
      BY <1>1, <1>2, <2>1, AppendProperties
    <2> QED BY <1>1, <1>2, <2>1, <2>2, ExecutedType DEF n
  <1>14. CASE CloseScope
    <2>1. /\ Executing /\ Executed /\ ip' = ip + 1 /\ UNCHANGED <<frames, conditionals, entered>>
          /\ scope' = Pop(scope)
      BY <1>14 DEF CloseScope, Executes
    <2>2. scope' \in Seq(Names)
      BY <1>1, <2>1, PopType
    <2> QED BY <1>1, <1>2, <2>1, <2>2, ExecutedType DEF n
  <1>15. CASE Abort
    BY <1>15 DEF Abort, TypeOK
  <1> QED BY <1>3, <1>4, <1>5, <1>6, <1>7, <1>8, <1>9, <1>10, <1>11, <1>12, <1>13, <1>14, <1>15 DEF Execute

LEMMA StartExecuteType ==
  ASSUME TypeOK, NEW p \in {"Query", "Write"}, StartExecute(p)
  PROVE  TypeOK'
  <1>1. /\ program' = program /\ blocks' = blocks /\ ip' = 1 /\ phase' = p
        /\ conditionals' = <<>> /\ scope' = <<>> /\ entered' = <<>> /\ frames' = <<Root>>
    BY DEF StartExecute
  <1>2. Len(program) \in Nat /\ ip' \in 1 .. Len(program') + 1
    BY <1>1, TypeFacts
  <1>3. Root \in Frame(Len(program)) /\ Root.macros = {}
    BY <1>2 DEF Root, Frame
  <1>4. /\ frames' \in Seq(Frame(Len(program))) /\ Len(frames') = 1 /\ DOMAIN frames' = 1 .. 1
        /\ frames'[1] = Root
    BY <1>1, <1>3
  <1>5. /\ Len(frames') <= MaxDepth
        /\ \A n \in DOMAIN frames' : \A m \in frames'[n].macros : Len(m.parameters) = m.name[2]
    BY <1>3, <1>4, DepthAssumption
  <1>6. conditionals' \in Seq(BOOLEAN) /\ scope' \in Seq(Names) /\ entered' \in Seq(Nat)
    BY <1>1, EmptySeq
  <1>7. misplaced' \in BOOLEAN
    BY DEF StartExecute, TypeOK
  <1>8. /\ program' \in Seq(Statement(Len(program')))
        /\ blocks' \in Seq([ip : 1 .. Len(program'), type : Openers])
    BY <1>1 DEF TypeOK
  <1> QED BY <1>1, <1>2, <1>4, <1>5, <1>6, <1>7, <1>8 DEF TypeOK

LEMMA TypeStep == ASSUME TypeOK, [Next]_vars PROVE TypeOK'
  <1>1. CASE Source
    BY <1>1, SourceType
  <1>2. CASE StartAnalyze
    <2>1. blocks' = <<>> /\ phase' = "Analyze" /\ ip' = 1
      BY <1>2 DEF StartAnalyze
    <2>2. UNCHANGED <<program, frames, conditionals, scope, misplaced, entered>>
      BY <1>2 DEF StartAnalyze
    <2>3. ip' \in 1 .. Len(program') + 1
      BY <2>1, <2>2, TypeFacts
    <2>4. blocks' \in Seq([ip : 1 .. Len(program'), type : Openers])
      BY <2>1, EmptySeq
    <2> QED BY <2>1, <2>2, <2>3, <2>4 DEF TypeOK
  <1>3. CASE Analyze
    BY <1>3, AnalyzeType
  <1>4. CASE StartQuery
    BY <1>4, StartExecuteType DEF StartQuery
  <1>5. CASE StartWrite
    BY <1>5, StartExecuteType DEF StartWrite
  <1>6. CASE Finish
    <2>1. FramesOK(Pop(frames), Len(program))
      BY TypeFacts, FramesPopped DEF Pop
    <2> QED BY <1>6, <2>1 DEF Finish, TypeOK, FramesOK
  <1>7. CASE Execute
    BY <1>7, ExecuteType
  <1>8. CASE UNCHANGED vars
    BY <1>8 DEF vars, TypeOK
  <1> QED BY <1>1, <1>2, <1>3, <1>4, <1>5, <1>6, <1>7, <1>8 DEF Next, Assemble

\* Whatever the programs, every jump and every return stays in the program, and
\* every macro that is invoked has as many parameters as there are arguments.
THEOREM TypeCorrect == Spec => []TypeOK
  BY TypeInit, TypeStep, PTL DEF Spec

-----------------------------------------------------------------------------
(* What analyze() leaves behind *)

AnalysisOK ==
    phase \in {"Analyze", "Query", "Write"} /\ ~misplaced =>
      Annotated(program, IF phase = "Analyze" THEN ip ELSE Len(program) + 1, blocks)

LEMMA StartAnnotated == \A p : Annotated(p, 1, <<>>)
  <1> TAKE p
  <1>1. ContextIn(p)[1] = Outside
    BY ContextStep
  <1>2. Opener(p, 1) = 0 /\ Below(p, <<>>, Len(<<>>) + 1) = 0
    BY <1>1 DEF Opener, Outside, Below
  <1>3. <<>> \in Seq(Block) /\ Len(<<>>) = 0
    BY EmptySeq
  <1> QED BY <1>2, <1>3 DEF Annotated

LEMMA AnalyzeAnnotates ==
  ASSUME TypeOK, AnalysisOK, Analyze, phase' = "Analyze", ~misplaced'
  PROVE  Annotated(program', ip', blocks')
  <1>1. Analyzing /\ Analyzed /\ phase = "Analyze" /\ ip' = ip + 1 /\ ip \in Nat \ {0} /\ ip <= Len(program)
    <2>1. Analyzing /\ Analyzed
      BY DEF Analyze, OpenBlock, CloseBlock, Branch, Pass, Unmatched, Analyzing
    <2> QED BY <2>1, TypeFacts DEF Analyzing, Analyzed
  <1>2. ~misplaced
    BY Zenon DEF Analyze, OpenBlock, CloseBlock, Branch, Pass, Unmatched
  <1>3. PICK p, q, i, bl, cl : p = program /\ q = program' /\ i = ip /\ bl = blocks /\ cl = blocks'
    OBVIOUS
  <1>4. Annotated(p, i, bl) /\ i \in Nat \ {0} /\ i <= Len(p) /\ ip' = i + 1
    BY <1>1, <1>2, <1>3 DEF AnalysisOK
  <1>5. bl \in Seq(Block) /\ DOMAIN p = 1 .. Len(p) /\ Len(p) \in Nat
    BY <1>3, <1>4, TypeFacts DEF Annotated
  <1>6. CASE OpenBlock
    <2>1. q = p /\ p[i].op \in Openers /\ cl = Append(bl, [ip |-> i, type |-> p[i].op])
      BY <1>3, <1>6 DEF OpenBlock, S
    <2>2. Annotated(p, i + 1, Append(bl, [ip |-> i, type |-> p[i].op]))
      BY <1>4, <2>1, OpenAnnotated
    <2> QED BY <1>3, <1>4, <2>1, <2>2
  <1>7. CASE CloseBlock
    <2>1. PICK len : len = Len(bl)
      OBVIOUS
    <2>2. PICK b : b = Top(bl)
      OBVIOUS
    <2>3. /\ len \in Nat \ {0} /\ cl \in Seq(Block) /\ Len(cl) = len - 1
          /\ \A n \in 1 .. len - 1 : cl[n] = bl[n]
      <3>1. bl # <<>> /\ cl = Butlast(bl)
        BY <1>3, <1>7 DEF CloseBlock
      <3> QED BY <1>5, <2>1, <3>1, ButlastFacts
    <2>4. b = bl[len] /\ b.type \in Openers /\ b.ip \in 1 .. i - 1
      <3>1. b = bl[len] /\ len \in 1 .. Len(bl)
        BY <2>1, <2>2, <2>3 DEF Top
      <3>2. Nested(p, i, bl, len) /\ b.type \in Openers
        BY <1>4, <1>5, <3>1, BlocksFacts DEF Annotated
      <3> QED BY <3>1, <3>2 DEF Nested, Pending
    <2>5. q = [j \in DOMAIN p |->
                 IF j = i THEN [p[i] EXCEPT !.op = End(b.type),
                                            !.jump = IF b.type = "while" THEN b.ip ELSE @]
                 ELSE IF j = b.ip /\ b.type \in Macros \cup {"if", "while"}
                        THEN [p[j] EXCEPT !.jump = CloseTarget(b.type)]
                        ELSE p[j]]
      BY <1>3, <1>7, <2>2 DEF CloseBlock, S
    <2>6. i \in DOMAIN p /\ b.ip \in DOMAIN p /\ \A j \in 1 .. i - 1 : j \in DOMAIN p /\ j # i
      BY <1>4, <1>5, <2>4
    <2>7. \A j \in DOMAIN p : p[j] \in Statement(Len(p))
      BY <1>3, TypeFacts
    <2>8. \A j \in 1 .. i - 1 : /\ q[j].op = p[j].op /\ q[j].name = p[j].name
                                /\ j # b.ip => q[j].jump = p[j].jump
      BY <2>5, <2>6, <2>7 DEF Statement
    <2>9. q[i].op = End(b.type) /\ (b.type = "while" => q[i].jump = b.ip)
      BY <2>5, <2>6, <2>7 DEF Statement
    <2>10. b.type \in Macros \cup {"if", "while"} => q[b.ip].jump = IF b.type = "if" THEN i ELSE i + 1
      <3>1. b.type \in Macros \cup {"if", "while"} => q[b.ip].jump = CloseTarget(b.type)
        BY <2>4, <2>5, <2>6, <2>7 DEF Statement
      <3> QED BY <1>3, <3>1 DEF CloseTarget
    <2>11. SameBefore(p, q, i)
      BY <2>8 DEF SameBefore
    <2>12. Annotated(q, i + 1, cl)
      BY <1>4, <2>1, <2>3, <2>4, <2>8, <2>9, <2>10, <2>11, CloseAnnotated
    <2> QED BY <1>3, <1>4, <2>12
  <1>8. CASE Branch
    <2>1. PICK len : len = Len(bl)
      OBVIOUS
    <2>2. PICK b : b = Top(bl)
      OBVIOUS
    <2>3. len \in Nat \ {0} /\ b = bl[len] /\ b \in Block
      <3>1. bl # <<>>
        BY <1>3, <1>8 DEF Branch
      <3> QED BY <1>5, <2>1, <2>2, <3>1, ButlastFacts DEF Top
    <2>4. b.type = "if"
      BY <1>3, <1>8, <2>2 DEF Branch
    <2>5. b.ip \in 1 .. i - 1
      <3>1. Nested(p, i, bl, len)
        BY <1>4, <2>1, <2>3 DEF Annotated
      <3> QED BY <2>3, <3>1 DEF Nested, Pending
    <2>6. PICK c : c = [b EXCEPT !.ip = i]
      OBVIOUS
    <2>7. c \in Block /\ c.type = "if" /\ c.ip = i
      BY <1>4, <2>3, <2>4, <2>6 DEF Block
    <2>8. /\ cl \in Seq(Block) /\ Len(cl) = len
          /\ \A n \in 1 .. len - 1 : cl[n] = bl[n]
          /\ cl[len] = c
      <3>1. cl = [bl EXCEPT ![len] = c]
        BY <1>3, <1>8, <2>1, <2>3, <2>6 DEF Branch
      <3>2. len \in 1 .. Len(bl)
        BY <2>1, <2>3
      <3> QED BY <1>5, <2>1, <2>7, <3>1, <3>2, ExceptSeq
    <2>9. q = [p EXCEPT ![b.ip].jump = i]
      BY <1>3, <1>8, <2>2 DEF Branch, BranchTarget
    <2>10. i \in DOMAIN p /\ b.ip \in DOMAIN p /\ \A j \in 1 .. i - 1 : j \in DOMAIN p
      BY <1>4, <1>5, <2>5
    <2>11. \A j \in DOMAIN p : p[j] \in Statement(Len(p))
      BY <1>3, TypeFacts
    <2>12. /\ \A j \in DOMAIN p : /\ q[j].op = p[j].op /\ q[j].name = p[j].name
                                  /\ j # b.ip => q[j].jump = p[j].jump
           /\ q[b.ip].jump = i
      BY <2>9, <2>10, <2>11 DEF Statement
    <2>13. SameBefore(p, q, i) /\ \A j \in 1 .. i - 1 : j # b.ip => q[j].jump = p[j].jump
      BY <2>10, <2>12 DEF SameBefore
    <2>14. q[i].op \in Branches
      BY <1>3, <1>8, <2>10, <2>12 DEF Branch, S
    <2>15. Annotated(q, i + 1, cl)
      BY <1>4, <2>1, <2>3, <2>4, <2>7, <2>8, <2>12, <2>13, <2>14, BranchAnnotated
    <2> QED BY <1>3, <1>4, <2>15
  <1>9. CASE Pass
    <2>1. q = p /\ cl = bl /\ p[i].op \in Values \cup {"call", "other"}
      BY <1>3, <1>9 DEF Pass, S
    <2>2. p[i].op \notin Openers \cup Branches \cup Ends
      BY <2>1, Kinds
    <2>3. Annotated(p, i + 1, bl)
      BY <1>4, <2>2, PassAnnotated
    <2> QED BY <1>3, <1>4, <2>1, <2>3
  <1> QED BY <1>6, <1>7, <1>8, <1>9 DEF Analyze, Unmatched

LEMMA AnalysisStep == ASSUME TypeOK, AnalysisOK, [Next]_vars PROVE AnalysisOK'
  <1>1. CASE Source \/ Unmatched \/ Finish \/ Abort
    <2>1. phase' \in {"Tokenize", "Failed", "Done"}
      BY <1>1 DEF Source, Unmatched, Finish, Abort
    <2> QED BY <2>1 DEF AnalysisOK
  <1>2. CASE StartAnalyze
    <2>1. phase' = "Analyze" /\ ip' = 1 /\ blocks' = <<>>
      BY <1>2 DEF StartAnalyze
    <2> QED BY <2>1, StartAnnotated DEF AnalysisOK
  <1>3. CASE Analyze /\ ~Unmatched
    <2>1. phase' = "Analyze"
      BY <1>3 DEF Analyze, OpenBlock, CloseBlock, Branch, Pass, Analyzing, Analyzed
    <2>2. ~misplaced' => Annotated(program', ip', blocks')
      BY <1>3, <2>1, AnalyzeAnnotates
    <2> QED BY <2>1, <2>2 DEF AnalysisOK
  <1>4. CASE StartQuery \/ StartWrite
    <2>1. /\ UNCHANGED <<program, blocks, misplaced>> /\ phase' \in {"Query", "Write"}
          /\ phase \in {"Analyze", "Query"} /\ ip = Len(program) + 1
      BY <1>4 DEF StartQuery, StartWrite, StartExecute
    <2> QED BY <2>1 DEF AnalysisOK
  <1>5. CASE Execute /\ ~Abort
    <2>1. UNCHANGED <<phase, program, blocks, misplaced>> /\ phase \in {"Query", "Write"}
      BY <1>5 DEF Execute, DefineMacro, DeclareVariable, Assign, If, ElseIf, Else, EndIf, While, EndWhile,
                  Call, Return, OpenScope, CloseScope, Plain, Executes, Executing, Executed
    <2> QED BY <2>1 DEF AnalysisOK
  <1>6. CASE UNCHANGED vars
    BY <1>6 DEF vars, AnalysisOK
  <1> QED BY <1>1, <1>2, <1>3, <1>4, <1>5, <1>6 DEF Next, Assemble, Analyze, Execute

-----------------------------------------------------------------------------
(* Sums of contexts *)

\* Contexts c of the given places add up.
Summable(c, places, W) ==
    /\ Len(places) \in Nat
    /\ \A n \in 1 .. Len(places) : c[places[n]].names \in Seq(W) /\ c[places[n]].ifs \in Nat

SumStep(c, places, f, n) ==
    IF n = 0 THEN [names |-> <<>>, ifs |-> 0]
    ELSE [names |-> f[n - 1].names \o c[places[n]].names, ifs |-> f[n - 1].ifs + c[places[n]].ifs]

LEMMA SumFacts ==
  ASSUME NEW c, NEW places, NEW W, Summable(c, places, W)
  PROVE  \A n \in 0 .. Len(places) :
           /\ Sum(c, places)[n] = SumStep(c, places, Sum(c, places), n)
           /\ Sum(c, places)[n] \in [names : Seq(W), ifs : Nat]
  <1> DEFINE D == [names : Seq(W), ifs : Nat]
             L == Len(places)
             Value(f, n) == SumStep(c, places, f, n)
             Zero == [names |-> <<>>, ifs |-> 0]
             Term(n, f) == IF n > L THEN Zero ELSE Value(f, n)
             G == [n \in Nat |-> [f \in [0 .. n - 1 -> D] |-> Term(n, f)]]
  <1>1. L \in Nat /\ Zero \in D
    BY EmptySeq DEF Summable
  <1>2. ASSUME NEW n \in 1 .. L, NEW f, f[n - 1] \in D
        PROVE  Value(f, n) \in D
    <2>1. c[places[n]].names \in Seq(W) /\ c[places[n]].ifs \in Nat
      BY DEF Summable
    <2>2. PICK a, b : a = f[n - 1].names /\ b = c[places[n]].names
      OBVIOUS
    <2>3. a \in Seq(W) /\ b \in Seq(W) /\ f[n - 1].ifs \in Nat
      BY <1>2, <2>1, <2>2
    <2>4. a \o b \in Seq(W)
      BY <2>3, ConcatProperties
    <2>5. Value(f, n) = [names |-> a \o b, ifs |-> f[n - 1].ifs + c[places[n]].ifs]
      BY <1>1, <2>2 DEF SumStep
    <2> QED BY <2>1, <2>3, <2>4, <2>5
  <1>3. \A f : Value(f, 0) = Zero
    BY DEF SumStep
  <1> HIDE DEF D, L, Value, Zero
  <1>4. Builds(G, D)
    <2>1. ASSUME NEW n \in Nat, NEW f \in [0 .. n - 1 -> D]
          PROVE  Term(n, f) \in D
      <3>1. CASE n = 0 \/ n > L
        BY <1>1, <1>3, <3>1
      <3>2. CASE ~(n = 0 \/ n > L)
        <4>1. n \in 1 .. L /\ f[n - 1] \in D
          BY <1>1, <3>2
        <4> QED BY <1>2, <3>2, <4>1
      <3> QED BY <3>1, <3>2
    <2> HIDE DEF Term
    <2> QED BY <2>1 DEF Builds
  <1>5. PICK g \in [Nat -> D] : \A n \in Nat : g[n] = Term(n, Prior(g, n))
    <2> HIDE DEF Term
    <2>1. PICK g \in [Nat -> D] : \A n \in Nat : g[n] = G[n][Prior(g, n)]
      <3> HIDE DEF G
      <3> QED BY <1>4, Recursive
    <2>2. \A n \in Nat : Prior(g, n) \in [0 .. n - 1 -> D]
      BY DEF Prior
    <2> QED BY <2>1, <2>2
  <1> DEFINE h == [n \in 0 .. L |-> g[n]]
  <1>6. ASSUME NEW n \in 0 .. L
        PROVE  h[n] = Value(h, n)
    <2>1. n \in Nat /\ ~(n > L)
      BY <1>1
    <2>2. g[n] = Value(Prior(g, n), n)
      BY <1>5, <2>1
    <2>3. n # 0 => Prior(g, n)[n - 1] = h[n - 1]
      BY <1>1 DEF Prior
    <2>4. Value(Prior(g, n), n) = Value(h, n)
      BY <2>3 DEF Value, SumStep
    <2>5. h[n] = g[n]
      OBVIOUS
    <2> QED BY <2>2, <2>4, <2>5
  <1>7. h = [n \in 0 .. L |-> Value(h, n)]
    BY <1>6
  <1> DEFINE A == CHOOSE f : f = [n \in 0 .. L |-> Value(f, n)]
  <1>8. Sum(c, places) = A
    BY DEF Sum, SumStep, L, Value
  <1>9. A = [n \in 0 .. L |-> Value(A, n)]
    <2> HIDE DEF h
    <2> QED BY <1>7
  <1>10. \A n \in 0 .. L : A[n] = Value(A, n)
    <2> HIDE DEF A
    <2> QED BY <1>9
  <1> HIDE DEF A
  <1> DEFINE T == {n \in Nat : n <= L => A[n] \in D}
  <1>11. ASSUME NEW n \in Nat, \A j \in Nat : j < n => j \in T
         PROVE  n \in T
    <2>1. CASE n = 0 \/ n > L
      BY <1>1, <1>3, <1>10, <2>1
    <2>2. CASE ~(n = 0 \/ n > L)
      <3>1. n - 1 \in Nat /\ n - 1 < n /\ n - 1 <= L /\ n \in 1 .. L
        BY <1>1, <2>2
      <3>2. A[n - 1] \in D
        BY <1>11, <3>1
      <3> QED BY <1>2, <1>10, <2>2, <3>1, <3>2
    <2> QED BY <2>1, <2>2
  <1> HIDE DEF T
  <1>12. \A n \in Nat : n \in T
    BY <1>11, Induction
  <1>13. \A n \in 0 .. L : A[n] \in D
    BY <1>1, <1>12 DEF T
  <1> QED BY <1>8, <1>10, <1>13 DEF L, Value, D

\* Sums are of the contexts, whatever the places.
SameContexts(c, places, others, k) ==
    /\ k <= Len(places) /\ k <= Len(others)
    /\ \A n \in 1 .. k : c[places[n]] = c[others[n]]

LEMMA SumSame ==
  ASSUME NEW c, NEW places, NEW others, NEW W, NEW k \in Nat,
         Summable(c, places, W), Summable(c, others, W), SameContexts(c, places, others, k)
  PROVE  Sum(c, places)[k] = Sum(c, others)[k]
  <1> DEFINE T == {n \in Nat : n <= k => Sum(c, places)[n] = Sum(c, others)[n]}
  <1>1. ASSUME NEW n \in Nat, \A j \in Nat : j < n => j \in T
        PROVE  n \in T
    <2> SUFFICES ASSUME n <= k
                 PROVE  Sum(c, places)[n] = Sum(c, others)[n]
      OBVIOUS
    <2>1. n \in 0 .. Len(places) /\ n \in 0 .. Len(others)
      BY DEF Summable, SameContexts
    <2>2. /\ Sum(c, places)[n] = SumStep(c, places, Sum(c, places), n)
          /\ Sum(c, others)[n] = SumStep(c, others, Sum(c, others), n)
      BY <2>1, SumFacts
    <2>3. n # 0 => Sum(c, places)[n - 1] = Sum(c, others)[n - 1]
      BY <1>1
    <2>4. n # 0 => c[places[n]] = c[others[n]]
      BY DEF SameContexts
    <2> QED BY <2>2, <2>3, <2>4 DEF SumStep
  <1> HIDE DEF T
  <1>2. k \in T
    BY <1>1, Induction
  <1> QED BY <1>2 DEF T

-----------------------------------------------------------------------------
(* Invocations *)

\* Places with the same opener have the same context.
LEMMA SameOpener ==
  ASSUME NEW p, NEW i \in Nat, NEW j \in Nat, Opener(p, i) = Opener(p, j)
  PROVE  ContextIn(p)[i] = ContextIn(p)[j]
  <1>1. ContextIn(p)[i].opener = ContextIn(p)[j].opener /\ ContextIn(p)[i].opener \in Nat
    BY ContextFacts DEF Opener, Contexts
  <1>2. CASE ContextIn(p)[i].opener = 0
    BY <1>1, <1>2, ContextFacts
  <1>3. CASE ContextIn(p)[i].opener > 0
    BY <1>1, <1>3, ContextFacts
  <1> QED BY <1>1, <1>2, <1>3

\* Places, for any frames and any ip.
PlacesOf(fs, i) == [n \in DOMAIN fs |-> IF n = Len(fs) THEN i ELSE fs[n + 1].ip]

\* The n-th invocation stands in a macro m that its frame was made for; the first
\* stands in none.
Stands(p, m, n, inlined) ==
    IF n = 1 THEN m = 0 ELSE m >= 1 /\ p[m].op = IF inlined THEN "inline" ELSE "macro"

Standing(p, fs, i) ==
    /\ Len(fs) \in Nat \ {0} /\ DOMAIN fs = 1 .. Len(fs)
    /\ \A n \in 1 .. Len(fs) :
         /\ PlacesOf(fs, i)[n] \in Nat
         /\ Stands(p, ContextIn(p)[PlacesOf(fs, i)[n]].macro, n, fs[n].inlined)

\* What the invocations below the last one add up to.
Base(p, fs, i) == Sum(ContextIn(p), PlacesOf(fs, i))[Len(fs) - 1]

\* What all of them add up to.
Total(p, fs, i) == Sum(ContextIn(p), PlacesOf(fs, i))[Len(fs)]

\* It is what the invocations below add up to and what the last one adds.
Adds(p, fs, i) ==
    /\ Base(p, fs, i).names \in Seq(Wide(p)) /\ Base(p, fs, i).ifs \in Nat
    /\ ContextIn(p)[i].names \in Seq(Wide(p)) /\ ContextIn(p)[i].ifs \in Nat
    /\ Total(p, fs, i) = [names |-> Base(p, fs, i).names \o ContextIn(p)[i].names,
                          ifs   |-> Base(p, fs, i).ifs + ContextIn(p)[i].ifs]

\* q are the places of frames fs.
PlacesRight(p, q, fs, i) ==
    /\ Len(fs) \in Nat \ {0} /\ Len(q) = Len(fs) /\ q[Len(fs)] = i /\ i \in Nat
    /\ \A n \in 1 .. Len(fs) - 1 : q[n] = fs[n + 1].ip
    /\ Summable(ContextIn(p), q, Wide(p))

LEMMA PlacesFacts ==
  ASSUME NEW p, NEW fs, NEW i, Standing(p, fs, i)
  PROVE  PlacesRight(p, PlacesOf(fs, i), fs, i)
  <1>1. PICK q : q = PlacesOf(fs, i)
    OBVIOUS
  <1>2. q = [n \in 1 .. Len(fs) |-> IF n = Len(fs) THEN i ELSE fs[n + 1].ip]
    BY <1>1 DEF PlacesOf, Standing
  <1>3. Len(fs) \in Nat \ {0} /\ \A n \in 1 .. Len(fs) : q[n] \in Nat
    BY <1>1 DEF Standing
  <1>4. q \in [1 .. Len(fs) -> Nat]
    BY <1>2, <1>3
  <1>5. q \in Seq(Nat) /\ Len(q) = Len(fs)
    <2>1. q \in Seq(Nat)
      BY <1>3, <1>4, SeqDef
    <2> QED BY <1>3, <1>4, <2>1, LenProperties
  <1>6. q[Len(fs)] = i /\ \A n \in 1 .. Len(fs) - 1 : q[n] = fs[n + 1].ip
    BY <1>2, <1>3
  <1>7. i \in Nat
    BY <1>3, <1>6
  <1>8. \A n \in 1 .. Len(fs) : ContextIn(p)[q[n]] \in Contexts(p)
    BY <1>3, ContextFacts
  <1>9. Summable(ContextIn(p), q, Wide(p))
    BY <1>3, <1>5, <1>8 DEF Summable, Contexts
  <1> QED BY <1>1, <1>3, <1>5, <1>6, <1>7, <1>9 DEF PlacesRight

LEMMA BaseFacts ==
  ASSUME NEW p, NEW fs, NEW i, Standing(p, fs, i)
  PROVE  Adds(p, fs, i)
  <1>1. PICK c, q : c = ContextIn(p) /\ q = PlacesOf(fs, i)
    OBVIOUS
  <1>2. /\ Summable(c, q, Wide(p)) /\ Len(q) = Len(fs) /\ q[Len(fs)] = i /\ i \in Nat
        /\ Len(fs) \in Nat \ {0}
    <2>1. PlacesRight(p, q, fs, i)
      BY <1>1, PlacesFacts
    <2> QED BY <1>1, <2>1 DEF PlacesRight
  <1>3. Len(fs) \in 0 .. Len(q) /\ Len(fs) - 1 \in 0 .. Len(q) /\ Len(fs) # 0
    BY <1>2
  <1>4. \A n \in 0 .. Len(q) : /\ Sum(c, q)[n] = SumStep(c, q, Sum(c, q), n)
                               /\ Sum(c, q)[n] \in [names : Seq(Wide(p)), ifs : Nat]
    BY <1>2, SumFacts
  <1>5. /\ Sum(c, q)[Len(fs)] = SumStep(c, q, Sum(c, q), Len(fs))
        /\ Sum(c, q)[Len(fs) - 1] \in [names : Seq(Wide(p)), ifs : Nat]
    BY <1>3, <1>4
  <1>6. c[i] \in Contexts(p)
    BY <1>1, <1>2, ContextFacts
  <1>7. Base(p, fs, i) = Sum(c, q)[Len(fs) - 1]
    BY <1>1 DEF Base
  <1> QED BY <1>1, <1>2, <1>3, <1>5, <1>6, <1>7 DEF SumStep, Contexts, Adds, Total

\* Frames with the same invocations.
SameShape(fs, gs) ==
    /\ Len(gs) = Len(fs) /\ DOMAIN gs = 1 .. Len(fs)
    /\ \A k \in 1 .. Len(fs) : gs[k].ip = fs[k].ip /\ gs[k].inlined = fs[k].inlined

\* The last invocation moves on in its macro, ...
LEMMA Moved ==
  ASSUME NEW p, NEW fs, NEW gs, NEW i, NEW j \in Nat, Standing(p, fs, i), SameShape(fs, gs),
         ContextIn(p)[j].macro = ContextIn(p)[i].macro
  PROVE  Standing(p, gs, j) /\ Base(p, gs, j) = Base(p, fs, i)
  <1>1. PICK c, q, r, n : /\ c = ContextIn(p) /\ q = PlacesOf(fs, i) /\ r = PlacesOf(gs, j) /\ n = Len(fs)
    OBVIOUS
  <1>2. /\ n \in Nat \ {0} /\ Len(q) = n /\ q[n] = i /\ Summable(c, q, Wide(p))
        /\ \A k \in 1 .. n - 1 : q[k] = fs[k + 1].ip
    <2>1. PlacesRight(p, q, fs, i)
      BY <1>1, PlacesFacts
    <2> QED BY <1>1, <2>1 DEF PlacesRight
  <1>3. DOMAIN gs = 1 .. n /\ Len(gs) = n
    BY <1>1 DEF SameShape
  <1>4. /\ r[n] = j
        /\ \A k \in 1 .. n - 1 : r[k] = q[k]
    <2>1. \A k \in 1 .. n : r[k] = IF k = n THEN j ELSE gs[k + 1].ip
      BY <1>1, <1>3 DEF PlacesOf
    <2>2. \A k \in 1 .. n - 1 : gs[k + 1].ip = fs[k + 1].ip
      BY <1>1, <1>2 DEF SameShape
    <2> QED BY <1>2, <2>1, <2>2
  <1>5. Standing(p, gs, j)
    <2>1. ASSUME NEW k \in 1 .. n
          PROVE  r[k] \in Nat /\ Stands(p, c[r[k]].macro, k, gs[k].inlined)
      <3>1. q[k] \in Nat /\ Stands(p, c[q[k]].macro, k, fs[k].inlined)
        BY <1>1 DEF Standing
      <3>2. gs[k].inlined = fs[k].inlined
        BY <1>1 DEF SameShape
      <3>3. r[k] \in Nat /\ c[r[k]].macro = c[q[k]].macro
        BY <1>1, <1>2, <1>4, <3>1
      <3> QED BY <3>1, <3>2, <3>3
    <2> QED BY <1>1, <1>2, <1>3, <2>1 DEF Standing
  <1>6. Len(r) = n /\ Summable(c, r, Wide(p))
    BY <1>1, <1>3, <1>5, PlacesFacts DEF PlacesRight
  <1>7. PICK m : m = n - 1
    OBVIOUS
  <1>8. m \in Nat /\ SameContexts(c, q, r, m)
    BY <1>2, <1>4, <1>6, <1>7 DEF SameContexts
  <1>9. Sum(c, q)[m] = Sum(c, r)[m]
    BY <1>2, <1>6, <1>8, SumSame
  <1> QED BY <1>1, <1>3, <1>5, <1>7, <1>9 DEF Base

\* ... invokes another, ...
Pushed(fs, gs, f) ==
    /\ Len(gs) = Len(fs) + 1 /\ DOMAIN gs = 1 .. Len(fs) + 1
    /\ \A k \in 1 .. Len(fs) : gs[k] = fs[k]
    /\ gs[Len(fs) + 1] = f

\* f is the frame of an invocation that is made at i and begins at j.
Invokes(p, fs, f, i, j) ==
    /\ j \in Nat /\ f.ip \in Nat /\ ContextIn(p)[f.ip] = ContextIn(p)[i]
    /\ Stands(p, ContextIn(p)[j].macro, Len(fs) + 1, f.inlined)

LEMMA Invoked ==
  ASSUME NEW p, NEW fs, NEW gs, NEW f, NEW i, NEW j, Standing(p, fs, i), Pushed(fs, gs, f),
         Invokes(p, fs, f, i, j)
  PROVE  Standing(p, gs, j) /\ Base(p, gs, j) = Total(p, fs, i)
  <1>1. PICK c, q, t, n, r : /\ c = ContextIn(p) /\ q = PlacesOf(fs, i) /\ t = PlacesOf(gs, j) /\ n = Len(fs)
                             /\ r = f.ip
    OBVIOUS
  <1>1a. /\ j \in Nat /\ r \in Nat /\ c[r] = c[i]
        /\ Stands(p, c[j].macro, n + 1, f.inlined)
    BY <1>1 DEF Invokes
  <1>2. /\ n \in Nat \ {0} /\ Len(q) = n /\ q[n] = i /\ Summable(c, q, Wide(p))
        /\ \A k \in 1 .. n - 1 : q[k] = fs[k + 1].ip
    <2>1. PlacesRight(p, q, fs, i)
      BY <1>1a, <1>1, PlacesFacts
    <2> QED BY <1>1a, <1>1, <2>1 DEF PlacesRight
  <1>3. /\ DOMAIN gs = 1 .. n + 1 /\ Len(gs) = n + 1 /\ gs[n + 1].ip = r
        /\ gs[n + 1] = f /\ \A k \in 1 .. n : gs[k] = fs[k]
    BY <1>1 DEF Pushed
  <1>4. t[n + 1] = j /\ t[n] = r /\ \A k \in 1 .. n - 1 : t[k] = q[k]
    <2>1. \A k \in 1 .. n + 1 : t[k] = IF k = n + 1 THEN j ELSE gs[k + 1].ip
      BY <1>1a, <1>1, <1>3 DEF PlacesOf
    <2>2. \A k \in 1 .. n - 1 : gs[k + 1].ip = fs[k + 1].ip
      BY <1>1a, <1>1, <1>2, <1>3
    <2>3. t[n + 1] = j /\ t[n] = r
      BY <1>2, <1>3, <2>1
    <2>4. \A k \in 1 .. n - 1 : t[k] = q[k]
      BY <1>2, <2>1, <2>2
    <2> QED BY <2>3, <2>4
  <1>5. \A k \in 1 .. n : c[t[k]] = c[q[k]]
    BY <1>1a, <1>1, <1>2, <1>4
  <1>6. Standing(p, gs, j)
    <2>1. ASSUME NEW k \in 1 .. n
          PROVE  t[k] \in Nat /\ Stands(p, c[t[k]].macro, k, gs[k].inlined)
      <3>1. q[k] \in Nat /\ Stands(p, c[q[k]].macro, k, fs[k].inlined)
        BY <1>1 DEF Standing
      <3>2. gs[k].inlined = fs[k].inlined
        BY <1>1a, <1>1, <1>3
      <3>3. t[k] \in Nat /\ c[t[k]].macro = c[q[k]].macro
        BY <1>1a, <1>1, <1>2, <1>4, <1>5, <3>1
      <3> QED BY <3>1, <3>2, <3>3
    <2>2. t[n + 1] \in Nat /\ Stands(p, c[t[n + 1]].macro, n + 1, gs[n + 1].inlined)
      BY <1>1a, <1>1, <1>3, <1>4
    <2>3. \A k \in 1 .. n + 1 : t[k] \in Nat /\ Stands(p, c[t[k]].macro, k, gs[k].inlined)
      BY <1>2, <2>1, <2>2
    <2> QED BY <1>1a, <1>1, <1>2, <1>3, <2>3 DEF Standing
  <1>7. Len(t) = n + 1 /\ Summable(c, t, Wide(p))
    BY <1>1a, <1>1, <1>3, <1>6, PlacesFacts DEF PlacesRight
  <1>8. SameContexts(c, q, t, n)
    BY <1>2, <1>5, <1>7 DEF SameContexts
  <1>9. Sum(c, q)[n] = Sum(c, t)[n]
    BY <1>2, <1>7, <1>8, SumSame
  <1>10. Len(gs) - 1 = n
    BY <1>2, <1>3
  <1> QED BY <1>1a, <1>1, <1>6, <1>9, <1>10 DEF Base, Total

\* ... or returns to the one below.
LEMMA Returned ==
  ASSUME NEW p, NEW fs, NEW gs, NEW i, NEW j, Standing(p, fs, i), Len(fs) > 1,
         Len(gs) = Len(fs) - 1, DOMAIN gs = 1 .. Len(fs) - 1,
         \A k \in 1 .. Len(fs) - 1 : gs[k] = fs[k],
         j = fs[Len(fs)].ip
  PROVE  Standing(p, gs, j) /\ Total(p, gs, j) = Base(p, fs, i)
  <1>1. PICK c, q, t, n : /\ c = ContextIn(p) /\ q = PlacesOf(fs, i) /\ t = PlacesOf(gs, j) /\ n = Len(gs)
    OBVIOUS
  <1>2. /\ n \in Nat \ {0} /\ Len(fs) = n + 1 /\ Len(fs) - 1 = n
        /\ Len(q) = n + 1 /\ Summable(c, q, Wide(p))
        /\ \A k \in 1 .. n : q[k] = fs[k + 1].ip
    <2>1. PlacesRight(p, q, fs, i)
      BY <1>1, PlacesFacts
    <2> QED BY <1>1, <2>1 DEF PlacesRight
  <1>3. \A k \in 1 .. n : t[k] = q[k]
    <2>1. \A k \in 1 .. n : t[k] = IF k = n THEN j ELSE gs[k + 1].ip
      BY <1>1, <1>2 DEF PlacesOf
    <2>2. \A k \in 1 .. n - 1 : gs[k + 1].ip = fs[k + 1].ip
      BY <1>1, <1>2
    <2> QED BY <1>2, <2>1, <2>2
  <1>4. Standing(p, gs, j)
    <2>1. ASSUME NEW k \in 1 .. n
          PROVE  t[k] \in Nat /\ Stands(p, c[t[k]].macro, k, gs[k].inlined)
      <3>1. k \in 1 .. Len(fs)
        BY <1>2
      <3>2. q[k] \in Nat /\ Stands(p, c[q[k]].macro, k, fs[k].inlined)
        BY <1>1, <3>1 DEF Standing
      <3>3. gs[k].inlined = fs[k].inlined /\ t[k] = q[k]
        BY <1>2, <1>3
      <3> QED BY <3>2, <3>3
    <2> QED BY <1>1, <1>2, <2>1 DEF Standing
  <1>5. Len(t) = n /\ Summable(c, t, Wide(p))
    BY <1>1, <1>4, PlacesFacts DEF PlacesRight
  <1>6. SameContexts(c, t, q, n)
    <2>1. n <= Len(t) /\ n <= Len(q)
      BY <1>2, <1>5
    <2>2. \A k \in 1 .. n : c[t[k]] = c[q[k]]
      BY <1>3
    <2> QED BY <2>1, <2>2 DEF SameContexts
  <1>7. Sum(c, t)[n] = Sum(c, q)[n]
    BY <1>2, <1>5, <1>6, SumSame
  <1> QED BY <1>1, <1>2, <1>4, <1>7 DEF Base, Total

-----------------------------------------------------------------------------
(* The steps of a program whose blocks are closed *)

Parsed(p) ==
    /\ Len(p) \in Nat
    /\ \A j \in 1 .. Len(p) : Settled(p, j, Len(p) + 1)
    /\ ContextIn(p)[Len(p) + 1] = Outside

\* Contexts that differ by their blocks only.
SameParts(c, d) == c.macro = d.macro /\ c.names = d.names /\ c.ifs = d.ifs

\* No else of the if around i is before it.
NoElse(p, i) == \A k \in 1 .. i - 1 : p[k].op = "else" => Opener(p, k) # Opener(p, i)

\* Statement j is the next branch of an if, or its end.
NextBranch(p, j) == j \in 1 .. Len(p) /\ p[j].op \in Branches \cup {"endif"}

\* Past a macro or a while, and over any statement that has no part in a block.
LEMMA OverBlock ==
  ASSUME NEW p, Parsed(p), NEW i \in 1 .. Len(p), p[i].op \in Macros \cup {"while"}
  PROVE  p[i].jump \in 1 .. Len(p) + 1 /\ ContextIn(p)[p[i].jump] = ContextIn(p)[i]
  <1>1. p[i].jump \in 1 .. Len(p) + 1 /\ Opener(p, p[i].jump) = Opener(p, i)
    BY DEF Parsed, Settled
  <1>2. p[i].jump \in Nat /\ i \in Nat
    BY <1>1 DEF Parsed
  <1> QED BY <1>1, <1>2, SameOpener

LEMMA OverPlain ==
  ASSUME NEW p, NEW i \in Nat \ {0}, p[i].op \in Values \cup {"call", "other"} \cup Branches
  PROVE  ContextIn(p)[i + 1] = ContextIn(p)[i]
  <1>1. p[i].op \notin Openers \cup Ends
    BY Kinds
  <1> QED BY <1>1, ContextStep

\* What a statement s at i that opens a block makes of context c.
Entered(s, i, c, d) ==
    /\ s.op \in {"{", "while"} => SameParts(d, c)
    /\ s.op \in Scopes => d.macro = c.macro /\ d.ifs = c.ifs /\ d.names = Append(c.names, s.name)
    /\ s.op = "if" => d.macro = c.macro /\ d.names = c.names /\ d.ifs = c.ifs + 1
    /\ s.op \in Macros => d.macro = i /\ d.ifs = 0
    /\ s.op = "macro" => d.names = <<s.name>>
    /\ s.op = "inline" => d.names = <<>>

LEMMA EnterFacts ==
  ASSUME NEW s, NEW i, NEW c, NEW d, d = Enter(s, i, c)
  PROVE  Entered(s, i, c, d)
  <1>1. /\ d.macro = IF s.op \in Macros THEN i ELSE c.macro
        /\ d.ifs = IF s.op \in Macros THEN 0 ELSE IF s.op = "if" THEN c.ifs + 1 ELSE c.ifs
        /\ d.names = IF s.op = "macro" THEN <<s.name>>
                     ELSE IF s.op = "inline" THEN <<>>
                     ELSE IF s.op \in Scopes THEN Append(c.names, s.name)
                     ELSE c.names
    BY DEF Enter
  <1>2. /\ s.op \in {"{", "while"} => s.op \notin Macros \cup Scopes \cup {"if", "macro", "inline"}
        /\ s.op \in Scopes => s.op \notin Macros \cup {"if", "macro", "inline"}
        /\ s.op = "if" => s.op \notin Macros \cup Scopes \cup {"macro", "inline"}
    BY DEF Scopes, Macros
  <1> QED BY <1>1, <1>2 DEF Entered, SameParts

\* Into a block.
LEMMA IntoBlock ==
  ASSUME NEW p, NEW i \in Nat \ {0}, p[i].op \in Openers
  PROVE  Entered(p[i], i, ContextIn(p)[i], ContextIn(p)[i + 1])
  BY ContextStep, EnterFacts

\* Out of a block: what the opener added is gone.
LEMMA OutOfBlock ==
  ASSUME NEW p, Parsed(p), NEW i \in 1 .. Len(p), p[i].op \in Ends
  PROVE  LET o == Opener(p, i)
             c == ContextIn(p)[i]
             d == ContextIn(p)[i + 1]
         IN  /\ o \in 1 .. i - 1 /\ p[o].op \in Openers /\ p[i].op = End(p[o].op)
             /\ c = Enter(p[o], o, d) /\ d = ContextIn(p)[o]
             /\ c.macro \in Nat /\ d.names \in Seq(Wide(p)) /\ d.ifs \in Nat
  <1>1. PICK o, c, d : o = Opener(p, i) /\ c = ContextIn(p)[i] /\ d = ContextIn(p)[i + 1]
    OBVIOUS
  <1>2. i \in Nat \ {0} /\ i + 1 \in Nat
    BY DEF Parsed
  <1>3. o > 0 /\ p[i].op = End(p[o].op)
    BY <1>1 DEF Parsed, Settled
  <1>4. c \in Contexts(p) /\ c.opener = o /\ o < i /\ o \in Nat
    BY <1>1, <1>2, ContextFacts DEF Opener, Contexts
  <1>5. p[o].op \in Openers /\ c = Enter(p[o], o, ContextIn(p)[o])
    BY <1>1, <1>2, <1>3, <1>4, ContextFacts
  <1>6. p[i].op \in Ends \ Openers
    BY Kinds
  <1>7. d = ContextIn(p)[o]
    BY <1>1, <1>2, <1>4, <1>6, ContextStep
  <1>8. d \in Contexts(p)
    BY <1>1, <1>2, ContextFacts
  <1> QED BY <1>1, <1>2, <1>3, <1>4, <1>5, <1>7, <1>8 DEF Contexts

\* The ends, kind by kind.
LEMMA Closed ==
  ASSUME NEW p, Parsed(p), NEW i \in 1 .. Len(p)
  PROVE  LET o == Opener(p, i)
             c == ContextIn(p)[i]
             d == ContextIn(p)[i + 1]
         IN  /\ p[i].op \in {"endblock", "endwhile"} => SameParts(d, c)
             /\ p[i].op \in {End(t) : t \in Scopes} =>
                  d.macro = c.macro /\ d.ifs = c.ifs /\ c.names = Append(d.names, p[o].name)
             /\ p[i].op = "endif" => d.macro = c.macro /\ d.names = c.names /\ c.ifs = d.ifs + 1
             /\ p[i].op \in {"endmacro", "endinline"} =>
                  /\ c.macro = o /\ o \in 1 .. i - 1 /\ c.ifs = 0
                  /\ \/ p[o].op = "macro" /\ c.names = <<p[o].name>>
                     \/ p[o].op = "inline" /\ c.names = <<>>
             /\ p[i].op = "endwhile" =>
                  p[i].jump = o /\ o \in 1 .. i - 1 /\ SameParts(ContextIn(p)[o], c)
  <1>1. PICK o, c, d : o = Opener(p, i) /\ c = ContextIn(p)[i] /\ d = ContextIn(p)[i + 1]
    OBVIOUS
  <1>2. /\ \A t \in Scopes : End(t) \in Ends
        /\ {"endblock", "endwhile", "endif", "endmacro", "endinline"} \subseteq Ends
    BY Kinds
  <1>3. p[i].op \in Ends =>
          /\ o \in 1 .. i - 1 /\ p[o].op \in Openers /\ p[i].op = End(p[o].op)
          /\ c = Enter(p[o], o, d) /\ d = ContextIn(p)[o]
    BY <1>1, OutOfBlock
  <1>4. p[i].op \in {"endblock", "endwhile"} => SameParts(d, c)
    <2> SUFFICES ASSUME p[i].op \in {"endblock", "endwhile"}
                 PROVE  SameParts(d, c)
      OBVIOUS
    <2>1. p[o].op \in {"{", "while"} /\ c = Enter(p[o], o, d)
      BY <1>2, <1>3, Kinds
    <2> QED BY <2>1 DEF Enter, SameParts, Scopes, Macros
  <1>5. p[i].op \in {End(t) : t \in Scopes} =>
          d.macro = c.macro /\ d.ifs = c.ifs /\ c.names = Append(d.names, p[o].name)
    <2> SUFFICES ASSUME p[i].op \in {End(t) : t \in Scopes}
                 PROVE  d.macro = c.macro /\ d.ifs = c.ifs /\ c.names = Append(d.names, p[o].name)
      OBVIOUS
    <2>1. p[i].op \in {"endnamespace", "endfunction"} /\ p[i].op \in Ends
      BY <1>2 DEF End, Scopes
    <2>2. p[o].op \in Scopes /\ c = Enter(p[o], o, d)
      BY <1>3, <2>1, Kinds
    <2> QED BY <2>2 DEF Enter, Scopes, Macros
  <1>6. p[i].op = "endif" => d.macro = c.macro /\ d.names = c.names /\ c.ifs = d.ifs + 1
    <2> SUFFICES ASSUME p[i].op = "endif"
                 PROVE  d.macro = c.macro /\ d.names = c.names /\ c.ifs = d.ifs + 1
      OBVIOUS
    <2>1. p[o].op = "if" /\ c = Enter(p[o], o, d)
      BY <1>2, <1>3, Kinds
    <2> QED BY <2>1 DEF Enter, Scopes, Macros
  <1>7. p[i].op \in {"endmacro", "endinline"} =>
          /\ c.macro = o /\ o \in 1 .. i - 1 /\ c.ifs = 0
          /\ \/ p[o].op = "macro" /\ c.names = <<p[o].name>>
             \/ p[o].op = "inline" /\ c.names = <<>>
    <2> SUFFICES ASSUME p[i].op \in {"endmacro", "endinline"}
                 PROVE  /\ c.macro = o /\ o \in 1 .. i - 1 /\ c.ifs = 0
                        /\ \/ p[o].op = "macro" /\ c.names = <<p[o].name>>
                           \/ p[o].op = "inline" /\ c.names = <<>>
      OBVIOUS
    <2>1. p[o].op \in Macros /\ c = Enter(p[o], o, d) /\ o \in 1 .. i - 1
      BY <1>2, <1>3, Kinds
    <2> QED BY <2>1 DEF Enter, Macros
  <1>8. p[i].op = "endwhile" => p[i].jump = o /\ o \in 1 .. i - 1 /\ SameParts(ContextIn(p)[o], c)
    BY <1>1, <1>2, <1>3, <1>4 DEF Parsed, Settled
  <1> QED BY <1>1, <1>4, <1>5, <1>6, <1>7, <1>8

LEMMA ElseBranch == "else" \in Branches
  BY Zenon DEF Branches

\* Between the branches of an if.
LEMMA Branched ==
  ASSUME NEW p, Parsed(p), NEW i \in 1 .. Len(p), p[i].op \in {"if"} \cup Branches
  PROVE  /\ p[i].jump \in 1 .. Len(p) /\ p[i].jump > i
         /\ ContextIn(p)[p[i].jump] = ContextIn(p)[i + 1]
         /\ NextBranch(p, p[i].jump)
         /\ p[i].op = "if" => NoElse(p, p[i].jump)
         /\ p[i].op \in Branches \ {"else"} /\ NoElse(p, i) => NoElse(p, p[i].jump)
         /\ p[i].op \in Branches => ContextIn(p)[i].ifs > 0 /\ ContextIn(p)[i + 1] = ContextIn(p)[i]
  <1>1. PICK t : t = p[i].jump
    OBVIOUS
  <1>2. /\ t \in i + 1 .. Len(p) /\ Opener(p, t) = Opener(p, i + 1)
        /\ p[t].op \in Branches \cup {"endif"}
        /\ NoBranch(p, i, t, Opener(p, i + 1))
        /\ p[i].op \in Branches => Opener(p, i) > 0 /\ p[Opener(p, i)].op = "if"
    BY <1>1 DEF Parsed, Settled
  <1>3. i \in Nat \ {0} /\ i + 1 \in Nat /\ t \in Nat /\ t \in 1 .. Len(p) /\ t > i
    BY <1>2 DEF Parsed
  <1>4. ContextIn(p)[t] = ContextIn(p)[i + 1]
    BY <1>2, <1>3, SameOpener
  <1>5. p[i].op \in Branches => ContextIn(p)[i + 1] = ContextIn(p)[i]
    BY <1>3, OverPlain
  <1>6. p[i].op \in Branches => ContextIn(p)[i].ifs > 0
    <2> SUFFICES ASSUME p[i].op \in Branches
                 PROVE  ContextIn(p)[i].ifs > 0
      OBVIOUS
    <2>1. PICK o : o = Opener(p, i)
      OBVIOUS
    <2>2. o > 0 /\ p[o].op = "if" /\ o \in Nat
      BY <1>2, <1>3, <2>1, ContextFacts DEF Opener, Contexts
    <2>3. ContextIn(p)[i] = Enter(p[o], o, ContextIn(p)[o])
      BY <1>3, <2>1, <2>2, ContextFacts DEF Opener
    <2>4. ContextIn(p)[o].ifs \in Nat
      BY <2>2, ContextFacts DEF Contexts
    <2> QED BY <2>2, <2>3, <2>4 DEF Enter, Macros
  <1>7. p[i].op = "if" => NoElse(p, t)
    <2> SUFFICES ASSUME p[i].op = "if", NEW k \in 1 .. t - 1, p[k].op = "else"
                 PROVE  Opener(p, k) # Opener(p, t)
      BY DEF NoElse
    <2>1. Opener(p, i + 1) = i
      <3>1. p[i].op \in Openers
        BY DEF Openers
      <3>2. ContextIn(p)[i + 1] = Enter(p[i], i, ContextIn(p)[i])
        BY <1>3, <3>1, ContextStep
      <3> QED BY <3>2 DEF Opener, Enter
    <2>2. k \in Nat /\ k # i /\ k > 0
      BY <1>3
    <2>3. Opener(p, k) < k /\ Opener(p, k) \in Nat
      BY <2>2, ContextFacts DEF Opener, Contexts
    <2>4. CASE k < i
      BY <1>2, <1>3, <2>1, <2>2, <2>3, <2>4
    <2>5. CASE k > i
      <3>1. k \in i + 1 .. t - 1 /\ p[k].op \in Branches
        BY <1>3, <2>2, <2>5, ElseBranch
      <3> QED BY <1>2, <3>1 DEF NoBranch
    <2> QED BY <1>3, <2>2, <2>4, <2>5
  <1>8. p[i].op \in Branches \ {"else"} /\ NoElse(p, i) => NoElse(p, t)
    <2> SUFFICES ASSUME p[i].op \in Branches \ {"else"}, NoElse(p, i), NEW k \in 1 .. t - 1, p[k].op = "else"
                 PROVE  Opener(p, k) # Opener(p, t)
      BY DEF NoElse
    <2>1. Opener(p, i + 1) = Opener(p, i)
      BY <1>5 DEF Opener
    <2>2. k \in Nat /\ k # i /\ k > 0
      <3>1. k # i
        OBVIOUS
      <3> QED BY <1>3, <3>1
    <2>3. CASE k < i
      <3>1. k \in 1 .. i - 1
        BY <1>3, <2>2, <2>3
      <3> QED BY <1>2, <2>1, <3>1 DEF NoElse
    <2>4. CASE k > i
      <3>1. k \in i + 1 .. t - 1 /\ p[k].op \in Branches
        BY <1>3, <2>2, <2>4, ElseBranch
      <3> QED BY <1>2, <3>1 DEF NoBranch
    <2> QED BY <1>3, <2>2, <2>3, <2>4
  <1> QED BY <1>1, <1>2, <1>3, <1>4, <1>5, <1>6, <1>7, <1>8 DEF NextBranch

LEMMA PopAppend ==
  ASSUME NEW W, NEW s \in Seq(W), NEW x \in W
  PROVE  Pop(Append(s, x)) = s
  <1>1. PICK q : q = Append(s, x)
    OBVIOUS
  <1>2. /\ q \in Seq(W) /\ q # <<>> /\ Len(q) = Len(s) + 1
        /\ \A n \in 1 .. Len(s) : q[n] = s[n]
    BY <1>1, AppendProperties
  <1>3. /\ Butlast(q) \in Seq(W) /\ Len(Butlast(q)) = Len(q) - 1
        /\ \A n \in 1 .. Len(q) - 1 : Butlast(q)[n] = q[n]
    BY <1>2, ButlastFacts
  <1>4. Len(s) \in Nat
    BY LenProperties
  <1>5. PICK t : t = Butlast(q)
    OBVIOUS
  <1>6. t \in Seq(W) /\ Len(t) = Len(s) /\ \A n \in 1 .. Len(s) : t[n] = s[n]
    BY <1>2, <1>3, <1>4, <1>5
  <1>7. t = s
    BY <1>6, SeqEqual
  <1> QED BY <1>1, <1>2, <1>5, <1>7 DEF Pop

LEMMA NamesAdded ==
  ASSUME NEW W, NEW b \in Seq(W), NEW n \in Seq(W), NEW x \in W
  PROVE  /\ b \o Append(n, x) = Append(b \o n, x)
         /\ b \o <<x>> = Append(b, x)
         /\ Pop(b \o Append(n, x)) = b \o n
         /\ Pop(b \o <<x>>) = b
  <1>1. Append(n, x) = n \o <<x>> /\ <<x>> \in Seq(W)
    BY AppendIsConcat
  <1>2. b \o n \in Seq(W)
    BY ConcatProperties
  <1>3. Append(b \o n, x) = (b \o n) \o <<x>>
    BY <1>2, AppendIsConcat
  <1>4. (b \o n) \o <<x>> = b \o (n \o <<x>>)
    BY <1>1, ConcatAssociative
  <1>5. b \o <<x>> = Append(b, x)
    BY AppendIsConcat
  <1>6. b \o Append(n, x) = Append(b \o n, x)
    BY <1>1, <1>3, <1>4
  <1>7. Pop(Append(b \o n, x)) = b \o n /\ Pop(Append(b, x)) = b
    BY <1>2, PopAppend
  <1> QED BY <1>5, <1>6, <1>7

-----------------------------------------------------------------------------
(* What execute() keeps *)

\* The scope holds the names, and there are as many conditionals as ifs.
Stacked(p, fs, i, sc, k) ==
    /\ sc = Base(p, fs, i).names \o ContextIn(p)[i].names
    /\ k = Base(p, fs, i).ifs + ContextIn(p)[i].ifs

\* A macro is known by the name of its definition, which its body is behind.
KnownMacro(p, m) ==
    /\ m.ip - 1 \in 1 .. Len(p)
    /\ p[m.ip - 1].op = IF m.inlined THEN "inline" ELSE "macro"
    /\ m.name[1] # <<>> /\ Top(m.name[1]) = p[m.ip - 1].name

MacrosKnown(p, fs) == \A n \in 1 .. Len(fs) : \A m \in fs[n].macros : KnownMacro(p, m)

Decided(cs) == \A n \in 1 .. Len(cs) : cs[n] = TRUE

\* No branch of an if has been entered only where one is about to be, and then no
\* else was passed.
Undecided(p, i, cs) ==
    /\ \A n \in 1 .. Len(cs) - 1 : cs[n] = TRUE
    /\ Decided(cs) \/ (NextBranch(p, i) /\ NoElse(p, i))

Running(p, fs, i, sc, cs) ==
    /\ Standing(p, fs, i) /\ Stacked(p, fs, i, sc, Len(cs))
    /\ MacrosKnown(p, fs) /\ Undecided(p, i, cs)

ExecutionOK ==
    phase \in {"Query", "Write"} /\ WellFormed =>
      Parsed(program) /\ Running(program, frames, ip, scope, conditionals)

LEMMA ParsedFacts ==
  ASSUME TypeOK, AnalysisOK, WellFormed, phase \in {"Analyze", "Query", "Write"},
         phase = "Analyze" => ip = Len(program) + 1
  PROVE  Parsed(program)
  <1>1. PICK p, n : p = program /\ n = Len(program)
    OBVIOUS
  <1>2. Annotated(p, n + 1, <<>>) /\ n \in Nat
    BY <1>1, TypeFacts DEF AnalysisOK, WellFormed
  <1>3. Len(<<>>) = 0 /\ Below(p, <<>>, 0 + 1) = 0
    BY DEF Below
  <1>4. \A j \in 1 .. n : Settled(p, j, n + 1)
    BY <1>2, <1>3 DEF Annotated, Treated
  <1>5. Opener(p, n + 1) = 0
    BY <1>2, <1>3 DEF Annotated
  <1>6. ContextIn(p)[n + 1] = Outside
    BY <1>2, <1>5, ContextFacts DEF Opener
  <1> QED BY <1>1, <1>2, <1>4, <1>6 DEF Parsed

\* Places that differ by their blocks only are the same to the stacks.
LEMMA Stays ==
  ASSUME NEW p, NEW fs, NEW gs, NEW i, NEW j \in Nat, NEW sc, NEW k,
         Standing(p, fs, i), Stacked(p, fs, i, sc, k), SameShape(fs, gs),
         SameParts(ContextIn(p)[j], ContextIn(p)[i])
  PROVE  Standing(p, gs, j) /\ Stacked(p, gs, j, sc, k)
  <1>1. ContextIn(p)[j].macro = ContextIn(p)[i].macro
    BY DEF SameParts
  <1>2. Standing(p, gs, j) /\ Base(p, gs, j) = Base(p, fs, i)
    BY <1>1, Moved
  <1> QED BY <1>2 DEF Stacked, SameParts

LEMMA SameAgain ==
  ASSUME NEW fs, DOMAIN fs = 1 .. Len(fs)
  PROVE  SameShape(fs, fs)
  BY DEF SameShape

\* What is decided does not depend on where one is.
LEMMA DecidedFacts ==
  ASSUME NEW cs, NEW p, NEW i
  PROVE  /\ Len(cs) \in Nat /\ Decided(cs) => Undecided(p, i, cs)
         /\ Undecided(p, i, cs) /\ p[i].op \notin Branches \cup {"endif"} => Decided(cs)
  BY DEF Decided, Undecided, NextBranch

\* Frames that differ by what they declare.
LEMMA StillKnown ==
  ASSUME NEW p, NEW fs, NEW gs, NEW macros, NEW variables, Changed(fs, gs, macros, variables),
         MacrosKnown(p, fs), \A m \in macros : KnownMacro(p, m)
  PROVE  SameShape(fs, gs) /\ MacrosKnown(p, gs)
  <1>1. SameShape(fs, gs)
    BY DEF Changed, SameShape
  <1>2. ASSUME NEW n \in 1 .. Len(gs), NEW m \in gs[n].macros
        PROVE  KnownMacro(p, m)
    <2>1. n \in 1 .. Len(fs) /\ m \in fs[n].macros \cup macros
      BY <1>2 DEF Changed
    <2> QED BY <2>1 DEF MacrosKnown
  <1> QED BY <1>1, <1>2 DEF MacrosKnown

\* Statements that keep the stacks: a declaration, a block that has no stack, and
\* what is jumped over.
LEMMA KeepsRunning ==
  ASSUME NEW p, NEW fs, NEW gs, NEW i, NEW j \in Nat, NEW sc, NEW cs,
         Running(p, fs, i, sc, cs), Len(cs) \in Nat, p[i].op \notin Branches \cup {"endif"},
         SameShape(fs, gs), MacrosKnown(p, gs), SameParts(ContextIn(p)[j], ContextIn(p)[i])
  PROVE  Running(p, gs, j, sc, cs)
  <1>1. Standing(p, fs, i) /\ Stacked(p, fs, i, sc, Len(cs)) /\ Undecided(p, i, cs)
    BY DEF Running
  <1>2. Standing(p, gs, j) /\ Stacked(p, gs, j, sc, Len(cs))
    BY <1>1, Stays
  <1>3. Undecided(p, j, cs)
    BY <1>1, DecidedFacts
  <1> QED BY <1>2, <1>3 DEF Running

\* A statement that changes the conditionals: the last invocation goes to a place
\* with as many more, or fewer, ifs around it.
LEMMA CountsRunning ==
  ASSUME NEW p, NEW fs, NEW i, NEW j \in Nat, NEW sc, NEW cs, NEW ds,
         Running(p, fs, i, sc, cs),
         ContextIn(p)[j].macro = ContextIn(p)[i].macro, ContextIn(p)[j].names = ContextIn(p)[i].names,
         Len(cs) \in Nat, Len(ds) \in Nat, ContextIn(p)[j].ifs \in Nat,
         Len(ds) - Len(cs) = ContextIn(p)[j].ifs - ContextIn(p)[i].ifs,
         Undecided(p, j, ds)
  PROVE  Running(p, fs, j, sc, ds)
  <1>1. Standing(p, fs, i) /\ Stacked(p, fs, i, sc, Len(cs)) /\ MacrosKnown(p, fs)
    BY DEF Running
  <1>2. Base(p, fs, i).ifs \in Nat /\ ContextIn(p)[i].ifs \in Nat
    BY <1>1, BaseFacts DEF Adds
  <1>3. SameShape(fs, fs)
    BY <1>1, SameAgain DEF Standing
  <1>4. Standing(p, fs, j) /\ Base(p, fs, j) = Base(p, fs, i)
    BY <1>1, <1>3, Moved
  <1>5. PICK a, b, c : a = Base(p, fs, i).ifs /\ b = ContextIn(p)[i].ifs /\ c = ContextIn(p)[j].ifs
    OBVIOUS
  <1>6. Len(cs) = a + b
    BY <1>1, <1>5 DEF Stacked
  <1>7. Len(ds) = a + c
    BY <1>2, <1>5, <1>6
  <1>8. Stacked(p, fs, j, sc, Len(ds))
    BY <1>1, <1>4, <1>5, <1>7 DEF Stacked
  <1> QED BY <1>1, <1>4, <1>8 DEF Running

\* ds is cs but for its last element, which is b.
LastIs(cs, ds, b) ==
    Len(ds) = Len(cs) /\ ds[Len(cs)] = b /\ \A n \in 1 .. Len(cs) - 1 : ds[n] = cs[n]

\* The last conditional.
LEMMA LastCondition ==
  ASSUME NEW cs \in Seq(BOOLEAN)
  PROVE  /\ \A b \in BOOLEAN : /\ Len(Append(cs, b)) = Len(cs) + 1
                               /\ Append(cs, b)[Len(cs) + 1] = b
                               /\ \A n \in 1 .. Len(cs) : Append(cs, b)[n] = cs[n]
         /\ cs # <<>> => \A b \in BOOLEAN : LastIs(cs, [cs EXCEPT ![Len(cs)] = b], b)
         /\ cs # <<>> => /\ Len(cs) \in Nat \ {0} /\ Pop(cs) = Butlast(cs) /\ Len(Butlast(cs)) = Len(cs) - 1
                         /\ \A n \in 1 .. Len(cs) - 1 : Butlast(cs)[n] = cs[n]
                         /\ Top(cs) = cs[Len(cs)] /\ Top(cs) \in BOOLEAN
  <1>1. Len(cs) \in Nat /\ cs \in [1 .. Len(cs) -> BOOLEAN]
    BY LenProperties
  <1>2. cs # <<>> => Len(cs) \in Nat \ {0}
    BY <1>1, EmptySeq
  <1>3. ASSUME cs # <<>>, NEW b \in BOOLEAN, NEW ds, ds = [cs EXCEPT ![Len(cs)] = b]
        PROVE  LastIs(cs, ds, b)
    <2>1. Len(cs) \in 1 .. Len(cs)
      BY <1>2, <1>3
    <2>2. Len(ds) = Len(cs)
      BY <1>3, <2>1, ExceptSeq
    <2>3. ds[Len(cs)] = b /\ \A n \in 1 .. Len(cs) - 1 : ds[n] = cs[n]
      <3>1. DOMAIN cs = 1 .. Len(cs)
        BY <1>1
      <3>2. PICK m : m = Len(cs)
        OBVIOUS
      <3>3. m \in DOMAIN cs /\ ds = [cs EXCEPT ![m] = b]
        BY <1>3, <2>1, <3>1, <3>2
      <3>4. ds[m] = b /\ \A n \in DOMAIN cs : n # m => ds[n] = cs[n]
        BY <3>3, Zenon
      <3>5. \A n \in 1 .. m - 1 : n \in DOMAIN cs /\ n # m
        <4>1. m \in Nat /\ DOMAIN cs = 1 .. m
          BY <1>1, <3>1, <3>2, Zenon
        <4>2. \A n \in 1 .. m - 1 : n \in 1 .. m /\ n # m
          BY <4>1
        <4> QED BY <4>1, <4>2, Zenon
      <3> QED BY <3>2, <3>4, <3>5
    <2> QED BY <2>2, <2>3 DEF LastIs
  <1>4. \A b \in BOOLEAN : /\ Len(Append(cs, b)) = Len(cs) + 1
                           /\ Append(cs, b)[Len(cs) + 1] = b
                           /\ \A n \in 1 .. Len(cs) : Append(cs, b)[n] = cs[n]
    BY AppendProperties
  <1>5. cs # <<>> => /\ Len(cs) \in Nat \ {0} /\ Pop(cs) = Butlast(cs) /\ Len(Butlast(cs)) = Len(cs) - 1
                     /\ \A n \in 1 .. Len(cs) - 1 : Butlast(cs)[n] = cs[n]
                     /\ Top(cs) = cs[Len(cs)] /\ Top(cs) \in BOOLEAN
    BY ButlastFacts DEF Pop, Top
  <1> QED BY <1>3, <1>4, <1>5

\* An if is decided or goes on to its next branch.
LEMMA IfRunning ==
  ASSUME NEW p, NEW fs, NEW i, NEW sc, NEW cs \in Seq(BOOLEAN), NEW b \in BOOLEAN, NEW ds,
         Parsed(p), Running(p, fs, i, sc, cs), i \in 1 .. Len(p), p[i].op = "if",
         ds = Append(cs, b)
  PROVE  IF b THEN Running(p, fs, i + 1, sc, ds) ELSE Running(p, fs, p[i].jump, sc, ds)
  <1>1. /\ i \in Nat \ {0} /\ i + 1 \in Nat
        /\ p[i].op \in Openers /\ p[i].op \notin Branches \cup {"endif"}
    <2>1. p[i].op \notin Branches \cup {"endif"}
      BY Kinds DEF Openers
    <2> QED BY <2>1 DEF Parsed, Openers
  <1>2. PICK c, d : c = ContextIn(p)[i] /\ d = ContextIn(p)[i + 1]
    OBVIOUS
  <1>3. d.macro = c.macro /\ d.names = c.names /\ d.ifs = c.ifs + 1 /\ c.ifs \in Nat
    <2>1. Entered(p[i], i, c, d)
      BY <1>1, <1>2, IntoBlock
    <2>2. c.ifs \in Nat
      BY <1>1, <1>2, ContextFacts DEF Contexts
    <2> QED BY <2>1, <2>2 DEF Entered
  <1>4. /\ Len(cs) \in Nat /\ Len(ds) = Len(cs) + 1 /\ ds[Len(cs) + 1] = b
        /\ \A n \in 1 .. Len(cs) : ds[n] = cs[n]
    BY LastCondition, LenProperties
  <1>5. Decided(cs)
    BY <1>1, DecidedFacts DEF Running
  <1>6. \A n \in 1 .. Len(ds) - 1 : ds[n] = TRUE
    BY <1>4, <1>5 DEF Decided
  <1>7. CASE b
    <2>1. Decided(ds)
      <3>1. ds[Len(ds)] = TRUE
        BY <1>4, <1>7
      <3>2. \A n \in 1 .. Len(ds) : n \in 1 .. Len(ds) - 1 \/ n = Len(ds)
        BY <1>4
      <3> QED BY <1>6, <3>1, <3>2 DEF Decided
    <2>2. Undecided(p, i + 1, ds) /\ Len(ds) \in Nat /\ d.ifs \in Nat /\ Len(ds) - Len(cs) = d.ifs - c.ifs
      BY <1>3, <1>4, <2>1, DecidedFacts
    <2> QED BY <1>1, <1>2, <1>3, <1>4, <1>7, <2>2, CountsRunning
  <1>8. CASE ~b
    <2>1. PICK j : j = p[i].jump
      OBVIOUS
    <2>2. j \in Nat /\ ContextIn(p)[j] = d /\ NextBranch(p, j) /\ NoElse(p, j)
      BY <1>2, <2>1, Branched DEF Parsed
    <2>3. Undecided(p, j, ds)
      BY <1>6, <2>2 DEF Undecided
    <2>4. Len(ds) \in Nat /\ d.ifs \in Nat /\ Len(ds) - Len(cs) = d.ifs - c.ifs
      BY <1>3, <1>4
    <2> QED BY <1>2, <1>3, <1>4, <1>8, <2>1, <2>2, <2>3, <2>4, CountsRunning, ZenonT(30)
  <1> QED BY <1>7, <1>8

\* A branch is passed, entered, or goes on to the next.
LEMMA BranchRunning ==
  ASSUME NEW p, NEW fs, NEW i, NEW sc, NEW cs \in Seq(BOOLEAN), NEW b \in BOOLEAN, NEW ds,
         Parsed(p), Running(p, fs, i, sc, cs), i \in 1 .. Len(p), p[i].op \in Branches,
         cs # <<>>, LastIs(cs, ds, b)
  PROVE  /\ Top(cs) => Running(p, fs, p[i].jump, sc, cs)
         /\ ~Top(cs) /\ b => Running(p, fs, i + 1, sc, ds)
         /\ ~Top(cs) /\ ~b /\ p[i].op \in Branches \ {"else"} => Running(p, fs, p[i].jump, sc, ds)
  <1>1. i + 1 \in Nat
    BY DEF Parsed
  <1>2. PICK j, c : j = p[i].jump /\ c = ContextIn(p)[i]
    OBVIOUS
  <1>3. /\ j \in Nat /\ ContextIn(p)[j] = c /\ ContextIn(p)[i + 1] = c /\ NextBranch(p, j)
        /\ p[i].op \in Branches \ {"else"} /\ NoElse(p, i) => NoElse(p, j)
    BY <1>2, Branched DEF Parsed
  <1>4. c.ifs \in Nat
    BY <1>1, <1>2, ContextFacts DEF Contexts, Parsed
  <1>5. /\ Len(cs) \in Nat \ {0} /\ Len(ds) = Len(cs) /\ ds[Len(cs)] = b
        /\ \A n \in 1 .. Len(cs) - 1 : ds[n] = cs[n]
    BY LastCondition DEF LastIs
  <1>6. Undecided(p, i, cs)
    BY DEF Running
  <1>7. \A n \in 1 .. Len(cs) : n \in 1 .. Len(cs) - 1 \/ n = Len(cs)
    BY <1>5
  <1>8. \A n \in 1 .. Len(cs) - 1 : cs[n] = TRUE /\ ds[n] = TRUE
    BY <1>5, <1>6 DEF Undecided
  <1>9. Len(cs) - Len(cs) = c.ifs - c.ifs /\ Len(ds) - Len(cs) = c.ifs - c.ifs
    BY <1>4, <1>5
  <1>10. ASSUME Top(cs)
         PROVE  Running(p, fs, j, sc, cs)
    <2>1. cs[Len(cs)] = TRUE
      BY <1>10, LastCondition
    <2>2. Decided(cs)
      BY <1>7, <1>8, <2>1 DEF Decided
    <2>3. Undecided(p, j, cs)
      BY <1>5, <2>2, DecidedFacts
    <2> QED BY <1>2, <1>3, <1>4, <1>5, <1>9, <2>3, CountsRunning
  <1>11. ASSUME ~Top(cs), b
         PROVE  Running(p, fs, i + 1, sc, ds)
    <2>1. ds[Len(cs)] = TRUE
      BY <1>5, <1>11
    <2>2. Decided(ds)
      BY <1>5, <1>7, <1>8, <2>1 DEF Decided
    <2>3. Undecided(p, i + 1, ds)
      BY <1>5, <2>2, DecidedFacts
    <2> QED BY <1>1, <1>2, <1>3, <1>4, <1>5, <1>9, <2>3, CountsRunning
  <1>12. ASSUME ~Top(cs), ~b, p[i].op \in Branches \ {"else"}
         PROVE  Running(p, fs, j, sc, ds)
    <2>1. ~Decided(cs)
      <3>1. cs[Len(cs)] # TRUE
        BY <1>12 DEF Top
      <3>2. Len(cs) \in 1 .. Len(cs)
        BY <1>5
      <3> QED BY <3>1, <3>2 DEF Decided
    <2>2. NoElse(p, i)
      BY <1>6, <2>1 DEF Undecided
    <2>3. Undecided(p, j, ds)
      BY <1>3, <1>5, <1>8, <1>12, <2>2 DEF Undecided
    <2> QED BY <1>2, <1>3, <1>4, <1>5, <1>9, <2>3, CountsRunning, SMTT(30)
  <1> QED BY <1>2, <1>10, <1>11, <1>12

\* At the end of an if its conditional is there to be taken away.
LEMMA EndIfRunning ==
  ASSUME NEW p, NEW fs, NEW i, NEW sc, NEW cs \in Seq(BOOLEAN),
         Parsed(p), Running(p, fs, i, sc, cs), i \in 1 .. Len(p), p[i].op = "endif"
  PROVE  cs # <<>> /\ Running(p, fs, i + 1, sc, Pop(cs))
  <1>1. i \in Nat /\ i + 1 \in Nat
    BY DEF Parsed
  <1>2. PICK c, d : c = ContextIn(p)[i] /\ d = ContextIn(p)[i + 1]
    OBVIOUS
  <1>3. d.macro = c.macro /\ d.names = c.names /\ c.ifs = d.ifs + 1 /\ d.ifs \in Nat
    <2>1. d.ifs \in Nat
      BY <1>1, <1>2, ContextFacts DEF Contexts
    <2> QED BY <1>2, <2>1, Closed
  <1>4. cs # <<>>
    <2>1. Len(cs) = Base(p, fs, i).ifs + c.ifs /\ Base(p, fs, i).ifs \in Nat
      BY <1>2, BaseFacts DEF Running, Stacked, Adds
    <2>2. Len(cs) # 0
      BY <1>3, <2>1
    <2> QED BY <2>2, EmptySeq
  <1>5. PICK ds : ds = Pop(cs)
    OBVIOUS
  <1>6. /\ Len(cs) \in Nat \ {0} /\ Len(ds) = Len(cs) - 1
        /\ \A n \in 1 .. Len(cs) - 1 : ds[n] = cs[n]
    BY <1>4, <1>5, LastCondition
  <1>7. Decided(ds)
    BY <1>6 DEF Running, Undecided, Decided
  <1>8. Undecided(p, i + 1, ds) /\ Len(ds) \in Nat /\ Len(ds) - Len(cs) = d.ifs - c.ifs
    BY <1>3, <1>6, <1>7, DecidedFacts
  <1> QED BY <1>1, <1>2, <1>3, <1>4, <1>5, <1>6, <1>8, CountsRunning

\* The scopes inside an invocation.
LEMMA ScopeRunning ==
  ASSUME NEW p, NEW fs, NEW i, NEW sc, NEW cs,
         Parsed(p), Running(p, fs, i, sc, cs), Len(cs) \in Nat, i \in 1 .. Len(p)
  PROVE  /\ p[i].op \in Scopes => Running(p, fs, i + 1, Append(sc, p[i].name), cs)
         /\ p[i].op \in {End(t) : t \in Scopes} => Running(p, fs, i + 1, Pop(sc), cs)
  <1>1. i \in Nat \ {0} /\ i + 1 \in Nat
    BY DEF Parsed
  <1>2. PICK c, d, b : c = ContextIn(p)[i] /\ d = ContextIn(p)[i + 1] /\ b = Base(p, fs, i)
    OBVIOUS
  <1>3. Standing(p, fs, i) /\ Stacked(p, fs, i, sc, Len(cs)) /\ MacrosKnown(p, fs) /\ Undecided(p, i, cs)
    BY DEF Running
  <1>4. SameShape(fs, fs)
    BY <1>3, SameAgain DEF Standing
  <1>5. b.names \in Seq(Wide(p)) /\ c.names \in Seq(Wide(p)) /\ d.names \in Seq(Wide(p))
    <2>1. d.names \in Seq(Wide(p))
      BY <1>1, <1>2, ContextFacts DEF Contexts
    <2> QED BY <1>2, <1>3, <2>1, BaseFacts DEF Adds
  <1>6. \A k \in Nat : p[k].name \in Wide(p)
    BY DEF Wide
  <1>7. ASSUME p[i].op \in Scopes
        PROVE  Running(p, fs, i + 1, Append(sc, p[i].name), cs)
    <2>1. p[i].op \in Openers /\ p[i].op \notin Branches \cup {"endif"}
      BY <1>7, Kinds
    <2>2. d.macro = c.macro /\ d.ifs = c.ifs /\ d.names = Append(c.names, p[i].name)
      <3>1. Entered(p[i], i, c, d)
        BY <1>1, <1>2, <2>1, IntoBlock
      <3> QED BY <1>7, <3>1 DEF Entered
    <2>3. Standing(p, fs, i + 1) /\ Base(p, fs, i + 1) = b
      BY <1>1, <1>2, <1>3, <1>4, <2>2, Moved
    <2>4. Append(sc, p[i].name) = b.names \o d.names
      <3>1. PICK W, x, n, e : W = Wide(p) /\ x = p[i].name /\ n = c.names /\ e = b.names
        OBVIOUS
      <3>2. e \in Seq(W) /\ n \in Seq(W) /\ x \in W
        BY <1>1, <1>5, <1>6, <3>1
      <3>3. e \o Append(n, x) = Append(e \o n, x)
        BY <3>2, NamesAdded
      <3>4. sc = e \o n
        BY <1>2, <1>3, <3>1 DEF Stacked
      <3> QED BY <2>2, <3>1, <3>3, <3>4
    <2>5. Stacked(p, fs, i + 1, Append(sc, p[i].name), Len(cs))
      BY <1>2, <1>3, <2>2, <2>3, <2>4 DEF Stacked
    <2>6. Undecided(p, i + 1, cs)
      BY <1>3, <2>1, DecidedFacts
    <2> QED BY <1>3, <2>3, <2>5, <2>6 DEF Running
  <1>8. ASSUME p[i].op \in {End(t) : t \in Scopes}
        PROVE  Running(p, fs, i + 1, Pop(sc), cs)
    <2>1. p[i].op \notin Branches \cup {"endif"}
      <3>1. p[i].op \in {"endnamespace", "endfunction"}
        BY <1>8 DEF End, Scopes
      <3> QED BY <3>1, Kinds
    <2>2. PICK o : o = Opener(p, i)
      OBVIOUS
    <2>3. d.macro = c.macro /\ d.ifs = c.ifs /\ c.names = Append(d.names, p[o].name)
      BY <1>2, <1>8, <2>2, Closed
    <2>4. o \in Nat
      BY <1>1, <2>2, ContextFacts DEF Opener, Contexts
    <2>5. Standing(p, fs, i + 1) /\ Base(p, fs, i + 1) = b
      BY <1>1, <1>2, <1>3, <1>4, <2>3, Moved
    <2>6. Pop(sc) = b.names \o d.names
      <3>1. PICK W, x, n, e : W = Wide(p) /\ x = p[o].name /\ n = d.names /\ e = b.names
        OBVIOUS
      <3>2. e \in Seq(W) /\ n \in Seq(W) /\ x \in W
        BY <1>5, <1>6, <2>4, <3>1
      <3>3. Pop(e \o Append(n, x)) = e \o n
        <4>1. e \o Append(n, x) = Append(e \o n, x)
          BY <3>2, NamesAdded
        <4>2. PICK t : t = e \o n
          OBVIOUS
        <4>3. t \in Seq(W)
          BY <3>2, <4>2, ConcatProperties
        <4>4. Pop(Append(t, x)) = t
          BY <3>2, <4>3, PopAppend
        <4> QED BY <4>1, <4>2, <4>4
      <3>4. sc = e \o Append(n, x)
        BY <1>2, <1>3, <2>3, <3>1 DEF Stacked
      <3> QED BY <3>1, <3>3, <3>4
    <2>7. Stacked(p, fs, i + 1, Pop(sc), Len(cs))
      BY <1>2, <1>3, <2>3, <2>5, <2>6 DEF Stacked
    <2>8. Undecided(p, i + 1, cs)
      BY <1>3, <2>1, DecidedFacts
    <2> QED BY <1>3, <2>5, <2>7, <2>8 DEF Running
  <1> QED BY <1>7, <1>8

\* A call: the scope gets the name of a macro, and none of an inline.
LEMMA CallRunning ==
  ASSUME NEW p, NEW fs, NEW gs, NEW i, NEW sc, NEW cs, NEW m, NEW f,
         Parsed(p), Running(p, fs, i, sc, cs), Len(cs) \in Nat, i \in 1 .. Len(p),
         p[i].op \notin Branches \cup {"endif"}, ContextIn(p)[i + 1] = ContextIn(p)[i],
         KnownMacro(p, m), m.ip \in Nat, Top(m.name[1]) = p[i].name,
         Pushed(fs, gs, f), f.ip = i + 1, f.inlined = m.inlined, f.macros = {}
  PROVE  Running(p, gs, m.ip, IF m.inlined THEN sc ELSE Append(sc, p[i].name), cs)
  <1>1. PICK j, o, r, l : j = m.ip /\ o = m.ip - 1 /\ r = i + 1 /\ l = Len(fs)
    OBVIOUS
  <1>2. /\ j \in Nat /\ r \in Nat /\ i \in Nat
        /\ o \in Nat \ {0} /\ o + 1 = j /\ p[o].op = IF m.inlined THEN "inline" ELSE "macro"
        /\ p[o].name = p[i].name
    <2>1. o \in 1 .. Len(p) /\ j \in Nat /\ o = j - 1
      BY <1>1 DEF KnownMacro
    <2>2. p[o].op = (IF m.inlined THEN "inline" ELSE "macro") /\ p[o].name = p[i].name
      BY <1>1 DEF KnownMacro
    <2>3. i \in Nat /\ r \in Nat
      BY <1>1 DEF Parsed
    <2> QED BY <2>1, <2>2, <2>3 DEF Parsed
  <1>3. Standing(p, fs, i) /\ Stacked(p, fs, i, sc, Len(cs)) /\ MacrosKnown(p, fs) /\ Decided(cs)
    BY DecidedFacts DEF Running
  <1>4. l \in Nat \ {0}
    BY <1>1, <1>3 DEF Standing
  <1>5. PICK c, d, x : c = ContextIn(p)[i] /\ d = ContextIn(p)[j] /\ x = p[i].name
    OBVIOUS
  <1>6. d.macro = o /\ d.ifs = 0 /\ d.names = IF m.inlined THEN <<>> ELSE <<x>>
    <2>1. p[o].op \in Macros /\ p[o].op \in Openers
      BY <1>2 DEF Macros, Openers
    <2>2. Entered(p[o], o, ContextIn(p)[o], d)
      BY <1>2, <1>5, <2>1, IntoBlock
    <2> QED BY <1>2, <1>5, <2>1, <2>2 DEF Entered
  <1>7. Stands(p, d.macro, l + 1, f.inlined)
    BY <1>1, <1>2, <1>4, <1>6, SMTT(30) DEF Stands
  <1>8. Standing(p, gs, j) /\ Base(p, gs, j) = Total(p, fs, i)
    <2>1. ContextIn(p)[f.ip] = ContextIn(p)[i] /\ f.ip \in Nat
      BY <1>1, <1>2
    <2>2. Stands(p, ContextIn(p)[j].macro, Len(fs) + 1, f.inlined)
      BY <1>1, <1>5, <1>7
    <2>3. Invokes(p, fs, f, i, j)
      BY <1>2, <2>1, <2>2 DEF Invokes
    <2> QED BY <1>3, <2>3, Invoked
  <1>9. PICK b, e, u : b = Base(p, fs, i) /\ e = Base(p, gs, j) /\ u = ContextIn(p)[i]
    OBVIOUS
  <1>10. e.names = sc /\ e.ifs = Len(cs) /\ b.names \in Seq(Wide(p)) /\ u.names \in Seq(Wide(p))
    <2>1. /\ b.names \in Seq(Wide(p)) /\ u.names \in Seq(Wide(p))
          /\ Total(p, fs, i) = [names |-> b.names \o u.names, ifs |-> b.ifs + u.ifs]
      <3>1. Adds(p, fs, i)
        BY <1>3, BaseFacts
      <3> QED BY <1>9, <3>1 DEF Adds
    <2>2. sc = b.names \o u.names /\ Len(cs) = b.ifs + u.ifs
      BY <1>3, <1>9 DEF Stacked
    <2>3. e = [names |-> sc, ifs |-> Len(cs)]
      BY <1>8, <1>9, <2>1, <2>2
    <2> QED BY <2>1, <2>3
  <1>11. sc \in Seq(Wide(p))
    <2>1. sc = b.names \o u.names
      BY <1>3, <1>9 DEF Stacked
    <2> QED BY <1>10, <2>1, ConcatProperties
  <1>12. x \in Wide(p)
    BY <1>2, <1>5 DEF Wide
  <1>13. (IF m.inlined THEN sc ELSE Append(sc, x)) = sc \o d.names
    <2>1. CASE m.inlined
      <3>1. sc \o <<>> = sc
        BY <1>11, ConcatEmptySeq
      <3> QED BY <1>6, <2>1, <3>1
    <2>2. CASE ~m.inlined
      <3>1. sc \o <<x>> = Append(sc, x)
        BY <1>11, <1>12, AppendIsConcat
      <3> QED BY <1>6, <2>2, <3>1
    <2> QED BY <2>1, <2>2
  <1>14. Stacked(p, gs, j, IF m.inlined THEN sc ELSE Append(sc, x), Len(cs))
    <2>1. PICK s, k : s = (IF m.inlined THEN sc ELSE Append(sc, x)) /\ k = Len(cs)
      OBVIOUS
    <2>2. s = e.names \o d.names /\ k = e.ifs + d.ifs
      BY <1>6, <1>10, <1>13, <2>1, SMTT(30)
    <2>3. Stacked(p, gs, j, s, k)
      BY <1>5, <1>9, <2>2 DEF Stacked
    <2> QED BY <2>1, <2>3
  <1>15. MacrosKnown(p, gs)
    <2>1. ASSUME NEW n \in 1 .. Len(gs), NEW k \in gs[n].macros
          PROVE  KnownMacro(p, k)
      <3>1. CASE n \in 1 .. l
        BY <1>1, <1>3, <2>1, <3>1 DEF MacrosKnown, Pushed
      <3>2. CASE n = l + 1
        BY <1>1, <2>1, <3>2 DEF Pushed
      <3>3. n \in 1 .. l \/ n = l + 1
        BY <1>1, <1>4 DEF Pushed
      <3> QED BY <3>1, <3>2, <3>3
    <2> QED BY <2>1 DEF MacrosKnown
  <1>16. Undecided(p, j, cs)
    BY <1>3, DecidedFacts
  <1> QED BY <1>1, <1>5, <1>8, <1>14, <1>15, <1>16 DEF Running

\* A return: the root frame is never left, and what the call added is gone.
LEMMA ReturnRunning ==
  ASSUME NEW p, NEW fs, NEW gs, NEW i, NEW sc, NEW cs,
         Parsed(p), Running(p, fs, i, sc, cs), Len(cs) \in Nat, i \in 1 .. Len(p),
         p[i].op \in {"endmacro", "endinline"},
         Len(gs) = Len(fs) - 1, DOMAIN gs = 1 .. Len(fs) - 1, \A k \in 1 .. Len(fs) - 1 : gs[k] = fs[k]
  PROVE  Running(p, gs, fs[Len(fs)].ip, IF fs[Len(fs)].inlined THEN sc ELSE Pop(sc), cs)
  <1>1. PICK j, o, l, c, b : /\ j = fs[Len(fs)].ip /\ o = Opener(p, i) /\ l = Len(fs)
                             /\ c = ContextIn(p)[i] /\ b = Base(p, fs, i)
    OBVIOUS
  <1>2. Standing(p, fs, i) /\ Stacked(p, fs, i, sc, Len(cs)) /\ MacrosKnown(p, fs) /\ Decided(cs)
    <2>1. p[i].op \notin Branches \cup {"endif"}
      BY Kinds
    <2> QED BY <2>1, DecidedFacts DEF Running
  <1>3. /\ c.macro = o /\ o \in 1 .. i - 1 /\ c.ifs = 0
        /\ \/ p[o].op = "macro" /\ c.names = <<p[o].name>>
           \/ p[o].op = "inline" /\ c.names = <<>>
    BY <1>1, Closed
  <1>4. l \in Nat \ {0} /\ Stands(p, o, l, fs[l].inlined)
    <2>1. l \in Nat \ {0} /\ PlacesOf(fs, i)[l] = i
      <3>1. l \in Nat \ {0} /\ DOMAIN fs = 1 .. l
        BY <1>1, <1>2 DEF Standing
      <3> QED BY <1>1, <3>1 DEF PlacesOf
    <2> QED BY <1>1, <1>2, <1>3, <2>1 DEF Standing
  <1>5. l > 1 /\ p[o].op = IF fs[l].inlined THEN "inline" ELSE "macro"
    BY <1>3, <1>4 DEF Stands
  <1>6. Standing(p, gs, j) /\ Total(p, gs, j) = b
    BY <1>1, <1>2, <1>5, Returned
  <1>7. b.names \in Seq(Wide(p)) /\ b.ifs \in Nat
    BY <1>1, <1>2, BaseFacts DEF Adds
  <1>8. b = [names |-> Base(p, gs, j).names \o ContextIn(p)[j].names,
             ifs   |-> Base(p, gs, j).ifs + ContextIn(p)[j].ifs]
    BY <1>6, BaseFacts DEF Adds
  <1>9. sc = b.names \o c.names /\ Len(cs) = b.ifs
    BY <1>1, <1>2, <1>3, <1>7 DEF Stacked
  <1>10. (IF fs[l].inlined THEN sc ELSE Pop(sc)) = b.names
    <2>1. CASE fs[l].inlined
      <3>1. c.names = <<>>
        BY <1>3, <1>5, <2>1
      <3>2. b.names \o <<>> = b.names
        BY <1>7, ConcatEmptySeq
      <3> QED BY <1>9, <2>1, <3>1, <3>2
    <2>2. CASE ~fs[l].inlined
      <3>1. PICK x, e, W : x = p[o].name /\ e = b.names /\ W = Wide(p)
        OBVIOUS
      <3>2. c.names = <<x>>
        BY <1>3, <1>5, <2>2, <3>1
      <3>3. x \in W /\ e \in Seq(W)
        BY <1>3, <1>7, <3>1 DEF Wide, Parsed
      <3>4. e \o <<x>> = Append(e, x)
        BY <3>3, AppendIsConcat
      <3>5. Pop(Append(e, x)) = e
        BY <3>3, PopAppend
      <3> QED BY <1>9, <2>2, <3>1, <3>2, <3>4, <3>5
    <2> QED BY <2>1, <2>2
  <1>11. Stacked(p, gs, j, b.names, Len(cs))
    BY <1>8, <1>9 DEF Stacked
  <1>12. MacrosKnown(p, gs)
    <2>1. \A n \in 1 .. Len(gs) : n \in 1 .. Len(fs) /\ gs[n] = fs[n]
      BY <1>1, <1>4
    <2> QED BY <1>2, <2>1 DEF MacrosKnown
  <1>13. Undecided(p, j, cs)
    BY <1>2, DecidedFacts
  <1>14. Running(p, gs, j, b.names, cs)
    BY <1>6, <1>11, <1>12, <1>13 DEF Running
  <1> QED BY <1>1, <1>10, <1>14

\* The start of a pass.
LEMMA StartRunning ==
  ASSUME NEW p
  PROVE  Running(p, <<Root>>, 1, <<>>, <<>>)
  <1>1. PICK fs : fs = <<Root>>
    OBVIOUS
  <1>2. Len(fs) = 1 /\ DOMAIN fs = 1 .. 1 /\ fs[1] = Root
    BY <1>1
  <1>3. PlacesOf(fs, 1)[1] = 1
    BY <1>2 DEF PlacesOf
  <1>4. ContextIn(p)[1] = Outside
    BY ContextStep
  <1>5. Standing(p, fs, 1)
    BY <1>2, <1>3, <1>4 DEF Standing, Stands, Outside
  <1>6. Base(p, fs, 1) = [names |-> <<>>, ifs |-> 0]
    <2>1. PICK c, q : c = ContextIn(p) /\ q = PlacesOf(fs, 1)
      OBVIOUS
    <2>2. Summable(c, q, Wide(p)) /\ Len(q) = 1
      BY <1>2, <1>5, <2>1, PlacesFacts DEF PlacesRight
    <2>3. Sum(c, q)[0] = SumStep(c, q, Sum(c, q), 0)
      BY <2>2, SumFacts
    <2> QED BY <1>2, <2>1, <2>3 DEF Base, SumStep
  <1>7. Stacked(p, fs, 1, <<>>, 0)
    BY <1>4, <1>6 DEF Stacked, Outside
  <1>8. MacrosKnown(p, fs)
    BY <1>2 DEF MacrosKnown, Root
  <1>9. Len(<<>>) = 0 /\ Decided(<<>>)
    BY DEF Decided
  <1>10. Undecided(p, 1, <<>>)
    BY <1>9, DecidedFacts
  <1> QED BY <1>1, <1>5, <1>7, <1>8, <1>9, <1>10 DEF Running

\* The statement a step of execute() is at, and what the step leaves alone.
LEMMA ExecutingFacts ==
  ASSUME TypeOK, ExecutionOK, Executing, WellFormed, Executed
  PROVE  /\ ip \in 1 .. Len(program) /\ ip \in Nat /\ ip + 1 \in Nat
         /\ Parsed(program) /\ Running(program, frames, ip, scope, conditionals)
         /\ conditionals \in Seq(BOOLEAN) /\ Len(conditionals) \in Nat
         /\ S = program[ip] /\ program' = program
         /\ SameShape(frames, frames) /\ MacrosKnown(program, frames)
  <1>1. phase \in {"Query", "Write"} /\ ip <= Len(program)
    BY DEF Executing
  <1>2. Parsed(program) /\ Running(program, frames, ip, scope, conditionals)
    BY <1>1 DEF ExecutionOK
  <1>3. Len(program) \in Nat /\ ip \in 1 .. Len(program)
    BY <1>1, TypeFacts, StatementFacts
  <1>4. DOMAIN frames = 1 .. Len(frames)
    BY <1>2 DEF Running, Standing
  <1> QED BY <1>2, <1>3, <1>4, SameAgain, TypeFacts DEF S, Executed, TypeOK, Running

\* Statements that leave the stacks alone.
LEMMA DeclaringStep ==
  ASSUME TypeOK, ExecutionOK, WellFormed, DefineMacro \/ DeclareVariable \/ Assign
  PROVE  Running(program, frames', ip', scope', conditionals')
  <1> DEFINE p == program
             i == ip
  <1>1. /\ Executing /\ Executed /\ scope' = scope /\ conditionals' = conditionals
        /\ S.op \in Macros \cup Values
    BY DEF DefineMacro, DeclareVariable, Assign, Executes, Values
  <1>2. /\ i \in 1 .. Len(p) /\ i \in Nat \ {0} /\ Parsed(p) /\ Running(p, frames, i, scope, conditionals)
        /\ Len(conditionals) \in Nat /\ S = p[i] /\ MacrosKnown(p, frames)
    BY <1>1, ExecutingFacts
  <1>3. p[i].op \notin Branches \cup {"endif"}
    BY <1>1, <1>2, Kinds DEF Values
  <1> HIDE DEF p, i
  <1>4. ASSUME NEW gs, NEW j \in Nat, SameShape(frames, gs), MacrosKnown(p, gs),
               ContextIn(p)[j] = ContextIn(p)[i]
        PROVE  Running(p, gs, j, scope, conditionals)
    <2>1. SameParts(ContextIn(p)[j], ContextIn(p)[i])
      BY <1>4 DEF SameParts
    <2> QED BY <1>2, <1>3, <1>4, <2>1, KeepsRunning
  <1>5. CASE DefineMacro
    <2>1. Changed(frames, frames', {Defined}, {}) /\ S.op \in Macros /\ Jump
      BY <1>5, DefineMacroFrames DEF DefineMacro, Executes
    <2>2. p[i].jump \in 1 .. Len(p) + 1 /\ ContextIn(p)[p[i].jump] = ContextIn(p)[i]
      BY <1>2, <2>1, OverBlock
    <2>3. ip' = p[i].jump
      BY <1>2, <2>1, <2>2 DEF Jump, Unset
    <2>4. KnownMacro(p, Defined)
      <3>1. /\ Defined.ip = i + 1 /\ Defined.inlined = (S.op = "inline")
            /\ Defined.name[1] = Append(scope, S.name)
        BY DEF Defined, i
      <3>2. p[i].op = IF Defined.inlined THEN "inline" ELSE "macro"
        BY <1>2, <2>1, <3>1 DEF Macros
      <3>3. Append(scope, S.name) # <<>> /\ Top(Append(scope, S.name)) = S.name
        <4>1. scope \in Seq(Names) /\ S.name \in Names
          BY <1>1, StatementFacts DEF TypeOK, Executing
        <4>2. PICK s, x, q : s = scope /\ x = S.name /\ q = Append(s, x)
          OBVIOUS
        <4>3. q # <<>> /\ Len(q) = Len(s) + 1 /\ q[Len(s) + 1] = x
          BY <4>1, <4>2, AppendProperties
        <4> QED BY <4>2, <4>3 DEF Top
      <3>4. PICK o : o = Defined.ip - 1
        OBVIOUS
      <3>5. o = i
        BY <1>2, <3>1, <3>4
      <3>6. o \in 1 .. Len(p) /\ p[o].op = (IF Defined.inlined THEN "inline" ELSE "macro")
        BY <1>2, <3>2, <3>5
      <3>7. Defined.name[1] # <<>> /\ Top(Defined.name[1]) = p[o].name
        BY <1>2, <3>1, <3>3, <3>5
      <3> QED BY <3>4, <3>6, <3>7 DEF KnownMacro
    <2>5. PICK gs, j : gs = frames' /\ j = ip'
      OBVIOUS
    <2>6. SameShape(frames, gs) /\ MacrosKnown(p, gs)
      BY <1>2, <2>1, <2>4, <2>5, StillKnown
    <2>7. j \in Nat /\ ContextIn(p)[j] = ContextIn(p)[i]
      BY <1>2, <2>2, <2>3, <2>5 DEF Parsed
    <2> QED BY <1>1, <1>4, <2>5, <2>6, <2>7 DEF p
  <1>6. CASE DeclareVariable \/ Assign
    <2>1. PICK x, gs : Changed(frames, gs, {}, {x}) /\ gs = frames'
      BY <1>6, DeclareVariableFrames, AssignFrames
    <2>2. S.op \in Values /\ ip' = i + 1
      BY <1>6 DEF DeclareVariable, Assign, Executes, Values, i
    <2>3. SameShape(frames, gs) /\ MacrosKnown(p, gs)
      BY <1>2, <2>1, StillKnown
    <2>4. ContextIn(p)[i + 1] = ContextIn(p)[i] /\ i + 1 \in Nat
      BY <1>2, <2>2, OverPlain
    <2>5. Running(p, gs, i + 1, scope, conditionals)
      BY <1>4, <2>3, <2>4
    <2> QED BY <1>1, <2>1, <2>2, <2>5 DEF p
  <1> QED BY <1>5, <1>6

\* Ifs and their branches.
LEMMA BranchingStep ==
  ASSUME TypeOK, ExecutionOK, WellFormed, If \/ ElseIf \/ Else \/ EndIf
  PROVE  Running(program, frames', ip', scope', conditionals')
  <1> DEFINE p == program
             i == ip
             Goes(j, ds) == Running(p, frames, j, scope, ds)
  <1>1. Executing /\ Executed /\ scope' = scope /\ frames' = frames
    BY DEF If, ElseIf, Else, EndIf, Executes
  <1>2. /\ i \in 1 .. Len(p) /\ i \in Nat \ {0} /\ Parsed(p) /\ Goes(i, conditionals)
        /\ conditionals \in Seq(BOOLEAN) /\ S = p[i]
    BY <1>1, ExecutingFacts
  <1>3. ASSUME NEW j, NEW ds, Goes(j, ds), ip' = j, conditionals' = ds
        PROVE  Running(program, frames', ip', scope', conditionals')
    BY <1>1, <1>3
  <1> HIDE DEF p, i
  <1>4. ASSUME Jump, S.op \in {"if"} \cup Branches
        PROVE  ip' = p[i].jump
    <2>1. p[i].jump \in 1 .. Len(p)
      BY <1>2, <1>4, Branched
    <2> QED BY <1>2, <1>4, <2>1 DEF Jump, Unset
  <1>5. ASSUME NEW b \in BOOLEAN, conditionals # <<>>, Matched(b)
        PROVE  LastIs(conditionals, conditionals', b)
    BY <1>2, <1>5, LastCondition DEF Matched
  <1>6. CASE If
    <2>1. PICK b \in BOOLEAN : /\ conditionals' = Append(conditionals, b)
                               /\ IF b THEN ip' = i + 1 ELSE Jump
      BY <1>6 DEF If, i
    <2>2. S.op = "if"
      BY <1>6 DEF If, Executes
    <2>3. PICK ds : ds = Append(conditionals, b)
      OBVIOUS
    <2>4. IF b THEN Goes(i + 1, ds) ELSE Goes(p[i].jump, ds)
      BY <1>2, <2>2, <2>3, IfRunning
    <2>5. CASE b
      BY <1>3, <2>1, <2>3, <2>4, <2>5
    <2>6. CASE ~b
      <3>1. ip' = p[i].jump
        BY <1>4, <2>1, <2>2, <2>6
      <3> QED BY <1>3, <2>1, <2>3, <2>4, <2>6, <3>1
    <2> QED BY <2>5, <2>6
  <1>7. CASE ElseIf \/ Else
    <2>1. S.op \in Branches /\ conditionals # <<>>
      <3>1. CASE ElseIf
        BY <3>1, Zenon DEF ElseIf, Executes, Branches
      <3>2. CASE Else
        BY <3>2, Zenon DEF Else, Executes, Branches
      <3> QED BY <1>7, <3>1, <3>2
    <2>2. ASSUME Top(conditionals), Jump, conditionals' = conditionals
          PROVE  Running(program, frames', ip', scope', conditionals')
      <3>1. LastIs(conditionals, [conditionals EXCEPT ![Len(conditionals)] = TRUE], TRUE)
        BY <1>2, <2>1, LastCondition
      <3>2. Goes(p[i].jump, conditionals)
        BY <1>2, <2>1, <2>2, <3>1, BranchRunning
      <3> QED BY <1>3, <1>4, <2>1, <2>2, <3>2
    <2>3. ASSUME ~Top(conditionals), Matched(TRUE), ip' = i + 1
          PROVE  Running(program, frames', ip', scope', conditionals')
      <3>1. PICK ds : ds = conditionals'
        OBVIOUS
      <3>2. LastIs(conditionals, ds, TRUE)
        BY <1>5, <2>1, <2>3, <3>1
      <3>3. Goes(i + 1, ds)
        BY <1>2, <2>1, <2>3, <3>2, BranchRunning
      <3> QED BY <1>3, <2>3, <3>1, <3>3
    <2>4. ASSUME ~Top(conditionals), Matched(FALSE), Jump, S.op \in Branches \ {"else"}
          PROVE  Running(program, frames', ip', scope', conditionals')
      <3>1. PICK ds : ds = conditionals'
        OBVIOUS
      <3>2. LastIs(conditionals, ds, FALSE)
        BY <1>5, <2>1, <2>4, <3>1
      <3>3. Goes(p[i].jump, ds)
        BY <1>2, <2>1, <2>4, <3>2, BranchRunning
      <3> QED BY <1>3, <1>4, <2>1, <2>4, <3>1, <3>3
    <2>5. CASE ElseIf
      <3>1. S.op \in Branches \ {"else"}
        BY <2>5, Zenon DEF ElseIf, Executes, Branches
      <3>2. \/ Top(conditionals) /\ Jump /\ conditionals' = conditionals
            \/ /\ ~Top(conditionals)
               /\ \E match \in BOOLEAN : Matched(match) /\ IF match THEN ip' = i + 1 ELSE Jump
        BY <2>5, Zenon DEF ElseIf, i
      <3>3. \/ Top(conditionals) /\ Jump /\ conditionals' = conditionals
            \/ ~Top(conditionals) /\ Matched(TRUE) /\ ip' = i + 1
            \/ ~Top(conditionals) /\ Matched(FALSE) /\ Jump
        BY <3>2
      <3> QED BY <2>2, <2>3, <2>4, <3>1, <3>3
    <2>6. CASE Else
      <3>1. \/ Top(conditionals) /\ Jump /\ conditionals' = conditionals
            \/ ~Top(conditionals) /\ Matched(TRUE) /\ ip' = i + 1
        BY <2>6 DEF Else, i
      <3> QED BY <2>2, <2>3, <3>1
    <2> QED BY <1>7, <2>5, <2>6
  <1>8. CASE EndIf
    <2>1. S.op = "endif" /\ ip' = i + 1 /\ conditionals' = Pop(conditionals)
      BY <1>8 DEF EndIf, Executes, i
    <2>2. Goes(i + 1, Pop(conditionals))
      BY <1>2, <2>1, EndIfRunning
    <2> QED BY <1>3, <2>1, <2>2
  <1> QED BY <1>6, <1>7, <1>8

\* Loops, blocks without an effect, and scopes.
LEMMA BlockStep ==
  ASSUME TypeOK, ExecutionOK, WellFormed, While \/ EndWhile \/ Plain \/ OpenScope \/ CloseScope
  PROVE  Running(program, frames', ip', scope', conditionals')
  <1> DEFINE p == program
             i == ip
             Goes(j, sc) == Running(p, frames, j, sc, conditionals)
  <1>1. Executing /\ Executed /\ frames' = frames /\ conditionals' = conditionals
    BY DEF While, EndWhile, Plain, OpenScope, CloseScope, Executes
  <1>2. /\ i \in 1 .. Len(p) /\ i \in Nat \ {0} /\ i + 1 \in Nat /\ Parsed(p) /\ Goes(i, scope)
        /\ Len(conditionals) \in Nat /\ S = p[i] /\ SameShape(frames, frames) /\ MacrosKnown(p, frames)
    BY <1>1, ExecutingFacts
  <1>3. ASSUME NEW j, NEW sc, Goes(j, sc), ip' = j, scope' = sc
        PROVE  Running(program, frames', ip', scope', conditionals')
    BY <1>1, <1>3
  <1>4. ASSUME NEW j \in Nat, p[i].op \notin Branches \cup {"endif"}, SameParts(ContextIn(p)[j], ContextIn(p)[i])
        PROVE  Goes(j, scope)
    BY <1>2, <1>4, KeepsRunning
  <1> HIDE DEF p, i, Goes
  <1>5. CASE While
    <2>1. S.op = "while" /\ scope' = scope /\ (ip' = i + 1 \/ Jump)
      BY <1>5 DEF While, Executes, i
    <2>2. p[i].op \notin Branches \cup {"endif"} /\ p[i].op \in Openers
      BY <1>2, <2>1, Kinds DEF Openers
    <2>3. CASE ip' = i + 1
      <3>1. Entered(p[i], i, ContextIn(p)[i], ContextIn(p)[i + 1])
        BY <1>2, <2>2, IntoBlock
      <3>2. SameParts(ContextIn(p)[i + 1], ContextIn(p)[i])
        BY <1>2, <2>1, <3>1 DEF Entered
      <3>3. Goes(i + 1, scope)
        BY <1>2, <1>4, <2>2, <3>2
      <3> QED BY <1>3, <2>1, <2>3, <3>3
    <2>4. CASE Jump
      <3>1. PICK j : j = p[i].jump
        OBVIOUS
      <3>2. j \in 1 .. Len(p) + 1 /\ ContextIn(p)[j] = ContextIn(p)[i]
        BY <1>2, <2>1, <3>1, OverBlock
      <3>3. j \in Nat /\ j # 0
        BY <3>2 DEF Parsed
      <3>4. ip' = j
        BY <1>2, <2>4, <3>1, <3>3 DEF Jump, Unset
      <3>5. SameParts(ContextIn(p)[j], ContextIn(p)[i])
        BY <3>2 DEF SameParts
      <3>6. Goes(j, scope)
        BY <1>4, <2>2, <3>3, <3>5
      <3> QED BY <1>3, <2>1, <3>4, <3>6
    <2> QED BY <2>1, <2>3, <2>4
  <1>6. CASE EndWhile
    <2>1. S.op = "endwhile" /\ scope' = scope /\ Jump
      BY <1>6 DEF EndWhile, Executes
    <2>2. PICK j : j = p[i].jump
      OBVIOUS
    <2>3. j = Opener(p, i) /\ Opener(p, i) \in 1 .. i - 1 /\ SameParts(ContextIn(p)[Opener(p, i)], ContextIn(p)[i])
      BY <1>2, <2>1, <2>2, Closed
    <2>4. j \in Nat /\ j # 0 /\ SameParts(ContextIn(p)[j], ContextIn(p)[i])
      BY <1>2, <2>3
    <2>5. ip' = j
      BY <1>2, <2>1, <2>2, <2>4 DEF Jump, Unset
    <2>6. p[i].op \notin Branches \cup {"endif"}
      BY <1>2, <2>1, Kinds
    <2>7. Goes(j, scope)
      BY <1>4, <2>4, <2>6
    <2> QED BY <1>3, <2>1, <2>5, <2>7
  <1>7. CASE Plain
    <2>1. S.op \in {"{", "endblock", "other"} /\ scope' = scope /\ ip' = i + 1
      BY <1>7 DEF Plain, Executes, i
    <2>2. p[i].op \notin Branches \cup {"endif"}
      BY <1>2, <2>1, Kinds
    <2>3. SameParts(ContextIn(p)[i + 1], ContextIn(p)[i])
      <3>1. CASE S.op = "{"
        <4>1. p[i].op \in Openers
          BY <1>2, <3>1, Kinds
        <4>2. Entered(p[i], i, ContextIn(p)[i], ContextIn(p)[i + 1])
          BY <1>2, <4>1, IntoBlock
        <4> QED BY <1>2, <3>1, <4>2 DEF Entered
      <3>2. CASE S.op = "endblock"
        BY <1>2, <3>2, Closed
      <3>3. CASE S.op = "other"
        <4>1. ContextIn(p)[i + 1] = ContextIn(p)[i]
          BY <1>2, <3>3, OverPlain
        <4> QED BY <4>1 DEF SameParts
      <3> QED BY <2>1, <3>1, <3>2, <3>3
    <2>4. Goes(i + 1, scope)
      BY <1>2, <1>4, <2>2, <2>3
    <2> QED BY <1>3, <2>1, <2>4
  <1>8. CASE OpenScope \/ CloseScope
    <2>1. /\ ip' = i + 1
          /\ \/ S.op \in Scopes /\ scope' = Append(scope, S.name)
             \/ S.op \in {End(t) : t \in Scopes} /\ scope' = Pop(scope)
      BY <1>8 DEF OpenScope, CloseScope, Executes, i
    <2>2. /\ S.op \in Scopes => Goes(i + 1, Append(scope, S.name))
          /\ S.op \in {End(t) : t \in Scopes} => Goes(i + 1, Pop(scope))
      BY <1>2, ScopeRunning DEF Goes
    <2> QED BY <1>3, <2>1, <2>2
  <1> QED BY <1>5, <1>6, <1>7, <1>8

\* Invocations.
LEMMA CallStep ==
  ASSUME TypeOK, ExecutionOK, WellFormed, Call
  PROVE  Running(program, frames', ip', scope', conditionals')
  <1> DEFINE p == program
             i == ip
  <1>1. /\ Executing /\ Executed /\ conditionals' = conditionals /\ Callees # {} /\ S.op = "call"
        /\ frames' = Append(frames, Invocation) /\ ip' = Callee.ip /\ scope' = Inside(Callee)
    BY DEF Call, Executes, Invocation
  <1>2. /\ i \in 1 .. Len(p) /\ i \in Nat \ {0} /\ Parsed(p) /\ Running(p, frames, i, scope, conditionals)
        /\ Len(conditionals) \in Nat /\ S = p[i] /\ MacrosKnown(p, frames)
    BY <1>1, ExecutingFacts
  <1>3. p[i].op \notin Branches \cup {"endif"}
    BY <1>1, <1>2, Kinds
  <1>4. ContextIn(p)[i + 1] = ContextIn(p)[i]
    BY <1>1, <1>2, OverPlain
  <1>5. ip <= Len(program)
    BY <1>2
  <1>6. PICK x \in Callees :
          /\ Callee = x[3] /\ x[1] \in 1 .. Len(frames) /\ x[2] \in 0 .. Len(scope)
          /\ Callee \in frames[x[1]].macros
          /\ Callee.name = <<SubSeq(scope, 1, x[2]) \o <<S.name>>, Len(S.list)>>
          /\ Callee \in Macro(Len(program))
    BY <1>1, <1>5, CalleeFacts
  <1>7. PICK m, f, gs : m = Callee /\ f = Invocation /\ gs = frames'
    OBVIOUS
  <1>8. KnownMacro(p, m)
    BY <1>2, <1>6, <1>7 DEF MacrosKnown
  <1>9. m.ip \in Nat
    BY <1>2, <1>6, <1>7 DEF Macro, Parsed
  <1>10. Top(m.name[1]) = p[i].name
    <2>1. PICK s, n, q : s = SubSeq(scope, 1, x[2]) /\ n = S.name /\ q = s \o <<n>>
      OBVIOUS
    <2>2. s \in Seq(Names) /\ n \in Names
      <3>1. scope \in Seq(Names) /\ n \in Names /\ Len(scope) \in Nat
        BY <1>5, <2>1, StatementFacts, TypeFacts DEF TypeOK
      <3>2. PICK k : k = x[2]
        OBVIOUS
      <3>3. k \in 1 - 1 .. Len(scope) /\ 1 \in 1 .. Len(scope) + 1
        BY <1>6, <3>1, <3>2
      <3>4. s = SubSeq(scope, 1, k)
        BY <2>1, <3>2
      <3> QED BY <3>1, <3>3, <3>4, SubSeqProperties
    <2>3. q = Append(s, n)
      BY <2>1, <2>2, AppendIsConcat
    <2>4. Len(q) = Len(s) + 1 /\ q[Len(s) + 1] = n
      BY <2>2, <2>3, AppendProperties
    <2>5. m.name[1] = q
      <3>1. PICK a : a = Len(S.list)
        OBVIOUS
      <3>2. m.name = <<q, a>>
        BY <1>6, <1>7, <2>1, <3>1
      <3> QED BY <3>2
    <2> QED BY <1>2, <2>1, <2>4, <2>5 DEF Top
  <1>11. f.ip = i + 1 /\ f.inlined = m.inlined /\ f.macros = {} /\ f \in Frame(Len(program))
    BY <1>7, CallType
  <1>12. Pushed(frames, gs, f)
    <2>1. frames \in Seq(Frame(Len(program))) /\ Len(frames) \in Nat
      BY TypeFacts, FramesFacts DEF TypeOK
    <2>2. gs = Append(frames, f)
      BY <1>1, <1>7
    <2>3. /\ gs \in Seq(Frame(Len(program))) /\ Len(gs) = Len(frames) + 1
          /\ \A k \in 1 .. Len(frames) : gs[k] = frames[k]
          /\ gs[Len(frames) + 1] = f
      BY <1>11, <2>1, <2>2, AppendProperties
    <2>4. DOMAIN gs = 1 .. Len(gs)
      BY <2>3, LenProperties
    <2> QED BY <2>3, <2>4 DEF Pushed
  <1> HIDE DEF p, i
  <1>13. Running(p, gs, m.ip, IF m.inlined THEN scope ELSE Append(scope, p[i].name), conditionals)
    BY <1>2, <1>3, <1>4, <1>8, <1>9, <1>10, <1>11, <1>12, CallRunning
  <1>14. scope' = IF m.inlined THEN scope ELSE Append(scope, p[i].name)
    BY <1>1, <1>2, <1>7 DEF Inside
  <1> QED BY <1>1, <1>7, <1>13, <1>14 DEF p

LEMMA ReturnStep ==
  ASSUME TypeOK, ExecutionOK, WellFormed, Return
  PROVE  Running(program, frames', ip', scope', conditionals')
  <1> DEFINE p == program
             i == ip
  <1>1. /\ Executing /\ Executed /\ conditionals' = conditionals /\ S.op \in {"endmacro", "endinline"}
        /\ frames # <<>> /\ frames' = Butlast(frames) /\ ip' = Top(frames).ip
        /\ scope' = IF Top(frames).inlined THEN scope ELSE Pop(scope)
    BY DEF Return, Executes
  <1>2. /\ i \in 1 .. Len(p) /\ Parsed(p) /\ Running(p, frames, i, scope, conditionals)
        /\ Len(conditionals) \in Nat /\ S = p[i]
    BY <1>1, ExecutingFacts
  <1>3. PICK gs : gs = frames'
    OBVIOUS
  <1>4. /\ Len(gs) = Len(frames) - 1 /\ DOMAIN gs = 1 .. Len(frames) - 1
        /\ \A k \in 1 .. Len(frames) - 1 : gs[k] = frames[k]
    <2>1. frames \in Seq(Frame(Len(program)))
      BY DEF TypeOK
    <2>2. /\ gs \in Seq(Frame(Len(program))) /\ Len(gs) = Len(frames) - 1
          /\ \A k \in 1 .. Len(frames) - 1 : gs[k] = frames[k]
      BY <1>1, <1>3, <2>1, ButlastFacts
    <2>3. DOMAIN gs = 1 .. Len(gs)
      BY <2>2, LenProperties
    <2> QED BY <2>2, <2>3
  <1> HIDE DEF p, i
  <1>5. Running(p, gs, frames[Len(frames)].ip,
                IF frames[Len(frames)].inlined THEN scope ELSE Pop(scope), conditionals)
    BY <1>1, <1>2, <1>4, ReturnRunning
  <1> QED BY <1>1, <1>3, <1>5 DEF Top, p

LEMMA ExecutionStep == ASSUME TypeOK, AnalysisOK, ExecutionOK, [Next]_vars PROVE ExecutionOK'
  <1>1. ASSUME Executing, Executed, WellFormed => Running(program, frames', ip', scope', conditionals')
        PROVE  ExecutionOK'
    <2> SUFFICES ASSUME phase' \in {"Query", "Write"}, WellFormed'
                 PROVE  Parsed(program') /\ Running(program', frames', ip', scope', conditionals')
      BY DEF ExecutionOK
    <2>1. WellFormed /\ program' = program /\ phase \in {"Query", "Write"}
      BY <1>1 DEF WellFormed, Executed, Executing
    <2>2. Parsed(program)
      BY <2>1 DEF ExecutionOK
    <2> QED BY <1>1, <2>1, <2>2
  <1>2. CASE Source \/ StartAnalyze \/ Analyze \/ Finish \/ Abort
    <2>1. phase' \notin {"Query", "Write"}
      BY <1>2 DEF Source, StartAnalyze, Analyze, OpenBlock, CloseBlock, Branch, Pass, Unmatched,
                  Analyzing, Analyzed, Finish, Abort
    <2> QED BY <2>1 DEF ExecutionOK
  <1>3. CASE StartQuery \/ StartWrite
    <2> SUFFICES ASSUME WellFormed'
                 PROVE  Parsed(program') /\ Running(program', frames', ip', scope', conditionals')
      BY DEF ExecutionOK
    <2>1. /\ program' = program /\ WellFormed /\ phase \in {"Analyze", "Query"} /\ ip = Len(program) + 1
          /\ ip' = 1 /\ frames' = <<Root>> /\ conditionals' = <<>> /\ scope' = <<>>
      BY <1>3 DEF StartQuery, StartWrite, StartExecute, WellFormed
    <2>2. Parsed(program)
      BY <2>1, ParsedFacts
    <2>3. Running(program, <<Root>>, 1, <<>>, <<>>)
      BY StartRunning
    <2> QED BY <2>1, <2>2, <2>3
  <1>4. CASE Execute /\ ~Abort
    <2>1. Executing /\ Executed
      BY <1>4 DEF Execute, DefineMacro, DeclareVariable, Assign, If, ElseIf, Else, EndIf, While, EndWhile,
                  Call, Return, OpenScope, CloseScope, Plain, Executes
    <2>2. WellFormed => Running(program, frames', ip', scope', conditionals')
      BY <1>4, DeclaringStep, BranchingStep, BlockStep, CallStep, ReturnStep DEF Execute
    <2> QED BY <1>1, <2>1, <2>2
  <1>5. CASE UNCHANGED vars
    BY <1>5 DEF vars, ExecutionOK, WellFormed
  <1> QED BY <1>2, <1>3, <1>4, <1>5 DEF Next, Assemble, Execute

LEMMA ExecutionInvariant == Spec => [](TypeOK /\ AnalysisOK /\ ExecutionOK)
  <1>1. ASSUME Init PROVE TypeOK /\ AnalysisOK /\ ExecutionOK
    BY <1>1, TypeInit DEF Init, AnalysisOK, ExecutionOK
  <1>2. ASSUME TypeOK /\ AnalysisOK /\ ExecutionOK, [Next]_vars
        PROVE  TypeOK' /\ AnalysisOK' /\ ExecutionOK'
    BY <1>2, TypeStep, AnalysisStep, ExecutionStep
  <1> QED BY <1>1, <1>2, PTL DEF Spec

\* Whatever the program, if its blocks are closed and its elses belong to ifs,
\* execute()'s scope and conditionals are in every state what the blocks of the text
\* around the running invocations say, and a pass ends in the root frame.
THEOREM StacksCorrect == Spec => []StacksMatchText
  <1>1. ASSUME TypeOK, ExecutionOK
        PROVE  StacksMatchText
    <2> SUFFICES ASSUME phase \in {"Query", "Write"}, WellFormed
                 PROVE  /\ scope = UpTo(Len(frames)).names
                        /\ Len(conditionals) = UpTo(Len(frames)).ifs
                        /\ ip = Len(program) + 1 => Len(frames) = 1
      BY DEF StacksMatchText
    <2>1. /\ Parsed(program)
          /\ Standing(program, frames, ip) /\ Stacked(program, frames, ip, scope, Len(conditionals))
      BY <1>1 DEF ExecutionOK, Running
    <2>2. Adds(program, frames, ip)
      BY <2>1, BaseFacts
    <2>3. UpTo(Len(frames)) = Total(program, frames, ip)
      BY DEF UpTo, Total, Context, Places, PlacesOf
    <2>4. PICK b, c : b = Base(program, frames, ip) /\ c = ContextIn(program)[ip]
      OBVIOUS
    <2>5. UpTo(Len(frames)) = [names |-> b.names \o c.names, ifs |-> b.ifs + c.ifs]
      BY <2>2, <2>3, <2>4 DEF Adds
    <2>6. scope = b.names \o c.names /\ Len(conditionals) = b.ifs + c.ifs
      BY <2>1, <2>4 DEF Stacked
    <2>7. ASSUME ip = Len(program) + 1
          PROVE  Len(frames) = 1
      <3>1. c.macro = 0
        BY <2>1, <2>4, <2>7 DEF Parsed, Outside
      <3>2. PICK l : l = Len(frames)
        OBVIOUS
      <3>3. l \in 1 .. Len(frames) /\ l \in DOMAIN frames
        BY <2>1, <3>2 DEF Standing
      <3>4. PlacesOf(frames, ip)[l] = ip
        BY <3>2, <3>3 DEF PlacesOf
      <3>5. Stands(program, c.macro, l, frames[l].inlined)
        BY <2>1, <2>4, <3>3, <3>4 DEF Standing
      <3> QED BY <3>1, <3>2, <3>5 DEF Stands
    <2>8. scope = UpTo(Len(frames)).names /\ Len(conditionals) = UpTo(Len(frames)).ifs
      <3>1. PICK k, n, u : k = Len(conditionals) /\ n = scope /\ u = UpTo(Len(frames))
        OBVIOUS
      <3>2. u = [names |-> n, ifs |-> k]
        BY <2>5, <2>6, <3>1
      <3>3. u.names = n /\ u.ifs = k
        BY <3>2
      <3> QED BY <3>1, <3>3
    <2> QED BY <2>7, <2>8
  <1> QED BY <1>1, ExecutionInvariant, PTL

-----------------------------------------------------------------------------
(* The branches that are entered *)

Counts(es, cs) ==
    Len(es) = Len(cs) /\ \A n \in 1 .. Len(cs) : es[n] = IF cs[n] THEN 1 ELSE 0

\* An if is met, its last conditional is set, and it is left.
LEMMA CountsKept ==
  ASSUME NEW es \in Seq(Nat), NEW cs \in Seq(BOOLEAN), Counts(es, cs)
  PROVE  /\ \A b \in BOOLEAN : Counts(Append(es, IF b THEN 1 ELSE 0), Append(cs, b))
         /\ Counts(Pop(es), Pop(cs))
         /\ cs # <<>> /\ ~Top(cs) =>
              \A b \in BOOLEAN : Counts([es EXCEPT ![Len(es)] = @ + (IF b THEN 1 ELSE 0)],
                                        [cs EXCEPT ![Len(cs)] = b])
  <1>1. Len(cs) \in Nat /\ Len(es) = Len(cs)
    BY LenProperties DEF Counts
  <1>2. \A n \in 1 .. Len(cs) : es[n] = IF cs[n] THEN 1 ELSE 0
    BY DEF Counts
  <1>3. ASSUME NEW b \in BOOLEAN, NEW ds, ds = Append(cs, b), NEW k \in Nat, k = (IF b THEN 1 ELSE 0),
               NEW fs, fs = Append(es, k)
        PROVE  Counts(fs, ds)
    <2>1. /\ Len(ds) = Len(cs) + 1 /\ ds[Len(cs) + 1] = b
          /\ \A n \in 1 .. Len(cs) : ds[n] = cs[n]
      BY <1>3, LastCondition
    <2>2. /\ Len(fs) = Len(cs) + 1 /\ fs[Len(cs) + 1] = k
          /\ \A n \in 1 .. Len(cs) : fs[n] = es[n]
      BY <1>1, <1>3, AppendProperties
    <2>3. \A n \in 1 .. Len(ds) : n \in 1 .. Len(cs) \/ n = Len(cs) + 1
      BY <1>1, <2>1
    <2>4. \A n \in 1 .. Len(cs) : fs[n] = IF ds[n] THEN 1 ELSE 0
      BY <1>2, <2>1, <2>2
    <2>5. fs[Len(cs) + 1] = IF ds[Len(cs) + 1] THEN 1 ELSE 0
      BY <1>3, <2>1, <2>2
    <2> QED BY <2>1, <2>2, <2>3, <2>4, <2>5 DEF Counts
  <1>4. Counts(Pop(es), Pop(cs))
    <2>1. CASE cs = <<>>
      <3>1. es = <<>>
        BY <1>1, <2>1, EmptySeq
      <3> QED BY <2>1, <3>1 DEF Pop
    <2>2. CASE cs # <<>>
      <3>1. es # <<>>
        BY <1>1, <2>2, EmptySeq
      <3>2. PICK ds, fs : ds = Pop(cs) /\ fs = Pop(es)
        OBVIOUS
      <3>3. /\ Len(cs) \in Nat \ {0} /\ Len(ds) = Len(cs) - 1
            /\ \A n \in 1 .. Len(cs) - 1 : ds[n] = cs[n]
        BY <2>2, <3>2, LastCondition
      <3>4. Len(fs) = Len(cs) - 1 /\ \A n \in 1 .. Len(cs) - 1 : fs[n] = es[n]
        BY <1>1, <3>1, <3>2, ButlastFacts DEF Pop
      <3>5. \A n \in 1 .. Len(ds) : n \in 1 .. Len(cs) /\ fs[n] = es[n] /\ ds[n] = cs[n]
        BY <3>3, <3>4
      <3>6. \A n \in 1 .. Len(ds) : fs[n] = IF ds[n] THEN 1 ELSE 0
        BY <1>2, <3>5
      <3> QED BY <3>2, <3>3, <3>4, <3>6 DEF Counts
    <2> QED BY <2>1, <2>2
  <1>5. ASSUME cs # <<>>, ~Top(cs), NEW b \in BOOLEAN, NEW ds, LastIs(cs, ds, b),
               NEW k, k = (IF b THEN 1 ELSE 0),
               NEW fs, fs = [es EXCEPT ![Len(es)] = @ + k]
        PROVE  Counts(fs, ds)
    <2>1. Len(cs) \in Nat \ {0} /\ Len(cs) \in 1 .. Len(cs)
      <3>1. Len(cs) \in Nat \ {0}
        BY <1>5, LastCondition
      <3> QED BY <3>1
    <2>2. es[Len(cs)] = 0
      <3>1. ~cs[Len(cs)]
        BY <1>5 DEF Top
      <3> QED BY <1>2, <2>1, <3>1
    <2>3. k \in Nat
      BY <1>5
    <2>4. PICK l : l = Len(cs)
      OBVIOUS
    <2>5. DOMAIN es = 1 .. l /\ l \in DOMAIN es
      BY <1>1, <2>1, <2>4, LenProperties
    <2>6. fs = [es EXCEPT ![l] = k]
      <3>1. PICK r : r = es[l] + k
        OBVIOUS
      <3>2. fs = [es EXCEPT ![l] = r]
        BY <1>1, <1>5, <2>4, <3>1
      <3>3. r = k
        BY <2>2, <2>3, <2>4, <3>1
      <3> QED BY <3>2, <3>3
    <2>7. fs[l] = k /\ \A n \in 1 .. l - 1 : fs[n] = es[n]
      BY <2>1, <2>4, <2>5, <2>6
    <2>8. Len(fs) = l
      BY <1>1, <2>1, <2>3, <2>4, <2>6, ExceptSeq
    <2>9. Len(ds) = l /\ ds[l] = b /\ \A n \in 1 .. l - 1 : ds[n] = cs[n]
      BY <1>5, <2>4 DEF LastIs
    <2>10. \A n \in 1 .. l : n \in 1 .. l - 1 \/ n = l
      BY <2>1, <2>4
    <2>11. fs[l] = IF ds[l] THEN 1 ELSE 0
      BY <1>5, <2>7, <2>9
    <2>12. \A n \in 1 .. l - 1 : fs[n] = IF ds[n] THEN 1 ELSE 0
      <3>1. \A n \in 1 .. l - 1 : n \in 1 .. l
        BY <2>1, <2>4
      <3> QED BY <1>2, <2>4, <2>7, <2>9, <3>1
    <2> QED BY <2>8, <2>9, <2>10, <2>11, <2>12 DEF Counts
  <1>6. \A b \in BOOLEAN : Counts(Append(es, IF b THEN 1 ELSE 0), Append(cs, b))
    <2> TAKE b \in BOOLEAN
    <2>1. PICK k \in Nat : k = IF b THEN 1 ELSE 0
      OBVIOUS
    <2> QED BY <1>3, <2>1
  <1>7. cs # <<>> /\ ~Top(cs) =>
          \A b \in BOOLEAN : Counts([es EXCEPT ![Len(es)] = @ + (IF b THEN 1 ELSE 0)],
                                    [cs EXCEPT ![Len(cs)] = b])
    <2> SUFFICES ASSUME cs # <<>>, ~Top(cs), NEW b \in BOOLEAN
                 PROVE  Counts([es EXCEPT ![Len(es)] = @ + (IF b THEN 1 ELSE 0)],
                               [cs EXCEPT ![Len(cs)] = b])
      OBVIOUS
    <2>1. PICK k : k = IF b THEN 1 ELSE 0
      OBVIOUS
    <2>2. LastIs(cs, [cs EXCEPT ![Len(cs)] = b], b)
      BY LastCondition
    <2>3. Counts([es EXCEPT ![Len(es)] = @ + k], [cs EXCEPT ![Len(cs)] = b])
      BY <1>5, <2>1, <2>2
    <2> QED BY <2>1, <2>3
  <1> QED BY <1>4, <1>6, <1>7

\* A branch is entered if and only if the conditional says so.
EnteredOK == Counts(entered, conditionals)

LEMMA EnteredStep == ASSUME TypeOK, EnteredOK, [Next]_vars PROVE EnteredOK'
  <1>1. entered \in Seq(Nat) /\ conditionals \in Seq(BOOLEAN) /\ Counts(entered, conditionals)
    BY DEF TypeOK, EnteredOK
  <1>2. CASE UNCHANGED <<entered, conditionals>>
    BY <1>2 DEF EnteredOK
  <1>3. CASE StartQuery \/ StartWrite
    <2>1. entered' = <<>> /\ conditionals' = <<>>
      BY <1>3 DEF StartQuery, StartWrite, StartExecute
    <2> QED BY <2>1 DEF EnteredOK, Counts
  <1>4. CASE If
    <2>1. PICK b \in BOOLEAN : /\ conditionals' = Append(conditionals, b)
                               /\ entered' = Append(entered, IF b THEN 1 ELSE 0)
      BY <1>4 DEF If
    <2> QED BY <1>1, <2>1, CountsKept DEF EnteredOK
  <1>5. CASE ElseIf \/ Else
    <2>1. ASSUME NEW b \in BOOLEAN, conditionals # <<>>, ~Top(conditionals), Matched(b)
          PROVE  EnteredOK'
      BY <1>1, <2>1, CountsKept DEF Matched, EnteredOK
    <2>2. \/ UNCHANGED <<entered, conditionals>>
          \/ conditionals # <<>> /\ ~Top(conditionals) /\ \E b \in BOOLEAN : Matched(b)
      BY <1>5 DEF ElseIf, Else
    <2> QED BY <1>2, <2>1, <2>2
  <1>6. CASE EndIf
    BY <1>1, <1>6, CountsKept DEF EndIf, EnteredOK
  <1>7. [Next]_vars => \/ UNCHANGED <<entered, conditionals>>
                       \/ StartQuery \/ StartWrite \/ If \/ ElseIf \/ Else \/ EndIf
    BY DEF vars, Next, Source, Assemble, StartAnalyze, Finish,
           Analyze, OpenBlock, CloseBlock, Branch, Pass, Unmatched, Analyzed,
           Execute, DefineMacro, DeclareVariable, Assign, While, EndWhile,
           Call, Return, OpenScope, CloseScope, Plain, Abort
  <1> QED BY <1>2, <1>3, <1>4, <1>5, <1>6, <1>7

\* Whatever the program, of the branches of an if at most one is entered, and if
\* none was at its endif, it has no else.
THEOREM BranchCorrect == Spec => []OneBranch
  <1>1. Init => EnteredOK
    BY DEF Init, EnteredOK, Counts
  <1>2. ASSUME TypeOK, ExecutionOK, EnteredOK
        PROVE  OneBranch
    <2> SUFFICES ASSUME phase \in {"Query", "Write"}, WellFormed
                 PROVE  /\ \A n \in DOMAIN entered : entered[n] <= 1
                        /\ Executes({"endif"}) /\ Top(entered) = 0 =>
                             \A j \in 1 .. ip : program[j].op = "else" => Context[j].opener # Context[ip].opener
      BY DEF OneBranch
    <2>1. DOMAIN entered = 1 .. Len(conditionals) /\ Len(entered) = Len(conditionals)
      <3>1. entered \in Seq(Nat)
        BY <1>2 DEF TypeOK
      <3>2. DOMAIN entered = 1 .. Len(entered)
        BY <3>1, LenProperties
      <3> QED BY <1>2, <3>2 DEF EnteredOK, Counts
    <2>2. \A n \in DOMAIN entered : entered[n] = IF conditionals[n] THEN 1 ELSE 0
      BY <1>2, <2>1 DEF EnteredOK, Counts
    <2>3. \A n \in DOMAIN entered : entered[n] <= 1
      BY <2>2
    <2>4. ASSUME Executes({"endif"}), Top(entered) = 0,
                 NEW j \in 1 .. ip, program[j].op = "else"
          PROVE  Context[j].opener # Context[ip].opener
      <3>1. /\ Parsed(program) /\ Running(program, frames, ip, scope, conditionals)
            /\ program[ip].op = "endif" /\ ip <= Len(program)
        BY <1>2, <2>4 DEF ExecutionOK, Executes, Executing, S
      <3>2. ip \in 1 .. Len(program) /\ conditionals \in Seq(BOOLEAN)
        BY <1>2, <3>1, TypeFacts DEF TypeOK
      <3>3. conditionals # <<>>
        BY <3>1, <3>2, EndIfRunning
      <3>4. Len(conditionals) \in 1 .. Len(conditionals)
        <4>1. Len(conditionals) \in Nat \ {0}
          BY <3>2, <3>3, LastCondition
        <4> QED BY <4>1
      <3>5. conditionals[Len(conditionals)] # TRUE
        <4>1. PICK l : l = Len(conditionals)
          OBVIOUS
        <4>2. entered[l] = 0 /\ entered[l] = IF conditionals[l] THEN 1 ELSE 0
          BY <2>1, <2>2, <2>4, <3>4, <4>1 DEF Top
        <4>3. ~conditionals[l]
          BY <4>2
        <4> QED BY <4>1, <4>3
      <3>6. NoElse(program, ip)
        BY <3>1, <3>4, <3>5 DEF Running, Undecided, Decided
      <3>7. j # ip
        BY <2>4, <3>1
      <3>8. j \in 1 .. ip - 1
        BY <3>2, <3>7 DEF Parsed
      <3> QED BY <2>4, <3>6, <3>8 DEF NoElse, Opener, Context
    <2> QED BY <2>3, <2>4
  <1> QED BY <1>1, <1>2, EnteredStep, ExecutionInvariant, PTL DEF Spec

-----------------------------------------------------------------------------
(* What a macro hands back *)

\* The first invocation is no inline.
PlainRoot(fs) == Len(fs) >= 1 => ~fs[1].inlined
RootPlain == PlainRoot(frames)

LEMMA RootKept ==
  ASSUME NEW n \in Nat, NEW fs, FramesOK(fs, n), PlainRoot(fs)
  PROVE  /\ PlainRoot(Pop(fs)) /\ (fs # <<>> => PlainRoot(Butlast(fs)))
         /\ \A f \in Frame(n) : Len(fs) >= 1 => PlainRoot(Append(fs, f))
         /\ \A gs, macros, variables : Changed(fs, gs, macros, variables) => PlainRoot(gs)
  <1>1. fs \in Seq(Frame(n)) /\ Len(fs) \in Nat
    BY FramesFacts DEF FramesOK
  <1>2. ASSUME fs # <<>>
        PROVE  PlainRoot(Butlast(fs))
    <2>1. PICK h : h = Butlast(fs)
      OBVIOUS
    <2>2. Len(h) = Len(fs) - 1 /\ \A k \in 1 .. Len(fs) - 1 : h[k] = fs[k]
      BY <1>1, <1>2, <2>1, ButlastFacts
    <2>3. Len(h) >= 1 => Len(fs) >= 1 /\ h[1] = fs[1]
      BY <1>1, <2>2
    <2> QED BY <2>1, <2>3 DEF PlainRoot
  <1>3. PlainRoot(Pop(fs))
    BY <1>2 DEF Pop
  <1>4. ASSUME NEW f \in Frame(n), Len(fs) >= 1
        PROVE  PlainRoot(Append(fs, f))
    <2>1. Append(fs, f)[1] = fs[1]
      BY <1>1, <1>4, AppendProperties
    <2> QED BY <1>4, <2>1 DEF PlainRoot
  <1>5. ASSUME NEW gs, NEW macros, NEW variables, Changed(fs, gs, macros, variables)
        PROVE  PlainRoot(gs)
    <2>1. Len(gs) = Len(fs) /\ (Len(fs) >= 1 => gs[1].inlined = fs[1].inlined)
      BY <1>1, <1>5 DEF Changed
    <2> QED BY <2>1 DEF PlainRoot
  <1> QED BY <1>2, <1>3, <1>4, <1>5

LEMMA RootInit == ASSUME Init PROVE RootPlain
  BY DEF Init, RootPlain, PlainRoot

LEMMA RootStep == ASSUME TypeOK, RootPlain, [Next]_vars PROVE RootPlain'
  <1>1. Len(program) \in Nat /\ FramesOK(frames, Len(program)) /\ PlainRoot(frames)
    BY TypeFacts DEF RootPlain
  <1>2. CASE UNCHANGED frames
    BY <1>2 DEF RootPlain
  <1>3. CASE StartQuery \/ StartWrite
    <2>1. PICK fs : fs = frames'
      OBVIOUS
    <2>2. fs = <<Root>> /\ ~Root.inlined
      BY <1>3, <2>1 DEF StartQuery, StartWrite, StartExecute, Root
    <2>3. PlainRoot(fs)
      BY <2>2 DEF PlainRoot
    <2> QED BY <2>1, <2>3 DEF RootPlain
  <1>4. CASE Finish
    <2>1. frames' = Pop(frames)
      BY <1>4 DEF Finish
    <2> QED BY <1>1, <2>1, RootKept DEF RootPlain
  <1>5. CASE Return
    <2>1. frames # <<>> /\ frames' = Butlast(frames)
      BY <1>5 DEF Return
    <2> QED BY <1>1, <2>1, RootKept DEF RootPlain
  <1>6. CASE DefineMacro \/ DeclareVariable \/ Assign
    <2>1. PICK macros, variables : Changed(frames, frames', macros, variables)
      BY <1>6, DefineMacroFrames, DeclareVariableFrames, AssignFrames
    <2>2. PICK gs : gs = frames'
      OBVIOUS
    <2>3. PlainRoot(gs)
      BY <1>1, <2>1, <2>2, RootKept
    <2> QED BY <2>2, <2>3 DEF RootPlain
  <1>7. CASE Call
    <2>1. frames' = Append(frames, Invocation) /\ Invocation \in Frame(Len(program))
      BY <1>7, CallType DEF Call, Invocation
    <2>2. Len(frames) >= 1
      <3>1. ip <= Len(program) /\ Callees # {} /\ Len(frames) \in Nat
        BY <1>1, <1>7, FramesFacts DEF Call, Executes, Executing
      <3>2. PICK x : x[1] \in 1 .. Len(frames)
        BY <3>1, CalleeFacts
      <3> QED BY <3>1, <3>2
    <2>3. PICK f : f = Invocation
      OBVIOUS
    <2>4. PlainRoot(Append(frames, f))
      BY <1>1, <2>1, <2>2, <2>3, RootKept
    <2> QED BY <2>1, <2>3, <2>4 DEF RootPlain
  <1>8. [Next]_vars => \/ UNCHANGED frames \/ StartQuery \/ StartWrite \/ Finish
                       \/ DefineMacro \/ DeclareVariable \/ Assign \/ Call \/ Return
    BY DEF vars, Next, Source, Assemble, StartAnalyze,
           Analyze, OpenBlock, CloseBlock, Branch, Pass, Unmatched, Analyzed,
           Execute, If, ElseIf, Else, EndIf, While, EndWhile, OpenScope, CloseScope, Plain, Abort
  <1> QED BY <1>2, <1>3, <1>4, <1>5, <1>6, <1>7, <1>8

\* The names up to an invocation begin with those up to any below it.
Grows(c, places, k, n, W) == \E r \in Seq(W) : Sum(c, places)[n].names = Sum(c, places)[k].names \o r

LEMMA SumGrows ==
  ASSUME NEW c, NEW places, NEW W, Summable(c, places, W), NEW k \in 0 .. Len(places)
  PROVE  \A n \in k .. Len(places) : Grows(c, places, k, n, W)
  <1> DEFINE T == {n \in Nat : n \in k .. Len(places) => Grows(c, places, k, n, W)}
  <1>0. Len(places) \in Nat /\ k \in Nat
    BY DEF Summable
  <1>1. ASSUME NEW n \in Nat, \A j \in Nat : j < n => j \in T
        PROVE  n \in T
    <2> SUFFICES ASSUME n \in k .. Len(places)
                 PROVE  Grows(c, places, k, n, W)
      OBVIOUS
    <2>1. \A j \in 0 .. Len(places) : Sum(c, places)[j].names \in Seq(W)
      BY SumFacts
    <2>2. PICK a : a = Sum(c, places)[k].names
      OBVIOUS
    <2>3. a \in Seq(W)
      BY <2>1, <2>2
    <2>4. CASE n = k
      <3>1. <<>> \in Seq(W) /\ a \o <<>> = a
        BY <2>3, EmptySeq, ConcatEmptySeq
      <3> QED BY <2>2, <2>4, <3>1 DEF Grows
    <2>5. CASE n # k
      <3>1. n - 1 \in Nat /\ n - 1 < n /\ n - 1 \in k .. Len(places) /\ n \in 1 .. Len(places) /\ n # 0
        BY <1>0, <2>5
      <3>2. n - 1 \in T
        BY <1>1, <3>1
      <3>3. PICK r \in Seq(W) : Sum(c, places)[n - 1].names = a \o r
        BY <2>2, <3>1, <3>2 DEF Grows
      <3>4. PICK b : b = c[places[n]].names
        OBVIOUS
      <3>5. b \in Seq(W)
        BY <3>1, <3>4 DEF Summable
      <3>6. Sum(c, places)[n] = SumStep(c, places, Sum(c, places), n)
        BY <3>1, SumFacts
      <3>7. Sum(c, places)[n].names = Sum(c, places)[n - 1].names \o b
        <4>1. PICK s, i : s = Sum(c, places)[n - 1].names /\ i = Sum(c, places)[n - 1].ifs + c[places[n]].ifs
          OBVIOUS
        <4>2. SumStep(c, places, Sum(c, places), n) = [names |-> s \o b, ifs |-> i]
          BY <3>1, <3>4, <4>1 DEF SumStep
        <4>3. PICK d : d = s \o b
          OBVIOUS
        <4> QED BY <3>6, <4>1, <4>2, <4>3
      <3>8. r \o b \in Seq(W) /\ (a \o r) \o b = a \o (r \o b)
        <4>1. r \o b \in Seq(W)
          BY <3>3, <3>5, ConcatProperties
        <4>2. (a \o r) \o b = a \o (r \o b)
          BY <2>3, <3>3, <3>5, ConcatAssociative, SMTT(30)
        <4> QED BY <4>1, <4>2
      <3>9. PICK u \in Seq(W) : u = r \o b
        BY <3>8
      <3>10. Sum(c, places)[n].names = a \o u
        BY <3>3, <3>7, <3>8, <3>9
      <3> QED BY <2>2, <3>9, <3>10 DEF Grows
    <2> QED BY <2>4, <2>5
  <1> HIDE DEF T
  <1>2. \A n \in Nat : n \in T
    BY <1>1, Induction
  <1> QED BY <1>0, <1>2 DEF T

\* A sequence taken apart behind a part of it.
Parts(o, r, x) == /\ SubSeq(o \o r, Len(o) + 1, Len(o \o r)) = r
                  /\ SubSeq(o, 1, Len(o)) \o (r \o <<x>>) = Append(o \o r, x)

LEMMA Apart ==
  ASSUME NEW W, NEW o \in Seq(W), NEW r \in Seq(W), NEW x \in W
  PROVE  Parts(o, r, x)
  <1>1. /\ Len(o) \in Nat /\ Len(r) \in Nat /\ Len(o \o r) = Len(o) + Len(r)
        /\ o \o r \in Seq(W)
    BY LenProperties, ConcatProperties
  <1>2. SubSeq(o \o r, Len(o) + 1, Len(o \o r)) = SubSeq(r, 1, Len(r))
    <2>1. CASE Len(r) = 0
      <3>1. r = <<>>
        BY <2>1, EmptySeq
      <3>2. Len(o) + 1 > Len(o \o r) /\ Len(o \o r) \in Int /\ Len(o) + 1 \in Int
        BY <1>1, <2>1
      <3>3. SubSeq(o \o r, Len(o) + 1, Len(o \o r)) = <<>>
        BY <1>1, <3>2, SubSeqEmpty
      <3> QED BY <3>1, <3>3, SubSeqFull
    <2>2. CASE Len(r) # 0
      <3>1. /\ Len(o) + 1 \in Len(o) + 1 .. Len(o) + Len(r)
            /\ Len(o \o r) \in Len(o) + 1 .. Len(o) + Len(r)
        BY <1>1, <2>2
      <3> QED BY <1>1, <2>2, <3>1, SubSeqOfConcat2
    <2> QED BY <2>1, <2>2
  <1>3. SubSeq(r, 1, Len(r)) = r /\ SubSeq(o, 1, Len(o)) = o
    BY SubSeqFull
  <1>4. <<x>> \in Seq(W) /\ Append(o \o r, x) = (o \o r) \o <<x>>
    BY <1>1, AppendIsConcat
  <1>5. (o \o r) \o <<x>> = o \o (r \o <<x>>)
    BY <1>4, ConcatAssociative
  <1> QED BY <1>2, <1>3, <1>4, <1>5 DEF Parts

\* What a path may mean is visible.
LEMMA Visible ==
  ASSUME NEW fs, NEW sc, NEW kind, NEW path, NEW arity, NEW n \in DOMAIN fs,
         NEW j \in 0 .. Len(sc), NEW y \in fs[n][kind],
         y.name = <<SubSeq(sc, 1, j) \o path, arity>>
  PROVE  <<n, j, y>> \in VisibleIn(fs, sc, kind, path, arity)
  <1>1. PICK x : x = <<n, j, y>>
    OBVIOUS
  <1>2. x[1] = n /\ x[2] = j /\ x[3] = y
    BY <1>1
  <1>3. x \in {n} \X (0 .. Len(sc)) \X fs[n][kind]
    BY <1>1
  <1>4. x[3].name = <<SubSeq(sc, 1, x[2]) \o path, arity>>
    BY <1>2
  <1> QED BY <1>1, <1>3, <1>4 DEF VisibleIn

\* The frames behind t hold nothing that path may mean in scope o.
Clear(fs, t, m, o, path) ==
    \A n \in t + 1 .. m : \A j \in 0 .. Len(o) : \A y \in fs[n]["variables"] :
      y.name # <<SubSeq(o, 1, j) \o path, 0>>

\* Of the variables vs only x has its name.
Only(vs, x) == x \in vs /\ \A y \in vs : y.name = x.name => y = x

\* Frame t is the innermost that holds anything, and x has the full name.
Innermost(fs, t, m, o, path, x) ==
    /\ m \in Nat /\ DOMAIN fs = 1 .. m /\ t \in 1 .. m /\ Len(o) \in Nat
    /\ Clear(fs, t, m, o, path) /\ Only(fs[t]["variables"], x)
    /\ x.name = <<SubSeq(o, 1, Len(o)) \o path, 0>>

LEMMA Lookup ==
  ASSUME NEW fs, NEW t, NEW m, NEW o, NEW path, NEW x, Innermost(fs, t, m, o, path, x)
  PROVE  ValueIn(fs, o, path) = x.value
  <1>0. /\ m \in Nat /\ DOMAIN fs = 1 .. m /\ t \in 1 .. m /\ Len(o) \in Nat
        /\ Clear(fs, t, m, o, path) /\ Only(fs[t]["variables"], x)
        /\ x.name = <<SubSeq(o, 1, Len(o)) \o path, 0>>
    BY DEF Innermost
  <1>1. PICK found, l : found = VisibleIn(fs, o, "variables", path, 0) /\ l = Len(o)
    OBVIOUS
  <1>2. Found(found, m, l) /\ Named(found, fs, o, "variables", path, 0)
    BY <1>0, <1>1, VisibleFacts
  <1>3. <<t, l, x>> \in found
    <2>1. t \in DOMAIN fs /\ l \in 0 .. Len(o) /\ x \in fs[t]["variables"]
          /\ x.name = <<SubSeq(o, 1, l) \o path, 0>>
      BY <1>0, <1>1 DEF Only
    <2> QED BY <1>1, <2>1, Visible
  <1>4. PICK y : y = Nearest(found)
    OBVIOUS
  <1>5. /\ y \in found
        /\ \A z \in found : z[1] < y[1] \/ (z[1] = y[1] /\ z[2] <= y[2])
    <2>1. l \in Nat /\ found # {}
      BY <1>0, <1>1, <1>3
    <2> QED BY <1>0, <1>2, <1>4, <2>1, NearestFacts
  <1>6. /\ y[1] \in 1 .. m /\ y[2] \in 0 .. l /\ y[3] \in fs[y[1]]["variables"]
        /\ y[3].name = <<SubSeq(o, 1, y[2]) \o path, 0>>
    BY <1>2, <1>5 DEF Found, Named
  <1>7. t < y[1] \/ (t = y[1] /\ l <= y[2])
    BY <1>3, <1>5
  <1>8. ~(t < y[1])
    <2> SUFFICES ASSUME t < y[1]
                 PROVE  FALSE
      OBVIOUS
    <2>1. y[1] \in t + 1 .. m
      BY <1>0, <1>6
    <2> QED BY <1>0, <1>1, <1>6, <2>1 DEF Clear
  <1>9. y[1] = t /\ y[2] = l
    BY <1>0, <1>1, <1>6, <1>7, <1>8
  <1>10. y[3] = x
    BY <1>0, <1>1, <1>6, <1>9 DEF Only
  <1>11. ValueIn(fs, o, path) = y[3].value
    BY <1>1, <1>3, <1>4 DEF ValueIn
  <1> QED BY <1>10, <1>11

\* What is stored is the only one of its name.
LEMMA Stored == ASSUME NEW objects, NEW object PROVE Only(Store(objects, object), object)
  BY DEF Only, Store

\* gs are the frames fs with a variable stored in frame f.
Stores(fs, gs, f, object) == gs = [fs EXCEPT ![f]["variables"] = Store(@, object)]

LEMMA StoredThere ==
  ASSUME NEW n \in Nat, NEW fs, FramesOK(fs, n), NEW f \in 1 .. Len(fs), NEW object,
         NEW gs, Stores(fs, gs, f, object)
  PROVE  /\ Only(gs[f]["variables"], object)
         /\ \A k \in 1 .. Len(fs) : k # f => gs[k] = fs[k]
  <1>1. DOMAIN fs = 1 .. Len(fs) /\ fs[f] \in Frame(n)
    BY FramesFacts
  <1>2. PICK r : r = fs[f]
    OBVIOUS
  <1>3. PICK M : M = Store(r["variables"], object)
    OBVIOUS
  <1>4. PICK t : t = [r EXCEPT !["variables"] = M]
    OBVIOUS
  <1>5. t["variables"] = M
    BY <1>1, <1>2, <1>4 DEF Frame
  <1>6. gs = [fs EXCEPT ![f] = t]
    <2>1. gs = [fs EXCEPT ![f]["variables"] = Store(@, object)]
      BY DEF Stores
    <2> QED BY <1>2, <1>3, <1>4, <2>1
  <1>7. gs[f] = t /\ \A k \in 1 .. Len(fs) : k # f => gs[k] = fs[k]
    BY <1>1, <1>6
  <1> QED BY <1>3, <1>5, <1>7, Stored

\* A part of a sequence.
LEMMA PartFacts ==
  ASSUME NEW T, NEW fs \in Seq(T), NEW i \in 1 .. Len(fs), NEW j \in 0 .. Len(fs)
  PROVE  /\ DOMAIN SubSeq(fs, i, j) = 1 .. j - i + 1
         /\ \A n \in 1 .. j - i + 1 : SubSeq(fs, i, j)[n] = fs[i + n - 1]
  <1>1. Len(fs) \in Nat /\ \A n \in 1 .. Len(fs) : fs[n] \in T
    BY LenProperties, ElementOfSeq
  <1>2. i \in Int /\ j \in Int /\ \A n \in i .. j : fs[n] \in T
    BY <1>1
  <1>3. /\ SubSeq(fs, i, j) \in Seq(T)
        /\ Len(SubSeq(fs, i, j)) = IF i <= j THEN j - i + 1 ELSE 0
        /\ \A n \in 1 .. j - i + 1 : SubSeq(fs, i, j)[n] = fs[i + n - 1]
    BY <1>2, SubSeqProperties
  <1>4. 1 .. Len(SubSeq(fs, i, j)) = 1 .. j - i + 1
    BY <1>2, <1>3
  <1> QED BY <1>3, <1>4, LenProperties

\* Nothing that a path may mean is visible in a part of the frames.
LEMMA ClearFacts ==
  ASSUME NEW T, NEW fs \in Seq(T), NEW t \in Nat, NEW m \in t .. Len(fs), NEW o, NEW path,
         t + 1 <= Len(fs), VisibleIn(SubSeq(fs, t + 1, m), o, "variables", path, 0) = {}
  PROVE  Clear(fs, t, m, o, path)
  <1> SUFFICES ASSUME NEW n \in t + 1 .. m, NEW j \in 0 .. Len(o), NEW y \in fs[n]["variables"],
                      y.name = <<SubSeq(o, 1, j) \o path, 0>>
               PROVE  FALSE
    BY DEF Clear
  <1>1. PICK h : h = SubSeq(fs, t + 1, m)
    OBVIOUS
  <1>2. Len(fs) \in Nat
    BY LenProperties
  <1>3. t + 1 \in 1 .. Len(fs) /\ m \in 0 .. Len(fs)
    BY <1>2
  <1>4. DOMAIN h = 1 .. m - (t + 1) + 1 /\ \A k \in 1 .. m - (t + 1) + 1 : h[k] = fs[t + 1 + k - 1]
    BY <1>1, <1>3, PartFacts
  <1>5. PICK k : k = n - t
    OBVIOUS
  <1>6. k \in DOMAIN h /\ h[k] = fs[n]
    <2>1. k \in 1 .. m - (t + 1) + 1 /\ t + 1 + k - 1 = n
      BY <1>2, <1>5
    <2> QED BY <1>4, <2>1
  <1>7. <<k, j, y>> \in VisibleIn(h, o, "variables", path, 0)
    BY <1>6, Visible
  <1> QED BY <1>1, <1>7

\* Where the prefix "parent" goes from a macro: into the innermost invocation
\* below it that is no inline.
Above(plain, macro, caller) ==
    /\ plain = {n \in DOMAIN frames : ~frames[n].inlined}
    /\ macro = Largest(plain)
    /\ caller = Largest({n \in plain : n < macro})

LEMMA ParentFacts ==
  ASSUME TypeOK, RootPlain, Len(frames) >= 1, NEW plain, NEW m, NEW t, Above(plain, m, t), m > 1
  PROVE  /\ m \in 2 .. Len(frames) /\ t \in 1 .. m - 1
         /\ Receivers("parent") # {} /\ t = Largest(Receivers("parent"))
  <1>0. /\ plain = {n \in DOMAIN frames : ~frames[n].inlined} /\ m = Largest(plain)
        /\ t = Largest({n \in plain : n < m})
    BY DEF Above
  <1>1. PICK k : k = Len(frames)
    OBVIOUS
  <1>2. k \in Nat /\ DOMAIN frames = 1 .. k
    BY <1>1, TypeFacts, FramesFacts
  <1>3. k # 0
    BY <1>1, <1>2
  <1>4. plain \subseteq 0 .. k /\ 1 \in plain
    BY <1>0, <1>1, <1>2, <1>3 DEF RootPlain, PlainRoot
  <1>6. m \in plain /\ \A n \in plain : n <= m
    BY <1>0, <1>2, <1>4, LargestFacts
  <1>7. PICK below : below = {n \in plain : n < m}
    OBVIOUS
  <1>8. below \subseteq 0 .. k /\ 1 \in below
    BY <1>4, <1>7
  <1>9. t = Largest(below)
    BY <1>0, <1>7
  <1>10. t \in below
    BY <1>2, <1>8, <1>9, LargestFacts
  <1>11. Receivers("parent") = {n \in plain : n < Largest(plain) \/ n = 1}
    BY <1>0 DEF Receivers
  <1>12. Receivers("parent") = below
    BY <1>0, <1>4, <1>7, <1>11
  <1>13. m \in 2 .. k /\ t \in 1 .. m - 1
    BY <1>0, <1>2, <1>6, <1>7, <1>10
  <1> QED BY <1>1, <1>8, <1>9, <1>12, <1>13

\* What invocations below the last one add to the scope is its beginning.
LEMMA ScopeBegins ==
  ASSUME TypeOK, ExecutionOK, StacksMatchText, WellFormed, Executing, NEW k \in 0 .. Len(frames)
  PROVE  \E r \in Seq(Wide(program)) :
           UpTo(k).names \in Seq(Wide(program)) /\ scope = UpTo(k).names \o r
  <1>1. phase \in {"Query", "Write"}
    BY DEF Executing
  <1>2. Standing(program, frames, ip) /\ scope = UpTo(Len(frames)).names
    BY <1>1 DEF ExecutionOK, Running, StacksMatchText
  <1>3. PICK c, q : c = ContextIn(program) /\ q = PlacesOf(frames, ip)
    OBVIOUS
  <1>4. Summable(c, q, Wide(program)) /\ Len(q) = Len(frames) /\ Len(frames) \in Nat
    <2>1. PlacesRight(program, q, frames, ip)
      BY <1>2, <1>3, PlacesFacts
    <2> QED BY <1>3, <2>1 DEF PlacesRight
  <1>5. \A n : UpTo(n) = Sum(c, q)[n]
    BY <1>3 DEF UpTo, Context, Places, PlacesOf
  <1>6. k \in 0 .. Len(q) /\ Len(frames) \in k .. Len(q)
    BY <1>4
  <1>7. PICK r \in Seq(Wide(program)) : Sum(c, q)[Len(frames)].names = Sum(c, q)[k].names \o r
    <2>1. \A n \in k .. Len(q) : Grows(c, q, k, n, Wide(program))
      BY <1>4, <1>6, SumGrows
    <2> QED BY <1>6, <2>1 DEF Grows
  <1>8. Sum(c, q)[k] \in [names : Seq(Wide(program)), ifs : Nat]
    BY <1>4, <1>6, SumFacts
  <1> QED BY <1>2, <1>5, <1>7, <1>8

\* Only a declaration executes the statement of one.
LEMMA Declares == ASSUME TypeOK, Executes({"variable"}), Next PROVE DeclareVariable
  <1>1. /\ phase \in {"Query", "Write"} /\ ip <= Len(program) /\ S.op = "variable"
        /\ phase # "Tokenize" /\ phase # "Analyze"
    BY DEF Executes, Executing
  <1>2. /\ ~Source /\ ~StartAnalyze /\ ~StartQuery /\ ~Analyzing /\ ~Unmatched
    BY <1>1 DEF Source, StartAnalyze, StartQuery, Analyzing, Unmatched
  <1>3. /\ S.op \notin Openers \cup Branches \cup Ends \cup {"call", "other", "}", "assign"}
    BY <1>1, Kinds DEF Values
  <1>4. ~StartWrite /\ ~Finish
    <2>1. ip <= Len(program) => ip # Len(program) + 1
      BY TypeFacts
    <2> QED BY <1>1, <2>1 DEF StartWrite, StartExecute, Finish
  <1>5. ~Assign /\ ~Call
    BY <1>3 DEF Assign, Call, Executes
  <1>6. ~DefineMacro /\ ~If /\ ~While /\ ~OpenScope
    BY <1>3, Kinds DEF DefineMacro, If, While, OpenScope, Executes
  <1>7. ~EndIf /\ ~EndWhile /\ ~Return
    BY <1>3, Kinds DEF EndIf, EndWhile, Return, Executes
  <1>8. ~CloseScope
    <2>1. {End(k) : k \in Scopes} \subseteq Ends
      BY Kinds DEF Ends
    <2> QED BY <1>3, <2>1 DEF CloseScope, Executes
  <1>9. ~ElseIf /\ ~Else
    <2>1. {"else if"} \subseteq Branches /\ {"else"} \subseteq Branches
      BY Zenon DEF Branches
    <2> QED BY <1>3, <2>1, Zenon DEF ElseIf, Else, Executes
  <1>10. ~Plain /\ ~Abort
    BY <1>3, Kinds DEF Plain, Abort, Executes
  <1> QED BY <1>2, <1>4, <1>5, <1>6, <1>7, <1>8, <1>9, <1>10, Zenon
          DEF Next, Assemble, Analyze, OpenBlock, CloseBlock, Branch, Pass, Execute

\* What is stored in frame t is found from any frame above it, but for what is
\* in between.
Storage(n, fs, gs, t, m, x) ==
    /\ n \in Nat /\ FramesOK(fs, n) /\ gs \in Seq(Frame(n)) /\ Len(gs) = Len(fs)
    /\ Stores(fs, gs, t, x)
    /\ m \in Nat /\ t \in 1 .. m /\ m + 1 <= Len(fs)

Name(o, path, x) == Len(o) \in Nat /\ x.name = <<SubSeq(o, 1, Len(o)) \o path, 0>>

LEMMA HandedBack ==
  ASSUME NEW n, NEW fs, NEW gs, NEW t, NEW m, NEW x, NEW o, NEW path,
         Storage(n, fs, gs, t, m, x), Name(o, path, x),
         VisibleIn(SubSeq(fs, t + 1, m), o, "variables", path, 0) = {}
  PROVE  ValueIn(SubSeq(gs, 1, m), o, path) = x.value
  <1>0. /\ n \in Nat /\ FramesOK(fs, n) /\ gs \in Seq(Frame(n)) /\ Len(gs) = Len(fs)
        /\ Stores(fs, gs, t, x)
        /\ m \in Nat /\ t \in 1 .. m /\ m + 1 <= Len(fs) /\ Len(o) \in Nat
    BY DEF Storage, Name
  <1>1. Len(fs) \in Nat /\ fs \in Seq(Frame(n)) /\ t \in 1 .. Len(fs) /\ t \in Nat /\ m \in t .. Len(fs)
    BY <1>0, FramesFacts DEF FramesOK
  <1>2. Only(gs[t]["variables"], x) /\ \A k \in 1 .. Len(fs) : k # t => gs[k] = fs[k]
    <2>1. FramesOK(fs, n) /\ t \in 1 .. Len(fs) /\ Stores(fs, gs, t, x)
      BY <1>0, <1>1
    <2> QED BY <1>0, <2>1, StoredThere
  <1>3. Clear(fs, t, m, o, path)
    <2>1. t + 1 <= Len(fs)
      BY <1>0, <1>1
    <2> QED BY <1>1, <2>1, ClearFacts
  <1>4. PICK hs : hs = SubSeq(gs, 1, m)
    OBVIOUS
  <1>5. DOMAIN hs = 1 .. m /\ \A k \in 1 .. m : hs[k] = gs[k]
    <2>1. 1 \in 1 .. Len(gs) /\ m \in 0 .. Len(gs) /\ m - 1 + 1 = m
          /\ \A k \in 1 .. m : 1 + k - 1 = k
      BY <1>0, <1>1
    <2>2. gs \in Seq(Frame(n))
      BY <1>0
    <2>3. DOMAIN hs = 1 .. m - 1 + 1 /\ \A k \in 1 .. m - 1 + 1 : hs[k] = gs[1 + k - 1]
      BY <1>4, <2>1, <2>2, PartFacts
    <2> QED BY <2>1, <2>3
  <1>6. hs[t] = gs[t] /\ \A k \in t + 1 .. m : hs[k] = fs[k]
    BY <1>0, <1>1, <1>2, <1>5
  <1>7. Clear(hs, t, m, o, path) /\ Only(hs[t]["variables"], x)
    BY <1>2, <1>3, <1>6 DEF Clear
  <1>8. Innermost(hs, t, m, o, path, x)
    BY <1>0, <1>5, <1>7 DEF Innermost, Name
  <1>9. ValueIn(hs, o, path) = x.value
    BY <1>8, Lookup
  <1> QED BY <1>4, <1>9

\* A declaration with the prefix "parent", as CallerReads sees it.
HandsBack(plain, macro, caller, outside, path) ==
    /\ Above(plain, macro, caller)
    /\ outside = UpTo(macro - 1).names
    /\ path = SubSeq(scope, Len(outside) + 1, Len(scope)) \o <<S.name>>
    /\ macro > 1
    /\ VisibleIn(SubSeq(frames, caller + 1, macro - 1), outside, "variables", path, 0) = {}

LEMMA CallerStep ==
  ASSUME TypeOK, ExecutionOK, RootPlain, StacksMatchText, WellFormed,
         DeclareVariable, S.level = "parent",
         NEW plain, NEW macro, NEW caller, NEW outside, NEW path,
         HandsBack(plain, macro, caller, outside, path)
  PROVE  ValueIn(SubSeq(frames', 1, macro - 1), outside, path) = ip
  <1>1. /\ Executing /\ phase \in {"Query", "Write"} /\ ip <= Len(program) /\ S.name \in Names
    BY StatementFacts DEF DeclareVariable, Executes, Executing
  <1>2. /\ Len(frames) \in Nat \ {0} /\ FramesOK(frames, Len(program)) /\ Len(program) \in Nat
    BY <1>1, TypeFacts DEF ExecutionOK, Running, Standing
  <1>3. /\ macro \in 2 .. Len(frames) /\ caller \in 1 .. macro - 1
        /\ Receivers("parent") # {} /\ caller = Largest(Receivers("parent"))
    <2>1. Above(plain, macro, caller) /\ macro > 1 /\ Len(frames) >= 1
      BY <1>2 DEF HandsBack
    <2> QED BY <2>1, ParentFacts
  <1>4. PICK x : x = [name |-> <<Append(scope, S.name), 0>>, value |-> ip]
    OBVIOUS
  <1>5. x.name = <<Append(scope, S.name), 0>> /\ x.value = ip
    BY <1>4
  <1>6. PICK gs : gs = frames'
    OBVIOUS
  <1>7. Stores(frames, gs, caller, x)
    BY <1>3, <1>4, <1>6 DEF DeclareVariable, Declare, Stores
  <1>8. gs \in Seq(Frame(Len(program))) /\ Len(gs) = Len(frames)
    BY <1>6, DeclareVariableFrames DEF FramesOK, Changed
  <1>9. PICK r \in Seq(Wide(program)) :
           outside \in Seq(Wide(program)) /\ scope = outside \o r
    <2>1. macro - 1 \in 0 .. Len(frames)
      BY <1>2, <1>3
    <2>2. outside = UpTo(macro - 1).names
      BY DEF HandsBack
    <2> QED BY <1>1, <2>1, <2>2, ScopeBegins
  <1>10. Name(outside, path, x)
    <2>1. PICK w, y : w = Wide(program) /\ y = S.name
      OBVIOUS
    <2>2. y \in w /\ outside \in Seq(w) /\ r \in Seq(w) /\ scope = outside \o r
      BY <1>1, <1>9, <2>1 DEF Wide
    <2>3. Parts(outside, r, y)
      BY <2>2, Apart
    <2>4. path = SubSeq(scope, Len(outside) + 1, Len(scope)) \o <<y>>
      BY <2>1 DEF HandsBack
    <2>5. path = r \o <<y>> /\ SubSeq(outside, 1, Len(outside)) \o path = Append(scope, y)
      BY <2>2, <2>3, <2>4 DEF Parts
    <2> QED BY <1>5, <2>1, <2>2, <2>5, LenProperties DEF Name
  <1>11. PICK m : m = macro - 1
    OBVIOUS
  <1>12. Storage(Len(program), frames, gs, caller, m, x)
    <2>1. m \in Nat /\ caller \in 1 .. m /\ m + 1 <= Len(frames)
      BY <1>2, <1>3, <1>11
    <2> QED BY <1>2, <1>7, <1>8, <2>1 DEF Storage
  <1>13. VisibleIn(SubSeq(frames, caller + 1, m), outside, "variables", path, 0) = {}
    BY <1>11 DEF HandsBack
  <1>14. ValueIn(SubSeq(gs, 1, m), outside, path) = x.value
    BY <1>10, <1>12, <1>13, HandedBack
  <1> QED BY <1>5, <1>6, <1>11, <1>14

\* Whatever the program and however its macros and inlines call each other, what
\* setVariable() gives the caller of a macro is what findVariable() then finds
\* from there under the macro's name, unless an inline between them has a parameter
\* of that name.
THEOREM CallerCorrect == Spec => CallerReads
  <1> DEFINE Reads ==
        Executes({"variable"}) /\ S.level = "parent" /\ WellFormed =>
          LET plain == {n \in DOMAIN frames : ~frames[n].inlined}
              macro == Largest(plain)
              inlines == SubSeq(frames, Largest({n \in plain : n < macro}) + 1, macro - 1)
              outside == UpTo(macro - 1).names
              path == SubSeq(scope, Len(outside) + 1, Len(scope)) \o <<S.name>>
          IN  macro > 1 /\ VisibleIn(inlines, outside, "variables", path, 0) = {} =>
                ValueIn(SubSeq(frames', 1, macro - 1), outside, path) = ip
  <1>1. ASSUME TypeOK, ExecutionOK, RootPlain, StacksMatchText, Next
        PROVE  Reads
    <2> SUFFICES ASSUME Executes({"variable"}), S.level = "parent", WellFormed,
                        NEW plain, NEW macro, NEW caller, NEW outside, NEW path,
                        HandsBack(plain, macro, caller, outside, path)
                 PROVE  ValueIn(SubSeq(frames', 1, macro - 1), outside, path) = ip
      BY DEF HandsBack, Above
    <2> QED BY <1>1, Declares, CallerStep
  <1>2. Spec => []RootPlain
    BY TypeCorrect, RootInit, RootStep, PTL DEF Spec
  <1>3. ASSUME TypeOK, ExecutionOK, RootPlain, StacksMatchText, [Next]_vars
        PROVE  [Reads]_vars
    BY <1>1, <1>3
  <1>4. Spec => [][Reads]_vars
    <2> HIDE DEF Reads
    <2> QED BY <1>2, <1>3, ExecutionInvariant, StacksCorrect, PTL DEF Spec
  <1> QED BY <1>4, PTL DEF CallerReads

-----------------------------------------------------------------------------
(* What an argument means *)

\* The name of parameter p in the scope sc.
Own(sc, p) == <<Append(sc, p), 0>>

LEMMA OwnFacts ==
  ASSUME NEW W, NEW s \in Seq(W), NEW t \in Seq(W), NEW p \in W, NEW q \in W
  PROVE  /\ Own(s, p) = Own(t, q) => p = q
         /\ <<s \o <<p>>, 0>> = Own(s, p)
  <1>1. Append(s, p) = Append(t, q) <=> s = t /\ p = q
    BY AppendInjective
  <1>2. Append(s, p) = s \o <<p>>
    BY AppendIsConcat
  <1> QED BY <1>1, <1>2 DEF Own

\* In one scope, different parameters have different names.
LEMMA OwnOnly ==
  \A W : \A s \in Seq(W), p, q \in W : Own(s, p) = Own(s, q) => p = q
  <1> SUFFICES ASSUME NEW W, NEW s \in Seq(W), NEW p \in W, NEW q \in W, Own(s, p) = Own(s, q)
               PROVE  p = q
    OBVIOUS
  <1>1. Append(s, p) = Append(s, q) <=> s = s /\ p = q
    BY AppendInjective
  <1> QED BY <1>1 DEF Own

\* What is visible, by its frame, the length of its scope and itself.
LEMMA VisibleAre ==
  ASSUME NEW fs, NEW sc, NEW kind, NEW path, NEW arity, NEW x \in VisibleIn(fs, sc, kind, path, arity)
  PROVE  /\ x = <<x[1], x[2], x[3]>> /\ x[1] \in DOMAIN fs /\ x[2] \in 0 .. Len(sc)
         /\ x[3] \in fs[x[1]][kind] /\ x[3].name = <<SubSeq(sc, 1, x[2]) \o path, arity>>
  <1>1. PICK m \in DOMAIN fs : x \in {m} \X (0 .. Len(sc)) \X fs[m][kind]
    BY DEF VisibleIn
  <1>2. x[3].name = <<SubSeq(sc, 1, x[2]) \o path, arity>>
    BY DEF VisibleIn
  <1> QED BY <1>1, <1>2

\* gs are the frames fs and one more, tc is the scope sc and perhaps one more name.
Extends(fs, gs, m, sc, tc) ==
    /\ m \in Nat /\ DOMAIN fs = 1 .. m /\ DOMAIN gs = 1 .. m + 1
    /\ \A n \in 1 .. m : gs[n] = fs[n]
    /\ Len(sc) \in Nat /\ Len(tc) \in {Len(sc), Len(sc) + 1}
    /\ \A j \in 0 .. Len(sc) : SubSeq(tc, 1, j) = SubSeq(sc, 1, j)

\* Nothing that the path means is in what was added.
Outer(gs, m, k, tc, path) ==
    \A x \in VisibleIn(gs, tc, "variables", path, 0) : x[1] <= m /\ x[2] <= k

LEMMA SameValue ==
  ASSUME NEW fs, NEW gs, NEW m, NEW sc, NEW tc, NEW path,
         Extends(fs, gs, m, sc, tc), Outer(gs, m, Len(sc), tc, path)
  PROVE  ValueIn(gs, tc, path) = ValueIn(fs, sc, path)
  <1>1. PICK V, W : /\ V = VisibleIn(fs, sc, "variables", path, 0)
                    /\ W = VisibleIn(gs, tc, "variables", path, 0)
    OBVIOUS
  <1>2. ASSUME NEW x \in V
        PROVE  x \in W
    <2>1. /\ x = <<x[1], x[2], x[3]>> /\ x[1] \in DOMAIN fs /\ x[2] \in 0 .. Len(sc)
          /\ x[3] \in fs[x[1]]["variables"] /\ x[3].name = <<SubSeq(sc, 1, x[2]) \o path, 0>>
      BY <1>1, VisibleAre
    <2>2. x[1] \in DOMAIN gs /\ x[2] \in 0 .. Len(tc) /\ gs[x[1]] = fs[x[1]]
          /\ SubSeq(tc, 1, x[2]) = SubSeq(sc, 1, x[2])
      <3>1. /\ m \in Nat /\ DOMAIN fs = 1 .. m /\ DOMAIN gs = 1 .. m + 1 /\ Len(sc) \in Nat
            /\ Len(tc) = Len(sc) \/ Len(tc) = Len(sc) + 1
        BY DEF Extends
      <3>2. x[1] \in 1 .. m /\ x[1] \in DOMAIN gs /\ x[2] \in 0 .. Len(tc)
        BY <2>1, <3>1
      <3> QED BY <2>1, <3>2 DEF Extends
    <2>3. x[3] \in gs[x[1]]["variables"] /\ x[3].name = <<SubSeq(tc, 1, x[2]) \o path, 0>>
      BY <2>1, <2>2
    <2>4. <<x[1], x[2], x[3]>> \in W
      BY <1>1, <2>2, <2>3, Visible
    <2> QED BY <2>1, <2>4
  <1>3. ASSUME NEW x \in W
        PROVE  x \in V
    <2>1. /\ x = <<x[1], x[2], x[3]>> /\ x[1] \in DOMAIN gs /\ x[2] \in 0 .. Len(tc)
          /\ x[3] \in gs[x[1]]["variables"] /\ x[3].name = <<SubSeq(tc, 1, x[2]) \o path, 0>>
      BY <1>1, VisibleAre
    <2>2. x[1] <= m /\ x[2] <= Len(sc)
      BY <1>1 DEF Outer
    <2>3. x[1] \in DOMAIN fs /\ x[2] \in 0 .. Len(sc) /\ gs[x[1]] = fs[x[1]]
          /\ SubSeq(tc, 1, x[2]) = SubSeq(sc, 1, x[2])
      BY <2>1, <2>2 DEF Extends
    <2>4. x[3] \in fs[x[1]]["variables"] /\ x[3].name = <<SubSeq(sc, 1, x[2]) \o path, 0>>
      BY <2>1, <2>3
    <2>5. <<x[1], x[2], x[3]>> \in V
      BY <1>1, <2>3, <2>4, Visible
    <2> QED BY <2>1, <2>5
  <1>4. V = W
    BY <1>2, <1>3
  <1> QED BY <1>1, <1>4 DEF ValueIn
\* What is bound has the names of parameters, ...
Takes(macro, y, i) == \E j \in 1 .. i : y.name = Own(Inside(macro), macro.parameters[j])

LEMMA BoundNames ==
  ASSUME NEW macro, NEW bs, NEW n, Binds(macro, bs, n), Len(S.list) \in Nat
  PROVE  \A i \in 0 .. Len(S.list) : \A y \in bs[i] : Takes(macro, y, i)
  <1> DEFINE L == Len(S.list)
             T == {i \in Nat : i <= L => \A y \in bs[i] : Takes(macro, y, i)}
  <1>1. ASSUME NEW i \in Nat, \A j \in Nat : j < i => j \in T
        PROVE  i \in T
    <2> SUFFICES ASSUME i <= L, NEW y \in bs[i]
                 PROVE  Takes(macro, y, i)
      OBVIOUS
    <2>1. i # 0
      BY DEF Binds
    <2>2. i - 1 \in Nat /\ i - 1 < i /\ i - 1 <= L /\ i \in 1 .. L
      BY <2>1
    <2>3. i - 1 \in T
      BY <1>1, <2>2
    <2>4. \A z \in bs[i - 1] : Takes(macro, z, i - 1)
      BY <2>2, <2>3
    <2>5. bs[i] = Store(bs[i - 1], Argument(macro, i, bs[i - 1]))
      BY <2>2 DEF Binds, Bound
    <2>6. y \in bs[i - 1] \/ y = Argument(macro, i, bs[i - 1])
      BY <2>5 DEF Store
    <2>7. CASE y \in bs[i - 1]
      <3>1. PICK j \in 1 .. i - 1 : y.name = Own(Inside(macro), macro.parameters[j])
        BY <2>4, <2>7 DEF Takes
      <3>2. j \in 1 .. i
        BY <2>2
      <3> QED BY <3>1, <3>2 DEF Takes
    <2>8. CASE y = Argument(macro, i, bs[i - 1])
      <3>1. y.name = Own(Inside(macro), macro.parameters[i])
        BY <2>8 DEF Argument, Own
      <3>2. i \in 1 .. i
        BY <2>2
      <3> QED BY <3>1, <3>2 DEF Takes
    <2> QED BY <2>6, <2>7, <2>8
  <1> HIDE DEF T
  <1>2. \A i \in Nat : i \in T
    BY <1>1, Induction
  <1> QED BY <1>2 DEF T

\* ... and remains unless a later parameter has its name.
LEMMA BoundKept ==
  ASSUME NEW macro, NEW bs, NEW n, Binds(macro, bs, n), Len(S.list) \in Nat,
         macro.parameters \in Seq(Names), Len(macro.parameters) = Len(S.list),
         Inside(macro) \in Seq(Names), NEW i \in 1 .. Len(S.list),
         \A j \in i + 1 .. Len(macro.parameters) : macro.parameters[j] # macro.parameters[i]
  PROVE  Only(bs[Len(S.list)], Argument(macro, i, bs[i - 1]))
  <1> DEFINE L == Len(S.list)
  <1>1. PICK x : x = Argument(macro, i, bs[i - 1])
    OBVIOUS
  <1>2. x.name = Own(Inside(macro), macro.parameters[i])
    BY <1>1 DEF Argument, Own
  <1>3. \A k \in 1 .. L : bs[k] = Store(bs[k - 1], Argument(macro, k, bs[k - 1]))
    BY DEF Binds, Bound
  <1> DEFINE T == {k \in Nat : k \in i .. L => Only(bs[k], x)}
  <1>4. ASSUME NEW k \in Nat, \A j \in Nat : j < k => j \in T
        PROVE  k \in T
    <2> SUFFICES ASSUME k \in i .. L
                 PROVE  Only(bs[k], x)
      OBVIOUS
    <2>1. k \in 1 .. L /\ bs[k] = Store(bs[k - 1], Argument(macro, k, bs[k - 1]))
      BY <1>3
    <2>2. CASE k = i
      BY <1>1, <2>1, <2>2, Stored
    <2>3. CASE k # i
      <3>1. k - 1 \in Nat /\ k - 1 < k /\ k - 1 \in i .. L /\ k \in i + 1 .. L
        BY <2>3
      <3>2. k - 1 \in T
        BY <1>4, <3>1
      <3>3. Only(bs[k - 1], x)
        BY <3>1, <3>2
      <3>4. PICK z : z = Argument(macro, k, bs[k - 1])
        OBVIOUS
      <3>5. z.name # x.name
        <4>1. z.name = Own(Inside(macro), macro.parameters[k])
          BY <3>4 DEF Argument, Own
        <4>2. PICK s, p, q : s = Inside(macro) /\ p = macro.parameters[k] /\ q = macro.parameters[i]
          OBVIOUS
        <4>3. s \in Seq(Names) /\ p \in Names /\ q \in Names /\ p # q
          BY <2>1, <3>1, <4>2, ElementOfSeq
        <4>4. Own(s, p) = Own(s, q) => p = q
          <5>1. s \in Seq(Names) /\ p \in Names /\ q \in Names
            BY <4>3
          <5> QED BY <5>1, OwnOnly, Zenon
        <4> QED BY <1>2, <4>1, <4>2, <4>3, <4>4
      <3>6. bs[k] = Store(bs[k - 1], z)
        BY <2>1, <3>4
      <3> QED BY <3>3, <3>5, <3>6 DEF Only, Store
    <2> QED BY <2>2, <2>3
  <1> HIDE DEF T
  <1>5. \A k \in Nat : k \in T
    BY <1>4, Induction
  <1>6. L \in Nat /\ L \in i .. L
    OBVIOUS
  <1> QED BY <1>1, <1>5, <1>6 DEF T

\* The frames of an invocation in which b is bound.
InFrame(b) == Append(frames, [variables |-> b])

\* An argument is looked up in the scope of the invocation.
LEMMA ArgumentMeans ==
  ASSUME TypeOK, NEW macro, NEW b, NEW i, NEW a \in Names,
         \A y \in b : Takes(macro, y, i), i \in Nat,
         macro.parameters \in Seq(Names), i <= Len(macro.parameters),
         scope \in Seq(Names), S.name \in Names,
         \A j \in 1 .. i : macro.parameters[j] # a,
         Inside(macro) # scope =>
           \A n \in DOMAIN frames : \A x \in frames[n].variables : x.name # Own(Append(scope, S.name), a)
  PROVE  ValueIn(InFrame(b), Inside(macro), <<a>>) = ValueIn(frames, scope, <<a>>)
  <1>1. PICK fs, gs, m, sc, tc : /\ fs = frames /\ gs = InFrame(b) /\ m = Len(frames)
                                 /\ sc = scope /\ tc = Inside(macro)
    OBVIOUS
  <1>2. /\ m \in Nat /\ DOMAIN fs = 1 .. m /\ DOMAIN gs = 1 .. m + 1
        /\ gs[m + 1]["variables"] = b /\ \A n \in 1 .. m : gs[n] = fs[n] /\ fs[n]["variables"] = fs[n].variables
    <2>1. PICK F : F = [variables |-> b]
      OBVIOUS
    <2>2. F["variables"] = b
      BY <2>1
    <2>3. m \in Nat /\ DOMAIN fs = 1 .. m /\ \A n \in 1 .. m : fs[n]["variables"] = fs[n].variables
      BY <1>1, TypeFacts, FramesFacts
    <2>4. fs \in Seq(Frame(Len(program)) \cup {F}) /\ F \in Frame(Len(program)) \cup {F} /\ gs = Append(fs, F)
      BY <1>1, <2>1 DEF TypeOK, InFrame
    <2>5. /\ Len(gs) = m + 1 /\ DOMAIN gs = 1 .. Len(gs) /\ gs[m + 1] = F
          /\ \A n \in 1 .. m : gs[n] = fs[n]
      BY <1>1, <2>4, AppendProperties, LenProperties
    <2> QED BY <2>2, <2>3, <2>5
  <1>3. /\ sc \in Seq(Names) /\ tc \in Seq(Names) /\ Len(sc) \in Nat
        /\ tc = sc \/ tc = Append(sc, S.name)
    BY <1>1, AppendProperties, LenProperties DEF Inside
  <1>4. Len(tc) \in {Len(sc), Len(sc) + 1} /\ \A j \in 0 .. Len(sc) : SubSeq(tc, 1, j) = SubSeq(sc, 1, j)
    <2>1. CASE tc = sc
      BY <1>3, <2>1
    <2>2. CASE tc # sc
      <3>1. PICK y : y = S.name
        OBVIOUS
      <3>2. y \in Names /\ sc \in Seq(Names) /\ tc = Append(sc, y)
        BY <1>3, <2>2, <3>1
      <3>3. Len(tc) = Len(sc) + 1 /\ \A k \in 1 .. Len(sc) : tc[k] = sc[k]
        BY <3>2, AppendProperties
      <3>4. ASSUME NEW j \in 0 .. Len(sc)
            PROVE  SubSeq(tc, 1, j) = SubSeq(sc, 1, j)
        <4>1. \A k \in 1 .. j : tc[k] \in Names /\ sc[k] \in Names /\ tc[k] = sc[k]
          BY <1>3, <3>2, <3>3, ElementOfSeq
        <4>2. /\ SubSeq(tc, 1, j) \in Seq(Names) /\ SubSeq(sc, 1, j) \in Seq(Names)
              /\ Len(SubSeq(tc, 1, j)) = Len(SubSeq(sc, 1, j))
              /\ Len(SubSeq(tc, 1, j)) = j
              /\ \A k \in 1 .. j : SubSeq(tc, 1, j)[k] = tc[k] /\ SubSeq(sc, 1, j)[k] = sc[k]
          <5>1. j \in Int /\ 1 \in Int /\ j - 1 + 1 = j /\ \A k \in 1 .. j : 1 + k - 1 = k
            BY <1>3
          <5> QED BY <1>3, <4>1, <5>1, SubSeqProperties, Z3
        <4> QED BY <4>1, <4>2, SeqEqual
      <3> QED BY <1>3, <3>3, <3>4
    <2> QED BY <2>1, <2>2
  <1>5. Extends(fs, gs, m, sc, tc)
    BY <1>2, <1>3, <1>4 DEF Extends
  <1>6. ASSUME NEW x \in VisibleIn(gs, tc, "variables", <<a>>, 0)
        PROVE  x[1] <= m /\ x[2] <= Len(sc)
    <2>1. /\ x[1] \in 1 .. m + 1 /\ x[2] \in 0 .. Len(tc)
          /\ x[3] \in gs[x[1]]["variables"] /\ x[3].name = <<SubSeq(tc, 1, x[2]) \o <<a>>, 0>>
      <3>1. PICK path : path = <<a>>
        OBVIOUS
      <3>2. x \in VisibleIn(gs, tc, "variables", path, 0)
        BY <3>1
      <3>3. /\ x[1] \in DOMAIN gs /\ x[2] \in 0 .. Len(tc)
            /\ x[3] \in gs[x[1]]["variables"] /\ x[3].name = <<SubSeq(tc, 1, x[2]) \o path, 0>>
        BY <3>2, VisibleAre
      <3> QED BY <1>2, <3>1, <3>3
    <2>2. PICK u : u = SubSeq(tc, 1, x[2])
      OBVIOUS
    <2>3. u \in Seq(Names) /\ x[3].name = Own(u, a)
      <3>1. u \in Seq(Names)
        <4>1. x[2] \in Int /\ \A k \in 1 .. x[2] : tc[k] \in Names
          BY <1>3, <2>1, ElementOfSeq, LenProperties
        <4> QED BY <2>2, <4>1, SubSeqProperties
      <3>2. x[3].name = <<u \o <<a>>, 0>>
        BY <2>1, <2>2
      <3> QED BY <3>1, <3>2, OwnFacts
    <2>4. x[1] <= m
      <3> SUFFICES ASSUME x[1] = m + 1
                   PROVE  FALSE
        BY <1>2, <2>1
      <3>1. x[3] \in b
        BY <1>2, <2>1
      <3>2. PICK j \in 1 .. i : x[3].name = Own(Inside(macro), macro.parameters[j])
        BY <3>1 DEF Takes
      <3>3. PICK p : p = macro.parameters[j]
        OBVIOUS
      <3>4. p \in Names
        <4>1. j \in 1 .. Len(macro.parameters)
          BY LenProperties
        <4> QED BY <3>3, <4>1, ElementOfSeq
      <3>5. Own(u, a) = Own(tc, p)
        BY <1>1, <2>3, <3>2, <3>3
      <3>6. a = p
        BY <1>3, <2>3, <3>4, <3>5, OwnFacts
      <3> QED BY <3>3, <3>6
    <2>5. x[2] <= Len(sc)
      <3> SUFFICES ASSUME x[2] = Len(sc) + 1
                   PROVE  FALSE
        BY <1>3, <1>4, <2>1
      <3>1. tc # sc /\ x[2] = Len(tc)
        BY <1>3, <1>4, <2>1
      <3>2. u = tc
        BY <1>3, <2>2, <3>1, SubSeqFull
      <3>3. x[3] \in frames[x[1]].variables /\ x[1] \in DOMAIN frames
        BY <1>1, <1>2, <2>1, <2>4
      <3>4. x[3].name = Own(Append(scope, S.name), a)
        BY <1>1, <1>3, <2>3, <3>1, <3>2
      <3> QED BY <1>1, <3>1, <3>3, <3>4
    <2> QED BY <2>4, <2>5
  <1>7. Outer(gs, m, Len(sc), tc, <<a>>)
    BY <1>6 DEF Outer
  <1>8. ValueIn(gs, tc, <<a>>) = ValueIn(fs, sc, <<a>>)
    BY <1>5, <1>7, SameValue
  <1> QED BY <1>1, <1>8
\* Only a call executes the statement of one, or it fails.
LEMMA Calls == ASSUME TypeOK, Executes({"call"}), Next PROVE Call \/ UNCHANGED frames
  <1>1. /\ phase \in {"Query", "Write"} /\ ip <= Len(program) /\ S.op = "call"
        /\ phase # "Tokenize" /\ phase # "Analyze"
    BY DEF Executes, Executing
  <1>2. S.op \notin Openers \cup Branches \cup Ends \cup {"variable", "assign", "other", "}"}
    <2>1. "call" \notin Openers /\ "call" \notin Branches /\ "call" \notin Ends
      BY Kinds
    <2> QED BY <1>1, <2>1
  <1>3. ~Source /\ ~StartAnalyze /\ ~StartQuery /\ ~Analyzing /\ ~Unmatched
    BY <1>1 DEF Source, StartAnalyze, StartQuery, Analyzing, Unmatched
  <1>4. ~StartWrite /\ ~Finish
    <2>1. ip <= Len(program) => ip # Len(program) + 1
      BY TypeFacts
    <2> QED BY <1>1, <2>1 DEF StartWrite, StartExecute, Finish
  <1>5. ~DeclareVariable /\ ~Assign
    BY <1>2 DEF DeclareVariable, Assign, Executes
  <1>6. ~DefineMacro
    BY <1>2, Kinds DEF DefineMacro, Executes
  <1>7. ~Return
    BY <1>2, Kinds DEF Return, Executes
  <1>8. If \/ ElseIf \/ Else \/ EndIf \/ While \/ EndWhile \/ OpenScope \/ CloseScope \/ Plain \/ Abort
          => UNCHANGED frames
    BY DEF If, ElseIf, Else, EndIf, While, EndWhile, OpenScope, CloseScope, Plain, Abort
  <1> QED BY <1>3, <1>4, <1>5, <1>6, <1>7, <1>8, Zenon
          DEF Next, Assemble, Analyze, OpenBlock, CloseBlock, Branch, Pass, Execute

LEMMA ParameterMeans ==
  ASSUME TypeOK, Call, NEW bs, NEW n, Binds(Callee, bs, n), Len(S.list) \in Nat, NEW i \in Nat,
         NEW p \in Names, p = Callee.parameters[i],
         NEW x, x = Argument(Callee, i, bs[i - 1]), Only(bs[Len(S.list)], x)
  PROVE  ValueIn(frames', scope', <<p>>) = x.value
  <1>1. PICK gs, tc, m, path : /\ gs = frames' /\ tc = scope' /\ m = Len(frames) + 1
                               /\ path = <<p>>
    OBVIOUS
  <1>2. /\ m \in Nat /\ DOMAIN gs = 1 .. m /\ gs[m]["variables"] = bs[Len(S.list)]
    <2>1. /\ gs = Append(frames, Invocation) /\ Invocation \in Frame(Len(program))
          /\ frames \in Seq(Frame(Len(program)))
      BY <1>1, CallType DEF Call, Invocation, TypeOK
    <2>2. PICK f : f = Invocation
      OBVIOUS
    <2>3. PICK a : a = Arguments(Callee)
      OBVIOUS
    <2>4. f["variables"] = a
      BY <2>2, <2>3 DEF Invocation
    <2>5. Len(gs) = m /\ gs[m] = f /\ Len(frames) \in Nat /\ DOMAIN gs = 1 .. Len(gs)
      BY <1>1, <2>1, <2>2, AppendProperties, LenProperties
    <2>6. a = bs[Len(S.list)]
      BY <2>3 DEF Binds
    <2> QED BY <1>1, <2>4, <2>5, <2>6
  <1>3. tc = Inside(Callee) /\ tc \in Seq(Names) /\ Len(tc) \in Nat
    <2>1. tc = Inside(Callee) /\ tc \in Seq(Names)
      BY <1>1, CallType DEF Call
    <2> QED BY <2>1, LenProperties
  <1>4. x.name = <<SubSeq(tc, 1, Len(tc)) \o path, 0>>
    <2>1. x.name = Own(tc, p)
      BY <1>3 DEF Argument, Own
    <2>2. <<tc \o <<p>>, 0>> = Own(tc, p)
      BY <1>3, OwnFacts
    <2>3. SubSeq(tc, 1, Len(tc)) = tc
      BY <1>3, SubSeqFull
    <2> QED BY <1>1, <2>1, <2>2, <2>3
  <1>5. Clear(gs, m, m, tc, path)
    BY <1>2 DEF Clear
  <1>6. Innermost(gs, m, m, tc, path, x)
    <2>1. m \in 1 .. m
      <3>1. Len(frames) \in Nat
        BY TypeFacts, FramesFacts
      <3> QED BY <1>1, <3>1
    <2> QED BY <1>2, <1>3, <1>4, <1>5, <2>1 DEF Innermost
  <1>7. ValueIn(gs, tc, path) = x.value
    BY <1>6, Lookup
  <1> QED BY <1>1, <1>7

LEMMA MeantStep ==
  ASSUME TypeOK, Call, NEW i \in DOMAIN S.list,
         \A j \in 1 .. i - 1 : Callee.parameters[j] # S.list[i],
         scope' # scope =>
           \A n \in DOMAIN frames : \A x \in frames[n].variables :
             x.name # <<Append(Append(scope, S.name), S.list[i]), 0>>,
         \A j \in i + 1 .. Len(Callee.parameters) : Callee.parameters[j] # Callee.parameters[i]
  PROVE  ValueIn(frames', scope', <<Callee.parameters[i]>>) = ValueIn(frames, scope, <<S.list[i]>>)
  <1>1. /\ ip <= Len(program) /\ Callees # {} /\ scope' = Inside(Callee)
    BY DEF Call, Executes, Executing
  <1>2. /\ Callee \in Macro(Len(program)) /\ Len(Callee.parameters) = Len(S.list)
        /\ S.name \in Names /\ S.list \in Seq(Names) /\ scope \in Seq(Names) /\ Len(S.list) \in Nat
        /\ Len(program) \in Nat /\ frames \in Seq(Frame(Len(program)))
    BY <1>1, CalleeFacts, StatementFacts, TypeFacts DEF TypeOK
  <1>3. PICK bs : Binds(Callee, bs, Len(program))
    BY <1>2, ArgumentsBound
  <1>4. Callee.parameters \in Seq(Names) /\ Inside(Callee) \in Seq(Names)
    BY <1>1, <1>2, CallType DEF Macro
  <1>5. i \in 1 .. Len(S.list) /\ i \in Nat
    BY <1>2, LenProperties
  <1>6. PICK p, a, b, x : /\ p = Callee.parameters[i] /\ a = S.list[i] /\ b = bs[i - 1]
                          /\ x = Argument(Callee, i, b)
    OBVIOUS
  <1>7. p \in Names /\ a \in Names
    BY <1>2, <1>4, <1>5, <1>6, ElementOfSeq
  <1>8. Only(bs[Len(S.list)], x)
    BY <1>2, <1>3, <1>4, <1>5, <1>6, BoundKept
  <1>9. ValueIn(frames', scope', <<p>>) = x.value
    BY <1>2, <1>3, <1>5, <1>6, <1>7, <1>8, ParameterMeans
  <1>10. x.value = ValueIn(InFrame(b), Inside(Callee), <<a>>)
    BY <1>6 DEF Argument, InFrame
  <1>11. ValueIn(InFrame(b), Inside(Callee), <<a>>) = ValueIn(frames, scope, <<a>>)
    <2>1. PICK k : k = i - 1
      OBVIOUS
    <2>2. k \in Nat /\ k \in 0 .. Len(S.list) /\ k <= Len(Callee.parameters)
      BY <1>2, <1>5, <2>1
    <2>3. \A y \in b : Takes(Callee, y, k)
      BY <1>2, <1>3, <1>6, <2>1, <2>2, BoundNames
    <2>4. \A j \in 1 .. k : Callee.parameters[j] # a
      BY <1>6, <2>1
    <2>5. Inside(Callee) # scope =>
            \A n \in DOMAIN frames : \A y \in frames[n].variables : y.name # Own(Append(scope, S.name), a)
      BY <1>1, <1>6 DEF Own
    <2> QED BY <1>2, <1>4, <1>7, <2>2, <2>3, <2>4, <2>5, ArgumentMeans
  <1> QED BY <1>6, <1>9, <1>10, <1>11

\* Whatever the program, every parameter of an invoked macro or inline means what
\* its argument meant where the call stands, but for the names that execute()
\* captures: those of parameters before it and of variables in the macro's scope.
THEOREM MeaningCorrect == Spec => ArgumentsMeant
  <1> DEFINE Meant ==
        Executes({"call"}) /\ Len(frames') > Len(frames) =>
          LET parameters == Callee.parameters
              own(x) == <<Append(Append(scope, S.name), x), 0>>
          IN  \A i \in DOMAIN S.list :
                \/ \E j \in 1 .. i - 1 : parameters[j] = S.list[i]
                \/ /\ scope' # scope
                   /\ \E n \in DOMAIN frames : \E x \in frames[n].variables : x.name = own(S.list[i])
                \/ ValueIn(frames', scope', <<parameters[i]>>) = ValueIn(frames, scope, <<S.list[i]>>)
                \/ \E j \in i + 1 .. Len(parameters) : parameters[j] = parameters[i]
  <1>1. ASSUME TypeOK, Next
        PROVE  Meant
    <2> SUFFICES ASSUME Executes({"call"}), Len(frames') > Len(frames), NEW i \in DOMAIN S.list,
                        \A j \in 1 .. i - 1 : Callee.parameters[j] # S.list[i],
                        scope' # scope =>
                          \A n \in DOMAIN frames : \A x \in frames[n].variables :
                            x.name # <<Append(Append(scope, S.name), S.list[i]), 0>>,
                        \A j \in i + 1 .. Len(Callee.parameters) :
                          Callee.parameters[j] # Callee.parameters[i]
                 PROVE  ValueIn(frames', scope', <<Callee.parameters[i]>>)
                          = ValueIn(frames, scope, <<S.list[i]>>)
      OBVIOUS
    <2>1. frames' # frames
      <3>1. Len(frames) \in Nat
        BY <1>1, TypeFacts, FramesFacts
      <3>2. ~(Len(frames) > Len(frames))
        BY <3>1
      <3> QED BY <3>2
    <2>2. Call
      BY <1>1, <2>1, Calls
    <2> QED BY <1>1, <2>2, MeantStep
  <1>2. ASSUME TypeOK, [Next]_vars
        PROVE  [Meant]_vars
    BY <1>1, <1>2
  <1>3. Spec => [][Meant]_vars
    <2> HIDE DEF Meant
    <2> QED BY <1>2, TypeCorrect, PTL DEF Spec
  <1> QED BY <1>3, PTL DEF ArgumentsMeant
=============================================================================
