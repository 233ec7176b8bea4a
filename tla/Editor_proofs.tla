--------------------------- MODULE Editor_proofs ----------------------------
(***************************************************************************)
(* Proofs about the editors: whatever scripts, lists and entries there are *)
(* and whatever is typed, and however many edits and crashes there are,    *)
(* they are the notebook.  Of the formats of the files this uses what      *)
(* TextsClosed and FormatHolds say.  That the program's two formats are    *)
(* so, whatever the lines and words are, is proved too: a script is laid   *)
(* out and read in blocks, a list in lines, and what can be written is     *)
(* read as it was.                                                         *)
(***************************************************************************)
EXTENDS Editor, ScriptFile, Recursion, SequenceTheorems

\* The formats of the lists, which have operators named like those of scripts.
L == INSTANCE ListFile

-----------------------------------------------------------------------------
(* ScriptFile: texts and the lines of a block. *)

\* The last of some lines, and the first.
LEMMA LastFacts ==
  ASSUME NEW n \in Nat, NEW T, T \subseteq 1 .. n, T # {}
  PROVE  Max(T) \in T /\ \A y \in T : Max(T) >= y
  <1> DEFINE U == {k \in Nat : \E y \in T : k = n - y}
  <1>1. \A y \in T : y \in 1 .. n /\ n - y \in U
    OBVIOUS
  <1>2. U \subseteq Nat /\ U # {}
    BY <1>1
  <1>3. PICK k \in U : \A j \in U : k <= j
    <2> HIDE DEF U
    <2> QED BY <1>2, Smallest
  <1>4. PICK x \in T : k = n - x
    OBVIOUS
  <1>5. ASSUME NEW y \in T PROVE x >= y
    <2>1. n - x <= n - y
      BY <1>1, <1>3, <1>4
    <2>2. x \in Int /\ y \in Int
      BY <1>1
    <2> QED BY <2>1, <2>2
  <1> QED BY <1>4, <1>5, Zenon DEF Max

\* The first of some numbers.
LEMMA FirstOf ==
  ASSUME NEW T, T \subseteq Nat, T # {}
  PROVE  Min(T) \in T /\ \A y \in T : Min(T) <= y
  <1>1. \E x \in T : \A y \in T : x <= y
    BY Smallest
  <1> QED BY <1>1, Zenon DEF Min

\* Texts, of lines of W.
TextsOf(W) == {t \in Seq(W) : t # <<>>}

\* t is the first n lines of r, the last of which is not empty, or Blank.
Trims(t, r, n) ==
  /\ n \in 0 .. Len(r)
  /\ n = 0 => t = Blank
  /\ n # 0 => Len(t) = n /\ r[n] # EmptyLine /\ \A i \in 1 .. n : t[i] = r[i]

\* A trimmed text is a text again: the lines of r up to the last that is not empty.
LEMMA TrimFacts ==
  ASSUME NEW W, EmptyLine \in W, NEW r \in TextsOf(W)
  PROVE  Trim(r) \in TextsOf(W) /\ \E n \in Nat : Trims(Trim(r), r, n)
  <1>1. PICK m \in Nat : m = Len(r) /\ DOMAIN r = 1 .. m
    BY LenProperties DEF TextsOf
  <1>2. r \in Seq(W)
    BY DEF TextsOf
  <1>3. PICK written : written = {i \in DOMAIN r : r[i] # EmptyLine}
    OBVIOUS
  <1>4. CASE written = {}
    <2>1. Trim(r) = Blank
      BY <1>3, <1>4 DEF Trim
    <2>2. Blank \in TextsOf(W)
      BY DEF Blank, TextsOf
    <2>3. Trims(Blank, r, 0)
      BY <1>1 DEF Trims
    <2> QED BY <2>1, <2>2, <2>3
  <1>5. CASE written # {}
    <2>1. written \subseteq 1 .. m
      BY <1>1, <1>3
    <2>2. PICK n : n = Max(written)
      OBVIOUS
    <2>3. n \in written
      BY <1>5, <2>1, <2>2, LastFacts
    <2>4. n \in 1 .. m /\ r[n] # EmptyLine /\ n \in Nat /\ n # 0 /\ n \in 0 .. m
      BY <1>1, <1>3, <2>3
    <2>5. Trim(r) = SubSeq(r, 1, n)
      BY <1>3, <1>5, <2>2 DEF Trim
    <2>6. PICK t : t = SubSeq(r, 1, n)
      OBVIOUS
    <2>7. t \in Seq(W) /\ Len(t) = n /\ \A i \in 1 .. n : t[i] = r[i]
      <3>1. \A i \in 1 .. n : i \in 1 .. m /\ 1 + i - 1 = i
        BY <2>4
      <3>2. \A i \in 1 .. n : r[i] \in W
        BY <1>1, <1>2, <3>1
      <3> QED BY <1>2, <2>4, <2>6, <3>1, <3>2, SubSeqProperties
    <2>8. t # <<>>
      BY <2>4, <2>7
    <2>9. Trims(t, r, n)
      BY <1>1, <2>4, <2>7 DEF Trims
    <2> QED BY <2>4, <2>5, <2>6, <2>7, <2>8, <2>9 DEF TextsOf
  <1> QED BY <1>4, <1>5

\* What is trimmed stays as it is.
LEMMA TrimAgain ==
  ASSUME NEW W, EmptyLine \in W, NEW r \in TextsOf(W)
  PROVE  Trim(Trim(r)) = Trim(r)
  <1>1. PICK t \in TextsOf(W), n \in Nat : t = Trim(r) /\ Trims(t, r, n)
    BY TrimFacts
  <1>2. CASE n = 0
    <2>1. t = Blank
      BY <1>1, <1>2 DEF Trims
    <2>2. {i \in DOMAIN Blank : Blank[i] # EmptyLine} = {}
      BY DEF Blank
    <2>3. Trim(Blank) = Blank
      BY <2>2 DEF Trim
    <2> QED BY <1>1, <2>1, <2>3
  <1>3. CASE n # 0
    <2>1. t \in Seq(W) /\ Len(t) = n /\ DOMAIN t = 1 .. n /\ n \in 1 .. n
      BY <1>1, <1>3 DEF Trims, TextsOf
    <2>2. t[n] # EmptyLine
      BY <1>1, <1>3, <2>1 DEF Trims
    <2>3. PICK written : written = {i \in DOMAIN t : t[i] # EmptyLine}
      OBVIOUS
    <2>4. n \in written /\ written \subseteq 1 .. n
      BY <2>1, <2>2, <2>3
    <2>5. PICK k : k = Max(written)
      OBVIOUS
    <2>6. k \in written /\ k >= n
      BY <2>4, <2>5, LastFacts
    <2>7. k = n
      <3>1. k \in 1 .. n
        BY <2>4, <2>6
      <3> QED BY <2>6, <3>1
    <2>8. Trim(t) = SubSeq(t, 1, n)
      BY <2>3, <2>4, <2>5, <2>7 DEF Trim
    <2>9. SubSeq(t, 1, Len(t)) = t
      BY <2>1, SubSeqFull
    <2> QED BY <1>1, <2>1, <2>8, <2>9
  <1> QED BY <1>2, <1>3

\* Two sequences, joined.
LEMMA PartsFacts ==
  ASSUME NEW W, NEW x \in Seq(W), NEW y \in Seq(W), NEW m \in Nat, NEW n \in Nat, m = Len(x), n = Len(y),
         NEW z, z = x \o y
  PROVE  /\ z \in Seq(W) /\ Len(z) = m + n
         /\ \A i \in 1 .. m : z[i] = x[i]
         /\ \A i \in 1 .. n : z[m + i] = y[i]
  <1>2. /\ \A i \in 1 .. m : i \in 1 .. m + n /\ i <= m
        /\ \A i \in 1 .. n : m + i \in 1 .. m + n /\ ~(m + i <= m) /\ (m + i) - m = i
    OBVIOUS
  <1>3. z \in Seq(W) /\ Len(z) = m + n
    BY ConcatProperties
  <1>4. \A i \in 1 .. m + n : z[i] = IF i <= m THEN x[i] ELSE y[i - m]
    BY ConcatProperties
  <1>5. \A i \in 1 .. m : z[i] = x[i]
    BY <1>2, <1>4
  <1>6. \A i \in 1 .. n : z[m + i] = y[i]
    BY <1>2, <1>4
  <1> QED BY <1>3, <1>5, <1>6

\* The lines of a trimmed text in its block.
Height(t) == IF t = Blank THEN 0 ELSE Len(t)

\* b is a block with this tag and text.
IsBlock(b, tag, t) ==
  /\ Len(b) = Height(t) + 3 /\ b[1] = tag
  /\ \A i \in 1 .. Height(t) : b[1 + i] = t[i]
  /\ b[Height(t) + 2] = EndLine /\ b[Height(t) + 3] = EmptyLine

\* The lines of a block: its tag, its trimmed text, {end} and an empty line.
LEMMA LinesFacts ==
  ASSUME NEW W, EmptyLine \in W, EndLine \in W, NEW tag \in W, NEW r \in TextsOf(W)
  PROVE  /\ BlockLines(tag, r) \in Seq(W) /\ Height(Trim(r)) \in Nat
         /\ IsBlock(BlockLines(tag, r), tag, Trim(r))
  <1>1. PICK t \in TextsOf(W) : t = Trim(r)
    BY TrimFacts
  <1>2. PICK body : body = IF t = Blank THEN <<>> ELSE t
    OBVIOUS
  <1>3. body \in Seq(W)
    BY <1>2 DEF TextsOf
  <1>4. PICK m \in Nat : m = Len(body)
    BY <1>3, LenProperties
  <1>5. m = Height(t) /\ \A i \in 1 .. m : body[i] = t[i]
    BY <1>2, <1>4 DEF Height
  <1>6. PICK front \in Seq(W), back \in Seq(W) : front = <<tag>> /\ back = <<EndLine, EmptyLine>>
    <2>1. <<tag>> \in Seq(W)
      OBVIOUS
    <2>2. <<EndLine, EmptyLine>> \in Seq(W)
      OBVIOUS
    <2> QED BY <2>1, <2>2
  <1>7. Len(front) = 1 /\ front[1] = tag /\ Len(back) = 2 /\ back[1] = EndLine /\ back[2] = EmptyLine
    BY <1>6
  <1>8. PICK x : x = front \o body
    OBVIOUS
  <1>9. x \in Seq(W) /\ Len(x) = 1 + m /\ x[1] = tag /\ \A i \in 1 .. m : x[1 + i] = body[i]
    BY <1>3, <1>4, <1>6, <1>7, <1>8, PartsFacts
  <1>10. PICK b : b = x \o back
    OBVIOUS
  <1>11. /\ b \in Seq(W) /\ Len(b) = m + 3
         /\ \A i \in 1 .. 1 + m : b[i] = x[i]
         /\ b[m + 2] = EndLine /\ b[m + 3] = EmptyLine
    <2>1. PICK k \in Nat : k = 1 + m
      OBVIOUS
    <2>2. b \in Seq(W) /\ Len(b) = k + 2 /\ (\A i \in 1 .. k : b[i] = x[i])
          /\ \A i \in 1 .. 2 : b[k + i] = back[i]
      BY <1>6, <1>7, <1>9, <1>10, <2>1, PartsFacts
    <2>3. k + 2 = m + 3 /\ k + 1 = m + 2 /\ 1 \in 1 .. 2 /\ 2 \in 1 .. 2
      BY <2>1
    <2> QED BY <1>7, <2>1, <2>2, <2>3
  <1>12. BlockLines(tag, r) = b
    BY <1>1, <1>2, <1>6, <1>8, <1>10 DEF BlockLines
  <1>13. IsBlock(b, tag, t)
    <2>1. 1 \in 1 .. 1 + m /\ \A i \in 1 .. m : 1 + i \in 1 .. 1 + m
      OBVIOUS
    <2> QED BY <1>5, <1>9, <1>11, <2>1 DEF IsBlock
  <1> QED BY <1>1, <1>5, <1>11, <1>12, <1>13

-----------------------------------------------------------------------------
(* ScriptFile: the blocks of a file. *)

\* fl[k] is the first k of the sequences q, joined.
Joining(fl, q, n, W) ==
  /\ fl[0] = <<>> /\ \A k \in 0 .. n : fl[k] \in Seq(W)
  /\ \A k \in 1 .. n : fl[k] = fl[k - 1] \o q[k]

\* Sequences are joined one by one.
LEMMA FlattenFacts ==
  ASSUME NEW W, NEW n \in Nat \ {0}, NEW q \in [1 .. n -> Seq(W)]
  PROVE  \E fl : Joining(fl, q, n, W) /\ FlattenSeq(q) = fl[n]
  <1> DEFINE Body(f) == [i \in 1 .. Len(q) |-> IF i = 1 THEN q[i] ELSE f[i - 1] \o q[i]]
  <1>1. PICK D : D = Seq(W)
    OBVIOUS
  <1>2. PICK step : step = [k \in 1 .. n |-> [x \in D |-> x \o q[k]]]
    OBVIOUS
  <1>3. \A k \in 1 .. n : step[k] \in [D -> D]
    <2>1. ASSUME NEW k \in 1 .. n, NEW x \in D
          PROVE  x \o q[k] \in D
      BY <1>1, <2>1, ConcatProperties
    <2> QED BY <1>2, <2>1
  <1>4. PICK g : Loops(g, n, D, <<>>, step)
    <2>1. <<>> \in D
      BY <1>1
    <2>2. n \in Nat
      OBVIOUS
    <2> QED BY <1>3, <2>1, <2>2, Looped
  <1>5. Joining(g, q, n, W)
    <2>1. g \in [0 .. n -> D] /\ g[0] = <<>> /\ \A k \in 1 .. n : g[k] = step[k][g[k - 1]]
      BY <1>4 DEF Loops
    <2>2. \A k \in 1 .. n : k - 1 \in 0 .. n
      OBVIOUS
    <2>3. \A k \in 1 .. n : g[k] = g[k - 1] \o q[k]
      <3> SUFFICES ASSUME NEW k \in 1 .. n PROVE g[k] = g[k - 1] \o q[k]
        OBVIOUS
      <3>1. PICK x \in D : x = g[k - 1]
        BY <2>1, <2>2
      <3>2. step[k][x] = x \o q[k]
        BY <1>2
      <3> QED BY <2>1, <3>1, <3>2
    <2> QED BY <1>1, <2>1, <2>3 DEF Joining
  <1>6. Len(q) = n
    BY LenProperties
  <1>7. \A x \in Seq(W) : <<>> \o x = x
    BY ConcatProperties
  <1>8. g[1] = q[1]
    <2>1. 1 \in 1 .. n /\ 1 - 1 = 0
      OBVIOUS
    <2>2. g[1] = g[0] \o q[1] /\ g[0] = <<>>
      BY <1>5, <2>1 DEF Joining
    <2> QED BY <1>7, <2>1, <2>2
  <1>9. PICK h : h = [i \in 1 .. n |-> g[i]]
    OBVIOUS
  <1>10. h = Body(h)
    <2>1. ASSUME NEW i \in 1 .. n
          PROVE  h[i] = IF i = 1 THEN q[i] ELSE h[i - 1] \o q[i]
      <3>1. CASE i = 1
        BY <1>8, <1>9, <3>1
      <3>2. CASE i # 1
        <4>1. i - 1 \in 1 .. n
          BY <3>2
        <4>2. g[i] = g[i - 1] \o q[i]
          BY <1>5 DEF Joining
        <4> QED BY <1>9, <3>2, <4>1, <4>2
      <3> QED BY <3>1, <3>2
    <2>2. h = [i \in 1 .. n |-> h[i]]
      BY <1>9
    <2> QED BY <1>6, <2>1, <2>2
  <1>11. PICK from : from = CHOOSE f : f = Body(f)
    OBVIOUS
  <1>12. from = Body(from)
    <2> HIDE DEF Body
    <2> QED BY <1>10, <1>11
  <1>13. FlattenSeq(q) = from[n]
    <2>1. Len(q) # 0
      BY <1>6
    <2>2. FlattenSeq(q) = from[Len(q)]
      BY <1>11, <2>1 DEF FlattenSeq
    <2> QED BY <1>6, <2>2
  <1>14. \A i \in 1 .. n : from[i] = IF i = 1 THEN q[i] ELSE from[i - 1] \o q[i]
    BY <1>6, <1>12
  <1>15. from[n] = g[n]
    <2> DEFINE T == {k \in Nat : k \in 1 .. n => from[k] = g[k]}
    <2>1. ASSUME NEW k \in Nat, \A j \in Nat : j < k => j \in T
          PROVE  k \in T
      <3> SUFFICES ASSUME k \in 1 .. n PROVE from[k] = g[k]
        OBVIOUS
      <3>1. CASE k = 1
        BY <1>8, <1>14, <3>1
      <3>2. CASE k # 1
        <4>1. k - 1 \in Nat /\ k - 1 < k /\ k - 1 \in 1 .. n
          BY <3>2
        <4>2. from[k - 1] = g[k - 1]
          BY <2>1, <4>1
        <4>3. g[k] = g[k - 1] \o q[k]
          BY <1>5 DEF Joining
        <4> QED BY <1>14, <3>2, <4>2, <4>3
      <3> QED BY <3>1, <3>2
    <2>2. Nat \subseteq T
      <3> HIDE DEF T
      <3> QED BY <2>1, Induction
    <2> QED BY <2>2
  <1> QED BY <1>5, <1>13, <1>15

\* Where each of the sequences ends in the whole.
Ends(pos, q, n) ==
  /\ pos \in [0 .. n -> Nat] /\ pos[0] = 0
  /\ \A k \in 1 .. n : pos[k] = pos[k - 1] + Len(q[k])

\* The whole, z, has each of them at its place.
Places(z, pos, q, n) ==
  /\ Len(z) = pos[n]
  /\ \A k \in 1 .. n : \A j \in 1 .. Len(q[k]) : z[pos[k - 1] + j] = q[k][j]

\* The whole that FlattenSeq makes has each of the sequences at its place.
LEMMA FlattenPlaces ==
  ASSUME NEW W, NEW n \in Nat \ {0}, NEW q \in [1 .. n -> Seq(W)]
  PROVE  FlattenSeq(q) \in Seq(W) /\ \E pos : Ends(pos, q, n) /\ Places(FlattenSeq(q), pos, q, n)
  <1>1. PICK fl : Joining(fl, q, n, W) /\ FlattenSeq(q) = fl[n]
    BY FlattenFacts
  <1>2. fl[0] = <<>> /\ \A k \in 0 .. n : fl[k] \in Seq(W)
    BY <1>1 DEF Joining
  <1>3. PICK pos : pos = [k \in 0 .. n |-> Len(fl[k])]
    OBVIOUS
  <1>4. pos \in [0 .. n -> Nat] /\ pos[0] = 0
    BY <1>2, <1>3, LenProperties
  <1>5. ASSUME NEW k \in 1 .. n
        PROVE  /\ pos[k] = pos[k - 1] + Len(q[k]) /\ Len(q[k]) \in Nat
               /\ \A i \in 1 .. pos[k - 1] : fl[k][i] = fl[k - 1][i]
               /\ \A j \in 1 .. Len(q[k]) : fl[k][pos[k - 1] + j] = q[k][j]
    <2>1. k - 1 \in 0 .. n /\ k \in 0 .. n
      OBVIOUS
    <2>2. PICK x \in Seq(W), y \in Seq(W) : x = fl[k - 1] /\ y = q[k]
      BY <1>2, <2>1
    <2>3. PICK a \in Nat, b \in Nat : a = Len(x) /\ b = Len(y)
      BY LenProperties
    <2>4. PICK z : z = fl[k] /\ z = x \o y
      BY <1>1, <2>2 DEF Joining
    <2>5. a = pos[k - 1] /\ pos[k] = Len(fl[k])
      BY <1>3, <2>1, <2>2, <2>3
    <2>6. Len(z) = a + b /\ (\A i \in 1 .. a : z[i] = x[i]) /\ \A i \in 1 .. b : z[a + i] = y[i]
      BY <2>3, <2>4, PartsFacts
    <2> QED BY <2>2, <2>3, <2>4, <2>5, <2>6
  <1>6. Ends(pos, q, n)
    BY <1>4, <1>5 DEF Ends
  <1> DEFINE T == {m \in Nat : m <= n => \A k \in 1 .. m : \A j \in 1 .. Len(q[k]) :
                                            /\ pos[k - 1] + j \in 1 .. pos[m]
                                            /\ fl[m][pos[k - 1] + j] = q[k][j]}
  <1>7. ASSUME NEW m \in Nat, \A j \in Nat : j < m => j \in T
        PROVE  m \in T
    <2> SUFFICES ASSUME m <= n, NEW k \in 1 .. m, NEW j \in 1 .. Len(q[k])
                 PROVE  pos[k - 1] + j \in 1 .. pos[m] /\ fl[m][pos[k - 1] + j] = q[k][j]
      OBVIOUS
    <2>1. /\ m \in 1 .. n /\ k \in 1 .. n /\ m - 1 \in 0 .. n /\ m \in 0 .. n /\ k - 1 \in 0 .. n
          /\ m - 1 \in Nat /\ m - 1 < m /\ m - 1 <= n
      OBVIOUS
    <2>2. /\ pos[m] = pos[m - 1] + Len(q[m]) /\ Len(q[m]) \in Nat /\ Len(q[k]) \in Nat
          /\ \A i \in 1 .. pos[m - 1] : fl[m][i] = fl[m - 1][i]
          /\ \A i \in 1 .. Len(q[m]) : fl[m][pos[m - 1] + i] = q[m][i]
      BY <1>5, <2>1
    <2>3. pos[m - 1] \in Nat /\ pos[k - 1] \in Nat /\ pos[m] \in Nat
      BY <1>4, <2>1
    <2>4. CASE k = m
      <3>1. PICK p \in Nat, h \in Nat : p = pos[m - 1] /\ h = Len(q[m]) /\ pos[m] = p + h
        BY <2>2, <2>3
      <3>2. p = pos[k - 1] /\ j \in 1 .. h /\ p + j \in 1 .. p + h
        BY <2>4, <3>1
      <3>3. fl[m][p + j] = q[k][j]
        BY <2>2, <2>4, <3>1, <3>2
      <3> QED BY <3>1, <3>2, <3>3
    <2>5. CASE k # m
      <3>1. k \in 1 .. m - 1
        BY <2>5
      <3>2. m - 1 \in T
        BY <1>7, <2>1
      <3>3. pos[k - 1] + j \in 1 .. pos[m - 1] /\ fl[m - 1][pos[k - 1] + j] = q[k][j]
        BY <2>1, <3>1, <3>2
      <3>4. \A a, b, c, d \in Nat : a = b + c /\ d \in 1 .. b => d \in 1 .. a
        OBVIOUS
      <3>5. PICK d \in Nat : d = pos[k - 1] + j
        BY <2>2, <2>3
      <3>6. d \in 1 .. pos[m]
        BY <2>2, <2>3, <3>3, <3>4, <3>5
      <3>7. fl[m][d] = fl[m - 1][d]
        BY <2>2, <3>3, <3>5
      <3> QED BY <3>3, <3>5, <3>6, <3>7
    <2> QED BY <2>4, <2>5
  <1>8. n \in T
    <2>1. Nat \subseteq T
      <3> HIDE DEF T
      <3> QED BY <1>7, Induction
    <2> QED BY <2>1
  <1>9. Places(fl[n], pos, q, n)
    <2>1. Len(fl[n]) = pos[n] /\ n <= n
      BY <1>3
    <2> QED BY <1>8, <2>1 DEF Places
  <1> QED BY <1>1, <1>2, <1>6, <1>9

\* The lines of a file of n blocks, of which t has the trimmed texts: block k is
\* behind line pos[k - 1].
Laid(file, tags, t, pos, n) ==
  /\ pos \in [0 .. n -> Nat] /\ pos[0] = 0
  /\ Len(file) = pos[n] + 1 /\ file[pos[n] + 1] = EmptyLine
  /\ \A k \in 1 .. n : /\ pos[k] = pos[k - 1] + Height(t[k]) + 3
                       /\ file[pos[k - 1] + 1] = tags[k]
                       /\ \A i \in 1 .. Height(t[k]) : file[pos[k - 1] + 1 + i] = t[k][i]
                       /\ file[pos[k] - 1] = EndLine /\ file[pos[k]] = EmptyLine

\* Positions that rise from one to the next rise throughout.
LEMMA Climbs ==
  ASSUME NEW n \in Nat, NEW pos \in [0 .. n -> Nat], \A k \in 1 .. n : pos[k - 1] <= pos[k]
  PROVE  \A k \in 0 .. n : \A m \in k .. n : pos[k] <= pos[m]
  <1> SUFFICES ASSUME NEW k \in 0 .. n
               PROVE  \A m \in k .. n : pos[k] <= pos[m]
    OBVIOUS
  <1> DEFINE T == {m \in Nat : m \in k .. n => pos[k] <= pos[m]}
  <1>1. ASSUME NEW m \in Nat, \A j \in Nat : j < m => j \in T
        PROVE  m \in T
    <2> SUFFICES ASSUME m \in k .. n PROVE pos[k] <= pos[m]
      OBVIOUS
    <2>1. pos[k] \in Nat
      OBVIOUS
    <2>2. CASE m = k
      BY <2>1, <2>2
    <2>3. CASE m # k
      <3>1. m - 1 \in Nat /\ m - 1 < m /\ m - 1 \in k .. n /\ m - 1 \in 0 .. n /\ m \in 1 .. n
        BY <2>3
      <3>2. pos[k] <= pos[m - 1]
        BY <1>1, <3>1
      <3>3. pos[m - 1] <= pos[m] /\ pos[m - 1] \in Nat /\ pos[m] \in Nat
        BY <3>1
      <3> QED BY <2>1, <3>2, <3>3
    <2> QED BY <2>2, <2>3
  <1>2. Nat \subseteq T
    <2> HIDE DEF T
    <2> QED BY <1>1, Induction
  <1> QED BY <1>2

\* A file is laid out in blocks, with an empty line behind the last.
LEMMA FormatLaid ==
  ASSUME NEW W, EmptyLine \in W, EndLine \in W, NEW n \in Nat \ {0}, NEW tags \in [1 .. n -> W],
         NEW pages \in [1 .. n -> TextsOf(W)]
  PROVE  /\ Format(tags, pages) \in TextsOf(W)
         /\ \E pos : Laid(Format(tags, pages), tags, [k \in 1 .. n |-> Trim(pages[k])], pos, n)
  <1>1. PICK q : q = [k \in 1 .. n |-> BlockLines(tags[k], pages[k])]
    OBVIOUS
  <1>2. PICK t : t = [k \in 1 .. n |-> Trim(pages[k])]
    OBVIOUS
  <1>3. ASSUME NEW k \in 1 .. n
        PROVE  q[k] \in Seq(W) /\ Height(t[k]) \in Nat /\ IsBlock(q[k], tags[k], t[k])
    <2>1. tags[k] \in W /\ pages[k] \in TextsOf(W)
      OBVIOUS
    <2>2. q[k] = BlockLines(tags[k], pages[k]) /\ t[k] = Trim(pages[k])
      BY <1>1, <1>2
    <2> QED BY <2>1, <2>2, LinesFacts
  <1>4. q \in [1 .. n -> Seq(W)]
    BY <1>1, <1>3
  <1>5. PICK z : z = FlattenSeq(q)
    OBVIOUS
  <1>6. PICK pos : z \in Seq(W) /\ Ends(pos, q, n) /\ Places(z, pos, q, n)
    BY <1>4, <1>5, FlattenPlaces
  <1>7. PICK m \in Nat : m = pos[n] /\ Len(z) = m
    BY <1>6 DEF Ends, Places
  <1>8. PICK file : file = z \o Blank
    OBVIOUS
  <1>9. /\ file \in Seq(W) /\ Len(file) = m + 1
        /\ \A i \in 1 .. m : file[i] = z[i]
        /\ file[m + 1] = EmptyLine
    <2>0. Blank \in Seq(W) /\ Len(Blank) = 1 /\ Blank[1] = EmptyLine
      BY DEF Blank
    <2>1. PICK b \in Seq(W) : b = Blank
      BY <2>0
    <2>2. PICK one \in Nat : one = Len(b)
      BY LenProperties
    <2>3. /\ file \in Seq(W) /\ Len(file) = m + one
          /\ \A i \in 1 .. m : file[i] = z[i]
          /\ \A i \in 1 .. one : file[m + i] = b[i]
      <3>1. z \in Seq(W) /\ m = Len(z) /\ file = z \o b
        BY <1>6, <1>7, <1>8, <2>1
      <3> QED BY <2>2, <3>1, PartsFacts
    <2>4. 1 \in 1 .. 1
      OBVIOUS
    <2> QED BY <2>0, <2>1, <2>2, <2>3, <2>4
  <1>10. Format(tags, pages) = file
    BY <1>1, <1>5, <1>8 DEF Format
  <1>11. ASSUME NEW k \in 1 .. n
         PROVE  /\ pos[k] = pos[k - 1] + Height(t[k]) + 3 /\ pos[k] <= m
                /\ file[pos[k - 1] + 1] = tags[k]
                /\ \A i \in 1 .. Height(t[k]) : file[pos[k - 1] + 1 + i] = t[k][i]
                /\ file[pos[k] - 1] = EndLine /\ file[pos[k]] = EmptyLine
    <2>1. PICK h \in Nat : h = Height(t[k]) /\ Len(q[k]) = h + 3 /\ IsBlock(q[k], tags[k], t[k])
      BY <1>3 DEF IsBlock
    <2>2. PICK p \in Nat : p = pos[k - 1] /\ pos[k] = p + (h + 3)
      <3>1. k - 1 \in 0 .. n
        OBVIOUS
      <3> QED BY <1>6, <2>1, <3>1 DEF Ends
    <2>3. \A j \in 1 .. h + 3 : z[p + j] = q[k][j]
      BY <1>6, <2>1, <2>2 DEF Places
    <2>4. pos[k] <= m
      <3>1. pos \in [0 .. n -> Nat]
        BY <1>6 DEF Ends
      <3>2. ASSUME NEW j \in 1 .. n
            PROVE  pos[j - 1] <= pos[j]
        <4>1. j - 1 \in 0 .. n /\ pos[j - 1] \in Nat /\ Len(q[j]) \in Nat
          BY <1>3, <3>1, LenProperties
        <4>2. pos[j] = pos[j - 1] + Len(q[j])
          BY <1>6 DEF Ends
        <4> QED BY <4>1, <4>2
      <3>3. n \in Nat /\ k \in 0 .. n /\ n \in k .. n
        OBVIOUS
      <3>4. \A i \in 0 .. n : \A m1 \in i .. n : pos[i] <= pos[m1]
        BY <3>1, <3>2, Climbs
      <3> QED BY <1>7, <3>3, <3>4
    <2>5. \A j \in 1 .. h + 3 : file[p + j] = q[k][j]
      <3>1. p + (h + 3) <= m
        BY <2>2, <2>4
      <3>2. \A j \in 1 .. h + 3 : p + j \in 1 .. m
        BY <3>1
      <3> QED BY <1>9, <2>3, <3>2
    <2>6. /\ 1 \in 1 .. h + 3 /\ h + 2 \in 1 .. h + 3 /\ h + 3 \in 1 .. h + 3
          /\ \A i \in 1 .. h : 1 + i \in 1 .. h + 3 /\ p + 1 + i = p + (1 + i)
          /\ p + (h + 3) - 1 = p + (h + 2) /\ p + h + 3 = p + (h + 3)
      OBVIOUS
    <2>7. /\ q[k][1] = tags[k] /\ q[k][h + 2] = EndLine /\ q[k][h + 3] = EmptyLine
          /\ \A i \in 1 .. h : q[k][1 + i] = t[k][i]
      BY <2>1 DEF IsBlock
    <2>8. file[p + 1] = tags[k] /\ file[p + (h + 2)] = EndLine /\ file[p + (h + 3)] = EmptyLine
      BY <2>5, <2>6, <2>7
    <2>9. \A i \in 1 .. h : file[p + 1 + i] = t[k][i]
      BY <2>5, <2>6, <2>7
    <2>10. PICK r : r = pos[k] /\ r = p + (h + 3)
      BY <2>2
    <2>11. r - 1 = p + (h + 2) /\ r = p + h + 3
      BY <2>10
    <2>12. file[pos[k] - 1] = EndLine /\ file[pos[k]] = EmptyLine
      BY <2>8, <2>10, <2>11
    <2>13. pos[k] = pos[k - 1] + Height(t[k]) + 3
      BY <2>1, <2>2, <2>10, <2>11
    <2> QED BY <2>1, <2>2, <2>4, <2>8, <2>9, <2>12, <2>13
  <1>12. pos \in [0 .. n -> Nat] /\ pos[0] = 0
    BY <1>6 DEF Ends
  <1>13. Laid(file, tags, t, pos, n)
    BY <1>7, <1>9, <1>11, <1>12 DEF Laid
  <1>14. file \in TextsOf(W)
    <2>1. m + 1 # 0 /\ Len(<<>>) = 0
      OBVIOUS
    <2> QED BY <1>9, <2>1 DEF TextsOf
  <1> QED BY <1>2, <1>10, <1>13, <1>14

\* What separates: S is as string::split goes through the file.
Separating(S, file) ==
  /\ S \subseteq 2 .. Len(file) - 2
  /\ \A i \in 2 .. Len(file) - 2 :
       i \in S <=> file[i] = EndLine /\ file[i + 1] = EmptyLine /\ i - 2 \notin S

\* The lines that end a block: each {end} before an empty line, but not at once
\* behind another.
LEMMA SeparatorFacts ==
  ASSUME NEW W, NEW file \in Seq(W)
  PROVE  Separating(Separators(file), file)
  <1> DEFINE Here(f, i) == /\ file[i] = EndLine
                           /\ i \in 2 .. Len(file) - 2
                           /\ file[i + 1] = EmptyLine
                           /\ i > 2 => ~f[i - 2]
             Body(f) == [i \in DOMAIN file |-> Here(f, i)]
  <1>1. PICK len \in Nat : len = Len(file) /\ DOMAIN file = 1 .. len
    BY LenProperties
  <1>2. PICK C : C = {i \in 2 .. len - 2 : file[i] = EndLine /\ file[i + 1] = EmptyLine}
    OBVIOUS
  <1>3. PICK G : G = [k \in Nat |-> [h \in [0 .. k - 1 -> {0, 1}] |->
                       IF k \in C /\ (k > 2 => h[k - 2] = 0) THEN 1 ELSE 0]]
    OBVIOUS
  <1>4. Builds(G, {0, 1})
    BY <1>3 DEF Builds
  <1>5. PICK g \in [Nat -> {0, 1}] : \A k \in Nat : g[k] = G[k][Prior(g, k)]
    BY <1>4, Recursive
  <1>6. ASSUME NEW i \in 1 .. len
        PROVE  g[i] = 1 <=> i \in C /\ (i > 2 => ~(g[i - 2] = 1))
    <2>1. PICK h \in [0 .. i - 1 -> {0, 1}] : h = Prior(g, i) /\ \A j \in 0 .. i - 1 : h[j] = g[j]
      <3>1. Prior(g, i) \in [0 .. i - 1 -> {0, 1}]
        BY <1>5 DEF Prior
      <3>2. \A j \in 0 .. i - 1 : Prior(g, i)[j] = g[j]
        BY DEF Prior
      <3> QED BY <3>1, <3>2
    <2>2. g[i] = IF i \in C /\ (i > 2 => h[i - 2] = 0) THEN 1 ELSE 0
      <3>1. i \in Nat
        OBVIOUS
      <3>2. G[i] = [x \in [0 .. i - 1 -> {0, 1}] |-> IF i \in C /\ (i > 2 => x[i - 2] = 0) THEN 1 ELSE 0]
        BY <1>3, <3>1
      <3>3. G[i][h] = IF i \in C /\ (i > 2 => h[i - 2] = 0) THEN 1 ELSE 0
        BY <2>1, <3>2
      <3> QED BY <1>5, <2>1, <3>1, <3>3
    <2>3. i > 2 => i - 2 \in 0 .. i - 1 /\ i - 2 \in Nat
      OBVIOUS
    <2>4. i > 2 => (h[i - 2] = 0 <=> ~(g[i - 2] = 1))
      BY <1>5, <2>1, <2>3
    <2> QED BY <2>2, <2>4
  <1>7. PICK f : f = [i \in 1 .. len |-> g[i] = 1]
    OBVIOUS
  <1>8. f = Body(f)
    <2> DEFINE One(i) == g[i] = 1
    <2>1. ASSUME NEW i \in 1 .. len
          PROVE  One(i) <=> Here(f, i)
      <3>1. i > 2 => (f[i - 2] <=> g[i - 2] = 1)
        <4>1. i > 2 => i - 2 \in 1 .. len
          OBVIOUS
        <4> QED BY <1>7, <4>1
      <3>2. i \in C <=> file[i] = EndLine /\ i \in 2 .. len - 2 /\ file[i + 1] = EmptyLine
        BY <1>2
      <3> QED BY <1>1, <1>6, <3>1, <3>2
    <2>2. f = [i \in 1 .. len |-> One(i)]
      BY <1>7
    <2>3. Body(f) = [i \in 1 .. len |-> Here(f, i)]
      BY <1>1
    <2>4. \A i \in 1 .. len : One(i) = Here(f, i)
      <3>1. \A i \in 1 .. len : One(i) \in BOOLEAN /\ Here(f, i) \in BOOLEAN
        OBVIOUS
      <3> HIDE DEF One, Here
      <3> QED BY <2>1, <3>1
    <2> HIDE DEF One, Here, Body
    <2> QED BY <2>2, <2>3, <2>4
  <1>9. PICK from : from = CHOOSE h : h = Body(h)
    OBVIOUS
  <1>10. from = Body(from)
    <2> HIDE DEF Body
    <2> QED BY <1>8, <1>9
  <1>11. Separators(file) = {i \in DOMAIN file : from[i]}
    BY <1>9, Zenon DEF Separators
  <1>12. \A i \in 1 .. len : from[i] <=> /\ file[i] = EndLine
                                         /\ i \in 2 .. len - 2
                                         /\ file[i + 1] = EmptyLine
                                         /\ i > 2 => ~from[i - 2]
    <2>1. from = [i \in 1 .. len |-> Here(from, i)]
      BY <1>1, <1>10
    <2>2. \A i \in 1 .. len : from[i] = Here(from, i)
      <3> HIDE DEF Here
      <3> QED BY <2>1
    <2>3. \A i \in 1 .. len : from[i] <=> Here(from, i)
      BY <2>2
    <2> QED BY <1>1, <2>3
  <1>13. PICK S : S = Separators(file) /\ S = {i \in 1 .. len : from[i]}
    BY <1>1, <1>11
  <1>14. S \subseteq 2 .. len - 2
    BY <1>12, <1>13
  <1>15. ASSUME NEW i \in 2 .. len - 2
         PROVE  i \in S <=> file[i] = EndLine /\ file[i + 1] = EmptyLine /\ i - 2 \notin S
    <2>1. i \in 1 .. len /\ (i > 2 => i - 2 \in 1 .. len) /\ (~(i > 2) => i - 2 \notin 1 .. len)
      OBVIOUS
    <2>2. i - 2 \in S <=> i > 2 /\ from[i - 2]
      BY <1>13, <2>1
    <2>3. i \in S <=> from[i]
      BY <1>13, <2>1
    <2> QED BY <1>12, <2>1, <2>2, <2>3
  <1> QED BY <1>1, <1>13, <1>14, <1>15 DEF Separating

-----------------------------------------------------------------------------
(* ScriptFile: where blocks end. *)

\* A trimmed text a file can hold.
Clean(t) ==
  /\ t = Blank \/ t[Len(t)] # EmptyLine
  /\ \A i \in 1 .. Len(t) - 1 : ~(t[i] = EndLine /\ t[i + 1] = EmptyLine)

\* Tags of n blocks.
Tagged(tags, n, W) ==
  /\ tags \in [1 .. n -> W \ {EmptyLine, EndLine}]
  /\ \A j, k \in 1 .. n : tags[j] = tags[k] => j = k

\* The lines of a text that a file can hold.
LEMMA HeightFacts ==
  ASSUME NEW W, NEW t \in TextsOf(W), Clean(t)
  PROVE  /\ Height(t) \in Nat /\ (Height(t) = 0 <=> t = Blank)
         /\ Height(t) # 0 => Len(t) = Height(t) /\ t[Height(t)] # EmptyLine
         /\ \A i \in 1 .. Height(t) - 1 : ~(t[i] = EndLine /\ t[i + 1] = EmptyLine)
  <1>1. t \in Seq(W) /\ t # <<>> /\ Len(t) \in Nat /\ Len(t) # 0
    BY LenProperties, EmptySeq DEF TextsOf
  <1>2. CASE t = Blank
    <2>1. Height(t) = 0
      BY <1>2 DEF Height
    <2> QED BY <1>2, <2>1
  <1>3. CASE t # Blank
    <2>1. Height(t) = Len(t)
      BY <1>3 DEF Height
    <2> QED BY <1>1, <1>3, <2>1 DEF Clean
  <1> QED BY <1>2, <1>3

\* Which lines of a block may separate: the last but one only.
LEMMA BlockEnds ==
  ASSUME NEW W, EmptyLine \in W, EndLine \in W, NEW n \in Nat \ {0}, NEW tags, Tagged(tags, n, W),
         NEW t \in [1 .. n -> TextsOf(W)], \A j \in 1 .. n : Clean(t[j]),
         NEW file, NEW pos, Laid(file, tags, t, pos, n), NEW k \in 1 .. n
  PROVE  /\ \A x \in pos[k - 1] + 1 .. pos[k] :
              file[x] = EndLine /\ file[x + 1] = EmptyLine => x = pos[k] - 1
         /\ file[pos[k] - 2] # EmptyLine
  <1>1. EmptyLine # EndLine
    BY DEF EmptyLine, EndLine
  <1>2. PICK y \in TextsOf(W) : y = t[k] /\ Clean(y)
    OBVIOUS
  <1>3. PICK h \in Nat : /\ h = Height(y)
                         /\ h # 0 => Len(y) = h /\ y[h] # EmptyLine
                         /\ \A i \in 1 .. h - 1 : ~(y[i] = EndLine /\ y[i + 1] = EmptyLine)
    BY <1>2, HeightFacts
  <1>4. PICK p \in Nat : p = pos[k - 1] /\ pos[k] = p + h + 3
    <2>1. k - 1 \in 0 .. n
      OBVIOUS
    <2> QED BY <1>2, <1>3, <2>1 DEF Laid
  <1>5. /\ file[p + 1] = tags[k] /\ tags[k] # EndLine /\ tags[k] # EmptyLine
        /\ \A i \in 1 .. h : file[p + 1 + i] = y[i]
        /\ file[p + h + 3 - 1] = EndLine /\ file[p + h + 3] = EmptyLine
    <2>1. tags[k] \in W \ {EmptyLine, EndLine}
      BY DEF Tagged
    <2>2. /\ file[pos[k - 1] + 1] = tags[k]
          /\ \A i \in 1 .. Height(t[k]) : file[pos[k - 1] + 1 + i] = t[k][i]
          /\ file[pos[k] - 1] = EndLine /\ file[pos[k]] = EmptyLine
      BY DEF Laid
    <2>3. Height(t[k]) = h
      BY <1>2, <1>3
    <2>4. PICK r : r = pos[k] /\ r = p + h + 3
      BY <1>4
    <2>5. file[r - 1] = EndLine /\ file[r] = EmptyLine
      BY <2>2, <2>4
    <2>6. file[p + h + 3 - 1] = EndLine /\ file[p + h + 3] = EmptyLine
      BY <2>4, <2>5
    <2>7. file[p + 1] = tags[k] /\ \A i \in 1 .. h : file[p + 1 + i] = y[i]
      BY <1>2, <1>4, <2>2, <2>3
    <2> QED BY <2>1, <2>6, <2>7
  <1>6. file[p + h + 2] = EndLine /\ file[p + h + 3] = EmptyLine
    <2>1. p + h + 3 - 1 = p + h + 2
      OBVIOUS
    <2> QED BY <1>5, <2>1
  <1>7. ASSUME NEW x \in p + 1 .. p + h + 3, file[x] = EndLine, file[x + 1] = EmptyLine
        PROVE  x = p + h + 2
    <2>1. x # p + 1
      BY <1>5, <1>7
    <2>2. x # p + h + 3
      BY <1>1, <1>6, <1>7
    <2>3. ASSUME x \in p + 2 .. p + h + 1 PROVE FALSE
      <3>1. PICK i \in 1 .. h : x = p + 1 + i
        <4>1. x - p - 1 \in 1 .. h /\ x = p + 1 + (x - p - 1)
          BY <2>3
        <4> QED BY <4>1
      <3>2. y[i] = EndLine
        BY <1>5, <1>7, <3>1
      <3>3. CASE i = h
        <4>1. x + 1 = p + h + 2
          BY <3>1, <3>3
        <4> QED BY <1>1, <1>6, <1>7, <4>1
      <3>4. CASE i # h
        <4>1. i + 1 \in 1 .. h /\ i \in 1 .. h - 1 /\ x + 1 = p + 1 + (i + 1)
          BY <3>1, <3>4
        <4>2. y[i + 1] = EmptyLine
          BY <1>5, <1>7, <4>1
        <4> QED BY <1>3, <3>2, <4>1, <4>2
      <3> QED BY <3>3, <3>4
    <2>4. x \in p + 2 .. p + h + 1 \/ x = p + 1 \/ x = p + h + 2 \/ x = p + h + 3
      OBVIOUS
    <2> QED BY <2>1, <2>2, <2>3, <2>4
  <1>8. file[p + h + 1] # EmptyLine
    <2>1. CASE h = 0
      <3>1. p + h + 1 = p + 1
        BY <2>1
      <3> QED BY <1>5, <3>1
    <2>2. CASE h # 0
      <3>1. h \in 1 .. h /\ p + h + 1 = p + 1 + h
        BY <2>2
      <3> QED BY <1>3, <1>5, <2>2, <3>1
    <2> QED BY <2>1, <2>2
  <1>9. p + h + 3 - 1 = p + h + 2 /\ p + h + 3 - 2 = p + h + 1
    OBVIOUS
  <1>10. ASSUME NEW x \in pos[k - 1] + 1 .. pos[k], file[x] = EndLine, file[x + 1] = EmptyLine
         PROVE  x = pos[k] - 1
    <2>1. x \in p + 1 .. p + h + 3
      BY <1>4
    <2>2. x = p + h + 2
      BY <1>7, <1>10, <2>1
    <2> QED BY <1>4, <1>9, <2>2
  <1>11. file[pos[k] - 2] # EmptyLine
    BY <1>4, <1>8, <1>9
  <1> QED BY <1>10, <1>11

\* Only the ends of blocks separate.
LEMMA LaidSeparators ==
  ASSUME NEW W, EmptyLine \in W, EndLine \in W, NEW n \in Nat \ {0}, NEW tags, Tagged(tags, n, W),
         NEW t \in [1 .. n -> TextsOf(W)], \A j \in 1 .. n : Clean(t[j]),
         NEW file, NEW pos, Laid(file, tags, t, pos, n), NEW S, Separating(S, file)
  PROVE  \A x : x \in S <=> \E k \in 1 .. n : x = pos[k] - 1
  <1>1. /\ pos \in [0 .. n -> Nat] /\ pos[0] = 0 /\ Len(file) = pos[n] + 1
        /\ \A k \in 1 .. n : pos[k] = pos[k - 1] + Height(t[k]) + 3
        /\ \A k \in 1 .. n : file[pos[k] - 1] = EndLine /\ file[pos[k]] = EmptyLine
    BY DEF Laid
  <1>2. ASSUME NEW k \in 1 .. n
        PROVE  pos[k] >= pos[k - 1] + 3 /\ pos[k] \in Nat /\ pos[k - 1] \in Nat
    <2>1. Height(t[k]) \in Nat /\ k \in 0 .. n /\ k - 1 \in 0 .. n
      BY HeightFacts
    <2>2. pos[k] \in Nat /\ pos[k - 1] \in Nat
      BY <1>1, <2>1
    <2> QED BY <1>1, <2>1, <2>2
  <1>3. \A k \in 1 .. n : pos[k - 1] <= pos[k]
    BY <1>2
  <1>4. n \in Nat /\ \A k \in 0 .. n : \A m \in k .. n : pos[k] <= pos[m]
    BY <1>1, <1>3, Climbs
  <1>5. PICK last \in Nat : last = pos[n] /\ Len(file) - 2 = last - 1 /\ \A k \in 1 .. n : pos[k] <= last
    <2>1. pos[n] \in Nat
      BY <1>1
    <2>2. \A k \in 1 .. n : k \in 0 .. n /\ n \in k .. n
      OBVIOUS
    <2> QED BY <1>1, <1>4, <2>1, <2>2
  <1>6. /\ S \subseteq 2 .. last - 1
        /\ \A i \in 2 .. last - 1 :
             i \in S <=> file[i] = EndLine /\ file[i + 1] = EmptyLine /\ i - 2 \notin S
    BY <1>5 DEF Separating
  <1>7. ASSUME NEW x \in S
        PROVE  \E k \in 1 .. n : x = pos[k] - 1
    <2>1. x \in 2 .. last - 1 /\ x \in Nat /\ file[x] = EndLine /\ file[x + 1] = EmptyLine
      BY <1>6
    <2>2. PICK k \in {j \in 1 .. n : x <= pos[j]} : \A j \in {j \in 1 .. n : x <= pos[j]} : k <= j
      <3> DEFINE T == {j \in 1 .. n : x <= pos[j]}
      <3>1. n \in T
        BY <1>5, <2>1
      <3>2. T \subseteq Nat /\ T # {}
        BY <3>1
      <3> HIDE DEF T
      <3>3. \E k \in T : \A j \in T : k <= j
        BY <3>2, Smallest
      <3> QED BY <3>3 DEF T
    <2>3. k \in 1 .. n /\ x <= pos[k]
      OBVIOUS
    <2>4. pos[k - 1] < x
      <3>1. CASE k = 1
        <4>1. k - 1 = 0
          BY <3>1
        <4> QED BY <1>1, <2>1, <4>1
      <3>2. CASE k # 1
        <4>1. k - 1 \in 1 .. n /\ ~(k <= k - 1)
          BY <2>3, <3>2
        <4>2. ~(x <= pos[k - 1])
          BY <2>2, <4>1
        <4> QED BY <1>2, <2>1, <2>3, <4>2
      <3> QED BY <3>1, <3>2
    <2>5. x \in pos[k - 1] + 1 .. pos[k]
      BY <1>2, <2>1, <2>3, <2>4
    <2>6. x = pos[k] - 1
      BY <2>1, <2>3, <2>5, BlockEnds
    <2> QED BY <2>3, <2>6
  <1>8. ASSUME NEW k \in 1 .. n
        PROVE  pos[k] - 1 \in S
    <2>1. PICK x \in Nat : x = pos[k] - 1 /\ x + 1 = pos[k] /\ x - 1 = pos[k] - 2 /\ x \in 2 .. last - 1
      <3>1. pos[k] \in Nat /\ pos[k] >= 3 /\ pos[k] <= last
        <4>1. PICK a \in Nat, b \in Nat : a = pos[k - 1] /\ b = pos[k]
          BY <1>2
        <4>2. b >= a + 3 /\ b <= last
          BY <1>2, <1>5, <4>1
        <4>3. b >= 3
          BY <4>2
        <4> QED BY <4>1, <4>2, <4>3
      <3>2. pos[k] - 1 \in Nat /\ (pos[k] - 1) + 1 = pos[k] /\ (pos[k] - 1) - 1 = pos[k] - 2
            /\ pos[k] - 1 \in 2 .. last - 1
        BY <3>1
      <3> QED BY <3>2
    <2>2. file[x] = EndLine /\ file[x + 1] = EmptyLine
      BY <1>1, <2>1
    <2>3. file[x - 1] # EmptyLine
      BY <2>1, BlockEnds
    <2>4. x - 2 \notin S
      <3> SUFFICES ASSUME x - 2 \in S PROVE FALSE
        OBVIOUS
      <3>1. x - 2 \in 2 .. last - 1 /\ (x - 2) + 1 = x - 1
        BY <1>6
      <3>2. file[(x - 2) + 1] = EmptyLine
        BY <1>6, <3>1
      <3> QED BY <2>3, <3>1, <3>2
    <2> QED BY <1>6, <2>1, <2>2, <2>4
  <1> QED BY <1>7, <1>8

\* The text behind a tag ends before the next separator.
LEMMA NextEnds ==
  ASSUME NEW W, EmptyLine \in W, EndLine \in W, NEW n \in Nat \ {0}, NEW tags, Tagged(tags, n, W),
         NEW t \in [1 .. n -> TextsOf(W)], \A j \in 1 .. n : Clean(t[j]),
         NEW file \in Seq(W), NEW pos, Laid(file, tags, t, pos, n), NEW S, Separating(S, file),
         NEW k \in 1 .. n
  PROVE  TextAt(file, S, pos[k - 1] + 1) = t[k]
  <1>1. /\ pos \in [0 .. n -> Nat] /\ pos[0] = 0 /\ Len(file) = pos[n] + 1
        /\ \A j \in 1 .. n : pos[j] = pos[j - 1] + Height(t[j]) + 3
        /\ \A i \in 1 .. Height(t[k]) : file[pos[k - 1] + 1 + i] = t[k][i]
    BY DEF Laid
  <1>2. PICK y \in TextsOf(W) : y = t[k] /\ Clean(y)
    OBVIOUS
  <1>3. PICK h \in Nat : /\ h = Height(y)
                         /\ h = 0 <=> y = Blank
                         /\ h # 0 => Len(y) = h
    BY <1>2, HeightFacts
  <1>4. PICK p \in Nat : p = pos[k - 1] /\ pos[k] = p + h + 3
    <2>1. k - 1 \in 0 .. n
      OBVIOUS
    <2> QED BY <1>1, <1>2, <1>3, <2>1
  <1>5. \A j \in 1 .. n : pos[j - 1] <= pos[j] /\ pos[j - 1] \in Nat /\ pos[j] \in Nat
    <2> SUFFICES ASSUME NEW j \in 1 .. n
                 PROVE  pos[j - 1] <= pos[j] /\ pos[j - 1] \in Nat /\ pos[j] \in Nat
      OBVIOUS
    <2>1. Height(t[j]) \in Nat
      BY HeightFacts
    <2>2. j - 1 \in 0 .. n /\ j \in 0 .. n
      OBVIOUS
    <2> QED BY <1>1, <2>1, <2>2
  <1>6. n \in Nat /\ \A j \in 0 .. n : \A m \in j .. n : pos[j] <= pos[m]
    BY <1>1, <1>5, Climbs
  <1>7. PICK last \in Nat : last = pos[n] /\ Len(file) = last + 1 /\ p + h + 3 <= last
    <2>1. k \in 0 .. n /\ n \in k .. n
      OBVIOUS
    <2>2. p + h + 3 <= pos[n] /\ pos[n] \in Nat
      <3>1. pos[k] <= pos[n]
        BY <1>6, <2>1
      <3> QED BY <1>1, <1>4, <3>1
    <2> QED BY <1>1, <2>2
  <1>8. \A x : x \in S <=> \E j \in 1 .. n : x = pos[j] - 1
    BY LaidSeparators
  <1>9. PICK ends : ends = {i - 1 : i \in {i \in S : i > p + 1}} \cup {Len(file)}
    OBVIOUS
  <1>10. p + h + 1 \in ends
    <2>1. p + h + 2 \in S /\ p + h + 2 > p + 1 /\ (p + h + 2) - 1 = p + h + 1
      <3>1. PICK x : x = pos[k] - 1
        OBVIOUS
      <3>2. x \in S
        BY <1>8, <3>1
      <3>3. x = p + h + 2
        BY <1>4, <3>1
      <3> QED BY <3>2, <3>3
    <2>2. p + h + 2 \in {i \in S : i > p + 1}
      BY <2>1
    <2> QED BY <1>9, <2>1, <2>2
  <1>11. ASSUME NEW e \in ends
         PROVE  e \in Nat /\ p + h + 1 <= e
    <2>1. CASE e = Len(file)
      BY <1>7, <2>1
    <2>2. CASE \E i \in S : i > p + 1 /\ e = i - 1
      <3>1. PICK i \in S : i > p + 1 /\ e = i - 1
        BY <2>2
      <3>2. PICK j \in 1 .. n : i = pos[j] - 1
        BY <1>8
      <3>3. PICK u \in Nat : u = pos[j] /\ i = u - 1
        BY <1>5, <3>2
      <3>4. CASE j < k
        <4>1. j \in 0 .. n /\ k - 1 \in j .. n
          BY <3>4
        <4>2. u <= p
          BY <1>4, <1>6, <3>3, <4>1
        <4> QED BY <3>1, <3>3, <4>2
      <3>5. CASE ~(j < k)
        <4>1. k \in 0 .. n /\ j \in k .. n
          BY <3>5
        <4>2. p + h + 3 <= u
          BY <1>4, <1>6, <3>3, <4>1
        <4> QED BY <3>1, <3>3, <4>2
      <3> QED BY <3>4, <3>5
    <2> QED BY <1>9, <2>1, <2>2
  <1>12. Min(ends) = p + h + 1
    <2>1. ends \subseteq Nat /\ ends # {}
      BY <1>10, <1>11
    <2>2. PICK m \in ends : m = Min(ends) /\ \A e \in ends : m <= e
      BY <2>1, FirstOf
    <2>3. m \in Nat /\ m <= p + h + 1 /\ p + h + 1 <= m
      BY <1>10, <1>11, <2>2
    <2> QED BY <2>2, <2>3
  <1>13. TextAt(file, S, p + 1) = IF p + h + 1 = p + 1 THEN Blank ELSE SubSeq(file, p + 2, p + h + 1)
    <2>1. (p + 1) + 1 = p + 2
      OBVIOUS
    <2> QED BY <1>9, <1>12, <2>1 DEF TextAt
  <1>14. CASE h = 0
    <2>1. p + h + 1 = p + 1
      BY <1>14
    <2> QED BY <1>2, <1>3, <1>4, <1>13, <1>14, <2>1
  <1>15. CASE h # 0
    <2>1. p + h + 1 # p + 1 /\ p + 2 \in 1 .. last + 1 /\ p + h + 1 \in 1 .. last + 1 /\ p + 2 <= p + h + 1 + 1
          /\ p + h + 1 - (p + 2) + 1 = h
      BY <1>7, <1>15
    <2>2. PICK r : r = SubSeq(file, p + 2, p + h + 1)
      OBVIOUS
    <2>3. r \in Seq(W) /\ Len(r) = h /\ \A i \in 1 .. h : r[i] = file[p + 2 + i - 1]
      BY <1>7, <2>1, <2>2, SubSeqProperties
    <2>4. \A i \in 1 .. h : p + 2 + i - 1 = p + 1 + i
      OBVIOUS
    <2>5. \A i \in 1 .. h : r[i] = y[i]
      BY <1>1, <1>2, <1>3, <1>4, <2>3, <2>4
    <2>6. y \in Seq(W) /\ Len(y) = h
      BY <1>3, <1>15 DEF TextsOf
    <2>7. r = y
      BY <2>3, <2>5, <2>6, SeqEqual
    <2> QED BY <1>2, <1>4, <1>13, <2>1, <2>2, <2>7
  <1> QED BY <1>14, <1>15

\* Where the pieces of a file start.
Starts(S) == {1} \cup {i + 2 : i \in S}

\* The pieces that start with a tag, of which load() keeps the last.
Pieces(file, S, tag) == {p \in Starts(S) : file[p] = tag}

\* The text of a tag.
Found(file, S, tag) ==
  IF Pieces(file, S, tag) = {} THEN Blank ELSE TextAt(file, S, Max(Pieces(file, S, tag)))

\* What load() finds for each tag.
LEMMA LoadIs ==
  ASSUME NEW file, NEW tags
  PROVE  Load(file, tags) = [i \in DOMAIN tags |-> Found(file, Separators(file), tags[i])]
  BY Zenon DEF Load, Found, Pieces, Starts

\* A file of blocks gives back the texts of the blocks.
LEMMA LaidReturns ==
  ASSUME NEW W, EmptyLine \in W, EndLine \in W, NEW n \in Nat \ {0}, NEW tags, Tagged(tags, n, W),
         NEW t \in [1 .. n -> TextsOf(W)], \A j \in 1 .. n : Clean(t[j]),
         NEW file \in Seq(W), NEW pos, Laid(file, tags, t, pos, n)
  PROVE  Load(file, tags) = t
  <1>1. PICK S : S = Separators(file) /\ Separating(S, file)
    BY SeparatorFacts
  <1>2. /\ pos \in [0 .. n -> Nat] /\ pos[0] = 0
        /\ Len(file) = pos[n] + 1 /\ file[pos[n] + 1] = EmptyLine
        /\ \A j \in 1 .. n : file[pos[j - 1] + 1] = tags[j]
    BY DEF Laid
  <1>3. tags \in [1 .. n -> W \ {EmptyLine, EndLine}] /\ \A j, k \in 1 .. n : tags[j] = tags[k] => j = k
    BY DEF Tagged
  <1>4. PICK starts : starts = {1} \cup {i + 2 : i \in S}
    OBVIOUS
  <1>5. \A x : x \in S <=> \E j \in 1 .. n : x = pos[j] - 1
    BY <1>1, LaidSeparators
  <1>6. \A j \in 0 .. n : pos[j] + 1 \in starts
    <2> SUFFICES ASSUME NEW j \in 0 .. n
                 PROVE  pos[j] + 1 \in starts
      OBVIOUS
    <2>1. CASE j = 0
      BY <1>2, <1>4, <2>1
    <2>2. CASE j # 0
      <3>1. j \in 1 .. n
        BY <2>2
      <3>2. PICK x : x = pos[j] - 1
        OBVIOUS
      <3>3. x \in S /\ x + 2 = pos[j] + 1
        BY <1>2, <1>5, <3>1, <3>2
      <3> QED BY <1>4, <3>3
    <2> QED BY <2>1, <2>2
  <1>7. ASSUME NEW p \in starts
        PROVE  \E j \in 0 .. n : p = pos[j] + 1
    <2>1. CASE p = 1
      <3>1. 0 \in 0 .. n /\ p = pos[0] + 1
        BY <1>2, <2>1
      <3> QED BY <3>1
    <2>2. CASE \E i \in S : p = i + 2
      <3>1. PICK i \in S : p = i + 2
        BY <2>2
      <3>2. PICK j \in 1 .. n : i = pos[j] - 1
        BY <1>5
      <3>3. j \in 0 .. n /\ p = pos[j] + 1
        BY <1>2, <3>1, <3>2
      <3> QED BY <3>3
    <2> QED BY <1>4, <2>1, <2>2
  <1>8. ASSUME NEW k \in 1 .. n
        PROVE  Load(file, tags)[k] = t[k]
    <2>1. PICK mine : mine = {p \in starts : file[p] = tags[k]}
      OBVIOUS
    <2>2. PICK one \in Nat : one = pos[k - 1] + 1
      <3>1. k - 1 \in 0 .. n
        OBVIOUS
      <3> QED BY <1>2, <3>1
    <2>3. one \in mine
      <3>1. k - 1 \in 0 .. n
        OBVIOUS
      <3> QED BY <1>2, <1>6, <2>1, <2>2, <3>1
    <2>4. ASSUME NEW p \in mine
          PROVE  p = one
      <3>1. PICK j \in 0 .. n : p = pos[j] + 1
        BY <1>7, <2>1
      <3>2. CASE j = n
        <4>1. file[p] = EmptyLine
          BY <1>2, <3>1, <3>2
        <4>2. tags[k] # EmptyLine
          BY <1>3
        <4> QED BY <2>1, <4>1, <4>2
      <3>3. CASE j # n
        <4>1. PICK i \in 1 .. n : i = j + 1 /\ i - 1 = j
          BY <3>3
        <4>2. file[p] = tags[i]
          BY <1>2, <3>1, <4>1
        <4>3. i = k
          BY <1>3, <2>1, <4>2
        <4> QED BY <2>2, <3>1, <4>1, <4>3
      <3> QED BY <3>2, <3>3
    <2>5. mine = {one} /\ mine # {} /\ mine \subseteq 1 .. one
      <3>1. 1 <= one
        <4>1. k - 1 \in 0 .. n
          OBVIOUS
        <4> QED BY <1>2, <2>2, <4>1
      <3>2. one \in 1 .. one
        BY <3>1
      <3>3. mine = {one}
        BY <2>3, <2>4
      <3> QED BY <3>2, <3>3
    <2>6. Max(mine) = one
      <3>1. Max(mine) \in mine
        BY <2>5, LastFacts
      <3> QED BY <2>4, <3>1
    <2>7. TextAt(file, S, one) = t[k]
      BY <1>1, <2>2, NextEnds
    <2>8. k \in DOMAIN tags
      BY <1>3
    <2>9. Load(file, tags)[k] = Found(file, S, tags[k])
      BY <1>1, <2>8, LoadIs
    <2>10. Found(file, S, tags[k]) = IF mine = {} THEN Blank ELSE TextAt(file, S, Max(mine))
      <3>1. mine = Pieces(file, S, tags[k])
        BY <1>4, <2>1 DEF Pieces, Starts
      <3> QED BY <3>1 DEF Found
    <2> QED BY <2>5, <2>6, <2>7, <2>9, <2>10
  <1>9. Load(file, tags) = [i \in 1 .. n |-> Load(file, tags)[i]]
    <2>1. DOMAIN tags = 1 .. n
      BY <1>3
    <2> QED BY <2>1, LoadIs
  <1>10. PICK l : l = Load(file, tags)
    OBVIOUS
  <1> QED BY <1>8, <1>9, <1>10

\* What a text that the file can hold is trimmed to.
LEMMA TrimClean ==
  ASSUME NEW W, EmptyLine \in W, NEW r \in TextsOf(W), ~Splits(r)
  PROVE  Clean(Trim(r))
  <1>1. PICK t \in TextsOf(W), n \in Nat : t = Trim(r) /\ Trims(t, r, n)
    BY TrimFacts
  <1>2. \A i \in 1 .. Len(t) - 1 : ~(t[i] = EndLine /\ t[i + 1] = EmptyLine)
    BY <1>1 DEF Splits
  <1>3. t = Blank \/ t[Len(t)] # EmptyLine
    <2>1. CASE n = 0
      BY <1>1, <2>1 DEF Trims
    <2>2. CASE n # 0
      <3>1. Len(t) = n /\ r[n] # EmptyLine /\ \A i \in 1 .. n : t[i] = r[i]
        BY <1>1, <2>2 DEF Trims
      <3>2. n \in 1 .. n
        BY <2>2
      <3> QED BY <3>1, <3>2
    <2> QED BY <2>1, <2>2
  <1> QED BY <1>1, <1>2, <1>3 DEF Clean

\* Texts that a file can hold are read from it as they were written.
LEMMA ScriptsReturn ==
  ASSUME NEW W, EmptyLine \in W, EndLine \in W, NEW n \in Nat \ {0}, NEW tags, Tagged(tags, n, W),
         NEW pages \in [1 .. n -> TextsOf(W)], \A k \in 1 .. n : ~Splits(pages[k])
  PROVE  Load(Format(tags, pages), tags) = [k \in 1 .. n |-> Trim(pages[k])]
  <1>1. PICK t : t = [k \in 1 .. n |-> Trim(pages[k])]
    OBVIOUS
  <1>2. t \in [1 .. n -> TextsOf(W)] /\ \A k \in 1 .. n : Clean(t[k])
    <2>1. \A k \in 1 .. n : Trim(pages[k]) \in TextsOf(W) /\ Clean(Trim(pages[k]))
      <3> SUFFICES ASSUME NEW k \in 1 .. n
                   PROVE  Trim(pages[k]) \in TextsOf(W) /\ Clean(Trim(pages[k]))
        OBVIOUS
      <3>1. PICK r \in TextsOf(W) : r = pages[k] /\ ~Splits(r)
        OBVIOUS
      <3> QED BY <3>1, TrimFacts, TrimClean
    <2> QED BY <1>1, <2>1
  <1>3. tags \in [1 .. n -> W]
    BY DEF Tagged
  <1>4. PICK file : file = Format(tags, pages)
    OBVIOUS
  <1>5. PICK pos : file \in TextsOf(W) /\ Laid(file, tags, t, pos, n)
    BY <1>1, <1>3, <1>4, FormatLaid
  <1>6. file \in Seq(W)
    BY <1>5 DEF TextsOf
  <1> QED BY <1>1, <1>2, <1>4, <1>5, <1>6, LaidReturns

\* The text behind a tag is one that a file can hold.
LEMMA BehindFacts ==
  ASSUME NEW W, EmptyLine \in W, EndLine \in W, NEW file \in TextsOf(W), NEW S, Separating(S, file),
         NEW p \in Starts(S), file[p] # EmptyLine, file[p] # EndLine
  PROVE  TextAt(file, S, p) \in TextsOf(W) /\ ~Splits(TextAt(file, S, p))
  <1>1. file \in Seq(W)
    BY DEF TextsOf
  <1>2. PICK len \in Nat : len = Len(file) /\ len >= 1
    <2>1. Len(file) \in Nat /\ Len(file) # 0
      BY LenProperties, EmptySeq DEF TextsOf
    <2> QED BY <2>1
  <1>3. /\ \A i \in S : i \in 2 .. len - 2 /\ file[i] = EndLine /\ file[i + 1] = EmptyLine
        /\ \A i \in 2 .. len - 2 : file[i] = EndLine /\ file[i + 1] = EmptyLine => i \in S \/ i - 2 \in S
    BY <1>2 DEF Separating
  <1>4. p \in 1 .. len
    <2>1. p = 1 \/ \E i \in S : p = i + 2
      BY DEF Starts
    <2>2. CASE p = 1
      BY <1>2, <2>2
    <2>3. CASE \E i \in S : p = i + 2
      <3>1. PICK i \in S : p = i + 2
        BY <2>3
      <3>2. i \in 2 .. len - 2
        BY <1>3
      <3> QED BY <3>1, <3>2
    <2> QED BY <2>1, <2>2, <2>3
  <1>5. PICK ends : ends = {i - 1 : i \in {i \in S : i > p}} \cup {Len(file)}
    OBVIOUS
  <1>6. \A i \in S : i > p => i - 1 \in ends
    BY <1>5
  <1>7. \A e \in ends : e \in p .. len
    <2> SUFFICES ASSUME NEW e \in ends
                 PROVE  e \in p .. len
      OBVIOUS
    <2>1. CASE e = len
      BY <1>4, <2>1
    <2>2. CASE \E i \in S : i > p /\ e = i - 1
      <3>1. PICK i \in S : i > p /\ e = i - 1
        BY <2>2
      <3>2. i \in 2 .. len - 2
        BY <1>3
      <3> QED BY <1>4, <3>1, <3>2
    <2> QED BY <1>2, <1>5, <2>1, <2>2
  <1>8. PICK e \in p .. len : e = Min(ends) /\ \A i \in ends : e <= i
    <2>1. \A i \in p .. len : i \in Nat
      BY <1>4
    <2>2. ends \subseteq Nat
      BY <1>7, <2>1
    <2>3. ends # {}
      BY <1>5
    <2> QED BY <1>7, <2>2, <2>3, FirstOf
  <1>9. TextAt(file, S, p) = IF e = p THEN Blank ELSE SubSeq(file, p + 1, e)
    BY <1>5, <1>8 DEF TextAt
  <1>10. PICK x : x = TextAt(file, S, p)
    OBVIOUS
  <1>11. PICK size \in Nat : e = p + size
    BY <1>4, <1>8
  <1>12. x \in TextsOf(W) /\ (size # 0 => Len(x) = size /\ \A i \in 1 .. size : x[i] = file[p + i])
    <2>1. CASE size = 0
      <3>1. x = Blank
        BY <1>4, <1>9, <1>10, <1>11, <2>1
      <3>2. Blank \in TextsOf(W)
        BY DEF Blank, TextsOf
      <3> QED BY <2>1, <3>1, <3>2
    <2>2. CASE size # 0
      <3>1. x = SubSeq(file, p + 1, e) /\ p + 1 \in 1 .. len /\ e \in 1 .. len /\ p + 1 <= e + 1
            /\ e - (p + 1) + 1 = size
        BY <1>4, <1>8, <1>9, <1>10, <1>11, <2>2
      <3>2. x \in Seq(W) /\ Len(x) = size /\ \A i \in 1 .. size : x[i] = file[p + 1 + i - 1]
        BY <1>1, <1>2, <3>1, SubSeqProperties
      <3>3. \A i \in 1 .. size : p + 1 + i - 1 = p + i
        BY <1>4
      <3>4. x # <<>>
        BY <2>2, <3>2, EmptySeq
      <3> QED BY <3>2, <3>3, <3>4 DEF TextsOf
    <2> QED BY <2>1, <2>2
  <1>13. PICK t \in TextsOf(W), m \in Nat : t = Trim(x) /\ Trims(t, x, m)
    BY <1>12, TrimFacts
  <1>14. ASSUME NEW i \in 1 .. Len(t) - 1, t[i] = EndLine, t[i + 1] = EmptyLine
         PROVE  FALSE
    <2>1. CASE m = 0
      <3>1. t = Blank
        BY <1>13, <2>1 DEF Trims
      <3>2. Len(t) = 1
        BY <3>1 DEF Blank
      <3> QED BY <1>14, <3>2
    <2>2. CASE m # 0
      <3>1. /\ Len(t) = m /\ x[m] # EmptyLine /\ \A j \in 1 .. m : t[j] = x[j]
            /\ m <= Len(x) /\ Len(x) \in Nat
        <4>1. Len(x) \in Nat
          BY <1>12, LenProperties DEF TextsOf
        <4> QED BY <1>13, <2>2, <4>1 DEF Trims
      <3>2. i \in 1 .. m /\ i + 1 \in 1 .. m /\ i \in Nat
        BY <1>14, <3>1
      <3>3. x[i] = EndLine /\ x[i + 1] = EmptyLine
        BY <1>14, <3>1, <3>2
      <3>4. i + 2 <= m
        BY <3>1, <3>2, <3>3
      <3>5. CASE size = 0
        <4>1. x = Blank
          BY <1>4, <1>9, <1>10, <1>11, <3>5
        <4>2. Len(x) = 1
          BY <4>1 DEF Blank
        <4> QED BY <3>1, <3>2, <3>4, <4>2
      <3>6. CASE size # 0
        <4>1. Len(x) = size /\ \A j \in 1 .. size : x[j] = file[p + j]
          BY <1>12, <3>6
        <4>2. PICK q \in Nat : q = p + i
          BY <1>4, <3>2
        <4>3. q \in 2 .. len - 2 /\ q + 2 <= e /\ q > p /\ i \in 1 .. size /\ i + 1 \in 1 .. size
              /\ q + 1 = p + (i + 1)
          BY <1>4, <1>8, <1>11, <3>1, <3>2, <3>4, <4>1, <4>2
        <4>4. file[q] = EndLine /\ file[q + 1] = EmptyLine
          BY <3>3, <4>1, <4>2, <4>3
        <4>5. q \notin S
          <5>1. SUFFICES ASSUME q \in S PROVE FALSE
            OBVIOUS
          <5>2. e <= q - 1
            BY <1>6, <1>8, <4>3, <5>1
          <5> QED BY <1>4, <1>8, <4>3, <5>2
        <4>6. PICK s \in S : s = q - 2
          BY <1>3, <4>3, <4>4, <4>5
        <4>7. ~(s > p)
          <5>1. SUFFICES ASSUME s > p PROVE FALSE
            OBVIOUS
          <5>2. e <= s - 1
            BY <1>6, <1>8, <5>1
          <5> QED BY <1>4, <1>8, <4>3, <4>6, <5>2
        <4>8. s = p \/ s + 1 = p
          BY <1>4, <3>2, <4>2, <4>6, <4>7
        <4>9. file[s] = EndLine /\ file[s + 1] = EmptyLine
          BY <1>3
        <4> QED BY <4>8, <4>9
      <3> QED BY <3>5, <3>6
    <2> QED BY <2>1, <2>2
  <1>15. ~Splits(x)
    BY <1>13, <1>14 DEF Splits
  <1> QED BY <1>10, <1>12, <1>15

\* What is read from a file, whatever is in it, are texts that a file can hold.
LEMMA ReadFits ==
  ASSUME NEW W, EmptyLine \in W, EndLine \in W, NEW n \in Nat \ {0}, NEW tags, Tagged(tags, n, W),
         NEW file \in TextsOf(W)
  PROVE  /\ Load(file, tags) \in [1 .. n -> TextsOf(W)]
         /\ \A k \in 1 .. n : ~Splits(Load(file, tags)[k])
  <1>1. file \in Seq(W)
    BY DEF TextsOf
  <1>2. PICK S : S = Separators(file) /\ Separating(S, file)
    BY <1>1, SeparatorFacts
  <1>3. PICK l : l = [k \in DOMAIN tags |-> Found(file, S, tags[k])] /\ l = Load(file, tags)
    BY <1>2, LoadIs
  <1>4. DOMAIN tags = 1 .. n
    BY DEF Tagged
  <1>5. ASSUME NEW k \in 1 .. n
        PROVE  Found(file, S, tags[k]) \in TextsOf(W) /\ ~Splits(Found(file, S, tags[k]))
    <2>1. PICK tag : tag = tags[k] /\ tag # EmptyLine /\ tag # EndLine
      BY DEF Tagged
    <2>2. PICK mine : mine = Pieces(file, S, tag)
      OBVIOUS
    <2>3. CASE mine = {}
      <3>1. Found(file, S, tag) = Blank
        BY <2>2, <2>3 DEF Found
      <3>2. Blank \in TextsOf(W)
        BY DEF Blank, TextsOf
      <3>3. ~Splits(Blank)
        <4>1. PICK t \in TextsOf(W), m \in Nat : t = Trim(Blank) /\ Trims(t, Blank, m)
          BY <3>2, TrimFacts
        <4>2. Len(Blank) = 1
          BY DEF Blank
        <4>3. Len(t) = 1
          <5>1. CASE m = 0
            BY <4>1, <4>2, <5>1 DEF Trims
          <5>2. CASE m # 0
            BY <4>1, <4>2, <5>2 DEF Trims
          <5> QED BY <5>1, <5>2
        <4> QED BY <4>1, <4>3 DEF Splits
      <3> QED BY <2>1, <3>1, <3>2, <3>3
    <2>4. CASE mine # {}
      <3>1. Found(file, S, tag) = TextAt(file, S, Max(mine))
        BY <2>2, <2>4 DEF Found
      <3>2. PICK len \in Nat : len = Len(file) /\ S \subseteq 2 .. len - 2
        BY <1>1, <1>2, LenProperties DEF Separating
      <3>3. mine \subseteq Starts(S) /\ \A p \in mine : file[p] = tag
        BY <2>2 DEF Pieces
      <3>4. mine \subseteq 1 .. len + 1
        <4>1. \A i \in S : i + 2 \in 1 .. len + 1
          BY <3>2
        <4>2. 1 \in 1 .. len + 1
          BY <3>2
        <4> QED BY <3>3, <4>1, <4>2 DEF Starts
      <3>5. PICK p \in mine : p = Max(mine)
        <4>1. len + 1 \in Nat
          BY <3>2
        <4> QED BY <2>4, <3>4, <4>1, LastFacts
      <3>6. p \in Starts(S) /\ file[p] # EmptyLine /\ file[p] # EndLine
        BY <2>1, <3>3
      <3> QED BY <1>2, <2>1, <3>1, <3>5, <3>6, BehindFacts
    <2> QED BY <2>3, <2>4
  <1> QED BY <1>3, <1>4, <1>5

-----------------------------------------------------------------------------
(* ListFile: texts, entries and lines. *)

\* The first lines of a text, to line n, are what trimming leaves.
Trimmed(r, n) ==
  /\ n # 0 => r[n] # L!NewLine
  /\ \A i \in n + 1 .. Len(r) : r[i] = L!NewLine

\* Trimming leaves the lines up to the last one that holds something.
LEMMA TrimmedFacts ==
  ASSUME NEW W, NEW r \in Seq(W), NEW n \in 0 .. Len(r), Trimmed(r, n)
  PROVE  L!Trim(r) = SubSeq(r, 1, n)
  <1>1. PICK len \in Nat : len = Len(r) /\ DOMAIN r = 1 .. len
    BY LenProperties
  <1>2. PICK T : T = {0} \cup {i \in DOMAIN r : r[i] # L!NewLine}
    OBVIOUS
  <1>3. n \in T
    <2>1. CASE n = 0
      BY <1>2, <2>1
    <2>2. CASE n # 0
      BY <1>1, <1>2, <2>2 DEF Trimmed
    <2> QED BY <2>1, <2>2
  <1>4. \A y \in T : n >= y
    <2> SUFFICES ASSUME NEW y \in T, ~(n >= y) PROVE FALSE
      OBVIOUS
    <2>1. y \in 1 .. len /\ r[y] # L!NewLine
      BY <1>1, <1>2
    <2>2. y \in n + 1 .. Len(r)
      BY <1>1, <2>1
    <2> QED BY <2>1, <2>2 DEF Trimmed
  <1>5. T \subseteq Int
    BY <1>1, <1>2
  <1>6. L!Max(T) = n
    <2>1. \A x \in T : (\A y \in T : x >= y) => x = n
      BY <1>3, <1>4, <1>5
    <2> QED BY <1>3, <1>4, <2>1, Zenon DEF L!Max
  <1>7. L!Trim(r) = SubSeq(r, 1, L!Max(T))
    BY <1>2, Zenon DEF L!Trim
  <1> QED BY <1>6, <1>7

\* Every text has such lines.
LEMMA TrimmedSome ==
  ASSUME NEW W, NEW r \in Seq(W)
  PROVE  \E n \in 0 .. Len(r) : Trimmed(r, n)
  <1>1. PICK len \in Nat : len = Len(r) /\ DOMAIN r = 1 .. len
    BY LenProperties
  <1>2. PICK T : T = {i \in 1 .. len : r[i] # L!NewLine}
    OBVIOUS
  <1>3. CASE T = {}
    <2>1. 0 \in 0 .. Len(r) /\ Trimmed(r, 0)
      BY <1>1, <1>2, <1>3 DEF Trimmed
    <2> QED BY <2>1
  <1>4. CASE T # {}
    <2>1. T \subseteq 1 .. len
      BY <1>2
    <2>2. PICK n \in T : \A y \in T : n >= y
      BY <1>4, <2>1, LastFacts
    <2>3. n \in 1 .. len
      BY <2>1
    <2>4. \A i \in n + 1 .. len : i \in 1 .. len /\ ~(n >= i)
      BY <2>3
    <2>5. \A i \in n + 1 .. len : r[i] = L!NewLine
      BY <1>2, <2>2, <2>4
    <2>6. n \in 0 .. Len(r) /\ Trimmed(r, n)
      BY <1>1, <1>2, <2>3, <2>5 DEF Trimmed
    <2> QED BY <2>6
  <1> QED BY <1>3, <1>4

\* Two texts whose trimmed lines are the same.
LEMMA SameTrimmed ==
  ASSUME NEW W, NEW r \in Seq(W), NEW n \in 0 .. Len(r),
         \A i \in n + 1 .. Len(r) : r[i] = L!NewLine, NEW v, v = SubSeq(r, 1, n)
  PROVE  L!Trim(v) = L!Trim(r)
  <1>1. PICK len \in Nat : len = Len(r)
    BY LenProperties
  <1>2. v \in Seq(W) /\ Len(v) = n /\ \A i \in 1 .. n : v[i] = r[i]
    <2>1. 1 \in Int /\ n \in Int /\ \A i \in 1 .. n : r[i] \in W
      BY <1>1, ElementOfSeq
    <2>2. (IF 1 <= n THEN n - 1 + 1 ELSE 0) = n /\ n - 1 + 1 = n /\ \A i \in 1 .. n : 1 + i - 1 = i
      BY <1>1
    <2> QED BY <2>1, <2>2, SubSeqProperties
  <1>3. PICK m \in 0 .. Len(v) : Trimmed(v, m)
    BY <1>2, TrimmedSome
  <1>4. m \in 0 .. n /\ m \in 0 .. len
    BY <1>1, <1>2, <1>3
  <1>5. Trimmed(r, m)
    <2>1. m # 0 => r[m] # L!NewLine
      BY <1>2, <1>3, <1>4 DEF Trimmed
    <2>2. ASSUME NEW i \in m + 1 .. len
          PROVE  r[i] = L!NewLine
      <3>1. CASE i <= n
        <4>1. i \in m + 1 .. n /\ i \in 1 .. n
          BY <1>4, <3>1
        <4> QED BY <1>2, <1>3, <4>1 DEF Trimmed
      <3>2. CASE ~(i <= n)
        <4>1. i \in n + 1 .. len
          BY <1>1, <3>2
        <4> QED BY <1>1, <4>1
      <3> QED BY <3>1, <3>2
    <2> QED BY <1>1, <2>1, <2>2 DEF Trimmed
  <1>6. L!Trim(v) = SubSeq(v, 1, m) /\ L!Trim(r) = SubSeq(r, 1, m)
    BY <1>1, <1>2, <1>3, <1>4, <1>5, TrimmedFacts
  <1>7. SubSeq(v, 1, m) = SubSeq(r, 1, m)
    <2>1. \A i \in 1 .. m : v[i] = r[i] /\ r[i] \in W
      BY <1>1, <1>2, <1>4, ElementOfSeq
    <2>2. 1 \in Int /\ m \in Int
      BY <1>4
    <2>3. PICK x, y : x = SubSeq(v, 1, m) /\ y = SubSeq(r, 1, m)
      OBVIOUS
    <2>4. x \in Seq(W) /\ y \in Seq(W) /\ Len(x) = Len(y) /\ Len(x) = m
          /\ \A i \in 1 .. m : x[i] = y[i]
      <3>1. (IF 1 <= m THEN m - 1 + 1 ELSE 0) = m /\ m - 1 + 1 = m /\ \A i \in 1 .. m : 1 + i - 1 = i
        BY <1>4
      <3>2. x \in Seq(W) /\ Len(x) = m /\ \A i \in 1 .. m : x[i] = v[i]
        BY <2>1, <2>2, <2>3, <3>1, SubSeqProperties
      <3>3. y \in Seq(W) /\ Len(y) = m /\ \A i \in 1 .. m : y[i] = r[i]
        BY <2>1, <2>2, <2>3, <3>1, SubSeqProperties
      <3> QED BY <2>1, <3>2, <3>3
    <2>5. x = y
      BY <2>4, SeqEqual
    <2> QED BY <2>3, <2>5
  <1> QED BY <1>6, <1>7

\* A text with something replaced in it.
LEMMA ReplaceFacts ==
  ASSUME NEW W, NEW r \in Seq(W), NEW from, NEW to \in W
  PROVE  /\ L!Replace(r, from, to) \in Seq(W) /\ Len(L!Replace(r, from, to)) = Len(r)
         /\ \A i \in 1 .. Len(r) : L!Replace(r, from, to)[i] = IF r[i] = from THEN to ELSE r[i]
  <1>1. PICK len \in Nat : len = Len(r) /\ DOMAIN r = 1 .. len /\ \A i \in 1 .. len : r[i] \in W
    BY LenProperties, ElementOfSeq
  <1>2. PICK x : x = L!Replace(r, from, to)
    OBVIOUS
  <1>3. x = [i \in 1 .. len |-> IF r[i] = from THEN to ELSE r[i]]
    BY <1>1, <1>2 DEF L!Replace
  <1>4. x \in [1 .. len -> W]
    BY <1>1, <1>3
  <1>5. x \in Seq(W) /\ Len(x) = len
    BY <1>4, LenProperties
  <1> QED BY <1>1, <1>2, <1>3, <1>5

\* What notes say.
Meaning(t) == L!Trim(L!Replace(t, L!Mark, L!NewLine))

\* What is read from the line of some notes says what they say; notes without
\* marks are read as they are but for the newlines at their end.
LEMMA NotesFacts ==
  ASSUME NEW W, L!NewLine \in W, L!Mark \in W, NEW t \in Seq(W),
         NEW k, k = L!KeptLine("notes", t), NEW v, v = L!Replace(k, L!Mark, L!NewLine)
  PROVE  /\ k \in Seq(W) /\ \A i \in 1 .. Len(k) : k[i] # L!NewLine
         /\ v \in Seq(W) /\ Meaning(k) = Meaning(t) /\ Meaning(v) = Meaning(t)
         /\ (\A i \in 1 .. Len(t) : t[i] # L!Mark) => v = Meaning(t)
  <1>0. L!NewLine # L!Mark
    BY DEF L!NewLine, L!Mark
  <1>1. PICK len \in Nat : len = Len(t)
    BY LenProperties
  <1>2. PICK n \in 0 .. len : Trimmed(t, n)
    BY <1>1, TrimmedSome
  <1>3. PICK s : s = SubSeq(t, 1, n) /\ L!Trim(t) = s
    BY <1>1, <1>2, TrimmedFacts
  <1>i. /\ 1 \in Int /\ n \in Int /\ n \in Nat /\ \A i \in 1 .. n : i \in 1 .. len /\ 1 + i - 1 = i
        /\ (IF 1 <= n THEN n - 1 + 1 ELSE 0) = n /\ n - 1 + 1 = n
    OBVIOUS
  <1>4. s \in Seq(W) /\ Len(s) = n /\ \A i \in 1 .. n : s[i] = t[i]
    <2>1. \A i \in 1 .. n : t[i] \in W
      BY <1>1, <1>i, ElementOfSeq
    <2> QED BY <1>3, <1>i, <2>1, SubSeqProperties
  <1>5. k = L!Replace(s, L!NewLine, L!Mark)
    BY <1>3 DEF L!KeptLine
  <1>6. k \in Seq(W) /\ Len(k) = n
        /\ \A i \in 1 .. n : k[i] = IF t[i] = L!NewLine THEN L!Mark ELSE t[i]
    BY <1>4, <1>5, ReplaceFacts
  <1>7. v \in Seq(W) /\ Len(v) = n /\ \A i \in 1 .. n : v[i] = IF k[i] = L!Mark THEN L!NewLine ELSE k[i]
    BY <1>6, ReplaceFacts
  <1>8. PICK u : u = L!Replace(t, L!Mark, L!NewLine)
    OBVIOUS
  <1>9. u \in Seq(W) /\ Len(u) = len /\ \A i \in 1 .. len : u[i] = IF t[i] = L!Mark THEN L!NewLine ELSE t[i]
    BY <1>1, <1>8, ReplaceFacts
  <1>10. v = SubSeq(u, 1, n)
    <2>1. \A i \in 1 .. n : u[i] = v[i] /\ u[i] \in W
      BY <1>6, <1>7, <1>9, <1>i, ElementOfSeq
    <2>2. PICK x : x = SubSeq(u, 1, n)
      OBVIOUS
    <2>3. x \in Seq(W) /\ Len(x) = n /\ \A i \in 1 .. n : x[i] = u[i]
      BY <1>i, <2>1, <2>2, SubSeqProperties
    <2>4. v = x
      BY <1>7, <2>1, <2>3, SeqEqual
    <2> QED BY <2>2, <2>4
  <1>11. L!Trim(v) = L!Trim(u)
    <2>1. \A i \in n + 1 .. len : i \in 1 .. len /\ t[i] = L!NewLine
      BY <1>1, <1>2, <1>i DEF Trimmed
    <2>2. \A i \in n + 1 .. Len(u) : u[i] = L!NewLine
      BY <1>9, <2>1
    <2>3. n \in 0 .. Len(u)
      BY <1>9
    <2> QED BY <1>9, <1>10, <2>2, <2>3, SameTrimmed
  <1>12. L!Replace(v, L!Mark, L!NewLine) = v
    <2>1. PICK x : x = L!Replace(v, L!Mark, L!NewLine)
      OBVIOUS
    <2>2. x \in Seq(W) /\ Len(x) = n /\ \A i \in 1 .. n : x[i] = IF v[i] = L!Mark THEN L!NewLine ELSE v[i]
      BY <1>7, <2>1, ReplaceFacts
    <2>3. \A i \in 1 .. n : v[i] # L!Mark
      BY <1>0, <1>7
    <2>4. x = v
      BY <1>7, <2>2, <2>3, SeqEqual
    <2> QED BY <2>1, <2>4
  <1>13. Meaning(t) = L!Trim(u) /\ Meaning(k) = L!Trim(v) /\ Meaning(v) = L!Trim(v)
    BY <1>8, <1>12 DEF Meaning
  <1>14. \A i \in 1 .. Len(k) : k[i] # L!NewLine
    BY <1>0, <1>6
  <1>15. ASSUME \A i \in 1 .. Len(t) : t[i] # L!Mark
         PROVE  v = Meaning(t)
    <2>1. u = t
      BY <1>1, <1>9, <1>15, SeqEqual
    <2>2. L!Trim(t) = SubSeq(t, 1, n)
      BY <1>3
    <2> QED BY <1>10, <1>13, <2>1, <2>2
  <1> QED BY <1>6, <1>7, <1>11, <1>13, <1>14, <1>15

\* Text without a newline in it.
Unbroken(t) == \A i \in 1 .. Len(t) : t[i] # L!NewLine

\* A line ends at the next newline, or behind the last character.
LEMMA LineEndFacts ==
  ASSUME NEW W, NEW body \in Seq(W), NEW len \in Nat, len = Len(body), NEW p \in Nat
  PROVE  /\ L!LineEnd(body, p) \in 1 .. len + 1
         /\ L!LineEnd(body, p) <= len =>
              L!LineEnd(body, p) > p /\ body[L!LineEnd(body, p)] = L!NewLine
         /\ \A i \in 1 .. len : i > p /\ i < L!LineEnd(body, p) => body[i] # L!NewLine
  <1>1. PICK T : T = {i \in DOMAIN body : i > p /\ body[i] = L!NewLine} \cup {Len(body) + 1}
    OBVIOUS
  <1>2. DOMAIN body = 1 .. len
    BY LenProperties
  <1>3. T \subseteq Nat /\ T # {}
    BY <1>1, <1>2
  <1>4. Min(T) \in T /\ \A y \in T : Min(T) <= y
    BY <1>3, FirstOf
  <1>5. L!LineEnd(body, p) = L!Min(T) /\ L!Min(T) = Min(T)
    BY <1>1, Zenon DEF L!LineEnd, L!Min, Min
  <1>6. PICK e \in T : e = L!LineEnd(body, p) /\ \A y \in T : e <= y
    BY <1>4, <1>5
  <1>7. \A y \in T : y = len + 1 \/ (y \in 1 .. len /\ y > p /\ body[y] = L!NewLine)
    BY <1>1, <1>2
  <1>8. e \in 1 .. len + 1 /\ (e <= len => e > p /\ body[e] = L!NewLine)
    BY <1>7
  <1>9. ASSUME NEW i \in 1 .. len, i > p, i < e
        PROVE  body[i] # L!NewLine
    <2>1. i \in T => e <= i
      BY <1>6
    <2>2. body[i] = L!NewLine => i \in T
      BY <1>1, <1>2, <1>9
    <2> QED BY <1>8, <1>9, <2>1, <2>2
  <1> QED BY <1>6, <1>8, <1>9

\* Where the lines of a body end.
Breaks(end, body, count) ==
  /\ end \in [0 .. count -> Nat] /\ end[0] = 0
  /\ \A n \in 1 .. count : end[n] = L!LineEnd(body, end[n - 1])

\* The lines of a file are between its line ends.
LEMMA BreaksFacts ==
  ASSUME NEW W, NEW body \in Seq(W), NEW count \in Nat
  PROVE  \E end : /\ Breaks(end, body, count)
                  /\ L!Lines(body, count) =
                       [n \in 1 .. count |-> SubSeq(body, end[n - 1] + 1, end[n] - 1)]
  <1> DEFINE Rest(f) == [n \in 0 .. count |-> IF n = 0 THEN 0 ELSE L!LineEnd(body, f[n - 1])]
  <1>1. PICK len \in Nat : len = Len(body)
    BY LenProperties
  <1>2. \A p \in Nat : L!LineEnd(body, p) \in Nat
    <2> SUFFICES ASSUME NEW p \in Nat PROVE L!LineEnd(body, p) \in Nat
      OBVIOUS
    <2>1. L!LineEnd(body, p) \in 1 .. len + 1
      BY <1>1, LineEndFacts
    <2> QED BY <2>1
  <1>3. PICK to : to = [p \in Nat |-> L!LineEnd(body, p)]
    OBVIOUS
  <1>4. PICK step : step = [n \in 1 .. count |-> to]
    OBVIOUS
  <1>5. \A n \in 1 .. count : step[n] \in [Nat -> Nat]
    BY <1>2, <1>3, <1>4
  <1>6. PICK g : Loops(g, count, Nat, 0, step)
    BY <1>5, Looped
  <1>7. /\ g \in [0 .. count -> Nat] /\ g[0] = 0
        /\ \A n \in 1 .. count : g[n] = step[n][g[n - 1]]
    BY <1>6 DEF Loops
  <1>8. \A n \in 1 .. count : n - 1 \in 0 .. count /\ g[n] = L!LineEnd(body, g[n - 1])
    <2>1. \A n \in 1 .. count : n - 1 \in 0 .. count
      OBVIOUS
    <2> QED BY <1>3, <1>4, <1>7, <2>1
  <1>9. g = Rest(g)
    <2>1. ASSUME NEW n \in 0 .. count
          PROVE  g[n] = IF n = 0 THEN 0 ELSE L!LineEnd(body, g[n - 1])
      <3>1. n # 0 => n \in 1 .. count
        OBVIOUS
      <3> QED BY <1>7, <1>8, <3>1
    <2> QED BY <1>7, <2>1
  <1>10. PICK end : end = CHOOSE f : f = Rest(f)
    OBVIOUS
  <1>11. end = Rest(end)
    <2>1. \E f : f = Rest(f)
      BY <1>9, Zenon
    <2> HIDE DEF Rest
    <2> QED BY <1>10, <2>1, Zenon
  <1>12. L!Lines(body, count) = [n \in 1 .. count |-> SubSeq(body, end[n - 1] + 1, end[n] - 1)]
    <2>1. end = CHOOSE f : f = [n \in 0 .. count |-> IF n = 0 THEN 0 ELSE L!LineEnd(body, f[n - 1])]
      BY <1>10
    <2> HIDE DEF Rest
    <2> QED BY <2>1 DEF L!Lines
  <1>13. end[0] = 0 /\ \A n \in 1 .. count : end[n] = L!LineEnd(body, end[n - 1])
    <2> HIDE DEF Rest
    <2>1. PICK f : f = end /\ f = Rest(f)
      BY <1>11
    <2>2. f[0] = 0 /\ \A n \in 1 .. count : f[n] = L!LineEnd(body, f[n - 1])
      <3>1. f = [n \in 0 .. count |-> IF n = 0 THEN 0 ELSE L!LineEnd(body, f[n - 1])]
        BY <2>1 DEF Rest
      <3>2. 0 \in 0 .. count /\ \A n \in 1 .. count : n \in 0 .. count /\ n # 0
        OBVIOUS
      <3> QED BY <3>1, <3>2
    <2> QED BY <2>1, <2>2
  <1>14. \A n \in 0 .. count : end[n] = g[n]
    <2> DEFINE T == {n \in Nat : n <= count => end[n] = g[n]}
    <2>1. ASSUME NEW n \in Nat, \A j \in Nat : j < n => j \in T
          PROVE  n \in T
      <3> SUFFICES ASSUME n <= count PROVE end[n] = g[n]
        OBVIOUS
      <3>1. CASE n = 0
        BY <1>7, <1>13, <3>1
      <3>2. CASE n # 0
        <4>1. n \in 1 .. count /\ n - 1 \in Nat /\ n - 1 < n /\ n - 1 <= count
          BY <3>2
        <4>2. end[n - 1] = g[n - 1]
          BY <2>1, <4>1
        <4> QED BY <1>8, <1>13, <4>1, <4>2
      <3> QED BY <3>1, <3>2
    <2> HIDE DEF T
    <2>2. Nat \subseteq T
      BY <2>1, Induction
    <2> QED BY <2>2 DEF T
  <1>15. \A n \in 1 .. count : n \in 0 .. count
    OBVIOUS
  <1>16. \A n \in 1 .. count : end[n - 1] = g[n - 1] /\ end[n] = g[n]
    BY <1>8, <1>14, <1>15
  <1>17. L!Lines(body, count) = [n \in 1 .. count |-> SubSeq(body, g[n - 1] + 1, g[n] - 1)]
    BY <1>12, <1>16
  <1>18. Breaks(g, body, count)
    BY <1>7, <1>8 DEF Breaks
  <1> QED BY <1>17, <1>18

\* A line that is read has no newline in it.
LEMMA LinesUnbroken ==
  ASSUME NEW W, NEW body \in Seq(W), NEW count \in Nat, NEW n \in 1 .. count
  PROVE  L!Lines(body, count)[n] \in Seq(W) /\ Unbroken(L!Lines(body, count)[n])
  <1>1. PICK end : /\ Breaks(end, body, count)
                   /\ L!Lines(body, count) = [k \in 1 .. count |-> SubSeq(body, end[k - 1] + 1, end[k] - 1)]
    BY BreaksFacts
  <1>2. PICK len \in Nat : len = Len(body)
    BY LenProperties
  <1>3. PICK p \in Nat : p = end[n - 1]
    <2>1. n - 1 \in 0 .. count
      OBVIOUS
    <2> QED BY <1>1, <2>1 DEF Breaks
  <1>4. PICK e \in 1 .. len + 1 : e = end[n] /\ \A i \in 1 .. len : i > p /\ i < e => body[i] # L!NewLine
    <2>1. \A k \in 1 .. count : end[k] = L!LineEnd(body, end[k - 1])
      BY <1>1 DEF Breaks
    <2>2. end[n] = L!LineEnd(body, p)
      BY <1>3, <2>1
    <2>3. PICK e : e = L!LineEnd(body, p)
      OBVIOUS
    <2>4. e \in 1 .. len + 1 /\ \A i \in 1 .. len : i > p /\ i < e => body[i] # L!NewLine
      BY <1>2, <2>3, LineEndFacts
    <2> QED BY <2>2, <2>3, <2>4
  <1>5. PICK x : x = SubSeq(body, p + 1, e - 1) /\ x = L!Lines(body, count)[n]
    BY <1>1, <1>3, <1>4
  <1>6. /\ p + 1 \in Int /\ e - 1 \in Int
        /\ \A i \in p + 1 .. e - 1 : i \in 1 .. len /\ i > p /\ i < e
    BY <1>4
  <1>7. \A i \in p + 1 .. e - 1 : body[i] \in W
    BY <1>2, <1>6, ElementOfSeq
  <1>8. /\ x \in Seq(W) /\ Len(x) = IF p + 1 <= e - 1 THEN e - 1 - (p + 1) + 1 ELSE 0
        /\ \A i \in 1 .. e - 1 - (p + 1) + 1 : x[i] = body[p + 1 + i - 1]
    BY <1>5, <1>6, <1>7, SubSeqProperties
  <1>9. ASSUME NEW i \in 1 .. Len(x)
        PROVE  x[i] # L!NewLine
    <2>1. i \in 1 .. e - 1 - (p + 1) + 1 /\ p + 1 + i - 1 \in p + 1 .. e - 1
      BY <1>4, <1>8
    <2> QED BY <1>4, <1>6, <1>8, <2>1
  <1> QED BY <1>5, <1>8, <1>9 DEF Unbroken

\* An empty file has no lines but empty ones.
LEMMA NoLines ==
  ASSUME NEW W, NEW body \in Seq(W), Len(body) = 0, NEW count \in Nat, NEW n \in 1 .. count
  PROVE  L!Lines(body, count)[n] = <<>>
  <1>1. PICK end : /\ Breaks(end, body, count)
                   /\ L!Lines(body, count) = [k \in 1 .. count |-> SubSeq(body, end[k - 1] + 1, end[k] - 1)]
    BY BreaksFacts
  <1>2. end \in [0 .. count -> Nat] /\ end[n] = L!LineEnd(body, end[n - 1])
    BY <1>1 DEF Breaks
  <1>3. PICK p \in Nat : p = end[n - 1]
    <2>1. n - 1 \in 0 .. count
      OBVIOUS
    <2> QED BY <1>2, <2>1
  <1>4. PICK len \in Nat : len = 0 /\ len = Len(body)
    OBVIOUS
  <1>5. L!LineEnd(body, p) \in 1 .. len + 1
    BY <1>4, LineEndFacts
  <1>6. end[n] = 1
    BY <1>2, <1>3, <1>4, <1>5
  <1>7. SubSeq(body, p + 1, 0) = <<>>
    <2>1. p + 1 \in Int /\ 0 \in Int /\ 0 < p + 1
      OBVIOUS
    <2> QED BY <2>1, SubSeqEmpty
  <1>8. L!Lines(body, count)[n] = SubSeq(body, p + 1, 1 - 1)
    BY <1>1, <1>3, <1>6
  <1> QED BY <1>7, <1>8

\* A line of length h behind position p of a body of length m.
Line(body, m, p, h) ==
  /\ p + h <= m /\ \A i \in p + 1 .. p + h : body[i] # L!NewLine
  /\ p + h < m => body[p + h + 1] = L!NewLine

\* Where a line ends that is followed by a newline or by the end.
LEMMA EndOfLine ==
  ASSUME NEW W, NEW body \in Seq(W), NEW m \in Nat, m = Len(body), NEW p \in Nat, NEW h \in Nat,
         Line(body, m, p, h)
  PROVE  L!LineEnd(body, p) = p + h + 1
  <1>l. /\ p + h <= m /\ \A i \in p + 1 .. p + h : body[i] # L!NewLine
        /\ p + h < m => body[p + h + 1] = L!NewLine
    BY DEF Line
  <1>1. /\ L!LineEnd(body, p) \in 1 .. m + 1
        /\ L!LineEnd(body, p) <= m => L!LineEnd(body, p) > p /\ body[L!LineEnd(body, p)] = L!NewLine
        /\ \A i \in 1 .. m : i > p /\ i < L!LineEnd(body, p) => body[i] # L!NewLine
    BY LineEndFacts
  <1>e. PICK e : e = L!LineEnd(body, p)
    OBVIOUS
  <1>2. /\ e \in 1 .. m + 1 /\ (e <= m => e > p /\ body[e] = L!NewLine)
        /\ \A i \in 1 .. m : i > p /\ i < e => body[i] # L!NewLine
    BY <1>1, <1>e
  <1>3. ~(e < p + h + 1)
    <2> SUFFICES ASSUME e < p + h + 1 PROVE FALSE
      OBVIOUS
    <2>1. e \in p + 1 .. p + h /\ body[e] = L!NewLine
      BY <1>2, <1>l
    <2> QED BY <1>l, <2>1
  <1>4. ~(e > p + h + 1)
    <2> SUFFICES ASSUME e > p + h + 1 PROVE FALSE
      OBVIOUS
    <2>1. p + h + 1 \in 1 .. m /\ p + h + 1 > p /\ p + h < m
      BY <1>2
    <2> QED BY <1>2, <1>l, <2>1
  <1> QED BY <1>e, <1>2, <1>3, <1>4

\* The body of a file that ends with a newline.
LEMMA BodyFacts ==
  ASSUME NEW W, NEW file \in Seq(W), NEW m \in Nat, Len(file) = m + 1, file[m + 1] = L!NewLine
  PROVE  /\ L!Body(file) \in Seq(W) /\ Len(L!Body(file)) = m
         /\ \A i \in 1 .. m : L!Body(file)[i] = file[i]
  <1>1. file # <<>>
    BY EmptySeq
  <1>2. L!Body(file) = SubSeq(file, 1, m)
    <2>1. m + 1 - 1 = m
      OBVIOUS
    <2> QED BY <1>1, <2>1 DEF L!Body, L!Last, L!Front
  <1>3. /\ 1 \in Int /\ m \in Int /\ (IF 1 <= m THEN m - 1 + 1 ELSE 0) = m /\ m - 1 + 1 = m
        /\ \A i \in 1 .. m : i \in 1 .. m + 1 /\ 1 + i - 1 = i
    OBVIOUS
  <1>4. \A i \in 1 .. m : file[i] \in W
    BY <1>3, ElementOfSeq
  <1>5. PICK x : x = SubSeq(file, 1, m)
    OBVIOUS
  <1>6. x \in Seq(W) /\ Len(x) = m /\ \A i \in 1 .. m : x[i] = file[i]
    BY <1>3, <1>4, <1>5, SubSeqProperties
  <1> QED BY <1>2, <1>5, <1>6

\* The file has line k, of l, behind position pos[k - 1].
Lined(file, l, pos, n, m) ==
  /\ pos \in [0 .. n -> Nat] /\ pos[0] = 0 /\ pos[n] = m + 1
  /\ \A k \in 1 .. n : \E p \in Nat, h \in Nat :
       /\ p = pos[k - 1] /\ h = Len(l[k]) /\ pos[k] = p + h + 1 /\ p + h <= m
       /\ \A i \in 1 .. h : file[p + i] = l[k][i]
       /\ file[p + h + 1] = L!NewLine

\* The lines of a file are those that are read.
LEMMA LinedReturns ==
  ASSUME NEW W, NEW n \in Nat \ {0}, NEW l \in [1 .. n -> Seq(W)],
         \A k \in 1 .. n : Unbroken(l[k]),
         NEW file \in Seq(W), NEW m \in Nat, Len(file) = m + 1, file[m + 1] = L!NewLine,
         NEW pos, Lined(file, l, pos, n, m)
  PROVE  L!Lines(L!Body(file), n) = l
  <1>5. pos \in [0 .. n -> Nat] /\ pos[0] = 0
    BY DEF Lined
  <1>11. PICK body : body = L!Body(file)
    OBVIOUS
  <1>12. body \in Seq(W) /\ Len(body) = m /\ \A i \in 1 .. m : body[i] = file[i]
    BY <1>11, BodyFacts
  <1>13. PICK end : /\ Breaks(end, body, n)
                    /\ L!Lines(body, n) = [k \in 1 .. n |-> SubSeq(body, end[k - 1] + 1, end[k] - 1)]
    <2>1. n \in Nat
      OBVIOUS
    <2> QED BY <1>12, <2>1, BreaksFacts
  <1>14. ASSUME NEW k \in 1 .. n
         PROVE  \E p \in Nat, h \in Nat :
                  /\ p = pos[k - 1] /\ h = Len(l[k]) /\ pos[k] = p + h + 1 /\ p + h <= m
                  /\ \A i \in 1 .. h : body[p + i] = l[k][i]
                  /\ L!LineEnd(body, p) = p + h + 1
    <2>1. PICK p \in Nat, h \in Nat :
            /\ p = pos[k - 1] /\ h = Len(l[k]) /\ pos[k] = p + h + 1 /\ p + h <= m
            /\ \A i \in 1 .. h : file[p + i] = l[k][i]
            /\ file[p + h + 1] = L!NewLine
      BY DEF Lined
    <2>2. p + h <= m
      BY <2>1
    <2>3. \A i \in 1 .. h : p + i \in 1 .. m
      BY <2>2
    <2>4. \A i \in 1 .. h : body[p + i] = l[k][i]
      BY <1>12, <2>1, <2>3
    <2>5. \A i \in 1 .. h : l[k][i] # L!NewLine
      BY <2>1 DEF Unbroken
    <2>6. \A i \in p + 1 .. p + h : body[i] # L!NewLine
      <3> SUFFICES ASSUME NEW i \in p + 1 .. p + h
                   PROVE  body[i] # L!NewLine
        OBVIOUS
      <3>1. PICK j \in 1 .. h : p + j = i
        <4>1. i - p \in 1 .. h /\ p + (i - p) = i
          OBVIOUS
        <4> QED BY <4>1
      <3> QED BY <2>4, <2>5, <3>1
    <2>7. p + h < m => body[p + h + 1] = L!NewLine
      <3>1. p + h < m => p + h + 1 \in 1 .. m
        OBVIOUS
      <3> QED BY <1>12, <2>1, <3>1
    <2>8. L!LineEnd(body, p) = p + h + 1
      <3>1. body \in Seq(W) /\ m = Len(body)
        BY <1>12
      <3>2. Line(body, m, p, h)
        BY <2>2, <2>6, <2>7 DEF Line
      <3> QED BY <3>1, <3>2, EndOfLine
    <2> QED BY <2>1, <2>2, <2>4, <2>8
  <1>15. end[0] = 0 /\ \A k \in 1 .. n : end[k] = L!LineEnd(body, end[k - 1])
    BY <1>13 DEF Breaks
  <1>16. \A k \in 0 .. n : end[k] = pos[k]
    <2> DEFINE T == {k \in Nat : k <= n => end[k] = pos[k]}
    <2>1. ASSUME NEW k \in Nat, \A j \in Nat : j < k => j \in T
          PROVE  k \in T
      <3> SUFFICES ASSUME k <= n PROVE end[k] = pos[k]
        OBVIOUS
      <3>1. CASE k = 0
        BY <1>5, <1>15, <3>1
      <3>2. CASE k # 0
        <4>1. k \in 1 .. n /\ k - 1 \in Nat /\ k - 1 < k /\ k - 1 <= n
          BY <3>2
        <4>2. end[k - 1] = pos[k - 1]
          BY <2>1, <4>1
        <4>3. PICK p \in Nat, h \in Nat : p = pos[k - 1] /\ pos[k] = p + h + 1 /\ L!LineEnd(body, p) = p + h + 1
          BY <1>14, <4>1
        <4> QED BY <1>15, <4>1, <4>2, <4>3
      <3> QED BY <3>1, <3>2
    <2> HIDE DEF T
    <2>2. Nat \subseteq T
      BY <2>1, Induction
    <2> QED BY <2>2 DEF T
  <1>17. ASSUME NEW k \in 1 .. n
         PROVE  SubSeq(body, end[k - 1] + 1, end[k] - 1) = l[k]
    <2>1. PICK p \in Nat, h \in Nat :
            /\ p = pos[k - 1] /\ h = Len(l[k]) /\ pos[k] = p + h + 1 /\ p + h <= m
            /\ \A i \in 1 .. h : body[p + i] = l[k][i]
      BY <1>14
    <2>2. end[k - 1] = p /\ end[k] = p + h + 1
      <3>1. k - 1 \in 0 .. n /\ k \in 0 .. n
        OBVIOUS
      <3> QED BY <1>16, <2>1, <3>1
    <2>3. PICK y \in Seq(W) : y = l[k] /\ Len(y) = h
      BY <2>1
    <2>4. /\ p + 1 \in Int /\ p + h \in Int /\ p + h + 1 - 1 = p + h
          /\ (IF p + 1 <= p + h THEN p + h - (p + 1) + 1 ELSE 0) = h
          /\ p + h - (p + 1) + 1 = h /\ \A i \in 1 .. h : p + 1 + i - 1 = p + i
          /\ \A i \in p + 1 .. p + h : i \in 1 .. m
      <3>1. p + h <= m
        BY <2>1
      <3> QED BY <3>1
    <2>5. \A i \in p + 1 .. p + h : body[i] \in W
      BY <1>12, <2>4, ElementOfSeq
    <2>6. PICK x : x = SubSeq(body, p + 1, p + h)
      OBVIOUS
    <2>7. x \in Seq(W) /\ Len(x) = h /\ \A i \in 1 .. h : x[i] = body[p + i]
      BY <2>4, <2>5, <2>6, SubSeqProperties
    <2>8. x = y
      <3>1. \A i \in 1 .. h : x[i] = y[i]
        BY <2>1, <2>3, <2>7
      <3> QED BY <2>3, <2>7, <3>1, SeqEqual
    <2> QED BY <2>2, <2>3, <2>4, <2>6, <2>8
  <1>18. L!Lines(body, n) = l
    BY <1>13, <1>17
  <1> QED BY <1>11, <1>18

\* A line in its file.
Ended(line) == line \o <<L!NewLine>>

\* n lines, each in its file.
AllEnded(q, l, n) == q = [k \in 1 .. n |-> Ended(l[k])]

\* The lines that are written are those that are read.
LEMMA LinesReturn ==
  ASSUME NEW W, L!NewLine \in W, NEW n \in Nat \ {0}, NEW l \in [1 .. n -> Seq(W)],
         \A k \in 1 .. n : Unbroken(l[k]),
         NEW q, AllEnded(q, l, n), NEW file, file = FlattenSeq(q)
  PROVE  file \in Seq(W) /\ L!Body(file) \in Seq(W) /\ L!Lines(L!Body(file), n) = l
  <1>2. ASSUME NEW k \in 1 .. n
        PROVE  \E h \in Nat : /\ h = Len(l[k]) /\ q[k] \in Seq(W) /\ Len(q[k]) = h + 1
                              /\ \A i \in 1 .. h : q[k][i] = l[k][i]
                              /\ q[k][h + 1] = L!NewLine
    <2>1. PICK h \in Nat : h = Len(l[k])
      BY LenProperties
    <2>2. PICK y \in Seq(W) : y = <<L!NewLine>> /\ Len(y) = 1 /\ y[1] = L!NewLine
      <3>1. PICK new \in W : new = L!NewLine
        OBVIOUS
      <3>2. <<new>> \in Seq(W) /\ Len(<<new>>) = 1 /\ <<new>>[1] = new
        OBVIOUS
      <3> QED BY <3>1, <3>2
    <2>3. PICK one \in Nat : one = 1
      OBVIOUS
    <2>4. PICK x \in Seq(W) : x = l[k]
      OBVIOUS
    <2>5. PICK z : z = x \o y /\ z = q[k]
      BY <2>2, <2>4 DEF Ended, AllEnded
    <2>6. /\ z \in Seq(W) /\ Len(z) = h + one
          /\ \A i \in 1 .. h : z[i] = x[i]
          /\ \A i \in 1 .. one : z[h + i] = y[i]
      BY <2>1, <2>2, <2>3, <2>4, <2>5, PartsFacts
    <2>7. z[h + 1] = y[1]
      BY <2>3, <2>6
    <2>8. q[k] \in Seq(W) /\ Len(q[k]) = h + 1 /\ q[k][h + 1] = L!NewLine
      BY <2>2, <2>3, <2>5, <2>6, <2>7
    <2>9. \A i \in 1 .. h : q[k][i] = l[k][i]
      BY <2>4, <2>5, <2>6
    <2> QED BY <2>1, <2>8, <2>9
  <1>3. q \in [1 .. n -> Seq(W)] /\ file = FlattenSeq(q)
    BY <1>2 DEF AllEnded
  <1>4. PICK pos : file \in Seq(W) /\ Ends(pos, q, n) /\ Places(file, pos, q, n)
    BY <1>3, FlattenPlaces
  <1>5. pos \in [0 .. n -> Nat] /\ pos[0] = 0 /\ Len(file) = pos[n]
    BY <1>4 DEF Ends, Places
  <1>6. ASSUME NEW k \in 1 .. n
        PROVE  \E p \in Nat, h \in Nat :
                 /\ p = pos[k - 1] /\ h = Len(l[k]) /\ pos[k] = p + h + 1
                 /\ \A i \in 1 .. h : file[p + i] = l[k][i]
                 /\ file[p + h + 1] = L!NewLine
    <2>1. PICK h \in Nat : /\ h = Len(l[k]) /\ Len(q[k]) = h + 1
                           /\ \A i \in 1 .. h : q[k][i] = l[k][i]
                           /\ q[k][h + 1] = L!NewLine
      BY <1>2
    <2>2. PICK p \in Nat : p = pos[k - 1]
      <3>1. k - 1 \in 0 .. n
        OBVIOUS
      <3> QED BY <1>5, <3>1
    <2>3. pos[k] = p + (h + 1) /\ \A j \in 1 .. h + 1 : file[p + j] = q[k][j]
      <3>1. /\ \A i \in 1 .. n : pos[i] = pos[i - 1] + Len(q[i])
            /\ \A i \in 1 .. n : \A j \in 1 .. Len(q[i]) : file[pos[i - 1] + j] = q[i][j]
        BY <1>4 DEF Ends, Places
      <3>2. pos[k] = pos[k - 1] + Len(q[k]) /\ \A j \in 1 .. Len(q[k]) : file[pos[k - 1] + j] = q[k][j]
        BY <3>1
      <3> QED BY <2>1, <2>2, <3>2
    <2>4. /\ p + (h + 1) = p + h + 1 /\ h + 1 \in 1 .. h + 1
          /\ \A i \in 1 .. h : i \in 1 .. h + 1
      OBVIOUS
    <2>5. /\ p = pos[k - 1] /\ h = Len(l[k]) /\ pos[k] = p + h + 1
          /\ \A i \in 1 .. h : file[p + i] = l[k][i]
          /\ file[p + h + 1] = L!NewLine
      BY <2>1, <2>2, <2>3, <2>4
    <2> QED BY <2>5
  <1>7. \A k \in 1 .. n : pos[k - 1] <= pos[k] /\ pos[k] >= 1
    <2> SUFFICES ASSUME NEW k \in 1 .. n
                 PROVE  pos[k - 1] <= pos[k] /\ pos[k] >= 1
      OBVIOUS
    <2>1. PICK p \in Nat, h \in Nat : p = pos[k - 1] /\ pos[k] = p + h + 1
      BY <1>6
    <2> QED BY <2>1
  <1>8. n \in Nat /\ n \in 1 .. n /\ \A k \in 0 .. n : \A j \in k .. n : pos[k] <= pos[j]
    <2>1. n \in Nat /\ n \in 1 .. n /\ \A k \in 1 .. n : pos[k - 1] <= pos[k]
      BY <1>7
    <2> QED BY <1>5, <2>1, Climbs
  <1>9. PICK m \in Nat : Len(file) = m + 1 /\ pos[n] = m + 1
    <2>1. pos[n] >= 1 /\ pos[n] \in Nat
      BY <1>5, <1>7, <1>8
    <2>2. PICK len \in Nat : len = pos[n] /\ len >= 1
      BY <2>1
    <2>3. len - 1 \in Nat /\ len = (len - 1) + 1
      BY <2>2
    <2> QED BY <1>5, <2>2, <2>3
  <1>10. file[m + 1] = L!NewLine
    <2>1. PICK p \in Nat, h \in Nat : pos[n] = p + h + 1 /\ file[p + h + 1] = L!NewLine
      BY <1>6, <1>8
    <2> QED BY <1>9, <2>1
  <1>14. ASSUME NEW k \in 1 .. n
         PROVE  \E p \in Nat, h \in Nat :
                  /\ p = pos[k - 1] /\ h = Len(l[k]) /\ pos[k] = p + h + 1 /\ p + h <= m
                  /\ \A i \in 1 .. h : file[p + i] = l[k][i]
                  /\ file[p + h + 1] = L!NewLine
    <2>1. PICK p \in Nat, h \in Nat :
            /\ p = pos[k - 1] /\ h = Len(l[k]) /\ pos[k] = p + h + 1
            /\ \A i \in 1 .. h : file[p + i] = l[k][i]
            /\ file[p + h + 1] = L!NewLine
      BY <1>6
    <2>2. p + h <= m
      <3>1. k \in 0 .. n /\ n \in k .. n
        OBVIOUS
      <3>2. pos[k] <= pos[n]
        BY <1>8, <3>1
      <3>3. p + h + 1 <= m + 1
        BY <1>9, <2>1, <3>2
      <3> QED BY <3>3
    <2> QED BY <2>1, <2>2
  <1>15. Lined(file, l, pos, n, m)
    BY <1>5, <1>9, <1>14 DEF Lined
  <1>16. L!Body(file) \in Seq(W)
    BY <1>4, <1>9, <1>10, BodyFacts
  <1>17. L!Lines(L!Body(file), n) = l
    BY <1>4, <1>9, <1>10, <1>15, LinedReturns
  <1> QED BY <1>4, <1>16, <1>17

-----------------------------------------------------------------------------
(* The editors. *)

\* During a save the boxes still hold what the text shown says.
Agreed ==
    mode = "saving" /\ shown # None =>
      \A k \in Kinds : LET f == <<shown[1], k>>
                       IN  Plain(f, texts[f][shown[2]]) = Plain(f, box[k])

\* A save has stored every file it has written, if the file can hold its texts.
Stored ==
    mode = "saving" =>
      \A f \in Files :
        Mine(f) /\ f # writing /\ f \notin Range(todo) /\ Fits(f, texts[f])
          => Says(f, files[f]) = Says(f, texts[f])

IInv == TypeOK /\ Agreed /\ Stored

-----------------------------------------------------------------------------
(* Scripts, files and blocks. *)

\* A file belongs to a script, whose blocks are its pages.
LEMMA FileFacts ==
  /\ \A f \in Files : f[1] \in Scripts /\ f[2] \in Kinds /\ f = <<f[1], f[2]>>
  /\ \A s \in Scripts, k \in Kinds : <<s, k>> \in Files /\ Pages(<<s, k>>) = DOMAIN Tags[s]
  BY DEF Files, Pages

\* The blocks of a script are counted from 1.
LEMMA BlockFacts ==
  /\ \A s \in Scripts : /\ Len(Tags[s]) \in Nat \ {0}
                        /\ DOMAIN Tags[s] = 1 .. Len(Tags[s])
  /\ \A s \in Scripts : \A b \in DOMAIN Tags[s] : <<s, b>> \in Blocks /\ <<s, b>> # None
  /\ \A h \in Blocks : h[1] \in Scripts /\ h[2] \in DOMAIN Tags[h[1]] /\ h = <<h[1], h[2]>>
  <1>1. ASSUME NEW s \in Scripts
        PROVE  Len(Tags[s]) \in Nat \ {0} /\ DOMAIN Tags[s] = 1 .. Len(Tags[s])
    <2>1. Tags[s] \in Seq(Range(Tags[s])) /\ Tags[s] # <<>>
      BY TagsAssumption
    <2> QED BY <2>1, EmptySeq, LenProperties
  <1>2. ASSUME NEW s \in Scripts, NEW b \in DOMAIN Tags[s]
        PROVE  <<s, b>> \in Blocks /\ <<s, b>> # None
    BY TagsAssumption DEF Blocks
  <1>3. ASSUME NEW h \in Blocks
        PROVE  h[1] \in Scripts /\ h[2] \in DOMAIN Tags[h[1]] /\ h = <<h[1], h[2]>>
    BY DEF Blocks
  <1> QED BY <1>1, <1>2, <1>3

\* The files of some scripts are all in their order, and no others.
LEMMA OrderFacts ==
  ASSUME NEW p \in Seq(Scripts)
  PROVE  /\ InOrder(p) \in Seq(Files)
         /\ \A i \in 1 .. Len(InOrder(p)) : InOrder(p)[i][1] \in Range(p)
         /\ \A f \in Files : f[1] \in Range(p) => f \in Range(InOrder(p))
  <1> DEFINE File(i) == <<p[(i + 1) \div 2], IF i % 2 = 1 THEN "english" ELSE "notes">>
  <1>1. Len(p) \in Nat /\ DOMAIN p = 1 .. Len(p) /\ \A j \in 1 .. Len(p) : p[j] \in Scripts
    BY LenProperties, ElementOfSeq
  <1>2. \A i \in 1 .. 2 * Len(p) : (i + 1) \div 2 \in 1 .. Len(p)
    BY <1>1
  <1>3. \A i \in 1 .. 2 * Len(p) : File(i) \in Files /\ File(i)[1] \in Range(p)
    BY <1>1, <1>2 DEF Files, Kinds, Range
  <1>4. InOrder(p) = [i \in 1 .. 2 * Len(p) |-> File(i)]
    BY DEF InOrder
  <1> HIDE DEF File
  <1>5. InOrder(p) \in Seq(Files) /\ Len(InOrder(p)) = 2 * Len(p)
    BY <1>1, <1>3, <1>4
  <1>6. \A i \in 1 .. Len(InOrder(p)) : InOrder(p)[i][1] \in Range(p)
    BY <1>3, <1>4, <1>5
  <1>7. ASSUME NEW f \in Files, f[1] \in Range(p)
        PROVE  f \in Range(InOrder(p))
    <2>1. PICK j \in 1 .. Len(p) : f[1] = p[j]
      BY <1>1, <1>7 DEF Range
    <2>2. CASE f[2] = "english"
      <3>1. 2 * j - 1 \in 1 .. 2 * Len(p) /\ (2 * j - 1 + 1) \div 2 = j /\ (2 * j - 1) % 2 = 1
        BY <1>1
      <3>2. File(2 * j - 1) = f
        BY <2>1, <2>2, <3>1, FileFacts DEF File
      <3> QED BY <1>4, <3>1, <3>2 DEF Range
    <2>3. CASE f[2] = "notes"
      <3>1. 2 * j \in 1 .. 2 * Len(p) /\ (2 * j + 1) \div 2 = j /\ (2 * j) % 2 # 1
        BY <1>1
      <3>2. File(2 * j) = f
        BY <2>1, <2>3, <3>1, FileFacts DEF File
      <3> QED BY <1>4, <3>1, <3>2 DEF Range
    <2> QED BY <2>2, <2>3, FileFacts DEF Kinds
  <1> QED BY <1>5, <1>6, <1>7

\* What remains to do begins with all files and ends with none.
LEMMA RemainsFacts ==
  ASSUME NEW p \in Seq(Scripts)
  PROVE  /\ Remains(p, <<>>, None) /\ Remains(p, InOrder(p), None)
         /\ \A t, w : Remains(p, t, w) =>
              /\ Remains(p, t, None)
              /\ w # None => w \in Files /\ w[1] \in Range(p)
              /\ t # <<>> => /\ Head(t) \in Files /\ Head(t)[1] \in Range(p)
                             /\ Remains(p, Tail(t), Head(t))
                             /\ Range(t) = Range(Tail(t)) \cup {Head(t)}
  <1> DEFINE all == InOrder(p)
  <1>1. all \in Seq(Files) /\ Len(all) \in Nat /\ \A i \in 1 .. Len(all) : all[i] \in Files
    BY OrderFacts, LenProperties, ElementOfSeq
  <1>2. Remains(p, <<>>, None)
    <2>1. SubSeq(all, Len(all) + 1, Len(all)) = <<>>
      BY <1>1, SubSeqEmpty
    <2> QED BY <1>1, <2>1 DEF Remains
  <1>3. Remains(p, all, None)
    <2>1. SubSeq(all, 0 + 1, Len(all)) = all
      BY <1>1, SubSeqFull
    <2> QED BY <1>1, <2>1 DEF Remains
  <1>4. ASSUME NEW t, NEW w, Remains(p, t, w)
        PROVE  /\ Remains(p, t, None)
               /\ w # None => w \in Files /\ w[1] \in Range(p)
               /\ t # <<>> => /\ Head(t) \in Files /\ Head(t)[1] \in Range(p)
                              /\ Remains(p, Tail(t), Head(t))
                              /\ Range(t) = Range(Tail(t)) \cup {Head(t)}
    <2>1. PICK n \in 0 .. Len(all) : /\ t = SubSeq(all, n + 1, Len(all))
                                     /\ w = None \/ (n > 0 /\ w = all[n])
      BY <1>4 DEF Remains
    <2>2. Remains(p, t, None)
      BY <2>1 DEF Remains
    <2>3. w # None => w \in Files /\ w[1] \in Range(p)
      BY <1>1, <2>1, OrderFacts
    <2>4. ASSUME t # <<>>
          PROVE  /\ Head(t) \in Files /\ Head(t)[1] \in Range(p)
                 /\ Remains(p, Tail(t), Head(t))
                 /\ Range(t) = Range(Tail(t)) \cup {Head(t)}
      <3>1. n + 1 \in 1 .. Len(all)
        BY <1>1, <2>1, <2>4, SubSeqEmpty
      <3>2. Head(t) = all[n + 1] /\ Tail(t) = SubSeq(all, n + 1 + 1, Len(all))
        BY <1>1, <2>1, <3>1, HeadTailOfSubSeq
      <3>3. Remains(p, Tail(t), Head(t))
        BY <3>1, <3>2 DEF Remains
      <3>4. t \in Seq(Files)
        BY <1>1, <2>1, SubSeqProperties
      <3>5. Range(t) = Range(Tail(t)) \cup {Head(t)}
        <4>1. /\ Len(t) \in Nat \ {0} /\ DOMAIN t = 1 .. Len(t) /\ Head(t) = t[1]
              /\ DOMAIN Tail(t) = 1 .. Len(t) - 1
              /\ \A i \in 1 .. Len(t) - 1 : Tail(t)[i] = t[i + 1]
          BY <2>4, <3>4, EmptySeq, LenProperties, HeadTailProperties
        <4>2. ASSUME NEW i \in 2 .. Len(t) PROVE t[i] \in Range(Tail(t))
          <5>1. i - 1 \in 1 .. Len(t) - 1 /\ t[i] = t[(i - 1) + 1]
            BY <4>1
          <5> QED BY <4>1, <5>1 DEF Range
        <4>3. \A i \in 1 .. Len(t) - 1 : i + 1 \in 1 .. Len(t)
          BY <4>1
        <4> QED BY <4>1, <4>2, <4>3, SMTT(30) DEF Range
      <3> QED BY <1>1, <3>1, <3>2, <3>3, <3>5, OrderFacts
    <2> QED BY <2>2, <2>3, <2>4
  <1> QED BY <1>2, <1>3, <1>4

-----------------------------------------------------------------------------
(* The types of the parts. *)

\* The scripts of the editor that runs.
LEMMA ProgramFacts ==
  /\ \A p \in Programs \cup {<<>>} : p \in Seq(Scripts) /\ Range(p) \subseteq Scripts
  /\ \A p \in Programs : p # <<>> /\ p[1] \in Range(p)
  <1>1. ASSUME NEW p \in Seq(Scripts)
        PROVE  Range(p) \subseteq Scripts /\ (p # <<>> => p[1] \in Range(p))
    <2>1. Len(p) \in Nat /\ DOMAIN p = 1 .. Len(p) /\ \A j \in 1 .. Len(p) : p[j] \in Scripts
      BY LenProperties, ElementOfSeq
    <2>2. p # <<>> => 1 \in 1 .. Len(p)
      BY EmptySeq
    <2> QED BY <2>1, <2>2 DEF Range
  <1>2. <<>> \in Seq(Scripts)
    BY EmptySeq
  <1> QED BY <1>1, <1>2, TagsAssumption

\* What is shown is a block of the editor that runs, and the boxes fit it.
LEMMA ShownFacts ==
  ASSUME TypeOK, shown # None
  PROVE  /\ shown[1] \in Range(program) /\ shown[1] \in Scripts
         /\ shown[2] \in DOMAIN Tags[shown[1]] /\ shown = <<shown[1], shown[2]>>
         /\ Count \in Nat \ {0} /\ DOMAIN Tags[shown[1]] = 1 .. Count
         /\ \A k \in Kinds : box[k] \in Text[<<shown[1], k>>][crashes]
  BY BlockFacts DEF TypeOK, Count

\* Copying the boxes back keeps the types, and leaves the other editors' texts.
LEMMA SaveBlockType ==
  ASSUME TypeOK
  PROVE  /\ DOMAIN SaveBlock = Files
         /\ \A f \in Files : /\ SaveBlock[f] \in Filled(f, crashes)
                             /\ ~Mine(f) => SaveBlock[f] = NoTexts[f]
  <1>1. ASSUME NEW f \in Files
        PROVE  /\ SaveBlock[f] \in Filled(f, crashes)
               /\ ~Mine(f) => SaveBlock[f] = NoTexts[f]
    <2>1. texts[f] \in Filled(f, crashes) /\ (~Mine(f) => texts[f] = NoTexts[f])
      BY DEF TypeOK
    <2>2. CASE shown # None /\ f[1] = shown[1]
      <3>1. SaveBlock[f] = [texts[f] EXCEPT ![shown[2]] = box[f[2]]]
        BY <2>2 DEF SaveBlock
      <3>2. box[f[2]] \in Text[f][crashes] /\ Mine(f)
        BY <2>2, FileFacts, ShownFacts DEF Mine
      <3> QED BY <2>1, <3>1, <3>2 DEF Filled
    <2>3. CASE ~(shown # None /\ f[1] = shown[1])
      BY <2>1, <2>3 DEF SaveBlock
    <2> QED BY <2>2, <2>3
  <1> QED BY <1>1 DEF SaveBlock

\* Every way to another block is a move to one.
LEMMA Moves ==
  ASSUME TypeOK,
         SelectScript \/ FirstBlock \/ BackBlock \/ NextBlock \/ LastBlock \/ SelectBlock \/ Seek
  PROVE  /\ Editing
         /\ \E s \in Range(program) : \E b \in DOMAIN Tags[s] : MoveTo(s, b)
  <1>1. Editing
    BY DEF SelectScript, FirstBlock, BackBlock, NextBlock, LastBlock, SelectBlock, Seek
  <1>2. Range(program) \subseteq Scripts
    BY ProgramFacts DEF TypeOK
  <1>3. CASE SelectScript
    BY <1>2, <1>3, BlockFacts DEF SelectScript
  <1>4. CASE FirstBlock \/ BackBlock \/ NextBlock \/ LastBlock \/ SelectBlock
    <2>1. shown # None
      BY <1>4 DEF FirstBlock, BackBlock, NextBlock, LastBlock, SelectBlock
    <2> QED BY <1>4, <2>1, ShownFacts DEF FirstBlock, BackBlock, NextBlock, LastBlock, SelectBlock
  <1>5. CASE Seek
    BY <1>5, BlockFacts DEF Seek
  <1> QED BY <1>1, <1>3, <1>4, <1>5

\* A move copies the boxes back, and fills them with texts of the same kind.
LEMMA MoveFacts ==
  ASSUME TypeOK, NEW s \in Range(program), NEW b \in DOMAIN Tags[s], MoveTo(s, b)
  PROVE  TypeOK' /\ SaveBlock' = SaveBlock /\ shown' # None
  <1>1. s \in Scripts
    BY ProgramFacts DEF TypeOK
  <1>2. UNCHANGED <<program, mode, edits, files, todo, writing, quitting, crashes>>
    BY DEF MoveTo, disk
  <1>3. texts' = SaveBlock /\ shown' = <<s, b>> /\ box' = BoxOf(texts', s, b)
    BY DEF MoveTo
  <1>4. /\ DOMAIN texts' = Files
        /\ \A f \in Files : texts'[f] \in Filled(f, crashes) /\ (~Mine(f) => texts'[f] = NoTexts[f])
    BY <1>3, SaveBlockType
  <1>5. shown' \in Blocks /\ shown' # None /\ shown'[1] = s /\ shown'[2] = b
    BY <1>1, <1>3, BlockFacts
  <1>6. /\ DOMAIN box' = Kinds
        /\ \A k \in Kinds : /\ box'[k] = texts'[<<s, k>>][b]
                            /\ box'[k] \in Text[<<s, k>>][crashes]
    <2>1. box' = [k \in Kinds |-> texts'[<<s, k>>][b]]
      BY <1>3 DEF BoxOf
    <2>2. \A k \in Kinds : texts'[<<s, k>>][b] \in Text[<<s, k>>][crashes]
      BY <1>1, <1>4, FileFacts DEF Filled
    <2> QED BY <2>1, <2>2
  <1>7. TypeOK'
    BY <1>2, <1>4, <1>5, <1>6 DEF TypeOK, Mine
  <1>8. SaveBlock' = texts'
    <2>1. ASSUME NEW f \in Files, f[1] = s
          PROVE  [texts'[f] EXCEPT ![b] = box'[f[2]]] = texts'[f]
      <3>1. texts'[f] \in Filled(f, crashes) /\ box'[f[2]] = texts'[f][b] /\ b \in Pages(f)
        BY <1>4, <1>6, <2>1, FileFacts
      <3> QED BY <3>1 DEF Filled
    <2>2. \A f \in Files : SaveBlock'[f] = texts'[f]
      BY <1>5, <2>1 DEF SaveBlock
    <2>3. SaveBlock' = [f \in Files |-> SaveBlock'[f]]
      BY DEF SaveBlock
    <2>4. texts' = [f \in Files |-> texts'[f]]
      BY <1>3 DEF SaveBlock
    <2> QED BY <2>2, <2>3, <2>4
  <1> QED BY <1>3, <1>5, <1>7, <1>8

-----------------------------------------------------------------------------
(* The invariant. *)

\* What TextsClosed says of the texts of this moment.
LEMMA TextFacts ==
  ASSUME TextsClosed, TypeOK, NEW f \in Files
  PROVE  /\ crashes \in 0 .. MaxCrashes
         /\ NoTexts[f] \in Filled(f, crashes)
         /\ TextsIn(f, Nothing(f)) \in Filled(f, crashes)
         /\ Typed(f) \subseteq Text[f][crashes]
         /\ \A t \in Text[f][crashes] : Kept(f, t) \in Text[f][crashes]
         /\ \A page \in Filled(f, crashes) : TextsIn(f, ContentsOf(f, page)) \in Filled(f, crashes)
         /\ crashes < MaxCrashes =>
              /\ Filled(f, crashes) \subseteq Filled(f, crashes + 1)
              /\ \A page \in Filled(f, crashes) : \A k \in 1 .. Len(ContentsOf(f, page)) :
                   TextsIn(f, SubSeq(ContentsOf(f, page), 1, k)) \in Filled(f, crashes + 1)
  <1>1. crashes \in 0 .. MaxCrashes
    BY DEF TypeOK
  <1>2. NoTexts[f] = [b \in Pages(f) |-> Nothing(f)]
    BY DEF NoTexts
  <1>3. Nothing(f) \in Text[f][crashes]
    BY <1>1 DEF TextsClosed
  <1>4. NoTexts[f] \in Filled(f, crashes)
    BY <1>2, <1>3 DEF Filled
  <1>5. crashes < MaxCrashes => Filled(f, crashes) \subseteq Filled(f, crashes + 1)
    BY <1>1 DEF TextsClosed, Filled
  <1> QED BY <1>1, <1>4, <1>5 DEF TextsClosed

\* When an editor closes there is nothing left of it.
LEMMA ClosedFacts ==
  ASSUME Closed,
         DOMAIN files' = Files, edits' \in 0 .. MaxEdits, crashes' \in 0 .. MaxCrashes,
         \A f \in Files : NoTexts[f] \in Filled(f, crashes') /\ files'[f] \in Filled(f, crashes')
  PROVE  TypeOK'
  <1>1. /\ program' = <<>> /\ mode' = "closed" /\ texts' = NoTexts
        /\ shown' = None /\ box' = Empty
        /\ todo' = <<>> /\ writing' = None /\ quitting' = FALSE
    BY DEF Closed
  <1>2. Remains(program', todo', writing')
    BY <1>1, ProgramFacts, RemainsFacts
  <1>3. DOMAIN box' = Kinds /\ \A k \in Kinds : box'[k] = None
    BY <1>1 DEF Empty
  <1>4. DOMAIN texts' = Files
    BY <1>1 DEF NoTexts
  <1> QED BY <1>1, <1>2, <1>3, <1>4 DEF TypeOK

\* Every step keeps the types.
LEMMA TypeStep == TextsClosed /\ TypeOK /\ [Next]_vars => TypeOK'
  <1> SUFFICES ASSUME TextsClosed, TypeOK, [Next]_vars
               PROVE  TypeOK'
    OBVIOUS
  <1>p. program \in Seq(Scripts) /\ Range(program) \subseteq Scripts
    BY ProgramFacts DEF TypeOK
  <1>1. CASE Start
    <2>1. /\ program' \in Programs /\ mode' = "editing"
          /\ UNCHANGED <<files, todo, writing, quitting, edits, crashes>>
          /\ todo = <<>> /\ writing = None
      BY <1>1 DEF Start, disk, TypeOK
    <2>2. program' \in Seq(Scripts) /\ Range(program') \subseteq Scripts /\ program' # <<>>
          /\ program'[1] \in Range(program') /\ Remains(program', <<>>, None)
      BY <2>1, ProgramFacts, RemainsFacts
    <2>3. /\ DOMAIN texts' = Files
          /\ \A f \in Files : /\ texts'[f] \in Filled(f, crashes)
                              /\ ~(f[1] \in Range(program')) => texts'[f] = NoTexts[f]
      <3>1. texts' = [f \in Files |-> IF f[1] \in Range(program') THEN files[f] ELSE NoTexts[f]]
        BY <1>1 DEF Start, Mine
      <3> QED BY <3>1, TextFacts DEF TypeOK
    <2>4. /\ shown' = <<program'[1], 1>> /\ shown' # None
          /\ shown' \in {h \in Blocks : h[1] \in Range(program')}
      BY <1>1, <2>2, BlockFacts DEF Start
    <2>5. DOMAIN box' = Kinds
          /\ \A k \in Kinds : box'[k] \in Text[<<program'[1], k>>][crashes]
      <3>1. box' = [k \in Kinds |-> texts'[<<program'[1], k>>][1]]
        BY <1>1 DEF Start, BoxOf
      <3>2. 1 \in DOMAIN Tags[program'[1]] /\ program'[1] \in Scripts
        BY <2>2, BlockFacts
      <3>3. \A k \in Kinds : texts'[<<program'[1], k>>][1] \in Text[<<program'[1], k>>][crashes]
        BY <2>3, <3>2, FileFacts DEF Filled
      <3> QED BY <3>1, <3>3
    <2>6. /\ \A k \in Kinds : IF shown' = None THEN box'[k] = None
                              ELSE box'[k] \in Text[<<shown'[1], k>>][crashes']
          /\ \A f \in Files : /\ texts'[f] \in Filled(f, crashes') /\ files'[f] \in Filled(f, crashes')
                              /\ ~Mine(f)' => texts'[f] = NoTexts[f]
      BY <2>1, <2>3, <2>4, <2>5 DEF TypeOK, Mine
    <2>7. ~quitting' /\ (quitting' \in BOOLEAN)
      BY <1>1, <2>1, Zenon DEF Start, TypeOK
    <2>8. mode' # "closed" /\ program' # <<>> /\ writing' = None /\ todo' = <<>>
      BY <2>1, <2>2
    <2> QED BY <2>1, <2>2, <2>3, <2>4, <2>5, <2>6, <2>7, <2>8 DEF TypeOK
  <1>2. CASE Type
    <2>1. /\ shown # None /\ edits < MaxEdits /\ edits' = edits + 1
          /\ UNCHANGED <<program, mode, texts, shown, files, todo, writing, quitting, crashes>>
      BY <1>2 DEF Type, disk
    <2>2. PICK k \in Kinds : \E t \in Typed(<<shown[1], k>>) : box' = [box EXCEPT ![k] = t]
      BY <1>2 DEF Type
    <2>3. Typed(<<shown[1], k>>) \subseteq Text[<<shown[1], k>>][crashes]
      BY <2>1, ShownFacts, FileFacts, TextFacts
    <2>4. DOMAIN box' = Kinds /\ \A j \in Kinds : box'[j] \in Text[<<shown[1], j>>][crashes]
      BY <2>1, <2>2, <2>3, ShownFacts DEF TypeOK
    <2>5. edits' \in 0 .. MaxEdits
      BY <2>1, TagsAssumption DEF TypeOK
    <2> QED BY <2>1, <2>4, <2>5 DEF TypeOK, Mine
  <1>3. CASE SelectScript \/ FirstBlock \/ BackBlock \/ NextBlock \/ LastBlock \/ SelectBlock \/ Seek
    BY <1>3, Moves, MoveFacts
  <1>4. CASE Deselect
    <2>1. /\ texts' = SaveBlock /\ shown' = None /\ box' = Empty
          /\ UNCHANGED <<program, mode, edits, files, todo, writing, quitting, crashes>>
      BY <1>4 DEF Deselect, disk
    <2>2. DOMAIN box' = Kinds /\ \A k \in Kinds : box'[k] = None
      BY <2>1 DEF Empty
    <2> QED BY <2>1, <2>2, SaveBlockType DEF TypeOK, Mine
  <1>5. ASSUME NEW quit \in BOOLEAN, Save(quit)
        PROVE  TypeOK'
    <2>1. /\ mode = "editing" /\ mode' = "saving" /\ todo' = InOrder(program) /\ quitting' = quit
          /\ texts' = [f \in Files |-> IF Mine(f) THEN [b \in Pages(f) |-> Kept(f, SaveBlock[f][b])]
                                                 ELSE texts[f]]
          /\ UNCHANGED <<program, shown, box, files, writing, edits, crashes>>
      BY <1>5 DEF Save, Editing
    <2>2. writing = None /\ Remains(program, todo', None)
      BY <1>p, <2>1, RemainsFacts DEF TypeOK
    <2>3. ASSUME NEW f \in Files
          PROVE  texts'[f] \in Filled(f, crashes) /\ (~Mine(f) => texts'[f] = NoTexts[f])
      <3>1. CASE Mine(f)
        BY <2>1, <3>1, SaveBlockType, TextFacts DEF Filled
      <3>2. CASE ~Mine(f)
        BY <2>1, <3>2 DEF TypeOK
      <3> QED BY <3>1, <3>2
    <2> QED BY <2>1, <2>2, <2>3 DEF TypeOK, Mine
  <1>6. CASE OpenFile
    <2>1. /\ mode = "saving" /\ todo # <<>> /\ writing' = Head(todo) /\ todo' = Tail(todo)
          /\ files' = [files EXCEPT ![writing'] = TextsIn(writing', Nothing(writing'))]
          /\ UNCHANGED <<program, mode, texts, shown, box, quitting, edits, crashes>>
      BY <1>6 DEF OpenFile
    <2>2. Head(todo) \in Files /\ Remains(program, todo', writing')
      BY <1>p, <2>1, RemainsFacts DEF TypeOK
    <2>3. DOMAIN files' = Files /\ \A f \in Files : files'[f] \in Filled(f, crashes)
      BY <2>1, <2>2, TextFacts DEF TypeOK
    <2> QED BY <2>1, <2>2, <2>3 DEF TypeOK, Mine
  <1>7. CASE WriteFile
    <2>1. /\ writing # None /\ writing' = None
          /\ files' = [files EXCEPT ![writing] = TextsIn(writing, ContentsOf(writing, texts[writing]))]
          /\ UNCHANGED <<program, mode, texts, shown, box, todo, quitting, edits, crashes>>
      BY <1>7 DEF WriteFile, Contents
    <2>2. writing \in Files /\ Remains(program, todo, None)
      BY <1>p, <2>1, RemainsFacts DEF TypeOK
    <2>3. DOMAIN files' = Files /\ \A f \in Files : files'[f] \in Filled(f, crashes)
      BY <2>1, <2>2, TextFacts DEF TypeOK
    <2> QED BY <2>1, <2>2, <2>3 DEF TypeOK, Mine
  <1>8. CASE Saved
    <2>1. CASE quitting
      <3>1. Closed /\ UNCHANGED <<files, edits, crashes>>
        BY <1>8, <2>1 DEF Saved
      <3> QED BY <3>1, ClosedFacts, TextFacts DEF TypeOK
    <2>2. CASE ~quitting
      BY <1>8, <2>2 DEF Saved, TypeOK, Mine
    <2> QED BY <2>1, <2>2
  <1>9. CASE Quit
    <2>1. Closed /\ UNCHANGED <<files, edits, crashes>>
      BY <1>9 DEF Quit
    <2> QED BY <2>1, ClosedFacts, TextFacts DEF TypeOK
  <1>10. CASE Crash
    <2>1. Closed /\ crashes < MaxCrashes /\ crashes' = crashes + 1 /\ edits' = edits
      BY <1>10 DEF Crash
    <2>2. crashes' \in 0 .. MaxCrashes /\ crashes + 1 \in 0 .. MaxCrashes
      BY <2>1, TagsAssumption DEF TypeOK
    <2>3. \A f \in Files : NoTexts[f] \in Filled(f, crashes + 1) /\ files[f] \in Filled(f, crashes + 1)
      BY <2>1, TextFacts DEF TypeOK
    <2>4. DOMAIN files' = Files /\ \A f \in Files : files'[f] \in Filled(f, crashes + 1)
      <3>1. CASE writing = None
        BY <1>10, <2>3, <3>1 DEF Crash, TypeOK
      <3>2. CASE writing # None
        <4>1. writing \in Files
          BY <1>p, <3>2, RemainsFacts DEF TypeOK
        <4>2. PICK n \in 1 .. Len(ContentsOf(writing, texts[writing])) :
                files' = [files EXCEPT ![writing] =
                            TextsIn(writing, SubSeq(ContentsOf(writing, texts[writing]), 1, n))]
          BY <1>10, <3>2 DEF Crash, Contents
        <4>3. TextsIn(writing, SubSeq(ContentsOf(writing, texts[writing]), 1, n))
                \in Filled(writing, crashes + 1)
          BY <2>1, <4>1, TextFacts DEF TypeOK
        <4> QED BY <2>3, <4>1, <4>2, <4>3 DEF TypeOK
      <3> QED BY <3>1, <3>2
    <2> QED BY <2>1, <2>2, <2>3, <2>4, ClosedFacts DEF TypeOK
  <1>11. CASE UNCHANGED vars
    BY <1>11 DEF vars, TypeOK, Mine
  <1> QED BY <1>1, <1>2, <1>3, <1>4, <1>5, <1>6, <1>7, <1>8, <1>9, <1>10, <1>11 DEF Next

\* What a step leaves of the two other parts of the invariant.
LEMMA InvStep == TextsClosed /\ FormatHolds /\ IInv /\ [Next]_vars => IInv'
  <1> SUFFICES ASSUME TextsClosed, FormatHolds, IInv, [Next]_vars
               PROVE  IInv'
    OBVIOUS
  <1>t. TypeOK /\ TypeOK'
    BY TypeStep DEF IInv
  <1>p. program \in Seq(Scripts)
    BY <1>t, ProgramFacts DEF TypeOK
  <1>n. crashes \in 0 .. MaxCrashes
    BY <1>t DEF TypeOK
  <1>1. ASSUME mode' # "saving"
        PROVE  Agreed' /\ Stored'
    BY <1>1 DEF Agreed, Stored
  <1>2. ASSUME NEW quit \in BOOLEAN, Save(quit)
        PROVE  Agreed' /\ Stored'
    <2>1. /\ todo' = InOrder(program)
          /\ texts' = [f \in Files |-> IF Mine(f) THEN [b \in Pages(f) |-> Kept(f, SaveBlock[f][b])]
                                                 ELSE texts[f]]
          /\ UNCHANGED <<program, shown, box>>
      BY <1>2 DEF Save
    <2>2. Stored'
      <3>1. \A f \in Files : Mine(f)' => f \in Range(todo')
        BY <1>p, <2>1, OrderFacts DEF Mine
      <3> QED BY <3>1 DEF Stored
    <2>3. ASSUME shown # None, NEW k \in Kinds, NEW f \in Files, f = <<shown[1], k>>
          PROVE  Plain(f, texts'[f][shown[2]]) = Plain(f, box[k])
      <3>1. /\ f[1] = shown[1] /\ f[2] = k /\ Mine(f) /\ shown[2] \in Pages(f)
            /\ box[k] \in Text[f][crashes]
        BY <1>t, <2>3, ShownFacts, FileFacts DEF Mine
      <3>2. SaveBlock[f] = [texts[f] EXCEPT ![shown[2]] = box[k]]
        BY <2>3, <3>1 DEF SaveBlock
      <3>3. SaveBlock[f][shown[2]] = box[k]
        BY <1>t, <3>1, <3>2 DEF TypeOK, Filled
      <3>4. texts'[f][shown[2]] = Kept(f, box[k])
        BY <2>1, <3>1, <3>3
      <3> QED BY <1>n, <3>1, <3>4 DEF FormatHolds
    <2>4. Agreed'
      BY <1>t, <2>1, <2>3, ShownFacts, FileFacts DEF Agreed
    <2> QED BY <2>2, <2>4
  <1>3. CASE OpenFile
    <2>1. /\ mode = "saving" /\ writing = None /\ todo # <<>>
          /\ writing' = Head(todo) /\ todo' = Tail(todo)
          /\ files' = [files EXCEPT ![writing'] = TextsIn(writing', Nothing(writing'))]
          /\ UNCHANGED <<program, mode, texts, shown, box>>
      BY <1>3 DEF OpenFile
    <2>2. Range(todo) = Range(todo') \cup {writing'}
      BY <1>p, <1>t, <2>1, RemainsFacts DEF TypeOK
    <2>3. \A f \in Files : f # writing
      BY <2>1, TagsAssumption
    <2>4. \A f \in Files : f # writing' => files'[f] = files[f]
      BY <1>t, <2>1 DEF TypeOK
    <2> QED BY <1>t, <2>1, <2>2, <2>3, <2>4 DEF IInv, Agreed, Stored, Mine
  <1>4. CASE WriteFile
    <2>1. /\ writing # None /\ writing' = None
          /\ files' = [files EXCEPT ![writing] = TextsIn(writing, ContentsOf(writing, texts[writing]))]
          /\ UNCHANGED <<program, mode, texts, shown, box, todo>>
      BY <1>4 DEF WriteFile, Contents
    <2>2. ASSUME NEW f \in Files, f = writing, Fits(f, texts[f])
          PROVE  Says(f, files'[f]) = Says(f, texts[f])
      <3>1. files'[f] = TextsIn(f, ContentsOf(f, texts[f])) /\ texts[f] \in Filled(f, crashes)
        BY <1>t, <2>1, <2>2 DEF TypeOK
      <3> QED BY <1>n, <2>2, <3>1 DEF FormatHolds
    <2>3. \A f \in Files : f # writing => files'[f] = files[f]
      BY <1>t, <2>1 DEF TypeOK
    <2> QED BY <1>t, <2>1, <2>2, <2>3 DEF IInv, Agreed, Stored, Mine
  <1>5. CASE UNCHANGED vars
    BY <1>t, <1>5 DEF vars, IInv, Agreed, Stored, Mine
  <1>6. mode' # "saving" \/ OpenFile \/ WriteFile \/ UNCHANGED vars
        \/ \E quit \in BOOLEAN : Save(quit)
    <2>1. CASE SelectScript \/ FirstBlock \/ BackBlock \/ NextBlock \/ LastBlock \/ SelectBlock \/ Seek
      <3>1. mode = "editing" /\ mode' = mode
        BY <1>t, <2>1, Moves DEF MoveTo, Editing
      <3> QED BY <3>1
    <2>2. CASE Start \/ Type \/ Deselect \/ Saved \/ Quit \/ Crash
      BY <2>2 DEF Start, Type, Deselect, Saved, Quit, Crash, Closed, Editing
    <2> QED BY <2>1, <2>2 DEF Next
  <1> QED BY <1>t, <1>1, <1>2, <1>3, <1>4, <1>5, <1>6 DEF IInv

-----------------------------------------------------------------------------
(* The notebook. *)

\* While a save runs, the texts in memory say what the translator sees.
LEMMA SavingSays ==
  ASSUME IInv, mode = "saving", NEW f \in Files, Mine(f)
  PROVE  Says(f, SaveBlock[f]) = Says(f, texts[f])
  <1>1. texts[f] \in [Pages(f) -> Text[f][crashes]]
    BY DEF IInv, TypeOK, Filled
  <1>2. CASE shown # None /\ f[1] = shown[1]
    <2>1. SaveBlock[f] = [texts[f] EXCEPT ![shown[2]] = box[f[2]]]
      BY <1>2 DEF SaveBlock
    <2>2. Plain(f, texts[f][shown[2]]) = Plain(f, box[f[2]])
      BY <1>2, FileFacts DEF IInv, Agreed
    <2>3. \A b \in Pages(f) : Plain(f, SaveBlock[f][b]) = Plain(f, texts[f][b])
      BY <1>1, <2>1, <2>2
    <2> QED BY <2>3 DEF Says
  <1>3. CASE ~(shown # None /\ f[1] = shown[1])
    BY <1>3 DEF SaveBlock
  <1> QED BY <1>2, <1>3

\* An editor opens on what the files say.
LEMMA OpenStep == IInv /\ Start => Book!Open
  <1> SUFFICES ASSUME IInv, Start
               PROVE  Book!Open
    OBVIOUS
  <1>1. /\ mode = "closed" /\ mode' = "editing" /\ program' \in Programs
        /\ texts' = [f \in Files |-> IF f[1] \in Range(program') THEN files[f] ELSE NoTexts[f]]
        /\ shown' = <<program'[1], 1>>
        /\ box' = [k \in Kinds |-> texts'[<<program'[1], k>>][1]]
        /\ UNCHANGED <<files, writing>>
    BY DEF Start, BoxOf, disk, Mine
  <1>2. program = <<>>
    BY <1>1 DEF IInv, TypeOK
  <1>3. OnDisk' = OnDisk
    BY <1>1 DEF OnDisk
  <1>4. \A f \in Files : AsSeen[f] = OnDisk[f]
    <2>1. \A f \in Files : ~Mine(f)
      BY <1>2, EmptySeq DEF Mine, Range
    <2> QED BY <2>1 DEF AsSeen
  <1>5. ASSUME NEW f \in Files
        PROVE  AsSeen'[f] = OnDisk[f]
    <2>1. CASE f[1] \in Range(program')
      <3>1. texts'[f] = files[f] /\ files[f] \in Filled(f, crashes)
        BY <1>1, <2>1 DEF IInv, TypeOK
      <3>2. SaveBlock'[f] = files[f]
        <4>1. CASE f[1] = program'[1]
          <5>1. box'[f[2]] = files[f][1]
            BY <1>1, <3>1, <4>1, FileFacts
          <5>2. SaveBlock'[f] = [files[f] EXCEPT ![1] = box'[f[2]]]
            <6>1. shown' # None /\ shown'[1] = program'[1] /\ shown'[2] = 1
              BY <1>1, <4>1, FileFacts, BlockFacts
            <6> QED BY <3>1, <4>1, <6>1 DEF SaveBlock
          <5> QED BY <3>1, <5>1, <5>2 DEF Filled
        <4>2. CASE f[1] # program'[1]
          BY <1>1, <3>1, <4>2 DEF SaveBlock
        <4> QED BY <4>1, <4>2
      <3> QED BY <2>1, <3>2 DEF AsSeen, OnDisk, Mine
    <2>2. CASE f[1] \notin Range(program')
      BY <1>3, <2>2 DEF AsSeen, Mine
    <2> QED BY <2>1, <2>2
  <1>6. AsSeen' = AsSeen
    BY <1>4, <1>5 DEF AsSeen
  <1> QED BY <1>1, <1>3, <1>6 DEF Book!Open

\* Typing replaces the text shown.
LEMMA EditStep == IInv /\ Type => Book!Edit
  <1> SUFFICES ASSUME IInv, Type
               PROVE  Book!Edit
    OBVIOUS
  <1>1. /\ mode = "editing" /\ shown # None
        /\ UNCHANGED <<program, mode, texts, shown, files, writing>>
    BY DEF Type, Editing, disk
  <1>2. PICK k \in Kinds : \E t : box' = [box EXCEPT ![k] = t]
    BY DEF Type
  <1> DEFINE g == <<shown[1], k>>
             p == shown[2]
  <1>3. g \in Files /\ p \in Pages(g) /\ g[1] = shown[1] /\ g[2] = k /\ Mine(g)
    BY <1>1, ShownFacts, FileFacts DEF IInv, Mine
  <1>4. \A j \in Kinds : j # k => box'[j] = box[j]
    BY <1>2 DEF IInv, TypeOK
  <1>5. OnDisk' = OnDisk
    BY <1>1 DEF OnDisk
  <1>6. \A f \in Files : f # g => AsSeen'[f] = AsSeen[f]
    <2>1. ASSUME NEW f \in Files, f # g
          PROVE  SaveBlock'[f] = SaveBlock[f]
      <3>1. f[1] = shown[1] => box'[f[2]] = box[f[2]]
        BY <1>4, <2>1, FileFacts
      <3> QED BY <1>1, <3>1 DEF SaveBlock
    <2> QED BY <1>1, <1>5, <2>1 DEF AsSeen, Mine
  <1>7. \A b \in Pages(g) : b # p => AsSeen'[g][b] = AsSeen[g][b]
    <2>1. texts[g] \in [Pages(g) -> Text[g][crashes]]
      BY <1>3 DEF IInv, TypeOK, Filled
    <2>2. /\ SaveBlock[g] = [texts[g] EXCEPT ![p] = box[k]]
          /\ SaveBlock'[g] = [texts[g] EXCEPT ![p] = box'[k]]
      BY <1>1, <1>3 DEF SaveBlock
    <2>3. \A b \in Pages(g) : b # p => SaveBlock'[g][b] = SaveBlock[g][b]
      BY <2>1, <2>2
    <2> QED BY <1>1, <1>3, <2>3 DEF AsSeen, Says, Mine
  <1> HIDE DEF g, p
  <1>8. AsSeen' = [AsSeen EXCEPT ![g][p] = AsSeen'[g][p]]
    <2>1. /\ AsSeen = [f \in Files |-> AsSeen[f]] /\ AsSeen' = [f \in Files |-> AsSeen'[f]]
      BY DEF AsSeen
    <2>2. /\ AsSeen[g] = [b \in Pages(g) |-> AsSeen[g][b]]
          /\ AsSeen'[g] = [b \in Pages(g) |-> AsSeen'[g][b]]
      BY <1>1, <1>3 DEF AsSeen, Says, Mine
    <2>3. AsSeen'[g] = [AsSeen[g] EXCEPT ![p] = AsSeen'[g][p]]
      BY <1>3, <1>7, <2>2
    <2> QED BY <1>3, <1>6, <2>1, <2>3
  <1> QED BY <1>1, <1>3, <1>5, <1>8 DEF Book!Edit

\* A save changes no text that is seen, and opens each file in turn, ...
LEMMA SaveStep == ASSUME FormatHolds, IInv, IInv', NEW quit \in BOOLEAN, Save(quit)
                  PROVE  Book!Save
  <1>1. /\ mode = "editing" /\ mode' = "saving"
        /\ texts' = [f \in Files |-> IF Mine(f) THEN [b \in Pages(f) |-> Kept(f, SaveBlock[f][b])]
                                               ELSE texts[f]]
        /\ UNCHANGED <<program, shown, box, files, writing, crashes>>
    BY DEF Save, Editing
  <1>2. OnDisk' = OnDisk
    BY <1>1 DEF OnDisk
  <1>3. ASSUME NEW f \in Files, Mine(f)
        PROVE  Says(f, SaveBlock'[f]) = Says(f, SaveBlock[f])
    <2>1. SaveBlock[f] \in [Pages(f) -> Text[f][crashes]] /\ crashes \in 0 .. MaxCrashes
      BY SaveBlockType DEF IInv, TypeOK, Filled
    <2>2. \A b \in Pages(f) : Plain(f, texts'[f][b]) = Plain(f, SaveBlock[f][b])
      BY <1>1, <1>3, <2>1 DEF FormatHolds
    <2>3. Says(f, texts'[f]) = Says(f, SaveBlock[f])
      BY <2>2 DEF Says
    <2>4. Says(f, SaveBlock'[f]) = Says(f, texts'[f])
      <3>1. CASE shown # None /\ f[1] = shown[1]
        <4>1. SaveBlock'[f] = [texts'[f] EXCEPT ![shown[2]] = box[f[2]]]
          BY <1>1, <3>1 DEF SaveBlock
        <4>2. Plain(f, texts'[f][shown[2]]) = Plain(f, box[f[2]])
          <5>1. mode' = "saving" /\ shown' # None /\ shown' = shown /\ box' = box
            BY <1>1, <3>1
          <5>2. f[2] \in Kinds /\ f = <<shown[1], f[2]>>
            BY <3>1, FileFacts
          <5>3. Plain(<<shown[1], f[2]>>, texts'[<<shown[1], f[2]>>][shown[2]])
                  = Plain(<<shown[1], f[2]>>, box[f[2]])
            BY <5>1, <5>2 DEF IInv, Agreed
          <5> QED BY <5>2, <5>3
        <4>3. texts'[f] = [b \in Pages(f) |-> Kept(f, SaveBlock[f][b])]
          BY <1>1, <1>3
        <4>4. \A b \in Pages(f) : Plain(f, SaveBlock'[f][b]) = Plain(f, texts'[f][b])
          BY <4>1, <4>2, <4>3
        <4> QED BY <4>4 DEF Says
      <3>2. CASE ~(shown # None /\ f[1] = shown[1])
        BY <1>1, <3>2 DEF SaveBlock
      <3> QED BY <3>1, <3>2
    <2> QED BY <2>3, <2>4
  <1>4. AsSeen' = AsSeen
    BY <1>1, <1>2, <1>3 DEF AsSeen, Mine
  <1> QED BY <1>1, <1>2, <1>4 DEF Book!Save

\* Opening a file begins it in the notebook.
LEMMA BeginStep == IInv /\ OpenFile => \E f \in Files : Book!BeginFile(f)
  <1> SUFFICES ASSUME IInv, OpenFile
               PROVE  \E f \in Files : Book!BeginFile(f)
    OBVIOUS
  <1>1. /\ mode = "saving" /\ writing = None /\ todo # <<>> /\ writing' = Head(todo)
        /\ files' = [files EXCEPT ![writing'] = TextsIn(writing', Nothing(writing'))]
        /\ UNCHANGED <<program, mode, texts, shown, box>>
    BY DEF OpenFile
  <1>2. Head(todo) \in Files /\ Mine(Head(todo))
    BY <1>1, ProgramFacts, RemainsFacts DEF IInv, TypeOK, Mine
  <1>3. \A f \in Files : f # Head(todo) => files'[f] = files[f]
    BY <1>1 DEF IInv, TypeOK
  <1>4. \A f \in Files : f # Head(todo) => OnDisk'[f] = OnDisk[f]
    BY <1>3 DEF OnDisk
  <1>5. AsSeen' = AsSeen
    BY <1>1, <1>2, <1>4 DEF AsSeen, SaveBlock, Mine
  <1> QED BY <1>1, <1>2, <1>4, <1>5 DEF Book!BeginFile, Book!OnlyIn

\* ... stores in it what is seen, ...
LEMMA EndStep == FormatHolds /\ IInv /\ WriteFile => \E f \in Files : Book!EndFile(f)
  <1> SUFFICES ASSUME FormatHolds, IInv, WriteFile
               PROVE  \E f \in Files : Book!EndFile(f)
    OBVIOUS
  <1>1. /\ writing # None /\ writing' = None
        /\ files' = [files EXCEPT ![writing] = TextsIn(writing, ContentsOf(writing, texts[writing]))]
        /\ UNCHANGED <<program, mode, texts, shown, box>>
    BY DEF WriteFile, Contents
  <1>2. writing \in Files /\ Mine(writing) /\ mode = "saving"
    BY <1>1, ProgramFacts, RemainsFacts DEF IInv, TypeOK, Mine
  <1>3. \A f \in Files : f # writing => OnDisk'[f] = OnDisk[f]
    BY <1>1 DEF IInv, TypeOK, OnDisk
  <1>4. AsSeen' = AsSeen
    BY <1>1, <1>2, <1>3 DEF AsSeen, SaveBlock, Mine
  <1>5. AsSeen[writing] = Says(writing, texts[writing])
    BY <1>2, SavingSays DEF AsSeen
  <1>6. ASSUME \A b \in Pages(writing) : ~Unfit(writing, AsSeen[writing][b])
        PROVE  OnDisk'[writing] = AsSeen[writing]
    <2>1. Fits(writing, texts[writing])
      BY <1>5, <1>6 DEF Fits, Says
    <2>2. texts[writing] \in Filled(writing, crashes) /\ crashes \in 0 .. MaxCrashes
      BY <1>2 DEF IInv, TypeOK
    <2>3. files'[writing] = TextsIn(writing, ContentsOf(writing, texts[writing]))
      BY <1>1, <1>2 DEF IInv, TypeOK
    <2>4. Says(writing, files'[writing]) = Says(writing, texts[writing])
      BY <1>2, <2>1, <2>2, <2>3 DEF FormatHolds
    <2> QED BY <1>2, <1>5, <2>4 DEF OnDisk
  <1> QED BY <1>1, <1>2, <1>3, <1>4, <1>6 DEF Book!EndFile, Book!OnlyIn, Book!Clean

\* ... and is over when every file that can holds its texts.
LEMMA SavedStep == IInv /\ Saved => Book!Saved
  <1> SUFFICES ASSUME IInv, Saved
               PROVE  Book!Saved
    OBVIOUS
  <1>1. mode = "saving" /\ writing = None /\ todo = <<>> /\ files' = files
    BY DEF Saved
  <1>2. OnDisk' = OnDisk
    BY <1>1 DEF OnDisk
  <1>3. ASSUME NEW f \in Files, \A b \in Pages(f) : ~Unfit(f, AsSeen[f][b])
        PROVE  OnDisk[f] = AsSeen[f]
    <2>1. CASE Mine(f)
      <3>1. AsSeen[f] = Says(f, texts[f])
        BY <1>1, <2>1, SavingSays DEF AsSeen
      <3>2. Fits(f, texts[f])
        BY <1>3, <3>1 DEF Fits, Says
      <3>3. f # writing /\ f \notin Range(todo)
        BY <1>1, EmptySeq, TagsAssumption DEF Range
      <3> QED BY <1>1, <2>1, <3>1, <3>2, <3>3 DEF IInv, Stored, OnDisk
    <2>2. CASE ~Mine(f)
      BY <2>2 DEF AsSeen
    <2> QED BY <2>1, <2>2
  <1>4. CASE quitting
    <2>1. Closed
      BY <1>4 DEF Saved
    <2>2. AsSeen' = OnDisk
      <3>1. \A f \in Files : ~Mine(f)'
        BY <2>1, EmptySeq DEF Closed, Mine, Range
      <3>2. AsSeen' = [f \in Files |-> OnDisk[f]]
        BY <1>2, <3>1 DEF AsSeen
      <3> QED BY <3>2 DEF OnDisk
    <2> QED BY <1>1, <1>2, <1>3, <2>1, <2>2 DEF Closed, Book!Saved, Book!Clean
  <1>5. CASE ~quitting
    <2>1. mode' = "editing" /\ UNCHANGED <<program, texts, shown, box, writing>>
      BY <1>5 DEF Saved
    <2>2. AsSeen' = AsSeen
      BY <1>2, <2>1 DEF AsSeen, SaveBlock, Mine
    <2> QED BY <1>1, <1>2, <1>3, <2>1, <2>2 DEF Book!Saved, Book!Clean
  <1> QED BY <1>4, <1>5

\* Of an editor that closes only the files are left.
LEMMA ForgetStep ==
  ASSUME IInv, Closed, mode # "closed",
         \A f \in Files : f # writing => files'[f] = files[f]
  PROVE  Book!Forget
  <1>1. \A f \in Files \ {writing} : OnDisk'[f] = OnDisk[f]
    BY DEF OnDisk
  <1>2. AsSeen' = OnDisk'
    <2>1. \A f \in Files : ~Mine(f)'
      BY EmptySeq DEF Closed, Mine, Range
    <2>2. AsSeen' = [f \in Files |-> OnDisk'[f]]
      BY <2>1 DEF AsSeen
    <2> QED BY <2>2 DEF OnDisk
  <1> QED BY <1>1, <1>2 DEF Closed, Book!Forget, Book!OnlyIn

\* A step of an editor is a step of the notebook, or none.
LEMMA BookStep ==
  FormatHolds /\ IInv /\ IInv' /\ [Next]_vars => [Book!Next]_(Book!vars)
  <1> SUFFICES ASSUME FormatHolds, IInv, IInv', [Next]_vars
               PROVE  Book!Next \/ UNCHANGED Book!vars
    OBVIOUS
  <1>1. CASE SelectScript \/ FirstBlock \/ BackBlock \/ NextBlock \/ LastBlock \/ SelectBlock \/ Seek
    <2>1. PICK s \in Range(program) : \E b \in DOMAIN Tags[s] : MoveTo(s, b)
      BY <1>1, Moves DEF IInv
    <2>2. SaveBlock' = SaveBlock
      BY <2>1, MoveFacts DEF IInv
    <2>3. UNCHANGED <<program, mode, files, writing>>
      BY <2>1 DEF MoveTo, disk
    <2> QED BY <2>2, <2>3 DEF Book!vars, AsSeen, OnDisk, Mine
  <1>2. CASE Deselect
    <2>1. /\ texts' = SaveBlock /\ shown' = None
          /\ UNCHANGED <<program, mode, files, writing>>
      BY <1>2 DEF Deselect, disk
    <2>2. SaveBlock' = SaveBlock
      BY <2>1 DEF SaveBlock
    <2> QED BY <2>1, <2>2 DEF Book!vars, AsSeen, OnDisk, Mine
  <1>3. CASE Quit
    <2>1. Closed /\ mode = "editing" /\ files' = files
      BY <1>3 DEF Quit, Editing
    <2> QED BY <2>1, ForgetStep DEF Book!Next
  <1>4. CASE Crash
    <2>1. Closed /\ mode # "closed"
      BY <1>4 DEF Crash
    <2>2. \A f \in Files : f # writing => files'[f] = files[f]
      BY <1>4 DEF Crash, IInv, TypeOK
    <2> QED BY <2>1, <2>2, ForgetStep DEF Book!Next
  <1>5. CASE UNCHANGED vars
    BY <1>5 DEF vars, Book!vars, AsSeen, OnDisk, SaveBlock, Mine
  <1>6. CASE \E quit \in BOOLEAN : Save(quit)
    BY <1>6, SaveStep DEF Book!Next
  <1>7. CASE Start \/ Type \/ OpenFile \/ WriteFile \/ Saved
    BY <1>7, OpenStep, EditStep, BeginStep, EndStep, SavedStep DEF Book!Next
  <1> QED BY <1>1, <1>2, <1>3, <1>4, <1>5, <1>6, <1>7 DEF Next

-----------------------------------------------------------------------------
(* The theorems. *)

\* The first state has the types.
LEMMA TypeInit == TextsClosed /\ Init => TypeOK
  <1> SUFFICES ASSUME TextsClosed, Init
               PROVE  TypeOK
    OBVIOUS
  <1>1. 0 \in 0 .. MaxCrashes /\ 0 \in 0 .. MaxEdits
    BY TagsAssumption
  <1>2. \A f \in Files : NoTexts[f] \in Filled(f, 0) /\ TextsIn(f, Nothing(f)) \in Filled(f, 0)
    <2>1. \A f \in Files : Nothing(f) \in Text[f][0] /\ TextsIn(f, Nothing(f)) \in Filled(f, 0)
      BY <1>1 DEF TextsClosed
    <2> QED BY <2>1 DEF NoTexts, Filled
  <1>3. Remains(<<>>, <<>>, None)
    BY ProgramFacts, RemainsFacts
  <1> QED BY <1>1, <1>2, <1>3 DEF Init, TypeOK, NoTexts, Empty

\* The first state is the notebook's first.
LEMMA BookInit == TextsClosed /\ FormatHolds /\ Init => IInv /\ Book!Init
  <1> SUFFICES ASSUME TextsClosed, FormatHolds, Init
               PROVE  IInv /\ Book!Init
    OBVIOUS
  <1>1. 0 \in 0 .. MaxCrashes
    BY TagsAssumption
  <1>2. IInv
    BY TypeInit DEF Init, IInv, Agreed, Stored
  <1>3. OnDisk = [f \in Files |-> [b \in Pages(f) |-> Nothing(f)]]
    BY <1>1 DEF Init, OnDisk, FormatHolds
  <1>4. AsSeen = OnDisk
    <2>1. \A f \in Files : ~Mine(f)
      BY EmptySeq DEF Init, Mine, Range
    <2>2. AsSeen = [f \in Files |-> OnDisk[f]]
      BY <2>1 DEF AsSeen
    <2> QED BY <2>2 DEF OnDisk
  <1> QED BY <1>2, <1>3, <1>4 DEF Init, Book!Init

\* The editors keep their types, if nothing but texts comes of the texts that
\* are typed, saved and read: a text box belongs to a block of the editor that
\* runs, and what a save has yet to write is a rest of its files in order
\* (script-editor.cpp, list-editor.cpp).
THEOREM TypeCorrect == TextsClosed => (Spec => []TypeOK)
  <1> SUFFICES ASSUME TextsClosed
               PROVE  Spec => []TypeOK
    OBVIOUS
  <1>1. Init => TypeOK
    BY TypeInit
  <1>2. TypeOK /\ [Next]_vars => TypeOK'
    BY TypeStep
  <1> QED BY <1>1, <1>2, PTL DEF Spec

\* The editors are the notebook, if their formats hold texts as FormatHolds says:
\* moving about changes no text, an edit changes the one shown, a save stores
\* every text the files can hold and changes none, and a crash damages the file
\* being written only (script-editor.cpp, list-editor.cpp).
THEOREM Refinement == TextsClosed /\ FormatHolds => (Spec => ImplementsNotebook)
  <1> SUFFICES ASSUME TextsClosed, FormatHolds
               PROVE  Spec => Book!Spec
    BY DEF ImplementsNotebook
  <1>1. Init => IInv /\ Book!Init
    BY BookInit
  <1>2. IInv /\ [Next]_vars => IInv'
    BY InvStep
  <1>3. IInv /\ IInv' /\ [Next]_vars => [Book!Next]_(Book!vars)
    BY BookStep
  <1> QED BY <1>1, <1>2, <1>3, PTL DEF Spec, Book!Spec

-----------------------------------------------------------------------------
(* The formats of the files. *)

\* The texts of a file are those of T, and its contents those of C: what is read
\* are texts, and is read again when it has been written; what a file can hold is
\* read as it was written, and what a save keeps says the same.
Holds(f, T, C) ==
  /\ \A n \in 0 .. MaxCrashes : Text[f][n] = T
  /\ Nothing(f) \in T /\ Nothing(f) \in C /\ Typed(f) \subseteq T
  /\ Says(f, TextsIn(f, Nothing(f))) = [b \in Pages(f) |-> Nothing(f)]
  /\ \A t \in T : Kept(f, t) \in T /\ Plain(f, Kept(f, t)) = Plain(f, t)
  /\ \A file \in C : LET page == TextsIn(f, file)
                      IN  page \in [Pages(f) -> T] /\ TextsIn(f, ContentsOf(f, page)) = Says(f, page)
  /\ \A page \in [Pages(f) -> T] :
       LET file == ContentsOf(f, page)
       IN  /\ file \in C /\ \A k \in 1 .. Len(file) : SubSeq(file, 1, k) \in C
           /\ Fits(f, page) => Says(f, TextsIn(f, file)) = Says(f, page)

\* The file f is one of a script, in lines of W, and a text is any of these.
ScriptFormat(f, W) ==
  /\ EmptyLine \in W /\ EndLine \in W
  /\ Tagged(Tags[f[1]], Len(Tags[f[1]]), W)
  /\ Typed(f) \subseteq TextsOf(W) /\ \A n \in 0 .. MaxCrashes : Text[f][n] = TextsOf(W)
  /\ Nothing(f) = Blank
  /\ \A file \in TextsOf(W) : TextsIn(f, file) = Load(file, Tags[f[1]])
  /\ \A page \in [Pages(f) -> TextsOf(W)] : ContentsOf(f, page) = Format(Tags[f[1]], page)
  /\ \A t \in TextsOf(W) : /\ Kept(f, t) = Trim(t) /\ Plain(f, t) = Trim(t)
                           /\ Unfit(f, t) <=> Splits(t)

\* The texts of a list, of words of W: an entry has no newline.
ListTexts(kind, W) == IF kind = "notes" THEN Seq(W) ELSE {t \in Seq(W) : Unbroken(t)}

\* The file f is one of a list.
ListFormat(f, W) ==
  /\ L!NewLine \in W /\ L!Mark \in W
  /\ Typed(f) \subseteq ListTexts(f[2], W)
  /\ \A n \in 0 .. MaxCrashes : Text[f][n] = ListTexts(f[2], W)
  /\ Nothing(f) = <<>>
  /\ \A file \in Seq(W) : TextsIn(f, file) = L!LoadLines(f[2], file, Len(Tags[f[1]]))
  /\ \A page \in [Pages(f) -> ListTexts(f[2], W)] : ContentsOf(f, page) = L!FormatLines(f[2], page)
  /\ \A t \in ListTexts(f[2], W) :
       /\ Kept(f, t) = L!KeptLine(f[2], t)
       /\ Plain(f, t) = IF f[2] = "notes" THEN Meaning(t) ELSE t

\* The files are those of scripts and lists.
Formats(W) == \A f \in Files : ScriptFormat(f, W) \/ ListFormat(f, W)

\* The blocks of a file are counted from 1.
LEMMA PageFacts ==
  ASSUME NEW f \in Files
  PROVE  Len(Tags[f[1]]) \in Nat \ {0} /\ Pages(f) = 1 .. Len(Tags[f[1]])
  <1>1. f[1] \in Scripts
    BY FileFacts
  <1> QED BY <1>1, BlockFacts DEF Pages

\* A file that is empty holds no text.
LEMMA BlankReads ==
  ASSUME NEW W, EmptyLine \in W, EndLine \in W, NEW n \in Nat \ {0}, NEW tags, Tagged(tags, n, W)
  PROVE  Blank \in TextsOf(W) /\ Load(Blank, tags) = [k \in 1 .. n |-> Blank]
  <1>1. Blank \in Seq(W) /\ Blank # <<>> /\ Len(Blank) = 1 /\ Blank[1] = EmptyLine
    BY DEF Blank
  <1>2. PICK S : S = Separators(Blank) /\ Separating(S, Blank)
    BY <1>1, SeparatorFacts
  <1>3. S = {}
    <2>1. \A i \in S : i \in 2 .. 1 - 2
      BY <1>1, <1>2 DEF Separating
    <2> QED BY <2>1
  <1>4. DOMAIN tags = 1 .. n /\ \A k \in 1 .. n : tags[k] # EmptyLine
    BY DEF Tagged
  <1>5. \A k \in 1 .. n : Found(Blank, S, tags[k]) = Blank
    <2> SUFFICES ASSUME NEW k \in 1 .. n
                 PROVE  Found(Blank, S, tags[k]) = Blank
      OBVIOUS
    <2>1. Starts(S) = {1}
      BY <1>3 DEF Starts
    <2>2. Pieces(Blank, S, tags[k]) = {}
      BY <1>1, <1>4, <2>1 DEF Pieces
    <2> QED BY <2>2 DEF Found
  <1>6. Load(Blank, tags) = [k \in 1 .. n |-> Found(Blank, S, tags[k])]
    BY <1>2, <1>4, LoadIs
  <1> QED BY <1>1, <1>5, <1>6 DEF TextsOf

\* The first lines of a file are those of a file.
LEMMA CutFacts ==
  ASSUME NEW W, NEW file \in Seq(W), NEW k \in 1 .. Len(file)
  PROVE  SubSeq(file, 1, k) \in TextsOf(W)
  <1>1. PICK len \in Nat : len = Len(file)
    BY LenProperties
  <1>2. 1 \in Int /\ k \in Int /\ 1 <= k /\ k - 1 + 1 # 0 /\ \A i \in 1 .. k : i \in 1 .. len
    BY <1>1
  <1>3. \A i \in 1 .. k : file[i] \in W
    BY <1>1, <1>2, ElementOfSeq
  <1>4. PICK r : r = SubSeq(file, 1, k)
    OBVIOUS
  <1>5. r \in Seq(W) /\ Len(r) # 0
    BY <1>2, <1>3, <1>4, SubSeqProperties
  <1> QED BY <1>4, <1>5, EmptySeq DEF TextsOf

\* The files of scripts keep their texts.
LEMMA ScriptHolds ==
  ASSUME NEW W, NEW f \in Files, ScriptFormat(f, W)
  PROVE  Holds(f, TextsOf(W), TextsOf(W))
  <1>t. PICK tags : tags = Tags[f[1]]
    OBVIOUS
  <1>1. PICK n \in Nat \ {0} : n = Len(tags) /\ Pages(f) = 1 .. n /\ Tagged(tags, n, W)
    BY <1>t, PageFacts DEF ScriptFormat
  <1>2. /\ EmptyLine \in W /\ EndLine \in W
        /\ \A file \in TextsOf(W) : TextsIn(f, file) = Load(file, tags)
        /\ \A page \in [1 .. n -> TextsOf(W)] : ContentsOf(f, page) = Format(tags, page)
    BY <1>t, <1>1 DEF ScriptFormat
  <1>3. /\ \A k \in 0 .. MaxCrashes : Text[f][k] = TextsOf(W)
        /\ Nothing(f) = Blank /\ Typed(f) \subseteq TextsOf(W)
        /\ \A t \in TextsOf(W) : /\ Kept(f, t) = Trim(t) /\ Plain(f, t) = Trim(t)
                                 /\ Unfit(f, t) <=> Splits(t)
    BY DEF ScriptFormat
  <1>4. \A t \in TextsOf(W) : Trim(t) \in TextsOf(W) /\ Trim(Trim(t)) = Trim(t)
    BY <1>2, TrimFacts, TrimAgain
  <1>5. ASSUME NEW page \in [1 .. n -> TextsOf(W)], \A b \in 1 .. n : ~Splits(page[b])
        PROVE  TextsIn(f, ContentsOf(f, page)) = [b \in 1 .. n |-> Trim(page[b])]
    <2>1. PICK file : file = ContentsOf(f, page) /\ file = Format(tags, page)
      BY <1>2
    <2>2. tags \in [1 .. n -> W]
      BY <1>1 DEF Tagged
    <2>3. file \in TextsOf(W)
      BY <1>2, <2>1, <2>2, FormatLaid
    <2> QED BY <1>1, <1>2, <1>5, <2>1, <2>3, ScriptsReturn
  <1>6. \A page \in [1 .. n -> TextsOf(W)] : Says(f, page) = [b \in 1 .. n |-> Trim(page[b])]
    BY <1>1, <1>3 DEF Says
  <1>7. Blank \in TextsOf(W) /\ Says(f, TextsIn(f, Nothing(f))) = [b \in Pages(f) |-> Nothing(f)]
    <2>1. Blank \in TextsOf(W) /\ TextsIn(f, Blank) = [b \in 1 .. n |-> Blank]
      BY <1>1, <1>2, BlankReads
    <2>2. Trim(Blank) = Blank
      BY DEF Trim, Blank
    <2> QED BY <1>1, <1>3, <2>1, <2>2 DEF Says
  <1>8. ASSUME NEW file \in TextsOf(W), NEW page, page = TextsIn(f, file)
        PROVE  page \in [Pages(f) -> TextsOf(W)] /\ TextsIn(f, ContentsOf(f, page)) = Says(f, page)
    <2>1. page = Load(file, tags)
      BY <1>2, <1>8
    <2>2. page \in [1 .. n -> TextsOf(W)] /\ \A b \in 1 .. n : ~Splits(page[b])
      BY <1>1, <1>2, <2>1, ReadFits
    <2> QED BY <1>1, <1>5, <1>6, <2>2
  <1>9. ASSUME NEW page \in [Pages(f) -> TextsOf(W)], NEW file, file = ContentsOf(f, page)
        PROVE  /\ file \in TextsOf(W) /\ \A k \in 1 .. Len(file) : SubSeq(file, 1, k) \in TextsOf(W)
               /\ Fits(f, page) => Says(f, TextsIn(f, file)) = Says(f, page)
    <2>1. page \in [1 .. n -> TextsOf(W)] /\ file = Format(tags, page)
      BY <1>1, <1>2, <1>9
    <2>2. tags \in [1 .. n -> W]
      BY <1>1 DEF Tagged
    <2>3. file \in TextsOf(W)
      BY <1>2, <2>1, <2>2, FormatLaid
    <2>4. \A k \in 1 .. Len(file) : SubSeq(file, 1, k) \in TextsOf(W)
      <3>1. file \in Seq(W)
        BY <2>3 DEF TextsOf
      <3> QED BY <3>1, CutFacts
    <2>5. ASSUME Fits(f, page)
          PROVE  Says(f, TextsIn(f, file)) = Says(f, page)
      <3>1. \A b \in 1 .. n : page[b] \in TextsOf(W) /\ Plain(f, page[b]) = Trim(page[b])
        BY <1>3, <2>1
      <3>2. \A b \in 1 .. n : ~Splits(page[b])
        <4> SUFFICES ASSUME NEW b \in 1 .. n
                     PROVE  ~Splits(page[b])
          OBVIOUS
        <4>1. ~Unfit(f, Trim(page[b]))
          BY <1>1, <2>5, <3>1 DEF Fits
        <4>2. ~Splits(Trim(page[b]))
          BY <1>3, <1>4, <3>1, <4>1
        <4>3. PICK t : t = page[b] /\ t \in TextsOf(W)
          BY <3>1
        <4>4. Trim(Trim(t)) = Trim(t)
          BY <1>4, <4>3
        <4>5. Splits(t) => Splits(Trim(t))
          <5> DEFINE Cut(u) == \E i \in 1 .. Len(u) - 1 : u[i] = EndLine /\ u[i + 1] = EmptyLine
          <5>1. (Splits(t) <=> Cut(Trim(t))) /\ (Splits(Trim(t)) <=> Cut(Trim(Trim(t))))
            BY DEF Splits
          <5> HIDE DEF Cut
          <5> QED BY <4>4, <5>1
        <4> QED BY <4>2, <4>3, <4>5
      <3>3. PICK read : read = [b \in 1 .. n |-> Trim(page[b])] /\ read = TextsIn(f, file)
        BY <1>5, <1>9, <2>1, <3>2
      <3>4. read \in [1 .. n -> TextsOf(W)] /\ \A b \in 1 .. n : Trim(read[b]) = Trim(page[b])
        BY <1>4, <3>1, <3>3
      <3>5. Says(f, read) = Says(f, page)
        BY <1>6, <2>1, <3>4
      <3> QED BY <3>3, <3>5
    <2> QED BY <2>3, <2>4, <2>5
  <1>10. /\ Nothing(f) \in TextsOf(W)
         /\ \A t \in TextsOf(W) : Kept(f, t) \in TextsOf(W) /\ Plain(f, Kept(f, t)) = Plain(f, t)
    BY <1>3, <1>4, <1>7
  <1> QED BY <1>3, <1>7, <1>8, <1>9, <1>10 DEF Holds

\* The line of a text of a list, and what is read from it.
LEMMA ListTextFacts ==
  ASSUME NEW W, L!NewLine \in W, L!Mark \in W, NEW kind \in Kinds, NEW t \in ListTexts(kind, W),
         NEW k, k = L!KeptLine(kind, t)
  PROVE  k \in Seq(W) /\ Unbroken(k) /\ k \in ListTexts(kind, W)
  <1>1. CASE kind = "notes"
    <2>1. t \in Seq(W) /\ k = L!KeptLine("notes", t)
      BY <1>1 DEF ListTexts
    <2>2. PICK v : v = L!Replace(k, L!Mark, L!NewLine)
      OBVIOUS
    <2>3. k \in Seq(W) /\ \A i \in 1 .. Len(k) : k[i] # L!NewLine
      BY <2>1, <2>2, NotesFacts
    <2> QED BY <1>1, <2>3 DEF ListTexts, Unbroken
  <1>2. CASE kind # "notes"
    BY <1>2 DEF ListTexts, L!KeptLine
  <1> QED BY <1>1, <1>2

\* What is read from a line.
ReadLine(kind, line) == IF kind = "notes" THEN L!Replace(line, L!Mark, L!NewLine) ELSE line

\* The files of lists keep their texts.
LEMMA ListHolds ==
  ASSUME NEW W, NEW f \in Files, ListFormat(f, W)
  PROVE  Holds(f, ListTexts(f[2], W), Seq(W))
  <1>n. PICK n \in Nat \ {0} : n = Len(Tags[f[1]]) /\ Pages(f) = 1 .. n
    BY PageFacts
  <1>k. PICK kind \in Kinds : kind = f[2]
    BY FileFacts
  <1>e. <<>> \in Seq(W)
    BY EmptySeq
  <1>T. PICK T : T = ListTexts(kind, W) /\ T \subseteq Seq(W)
    BY DEF ListTexts
  <1>1. /\ L!NewLine \in W /\ L!Mark \in W
        /\ \A k \in 0 .. MaxCrashes : Text[f][k] = T
        /\ Nothing(f) = <<>> /\ Typed(f) \subseteq T
        /\ \A file \in Seq(W) : TextsIn(f, file) = L!LoadLines(kind, file, n)
        /\ \A page \in [1 .. n -> T] : ContentsOf(f, page) = L!FormatLines(kind, page)
        /\ \A t \in T : Kept(f, t) = L!KeptLine(kind, t)
        /\ \A t \in T : Plain(f, t) = IF kind = "notes" THEN Meaning(t) ELSE t
    BY <1>n, <1>k, <1>T DEF ListFormat
  <1>2. ASSUME NEW t \in T, NEW k, k = L!KeptLine(kind, t), NEW v, v = ReadLine(kind, k)
        PROVE  /\ k \in Seq(W) /\ Unbroken(k) /\ k \in T /\ Plain(f, k) = Plain(f, t)
               /\ v \in T /\ Plain(f, v) = Plain(f, t)
               /\ (kind = "notes" => \A i \in 1 .. Len(t) : t[i] # L!Mark) => v = Plain(f, t)
    <2>1. k \in Seq(W) /\ Unbroken(k) /\ k \in T
      BY <1>1, <1>2, <1>T, ListTextFacts
    <2>2. CASE kind = "notes"
      <3>1. /\ t \in Seq(W) /\ T = Seq(W) /\ k = L!KeptLine("notes", t)
            /\ v = L!Replace(k, L!Mark, L!NewLine)
        BY <1>2, <1>T, <2>2 DEF ListTexts, ReadLine
      <3>2. /\ v \in Seq(W) /\ Meaning(k) = Meaning(t) /\ Meaning(v) = Meaning(t)
            /\ (\A i \in 1 .. Len(t) : t[i] # L!Mark) => v = Meaning(t)
        BY <1>1, <3>1, NotesFacts
      <3>3. Plain(f, t) = Meaning(t) /\ Plain(f, k) = Meaning(k) /\ Plain(f, v) = Meaning(v)
        BY <1>1, <2>1, <2>2, <3>1, <3>2
      <3> QED BY <2>1, <2>2, <3>1, <3>2, <3>3
    <2>3. CASE kind # "notes"
      <3>1. k = t /\ v = t
        BY <1>2, <2>3 DEF L!KeptLine, ReadLine
      <3>2. Plain(f, t) = t
        BY <1>1, <2>3
      <3> QED BY <2>1, <3>1, <3>2
    <2> QED BY <2>2, <2>3
  <1>3. ASSUME NEW file \in Seq(W)
        PROVE  L!Body(file) \in Seq(W)
    <2>1. CASE file # <<>> /\ file[Len(file)] = L!NewLine
      <3>1. PICK len \in Nat : len = Len(file) /\ len # 0
        BY <2>1, LenProperties, EmptySeq
      <3>2. PICK m \in Nat : m = len - 1 /\ len = m + 1
        BY <3>1
      <3> QED BY <2>1, <3>1, <3>2, BodyFacts
    <2>2. CASE ~(file # <<>> /\ file[Len(file)] = L!NewLine)
      BY <2>2 DEF L!Body, L!Last
    <2> QED BY <2>1, <2>2
  <1>4. ASSUME NEW file \in Seq(W), NEW body, body = L!Body(file)
        PROVE  TextsIn(f, file) = [b \in 1 .. n |-> ReadLine(kind, L!Lines(body, n)[b])]
    BY <1>1, <1>4 DEF L!LoadLines, ReadLine
  <1>5. ASSUME NEW line \in Seq(W), Unbroken(line), NEW v, v = ReadLine(kind, line)
        PROVE  v \in T /\ (kind = "notes" => \A i \in 1 .. Len(v) : v[i] # L!Mark)
    <2>1. CASE kind = "notes"
      <3>1. T = Seq(W) /\ v = L!Replace(line, L!Mark, L!NewLine)
        BY <1>5, <1>T, <2>1 DEF ListTexts, ReadLine
      <3>2. /\ v \in Seq(W) /\ Len(v) = Len(line)
            /\ \A i \in 1 .. Len(line) : v[i] = IF line[i] = L!Mark THEN L!NewLine ELSE line[i]
        BY <1>1, <3>1, ReplaceFacts
      <3>3. L!NewLine # L!Mark
        BY DEF L!NewLine, L!Mark
      <3> QED BY <3>1, <3>2, <3>3
    <2>2. CASE kind # "notes"
      BY <1>5, <1>T, <2>2 DEF ListTexts, ReadLine
    <2> QED BY <2>1, <2>2
  <1>6. ASSUME NEW file \in Seq(W), NEW page, page = TextsIn(f, file)
        PROVE  page \in [1 .. n -> T]
               /\ \A b \in 1 .. n : kind = "notes" => \A i \in 1 .. Len(page[b]) : page[b][i] # L!Mark
    <2>1. PICK body \in Seq(W) : body = L!Body(file)
      BY <1>3
    <2>2. \A b \in 1 .. n : L!Lines(body, n)[b] \in Seq(W) /\ Unbroken(L!Lines(body, n)[b])
      BY <2>1, LinesUnbroken
    <2>3. page = [b \in 1 .. n |-> ReadLine(kind, L!Lines(body, n)[b])]
      BY <1>4, <1>6, <2>1
    <2> QED BY <1>5, <2>2, <2>3
  <1>7. ASSUME NEW page \in [1 .. n -> T], NEW file, file = ContentsOf(f, page)
        PROVE  /\ file \in Seq(W)
               /\ TextsIn(f, file) = [b \in 1 .. n |-> ReadLine(kind, L!KeptLine(kind, page[b]))]
    <2>1. PICK l : l = [b \in 1 .. n |-> L!KeptLine(kind, page[b])]
      OBVIOUS
    <2>2. l \in [1 .. n -> Seq(W)] /\ \A b \in 1 .. n : Unbroken(l[b])
      BY <1>2, <2>1
    <2>q. PICK q : q = [b \in 1 .. n |-> Ended(l[b])]
      OBVIOUS
    <2>3. file = FlattenSeq(q)
      <3>1. file = L!FlattenSeq([b \in DOMAIN page |-> Ended(L!KeptLine(kind, page[b]))])
        BY <1>1, <1>7 DEF L!FormatLines, Ended
      <3>2. q = [b \in DOMAIN page |-> Ended(L!KeptLine(kind, page[b]))]
        BY <2>1, <2>q
      <3>3. file = L!FlattenSeq(q)
        BY <3>1, <3>2
      <3>4. L!FlattenSeq(q) = FlattenSeq(q)
        BY DEF L!FlattenSeq, FlattenSeq
      <3> QED BY <3>3, <3>4
    <2>4. file \in Seq(W) /\ L!Lines(L!Body(file), n) = l
      <3>1. L!NewLine \in W
        BY <1>1
      <3>q. AllEnded(q, l, n)
        BY <2>q DEF AllEnded
      <3>2. /\ file \in Seq(W) /\ L!Body(file) \in Seq(W)
            /\ L!Lines(L!Body(file), n) = l
        <4>1. ASSUME NEW qq, AllEnded(qq, l, n), NEW ff, ff = FlattenSeq(qq)
              PROVE  ff \in Seq(W) /\ L!Body(ff) \in Seq(W) /\ L!Lines(L!Body(ff), n) = l
          <5>1. L!NewLine \in W /\ l \in [1 .. n -> Seq(W)] /\ n \in Nat \ {0}
            BY <2>2, <3>1
          <5>2. \A k \in 1 .. n : Unbroken(l[k])
            BY <2>2
          <5> QED BY <4>1, <5>1, <5>2, LinesReturn, SMTT(60)
        <4> QED BY <2>3, <3>q, <4>1
      <3> QED BY <3>2
    <2>5. TextsIn(f, file) = [b \in 1 .. n |-> ReadLine(kind, l[b])]
      BY <1>4, <2>4
    <2> QED BY <2>1, <2>4, <2>5
  <1>8. Says(f, TextsIn(f, <<>>)) = [b \in 1 .. n |-> <<>>]
    <2>0. L!Body(<<>>) = <<>>
      BY DEF L!Body
    <2>e. PICK body : body = <<>> /\ body \in Seq(W)
      BY <1>e
    <2>1. body = L!Body(<<>>) /\ Len(body) = 0
      BY <2>0, <2>e
    <2>n. PICK count \in Nat : count = n
      OBVIOUS
    <2>3. \A b \in 1 .. n : L!Lines(body, n)[b] = <<>>
      BY <2>e, <2>1, <2>n, NoLines
    <2>4. ReadLine(kind, <<>>) = <<>>
      <3>1. L!Replace(<<>>, L!Mark, L!NewLine) = <<>>
        BY DEF L!Replace
      <3> QED BY <3>1 DEF ReadLine
    <2>5. <<>> \in T /\ Plain(f, <<>>) = <<>>
      <3>1. <<>> \in T
        BY <1>T DEF ListTexts, Unbroken
      <3>2. Meaning(<<>>) = <<>>
        <4>1. L!Replace(<<>>, L!Mark, L!NewLine) = <<>>
          BY DEF L!Replace
        <4>r. PICK r : r = <<>> /\ r \in Seq(W)
          BY <1>e
        <4>2. r = <<>> /\ Len(r) = 0
          BY <4>r
        <4>3. 0 \in 0 .. Len(r) /\ Trimmed(r, 0)
          BY <4>2 DEF Trimmed
        <4>4. L!Trim(r) = SubSeq(r, 1, 0)
          BY <4>r, <4>3, TrimmedFacts
        <4>5. SubSeq(r, 1, 0) = <<>>
          BY SubSeqEmpty
        <4> QED BY <4>1, <4>2, <4>4, <4>5 DEF Meaning
      <3> QED BY <1>1, <3>1, <3>2
    <2>6. TextsIn(f, <<>>) = [b \in 1 .. n |-> <<>>]
      <3>1. TextsIn(f, body) = [b \in 1 .. n |-> ReadLine(kind, L!Lines(body, n)[b])]
        <4>1. body \in Seq(W) /\ body = L!Body(body)
          BY <2>e, <2>1
        <4> QED BY <1>4, <4>1
      <3> QED BY <2>e, <2>3, <2>4, <3>1
    <2> QED BY <1>n, <2>5, <2>6 DEF Says
  <1>9. \A page \in [1 .. n -> T] : Says(f, page) = [b \in 1 .. n |-> Plain(f, page[b])]
    BY <1>n DEF Says
  <1>10. ASSUME NEW file \in Seq(W), NEW page, page = TextsIn(f, file)
         PROVE  page \in [Pages(f) -> T] /\ TextsIn(f, ContentsOf(f, page)) = Says(f, page)
    <2>1. page \in [1 .. n -> T]
          /\ \A b \in 1 .. n : kind = "notes" => \A i \in 1 .. Len(page[b]) : page[b][i] # L!Mark
      BY <1>6, <1>10
    <2>2. \A b \in 1 .. n : ReadLine(kind, L!KeptLine(kind, page[b])) = Plain(f, page[b])
      BY <1>2, <2>1
    <2>3. TextsIn(f, ContentsOf(f, page)) = [b \in 1 .. n |-> ReadLine(kind, L!KeptLine(kind, page[b]))]
      BY <1>7, <2>1
    <2> QED BY <1>n, <1>9, <2>1, <2>2, <2>3
  <1>11. ASSUME NEW page \in [Pages(f) -> T], NEW file, file = ContentsOf(f, page)
         PROVE  /\ file \in Seq(W) /\ \A k \in 1 .. Len(file) : SubSeq(file, 1, k) \in Seq(W)
                /\ Says(f, TextsIn(f, file)) = Says(f, page)
    <2>1. page \in [1 .. n -> T]
      BY <1>n
    <2>2. PICK read : /\ read = [b \in 1 .. n |-> ReadLine(kind, L!KeptLine(kind, page[b]))]
                      /\ read = TextsIn(f, file) /\ file \in Seq(W)
      BY <1>7, <1>11, <2>1
    <2>3. \A b \in 1 .. n : /\ ReadLine(kind, L!KeptLine(kind, page[b])) \in T
                            /\ Plain(f, ReadLine(kind, L!KeptLine(kind, page[b]))) = Plain(f, page[b])
      BY <1>2, <2>1
    <2>4. read \in [1 .. n -> T] /\ \A b \in 1 .. n : Plain(f, read[b]) = Plain(f, page[b])
      BY <2>2, <2>3
    <2>5. Says(f, read) = Says(f, page)
      BY <1>9, <2>1, <2>4
    <2>6. \A k \in 1 .. Len(file) : SubSeq(file, 1, k) \in Seq(W)
      BY <2>2, CutFacts DEF TextsOf
    <2> QED BY <2>2, <2>5, <2>6
  <1>12. /\ <<>> \in T /\ <<>> \in Seq(W)
         /\ \A t \in T : Kept(f, t) \in T /\ Plain(f, Kept(f, t)) = Plain(f, t)
    <2>1. <<>> \in T /\ <<>> \in Seq(W)
      BY <1>T DEF ListTexts, Unbroken
    <2> QED BY <1>1, <1>2, <2>1
  <1>13. Holds(f, T, Seq(W))
    BY <1>n, <1>1, <1>8, <1>10, <1>11, <1>12 DEF Holds
  <1> QED BY <1>k, <1>T, <1>13

-----------------------------------------------------------------------------
(* Saving again. *)

\* The formats keep their texts.
LEMMA FormatsHold ==
  ASSUME NEW T, NEW C, \A f \in Files : Holds(f, T[f], C[f])
  PROVE  TextsClosed /\ FormatHolds
  <1>1. ASSUME NEW f \in Files, NEW n \in 0 .. MaxCrashes
        PROVE  /\ Nothing(f) \in Text[f][n] /\ Typed(f) \subseteq Text[f][n]
               /\ TextsIn(f, Nothing(f)) \in Filled(f, n)
               /\ \A t \in Text[f][n] : Kept(f, t) \in Text[f][n]
               /\ \A page \in Filled(f, n) : TextsIn(f, ContentsOf(f, page)) \in Filled(f, n)
               /\ n < MaxCrashes =>
                    /\ Text[f][n] \subseteq Text[f][n + 1]
                    /\ \A page \in Filled(f, n) : \A k \in 1 .. Len(ContentsOf(f, page)) :
                         TextsIn(f, SubSeq(ContentsOf(f, page), 1, k)) \in Filled(f, n + 1)
    <2>1. Text[f][n] = T[f] /\ Filled(f, n) = [Pages(f) -> T[f]]
      BY DEF Holds, Filled
    <2>2. /\ Nothing(f) \in T[f] /\ Nothing(f) \in C[f] /\ Typed(f) \subseteq T[f]
          /\ \A t \in T[f] : Kept(f, t) \in T[f]
          /\ \A file \in C[f] : TextsIn(f, file) \in [Pages(f) -> T[f]]
          /\ \A page \in [Pages(f) -> T[f]] :
               /\ ContentsOf(f, page) \in C[f]
               /\ \A k \in 1 .. Len(ContentsOf(f, page)) : SubSeq(ContentsOf(f, page), 1, k) \in C[f]
      BY DEF Holds
    <2>3. ASSUME n < MaxCrashes
          PROVE  Text[f][n + 1] = T[f] /\ Filled(f, n + 1) = [Pages(f) -> T[f]]
      <3>1. n + 1 \in 0 .. MaxCrashes
        BY <2>3, TagsAssumption
      <3> QED BY <3>1 DEF Holds, Filled
    <2> QED BY <2>1, <2>2, <2>3
  <1>2. ASSUME NEW f \in Files, NEW n \in 0 .. MaxCrashes
        PROVE  /\ Says(f, TextsIn(f, Nothing(f))) = [b \in Pages(f) |-> Nothing(f)]
               /\ \A t \in Text[f][n] : Plain(f, Kept(f, t)) = Plain(f, t)
               /\ \A page \in Filled(f, n) :
                    Fits(f, page) => Says(f, TextsIn(f, ContentsOf(f, page))) = Says(f, page)
    <2>1. Text[f][n] = T[f] /\ Filled(f, n) = [Pages(f) -> T[f]]
      BY DEF Holds, Filled
    <2> QED BY <2>1 DEF Holds
  <1> QED BY <1>1, <1>2 DEF TextsClosed, FormatHolds

\* What is on disk has been read from a file, with contents of C.
Readable(C) == \A f \in Files : \E file \in C[f] : files[f] = TextsIn(f, file)

\* Opening, writing and tearing a file leave contents on disk that can be read.
LEMMA ReadableStep ==
  ASSUME NEW T, NEW C, \A f \in Files : Holds(f, T[f], C[f]), TypeOK, Readable(C), [Next]_vars
  PROVE  Readable(C)'
  <1>p. program \in Seq(Scripts)
    BY ProgramFacts DEF TypeOK
  <1>s. ASSUME NEW f \in Files
        PROVE  /\ Nothing(f) \in C[f] /\ ContentsOf(f, texts[f]) \in C[f]
               /\ \A k \in 1 .. Len(ContentsOf(f, texts[f])) : SubSeq(ContentsOf(f, texts[f]), 1, k) \in C[f]
    <2>1. crashes \in 0 .. MaxCrashes /\ texts[f] \in Filled(f, crashes)
      BY DEF TypeOK
    <2>2. texts[f] \in [Pages(f) -> T[f]]
      BY <2>1 DEF Filled, Holds
    <2> QED BY <2>2 DEF Holds
  <1>1. ASSUME NEW f \in Files, NEW file \in C[f], files' = [files EXCEPT ![f] = TextsIn(f, file)]
        PROVE  Readable(C)'
    <2>1. DOMAIN files = Files
      BY DEF TypeOK
    <2> QED BY <1>1, <2>1 DEF Readable
  <1>2. CASE UNCHANGED files
    BY <1>2 DEF Readable
  <1>3. CASE OpenFile
    <2>1. /\ todo # <<>> /\ writing' = Head(todo)
          /\ files' = [files EXCEPT ![writing'] = TextsIn(writing', Nothing(writing'))]
      BY <1>3 DEF OpenFile
    <2>2. Head(todo) \in Files
      BY <1>p, <2>1, RemainsFacts DEF TypeOK
    <2>3. Nothing(Head(todo)) \in C[Head(todo)]
      BY <1>s, <2>2
    <2> QED BY <1>1, <2>1, <2>2, <2>3
  <1>4. CASE WriteFile
    <2>1. /\ writing # None
          /\ files' = [files EXCEPT ![writing] = TextsIn(writing, ContentsOf(writing, texts[writing]))]
      BY <1>4 DEF WriteFile, Contents
    <2>2. writing \in Files
      BY <1>p, <2>1, RemainsFacts DEF TypeOK
    <2>3. ContentsOf(writing, texts[writing]) \in C[writing]
      BY <1>s, <2>2
    <2> QED BY <1>1, <2>1, <2>2, <2>3
  <1>5. CASE Crash
    <2>1. CASE writing = None
      <3>1. files' = files
        BY <1>5, <2>1 DEF Crash
      <3> QED BY <1>2, <3>1
    <2>2. CASE writing # None
      <3>1. writing \in Files
        BY <1>p, <2>2, RemainsFacts DEF TypeOK
      <3>2. PICK n \in 1 .. Len(ContentsOf(writing, texts[writing])) :
              files' = [files EXCEPT ![writing] =
                          TextsIn(writing, SubSeq(ContentsOf(writing, texts[writing]), 1, n))]
        BY <1>5, <2>2 DEF Crash, Contents
      <3>3. SubSeq(ContentsOf(writing, texts[writing]), 1, n) \in C[writing]
        BY <1>s, <3>1
      <3> QED BY <1>1, <3>1, <3>2, <3>3
    <2> QED BY <2>1, <2>2
  <1>6. CASE SelectScript \/ FirstBlock \/ BackBlock \/ NextBlock \/ LastBlock \/ SelectBlock \/ Seek
    BY <1>2, <1>6, Moves DEF MoveTo, disk
  <1>7. CASE Start \/ Type \/ Deselect
    BY <1>2, <1>7 DEF Start, Type, Deselect, disk
  <1>8. CASE Save(TRUE) \/ Save(FALSE) \/ Saved \/ Quit \/ UNCHANGED vars
    BY <1>2, <1>8 DEF Save, Saved, Quit, vars
  <1> QED BY <1>3, <1>4, <1>5, <1>6, <1>7, <1>8 DEF Next

\* What has been read says the same when it has been saved.
LEMMA ReadableKeeps ==
  ASSUME NEW T, NEW C, \A f \in Files : Holds(f, T[f], C[f]), Readable(C)
  PROVE  ResaveKeepsTexts
  <1>1. ASSUME NEW f \in Files
        PROVE  TextsIn(f, ContentsOf(f, files[f])) = Says(f, files[f])
    <2>1. PICK file \in C[f] : files[f] = TextsIn(f, file)
      BY DEF Readable
    <2> QED BY <2>1 DEF Holds
  <1> QED BY <1>1, FormatsHold DEF ResaveKeepsTexts

\* The formats of the program, each with its texts and the contents of its files.
LEMMA ProgramHolds ==
  ASSUME NEW W, Formats(W)
  PROVE  \E T, C : \A f \in Files : Holds(f, T[f], C[f])
  <1>1. PICK T : T = [f \in Files |-> IF ScriptFormat(f, W) THEN TextsOf(W) ELSE ListTexts(f[2], W)]
    OBVIOUS
  <1>2. PICK C : C = [f \in Files |-> IF ScriptFormat(f, W) THEN TextsOf(W) ELSE Seq(W)]
    OBVIOUS
  <1>3. ASSUME NEW f \in Files
        PROVE  Holds(f, T[f], C[f])
    <2>1. CASE ScriptFormat(f, W)
      <3>1. T[f] = TextsOf(W) /\ C[f] = TextsOf(W)
        BY <1>1, <1>2, <2>1
      <3> QED BY <2>1, <3>1, ScriptHolds
    <2>2. CASE ~ScriptFormat(f, W)
      <3>1. T[f] = ListTexts(f[2], W) /\ C[f] = Seq(W)
        BY <1>1, <1>2, <2>2
      <3>2. ListFormat(f, W)
        BY <2>2 DEF Formats
      <3> QED BY <3>1, <3>2, ListHolds
    <2> QED BY <2>1, <2>2
  <1> QED BY <1>3

\* Whatever state the files of the scripts and lists are in, opening an editor and
\* saving at once changes nothing they say (load against save, script-editor.cpp
\* and list-editor.cpp).
THEOREM ResaveCorrect ==
  ASSUME NEW W, Formats(W)
  PROVE  Spec => []ResaveKeepsTexts
  <1>1. PICK T, C : \A f \in Files : Holds(f, T[f], C[f])
    BY ProgramHolds
  <1>2. TextsClosed
    BY <1>1, FormatsHold
  <1>3. Init => TypeOK /\ Readable(C)
    <2> SUFFICES ASSUME Init
                 PROVE  TypeOK /\ Readable(C)
      OBVIOUS
    <2>1. TypeOK
      BY <1>2, TypeInit
    <2>2. ASSUME NEW f \in Files
          PROVE  files[f] = TextsIn(f, Nothing(f)) /\ Nothing(f) \in C[f]
      BY <1>1 DEF Init, Holds
    <2> QED BY <2>1, <2>2 DEF Readable
  <1>4. TypeOK /\ Readable(C) /\ [Next]_vars => TypeOK' /\ Readable(C)'
    BY <1>1, <1>2, TypeStep, ReadableStep
  <1>5. Readable(C) => ResaveKeepsTexts
    BY <1>1, ReadableKeeps
  <1> QED BY <1>3, <1>4, <1>5, PTL DEF Spec

\* The two editors, with the formats of the program, are the notebook: moving
\* about changes no text, an edit changes the one shown, a save stores every text
\* the files can hold and changes none, and a crash damages the file being written
\* only (script-editor.cpp, list-editor.cpp).
THEOREM EditorsRefine ==
  ASSUME NEW W, Formats(W)
  PROVE  Spec => ImplementsNotebook
  <1>1. PICK T, C : \A f \in Files : Holds(f, T[f], C[f])
    BY ProgramHolds
  <1>2. TextsClosed /\ FormatHolds
    BY <1>1, FormatsHold
  <1> QED BY <1>2, Refinement
=============================================================================
