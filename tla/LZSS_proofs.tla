----------------------------- MODULE LZSS_proofs -----------------------------
(***************************************************************************)
(* What compressLZSS packs decompressLZSS restores, for every input: the   *)
(* decompressor takes each cell for what the compressor wrote there        *)
(* (WholeRead), and what it has written is what was compressed             *)
(* (RoundTrip), as long as the data is not longer than its size can tell.  *)
(*                                                                         *)
(* The argument follows one plan of the whole data from the search to the  *)
(* last cell: the codepoints C, of which the first i stand for the first   *)
(* cov[i] bytes and end at position nxt[i] of the data.  A byte of flags   *)
(* precedes the codepoints 1, FlagBits + 1, ...; those up to K are in full *)
(* groups and make the first block, fewer than FlagBits are left for a     *)
(* second one.                                                             *)
(*                                                                         *)
(* Types need no plan: that no position leaves the data rests on cells     *)
(* being what they say they are, also beyond what the sizes can tell.      *)
(*                                                                         *)
(* LZ77, at the end, is two functions: a packed block is a row of chunks,  *)
(* each a literal or an entry (Packs77), a reader at the start of a chunk  *)
(* adds to its output what the chunk stands for (ChunkRead), and therefore *)
(* ends with the data, whatever follows (BlockReturns).                    *)
(***************************************************************************)
EXTENDS Compression, Recursion, SequenceTheorems

Codepoint == [offset : 0 .. Window - 1, length : 1 .. MaxMatch, byte : Nat]

Long(c) == c.length >= MinMatch
Width(c) == IF Long(c) THEN 2 ELSE 1
HeadCell(c) == IF Long(c) THEN Cell("pair", <<c.offset, c.length>>) ELSE Cell("byte", c.byte)

\* A codepoint stands for the bytes of data behind the first at.
Stands(c, at, data) ==
  /\ at + c.length <= Len(data)
  /\ Long(c) => /\ c.offset \in 1 .. at
                /\ \A k \in 1 .. c.length : data[at + k] = data[at + k - c.offset]
  /\ ~Long(c) => c.length = 1 /\ c.byte = data[at + 1]

Described(C, cov, data) ==
  /\ C \in Seq(Codepoint) /\ data \in Seq(Nat)
  /\ cov \in [0 .. Len(C) -> Nat] /\ cov[0] = 0
  /\ \A i \in 1 .. Len(C) : /\ cov[i] = cov[i - 1] + C[i].length
                            /\ Stands(C[i], cov[i - 1], data)

\* A multiple of the codepoints to a byte of flags.
Grid(x) == \E k \in Nat : x = k * FlagBits

\* Where codepoint i begins: behind the one before it, and, if it is the first
\* of its group, also the flags, and between the blocks a count and a size.
Start(C, nxt, i) ==
  IF ~Grid(i - 1) THEN nxt[i - 1]
  ELSE IF Len(C) - (i - 1) >= FlagBits THEN nxt[i - 1] + 1 ELSE nxt[i - 1] + 4

Laid(C, nxt) ==
  /\ nxt \in [0 .. Len(C) -> Nat] /\ nxt[0] = 2
  /\ \A i \in 1 .. Len(C) : nxt[i] = Start(C, nxt, i) + Width(C[i])

Plan(C, cov, nxt, K) ==
  /\ Described(C, cov, Padded) /\ cov[Len(C)] = Len(Padded)
  /\ Laid(C, nxt)
  /\ Grid(K) /\ K \in FlagBits .. Len(C) /\ Len(C) < K + FlagBits

\* The flags of the codepoints behind the first d.
FlagsCell(C, d) ==
  Cell("flags", [b \in 1 .. FlagBits |->
          b > Smaller(Len(C) - d, FlagBits) \/ Long(C[d + b])])

\* The first d codepoints are packed, ...
Written(cells, C, nxt, d) ==
  \A i \in 1 .. d : /\ cells[Start(C, nxt, i) + 1] = HeadCell(C[i])
                    /\ Grid(i - 1) => cells[Start(C, nxt, i)] = FlagsCell(C, i - 1)

\* ... the first block is closed, ...
ClosedFirst(cells, C, nxt, K) ==
  /\ cells[1] = Cell("size", (nxt[K] - 2) % SizeModulus)
  /\ cells[nxt[K] + 1] = Cell("count", Len(C) - K)

\* ... and so is the second, if there is one.
ClosedLast(cells, C, nxt, K) ==
  K < Len(C) => /\ cells[nxt[K] + 2] = Cell("size", nxt[Len(C)] % SizeModulus)
                /\ cells[nxt[Len(C)] + 1] = Cell("count", 0)

\* How far the compressor is: it has packed the first d codepoints.
Packing(C, nxt, K, d) ==
  /\ d \in 0 .. Len(C) /\ (d = Len(C) \/ (d <= K /\ Grid(d)))
  /\ codepoints = SubSeq(C, d + 1, Len(C))
  /\ Written(packed, C, nxt, d)
  /\ packed[origin + 1] = Cell("size", 0)
  /\ IF d < K THEN origin = 0 /\ Len(packed) = nxt[d]
     ELSE /\ origin = nxt[d] + 1 /\ Len(packed) = nxt[d] + 3
          /\ ClosedFirst(packed, C, nxt, K)
          /\ d = Len(C) => ClosedLast(packed, C, nxt, K)

\* What the decompressor finds.
Packed(C, nxt, K) ==
  /\ Len(packed) = nxt[Len(C)] + 1
  /\ Written(packed, C, nxt, Len(C)) /\ ClosedFirst(packed, C, nxt, K) /\ ClosedLast(packed, C, nxt, K)

\* The decompressor has read the first r codepoints.
ReadingSize(C, nxt, K, r) ==
  \/ r = 0 /\ source = 0
  \/ r = K /\ K < Len(C) /\ source = nxt[K] + 1 /\ remaining = Len(C) - K

ReadingFlags(C, nxt, K, r) ==
  \/ Grid(r) /\ r < K /\ source = nxt[r] /\ size = nxt[K] /\ remaining = FlagBits
  \/ r = K /\ source = nxt[K] /\ size = source
  \/ r = K /\ K < Len(C) /\ source = nxt[K] + 3 /\ size = nxt[Len(C)] /\ remaining = Len(C) - K
  \/ r = Len(C) /\ source = nxt[Len(C)] /\ size = source

ReadingCodes(C, nxt, K, r) ==
  /\ remaining \in 0 .. FlagBits /\ r + remaining <= Len(C)
  /\ \/ Grid(r + remaining) /\ r + remaining <= K /\ size = nxt[K]
     \/ r >= K /\ K < Len(C) /\ r + remaining = Len(C) /\ size = nxt[Len(C)]
  /\ source = IF remaining = 0 THEN nxt[r] ELSE Start(C, nxt, r + 1)
  /\ flags \in Seq(BOOLEAN) /\ Len(flags) >= remaining
  /\ \A b \in 1 .. remaining : flags[b] = Long(C[r + b])

Reading(C, cov, nxt, K, r) ==
  /\ r \in 0 .. Len(C)
  /\ output = SubSeq(Padded, 1, cov[r])
  /\ phase = "size" => ReadingSize(C, nxt, K, r)
  /\ phase = "flags" => ReadingFlags(C, nxt, K, r)
  /\ phase = "codes" => ReadingCodes(C, nxt, K, r)
  /\ phase = "done" => r = Len(C) /\ source = nxt[Len(C)] + 1

-----------------------------------------------------------------------------
(* Sequences. *)

LEMMA Joint ==
  ASSUME NEW T, NEW q \in Seq(T), NEW r \in Seq(T), NEW m, NEW n, m = Len(q), n = Len(r)
  PROVE  /\ m \in Nat /\ n \in Nat
         /\ q \o r \in Seq(T) /\ Len(q \o r) = m + n
         /\ \A i \in 1 .. m : (q \o r)[i] = q[i]
         /\ \A i \in 1 .. n : (q \o r)[m + i] = r[i]
  <1>1. m \in Nat /\ n \in Nat
    BY LenProperties
  <1>2. PICK s : s = q \o r
    OBVIOUS
  <1>3. /\ s \in Seq(T) /\ Len(s) = m + n
        /\ \A i \in 1 .. Len(q) + Len(r) : s[i] = IF i <= Len(q) THEN q[i] ELSE r[i - Len(q)]
    BY <1>2, ConcatProperties
  <1>4. \A i \in 1 .. m + n : s[i] = IF i <= m THEN q[i] ELSE r[i - m]
    BY <1>3
  <1>5. ASSUME NEW i \in 1 .. n
        PROVE  s[m + i] = r[i]
    <2>1. m + i \in 1 .. m + n /\ ~(m + i <= m) /\ (m + i) - m = i
      BY <1>1
    <2> QED BY <1>4, <2>1
  <1>6. ASSUME NEW i \in 1 .. m
        PROVE  s[i] = q[i]
    <2>1. i \in 1 .. m + n /\ i <= m
      BY <1>1
    <2> QED BY <1>4, <2>1
  <1> QED BY <1>1, <1>2, <1>3, <1>5, <1>6

-----------------------------------------------------------------------------
(* Groups of codepoints. *)

LEMMA GridFacts ==
  /\ Grid(0)
  /\ \A x \in Nat : Grid(x) => Grid(x + FlagBits)
  /\ \A x, y \in Nat : Grid(x) /\ Grid(y) /\ x < y => x + FlagBits <= y
  <1>1. FlagBits \in Nat \ {0}
    BY FlagAssumption
  <1>2. Grid(0)
    BY <1>1 DEF Grid
  <1>3. ASSUME NEW x \in Nat, Grid(x)
        PROVE  Grid(x + FlagBits)
    <2>1. PICK k \in Nat : x = k * FlagBits
      BY <1>3 DEF Grid
    <2>2. x + FlagBits = (k + 1) * FlagBits /\ k + 1 \in Nat
      BY <1>1, <2>1
    <2> QED BY <2>2 DEF Grid
  <1>4. ASSUME NEW x \in Nat, NEW y \in Nat, Grid(x), Grid(y), x < y
        PROVE  x + FlagBits <= y
    <2>1. PICK k \in Nat, m \in Nat : x = k * FlagBits /\ y = m * FlagBits
      BY <1>4 DEF Grid
    <2>2. CASE m <= k
      <3>1. PICK e \in Nat : k = m + e
        <4>1. k - m \in Nat /\ k = m + (k - m)
          BY <2>2
        <4> QED BY <4>1
      <3>2. PICK q : q = e * FlagBits
        OBVIOUS
      <3>3. q \in Nat /\ x = y + q
        BY <1>1, <2>1, <3>1, <3>2
      <3> QED BY <1>4, <3>3
    <2>3. CASE m > k
      <3>1. PICK e \in Nat : m = k + 1 + e
        <4>1. m - k - 1 \in Nat /\ m = k + 1 + (m - k - 1)
          BY <2>3
        <4> QED BY <4>1
      <3>2. y = k * FlagBits + FlagBits + e * FlagBits /\ e * FlagBits >= 0
        BY <1>1, <2>1, <3>1
      <3> QED BY <1>1, <2>1, <3>2
    <2> QED BY <2>2, <2>3
  <1> QED BY <1>2, <1>3, <1>4

\* Of any number of codepoints all but the last few are in full groups.
LEMMA GridBelow ==
  ASSUME NEW n \in Nat
  PROVE  \E K \in 0 .. n : Grid(K) /\ n < K + FlagBits
  <1> DEFINE T == {x \in Nat : \E K \in 0 .. x : Grid(K) /\ x < K + FlagBits}
  <1>1. ASSUME NEW x \in Nat, \A y \in Nat : y < x => y \in T
        PROVE  x \in T
    <2>1. FlagBits \in Nat \ {0}
      BY FlagAssumption
    <2>2. CASE x < FlagBits
      BY <2>1, <2>2, GridFacts
    <2>3. CASE x >= FlagBits
      <3>1. x - FlagBits \in Nat /\ x - FlagBits < x
        BY <2>1, <2>3
      <3>2. PICK K \in 0 .. x - FlagBits : Grid(K) /\ x - FlagBits < K + FlagBits
        BY <1>1, <3>1
      <3>3. K + FlagBits \in 0 .. x /\ x < (K + FlagBits) + FlagBits
        BY <2>1, <3>1, <3>2
      <3> QED BY <3>2, <3>3, GridFacts
    <2> QED BY <2>1, <2>2, <2>3
  <1> HIDE DEF T
  <1>2. Nat \subseteq T
    BY <1>1, Induction
  <1> QED BY <1>2 DEF T

\* Within a group no other begins.
LEMMA GridBetween ==
  ASSUME NEW x \in Nat, NEW y \in Nat, Grid(x), x < y, y < x + FlagBits
  PROVE  ~Grid(y)
  BY GridFacts, FlagAssumption

-----------------------------------------------------------------------------
(* Positions. *)

LEMMA StartFacts ==
  ASSUME NEW C, NEW nxt, Len(C) \in Nat, Laid(C, nxt), NEW i \in 1 .. Len(C)
  PROVE  /\ Start(C, nxt, i) \in Nat
         /\ nxt[i - 1] \in Nat /\ nxt[i] \in Nat
         /\ nxt[i - 1] <= Start(C, nxt, i)
         /\ Grid(i - 1) => nxt[i - 1] < Start(C, nxt, i)
         /\ Start(C, nxt, i) < nxt[i]
         /\ nxt[i] = Start(C, nxt, i) + Width(C[i])
  <1>1. nxt[i - 1] \in Nat /\ nxt[i] \in Nat
    BY SMTT(30) DEF Laid
  <1>2. Start(C, nxt, i) \in {nxt[i - 1], nxt[i - 1] + 1, nxt[i - 1] + 4}
    BY DEF Start
  <1>3. Grid(i - 1) => Start(C, nxt, i) \in {nxt[i - 1] + 1, nxt[i - 1] + 4}
    BY DEF Start
  <1>4. nxt[i] = Start(C, nxt, i) + Width(C[i]) /\ Width(C[i]) \in {1, 2}
    BY DEF Laid, Width
  <1> QED BY <1>1, <1>2, <1>3, <1>4, SMTT(30)

LEMMA Rising ==
  ASSUME NEW C, NEW nxt, Len(C) \in Nat, Laid(C, nxt),
         NEW i \in 0 .. Len(C), NEW j \in 0 .. Len(C), i <= j
  PROVE  nxt[i] \in Nat /\ nxt[j] \in Nat /\ nxt[i] + (j - i) <= nxt[j]
  <1> DEFINE T == {n \in Nat : i + n <= Len(C) => nxt[i] + n <= nxt[i + n]}
  <1>0. \A k \in 0 .. Len(C) : nxt[k] \in Nat
    BY DEF Laid
  <1>1. ASSUME NEW n \in Nat, \A m \in Nat : m < n => m \in T
        PROVE  n \in T
    <2>1. CASE n = 0
      BY <1>0, <2>1
    <2>2. CASE n > 0 /\ i + n <= Len(C)
      <3>1. PICK m \in Nat : n = m + 1
        <4>1. n - 1 \in Nat /\ n = (n - 1) + 1
          BY <2>2
        <4> QED BY <4>1
      <3>2. nxt[i] + m <= nxt[i + m]
        BY <1>1, <2>2, <3>1
      <3>3. PICK k : k = i + n
        OBVIOUS
      <3>4. k \in 1 .. Len(C) /\ k - 1 = i + m
        BY <2>2, <3>1, <3>3
      <3>5. nxt[k - 1] < nxt[k] /\ nxt[k - 1] \in Nat /\ nxt[k] \in Nat
        BY <3>4, StartFacts
      <3>6. nxt[i + m] < nxt[i + n] /\ nxt[i + m] \in Nat /\ nxt[i + n] \in Nat
        BY <3>3, <3>4, <3>5
      <3>7. nxt[i] \in Nat
        BY <1>0
      <3> QED BY <3>1, <3>2, <3>6, <3>7, SMTT(30)
    <2> QED BY <2>1, <2>2
  <1> HIDE DEF T
  <1>2. Nat \subseteq T
    BY <1>1, Induction
  <1>3. j - i \in T
    BY <1>2
  <1>4. i + (j - i) = j
    OBVIOUS
  <1> QED BY <1>0, <1>3, <1>4 DEF T

\* There are such positions for any codepoints.
LEMMA LaidExists ==
  ASSUME NEW C, Len(C) \in Nat
  PROVE  \E nxt : Laid(C, nxt)
  <1> DEFINE L == Len(C)
             From(i, x) == IF ~Grid(i - 1) THEN x
                           ELSE IF L - (i - 1) >= FlagBits THEN x + 1 ELSE x + 4
             Ends(i, f) == IF i = 0 THEN 2 ELSE From(i, f[i - 1]) + Width(C[i])
             G == [i \in Nat |-> [f \in [0 .. i - 1 -> Nat] |-> Ends(i, f)]]
  <1>1. \A i \in Nat, x \in Nat : From(i, x) \in Nat
    OBVIOUS
  <1>2. \A i : Width(C[i]) \in Nat
    BY DEF Width
  <1> HIDE DEF From
  <1>3. Builds(G, Nat)
    <2>1. ASSUME NEW i \in Nat, NEW f \in [0 .. i - 1 -> Nat]
          PROVE  Ends(i, f) \in Nat
      <3>1. CASE i = 0
        BY <3>1
      <3>2. CASE i # 0
        <4>1. f[i - 1] \in Nat
          BY <3>2
        <4>2. PICK x, y : x = From(i, f[i - 1]) /\ y = Width(C[i])
          OBVIOUS
        <4>3. x \in Nat /\ y \in Nat
          BY <1>1, <1>2, <4>1, <4>2
        <4> QED BY <3>2, <4>2, <4>3
      <3> QED BY <3>1, <3>2
    <2> HIDE DEF Ends
    <2> QED BY <2>1 DEF Builds
  <1>4. PICK g \in [Nat -> Nat] : \A i \in Nat : g[i] = Ends(i, Prior(g, i))
    <2> HIDE DEF Ends
    <2>1. PICK g \in [Nat -> Nat] : \A i \in Nat : g[i] = G[i][Prior(g, i)]
      <3> HIDE DEF G
      <3> QED BY <1>3, Recursive, SMTT(30)
    <2>2. \A i \in Nat : Prior(g, i) \in [0 .. i - 1 -> Nat]
      BY DEF Prior
    <2> QED BY <2>1, <2>2
  <1> HIDE DEF G
  <1> DEFINE h == [i \in 0 .. L |-> g[i]]
  <1>5. h \in [0 .. L -> Nat] /\ h[0] = 2
    BY <1>4
  <1>6. ASSUME NEW i \in 1 .. L
        PROVE  h[i] = Start(C, h, i) + Width(C[i])
    <2>1. Prior(g, i)[i - 1] = g[i - 1]
      BY DEF Prior
    <2>2. h[i] = g[i] /\ h[i - 1] = g[i - 1]
      OBVIOUS
    <2> HIDE DEF h
    <2>3. g[i] = Ends(i, Prior(g, i)) /\ i # 0
      BY <1>4
    <2>4. h[i] = From(i, h[i - 1]) + Width(C[i])
      BY <2>1, <2>2, <2>3, Zenon
    <2>5. Start(C, h, i) = From(i, h[i - 1])
      BY Zenon DEF Start, From
    <2> QED BY <2>4, <2>5, Zenon
  <1> HIDE DEF h
  <1>7. Laid(C, h)
    BY <1>5, <1>6 DEF Laid
  <1> QED BY <1>7
-----------------------------------------------------------------------------
(* The search. *)

\* There is a longest match and, of those, one furthest away.
LEMMA BestMatch ==
  ASSUME Matches # {}
  PROVE  Best \in Matches
  <1>1. \A m \in Matches : m[1] \in 1 .. Window - 1 /\ m[2] \in MinMatch .. MaxMatch
    BY DEF Matches
  <1>2. MinMatch \in Nat /\ MaxMatch \in Nat /\ Window \in Nat
    BY WindowAssumption DEF MinMatch
  <1>3. PICK s \in Matches : \A n \in Matches : s[2] >= n[2]
    <2> DEFINE T == {t \in Nat : \E m \in Matches : t = MaxMatch - m[2]}
    <2>1. \A m \in Matches : MaxMatch - m[2] \in T
      BY <1>1, <1>2
    <2>2. T \subseteq Nat /\ T # {}
      BY <2>1
    <2>3. PICK t \in T : \A u \in T : t <= u
      <3> HIDE DEF T
      <3> QED BY <2>2, Smallest
    <2>4. PICK s \in Matches : t = MaxMatch - s[2]
      OBVIOUS
    <2>5. ASSUME NEW n \in Matches PROVE s[2] >= n[2]
      <3>1. MaxMatch - s[2] <= MaxMatch - n[2]
        BY <2>1, <2>3, <2>4
      <3> QED BY <1>1, <1>2, <3>1
    <2> QED BY <2>5
  <1>4. PICK s2 \in Matches : \A n \in Matches : s2[2] > n[2] \/ (s2[2] = n[2] /\ s2[1] >= n[1])
    <2> DEFINE T == {t \in Nat : \E m \in Matches : t = Window - m[1] /\ m[2] = s[2]}
    <2>1. \A m \in Matches : m[2] = s[2] => Window - m[1] \in T
      BY <1>1, <1>2
    <2>2. T \subseteq Nat /\ T # {}
      BY <2>1
    <2>3. PICK t \in T : \A u \in T : t <= u
      <3> HIDE DEF T
      <3> QED BY <2>2, Smallest
    <2>4. PICK m \in Matches : t = Window - m[1] /\ m[2] = s[2]
      OBVIOUS
    <2>5. ASSUME NEW n \in Matches PROVE m[2] > n[2] \/ (m[2] = n[2] /\ m[1] >= n[1])
      <3>1. CASE n[2] = s[2]
        <4>1. Window - m[1] <= Window - n[1]
          BY <2>1, <2>3, <2>4, <3>1
        <4> QED BY <1>1, <1>2, <2>4, <3>1, <4>1
      <3>2. CASE n[2] # s[2]
        BY <1>1, <1>2, <1>3, <2>4, <3>2
      <3> QED BY <3>1, <3>2
    <2> QED BY <2>5
  <1> QED BY <1>4, Zenon DEF Best

\* A codepoint more.
LEMMA Extended ==
  ASSUME NEW C, NEW cov, NEW data, NEW c \in Codepoint, Described(C, cov, data),
         Stands(c, cov[Len(C)], data)
  PROVE  \E cov2 : /\ Described(Append(C, c), cov2, data)
                   /\ cov2[Len(Append(C, c))] = cov[Len(C)] + c.length
  <1>1. PICK L : L = Len(C)
    OBVIOUS
  <1>2. L \in Nat /\ C \in Seq(Codepoint) /\ cov[L] \in Nat /\ c.length \in Nat
    BY <1>1, LenProperties DEF Described, Codepoint
  <1>3. PICK D : D = Append(C, c)
    OBVIOUS
  <1>4. /\ D \in Seq(Codepoint) /\ Len(D) = L + 1 /\ D[L + 1] = c
        /\ \A i \in 1 .. L : D[i] = C[i]
    BY <1>1, <1>2, <1>3, AppendProperties
  <1> DEFINE cov2 == [i \in 0 .. L + 1 |-> IF i = L + 1 THEN cov[L] + c.length ELSE cov[i]]
  <1>5. /\ \A i \in 0 .. L : cov2[i] = cov[i] /\ cov[i] \in Nat
        /\ cov2[L + 1] = cov[L] + c.length /\ cov2[L + 1] \in Nat
    <2>1. \A i \in 0 .. L : i \in 0 .. L + 1 /\ i # L + 1
      BY <1>2
    <2>2. PICK n : n = cov[L] + c.length
      OBVIOUS
    <2>3. n \in Nat
      BY <1>2, <2>2
    <2>4. \A i \in 0 .. L : cov[i] \in Nat
      BY <1>1 DEF Described
    <2>5. L + 1 \in 0 .. L + 1
      BY <1>2
    <2> QED BY <2>1, <2>2, <2>3, <2>4, <2>5
  <1>6. cov2 \in [0 .. L + 1 -> Nat] /\ cov2[0] = 0
    BY <1>1, <1>2, <1>5 DEF Described
  <1> HIDE DEF cov2
  <1>7. ASSUME NEW i \in 1 .. L + 1
        PROVE  cov2[i] = cov2[i - 1] + D[i].length /\ Stands(D[i], cov2[i - 1], data)
    <2>1. CASE i = L + 1
      <3>1. i - 1 = L /\ cov2[i - 1] = cov[L] /\ D[i] = c
        BY <1>2, <1>4, <1>5, <2>1
      <3> QED BY <1>1, <1>5, <2>1, <3>1
    <2>2. CASE i \in 1 .. L
      <3>1. i - 1 \in 0 .. L /\ i \in 0 .. L
        BY <1>2, <2>2
      <3>2. cov2[i] = cov[i] /\ cov2[i - 1] = cov[i - 1] /\ D[i] = C[i]
        BY <1>4, <1>5, <2>2, <3>1
      <3>3. cov[i] = cov[i - 1] + C[i].length /\ Stands(C[i], cov[i - 1], data)
        BY <1>1, <2>2 DEF Described
      <3> QED BY <3>2, <3>3
    <2> QED BY <1>2, <2>1, <2>2
  <1>8. Described(D, cov2, data)
    BY <1>4, <1>6, <1>7 DEF Described
  <1> QED BY <1>1, <1>3, <1>4, <1>5, <1>8

\* Zeros at the end of the data, each with a literal of its own.
Zeros(m) == [i \in 1 .. m |-> 0]
Literals(m) == [i \in 1 .. m |-> Literal(0)]

LEMMA ZerosAdded ==
  ASSUME NEW C, NEW cov, NEW data, NEW m \in Nat, Described(C, cov, data),
         cov[Len(C)] = Len(data), Literal(0) \in Codepoint
  PROVE  \E cov2 : /\ Described(C \o Literals(m), cov2, data \o Zeros(m))
                   /\ cov2[Len(C \o Literals(m))] = Len(data \o Zeros(m))
  <1>1. PICK L, N : L = Len(C) /\ N = Len(data)
    OBVIOUS
  <1>2. L \in Nat /\ N \in Nat /\ C \in Seq(Codepoint) /\ data \in Seq(Nat)
    BY <1>1, LenProperties DEF Described
  <1>3. PICK zeros, literals : zeros = Zeros(m) /\ literals = Literals(m)
    OBVIOUS
  <1>4. /\ zeros \in Seq(Nat) /\ Len(zeros) = m /\ \A i \in 1 .. m : zeros[i] = 0
        /\ literals \in Seq(Codepoint) /\ Len(literals) = m
        /\ \A i \in 1 .. m : literals[i] = Literal(0)
    BY <1>3 DEF Zeros, Literals
  <1>5. PICK D, more : D = C \o literals /\ more = data \o zeros
    OBVIOUS
  <1>6. /\ D \in Seq(Codepoint) /\ Len(D) = L + m
        /\ \A i \in 1 .. L : D[i] = C[i]
        /\ \A i \in 1 .. m : D[L + i] = literals[i]
    <2>1. C \in Seq(Codepoint) /\ literals \in Seq(Codepoint) /\ L = Len(C) /\ m = Len(literals)
      BY <1>1, <1>2, <1>4
    <2>2. /\ C \o literals \in Seq(Codepoint) /\ Len(C \o literals) = L + m
          /\ \A i \in 1 .. L : (C \o literals)[i] = C[i]
          /\ \A i \in 1 .. m : (C \o literals)[L + i] = literals[i]
      BY <2>1, Joint
    <2> QED BY <1>5, <2>2
  <1>7. /\ more \in Seq(Nat) /\ Len(more) = N + m
        /\ \A i \in 1 .. N : more[i] = data[i]
        /\ \A i \in 1 .. m : more[N + i] = zeros[i]
    <2>1. data \in Seq(Nat) /\ zeros \in Seq(Nat) /\ N = Len(data) /\ m = Len(zeros)
      BY <1>1, <1>2, <1>4
    <2>2. /\ data \o zeros \in Seq(Nat) /\ Len(data \o zeros) = N + m
          /\ \A i \in 1 .. N : (data \o zeros)[i] = data[i]
          /\ \A i \in 1 .. m : (data \o zeros)[N + i] = zeros[i]
      BY <2>1, Joint
    <2> QED BY <1>5, <2>2
  <1> DEFINE cov2 == [i \in 0 .. L + m |-> IF i <= L THEN cov[i] ELSE N + (i - L)]
  <1>8. /\ \A i \in 0 .. L : cov2[i] = cov[i] /\ cov[i] \in Nat
        /\ \A i \in 0 .. m : cov2[L + i] = N + i
    <2>1. \A i \in 0 .. L : cov2[i] = cov[i] /\ cov[i] \in Nat
      BY <1>1, <1>2, SMTT(30) DEF Described
    <2>2. cov2[L] = N
      BY <1>1, <1>2, <2>1
    <2>3. ASSUME NEW i \in 1 .. m PROVE cov2[L + i] = N + i
      <3>1. L + i \in 0 .. L + m /\ ~(L + i <= L) /\ N + ((L + i) - L) = N + i
        BY <1>2
      <3> QED BY <3>1
    <2> HIDE DEF cov2
    <2>4. L + 0 = L /\ N + 0 = N /\ \A i \in 0 .. m : i = 0 \/ i \in 1 .. m
      BY <1>2
    <2> QED BY <2>1, <2>2, <2>3, <2>4
  <1>9. cov2 \in [0 .. L + m -> Nat] /\ cov2[0] = 0
    <2>1. \A i \in 0 .. L + m : (IF i <= L THEN cov[i] ELSE N + (i - L)) \in Nat
      BY <1>1, <1>2, SMTT(30) DEF Described
    <2>2. cov2[0] = cov[0] /\ cov[0] = 0
      BY <1>2 DEF Described
    <2> QED BY <2>1, <2>2
  <1> HIDE DEF cov2
  <1>10. ASSUME NEW i \in 1 .. L + m
         PROVE  cov2[i] = cov2[i - 1] + D[i].length /\ Stands(D[i], cov2[i - 1], more)
    <2>1. CASE i <= L
      <3>1. /\ i \in 1 .. L /\ i \in 0 .. L /\ i - 1 \in 0 .. L
        BY <1>2, <2>1
      <3>2. cov2[i] = cov[i] /\ cov2[i - 1] = cov[i - 1] /\ D[i] = C[i] /\ cov[i - 1] \in Nat
        BY <1>6, <1>8, <2>1, <3>1
      <3>3. cov[i] = cov[i - 1] + C[i].length /\ Stands(C[i], cov[i - 1], data)
        BY <1>1, <3>1 DEF Described
      <3>4. PICK c, at : c = C[i] /\ at = cov[i - 1]
        OBVIOUS
      <3>5. c \in Codepoint /\ at \in Nat /\ Stands(c, at, data)
        BY <1>1, <1>2, <3>1, <3>2, <3>3, <3>4, ElementOfSeq
      <3>6. PICK n : n = c.length /\ n \in Nat
        BY <3>5 DEF Codepoint
      <3>7. at + n <= N /\ \A k \in 1 .. at + n : more[k] = data[k]
        <4>1. at + n <= N
          BY <1>1, <3>5, <3>6 DEF Stands
        <4>2. \A k \in 1 .. at + n : k \in 1 .. N
          BY <1>2, <3>5, <3>6, <4>1
        <4> QED BY <1>7, <4>1, <4>2
      <3>8. Stands(c, at, more)
        <4>1. at + c.length <= Len(more)
          <5>1. at + n <= N + m
            BY <1>2, <3>5, <3>6, <3>7
          <5> QED BY <1>7, <3>6, <5>1
        <4>2. ASSUME Long(c)
              PROVE  /\ c.offset \in 1 .. at
                     /\ \A k \in 1 .. c.length : more[at + k] = more[at + k - c.offset]
          <5>1. c.offset \in 1 .. at /\ \A k \in 1 .. c.length : data[at + k] = data[at + k - c.offset]
            BY <3>5, <4>2 DEF Stands
          <5>2. PICK w : w = c.offset
            OBVIOUS
          <5>3. \A k \in 1 .. n : at + k \in 1 .. at + n /\ at + k - w \in 1 .. at + n
            BY <3>5, <3>6, <5>1, <5>2, SMTT(30)
          <5> QED BY <3>6, <3>7, <5>1, <5>2, <5>3
        <4>3. ASSUME ~Long(c) PROVE c.length = 1 /\ c.byte = more[at + 1]
          <5>1. c.length = 1 /\ c.byte = data[at + 1]
            BY <3>5, <4>3 DEF Stands
          <5>2. at + 1 \in 1 .. at + n
            BY <3>5, <3>6, <5>1
          <5> QED BY <3>7, <5>1, <5>2
        <4> QED BY <4>1, <4>2, <4>3 DEF Stands
      <3> QED BY <3>2, <3>3, <3>4, <3>8
    <2>2. CASE ~(i <= L)
      <3>1. PICK j \in 1 .. m : i = L + j
        <4>1. i - L \in 1 .. m /\ i = L + (i - L)
          BY <1>2, <2>2
        <4> QED BY <4>1
      <3>2. PICK k \in 0 .. m : j = k + 1
        <4>1. j - 1 \in 0 .. m /\ j = (j - 1) + 1
          OBVIOUS
        <4> QED BY <4>1
      <3>3. i - 1 = L + k
        BY <1>2, <3>1, <3>2
      <3>4. PICK at : at = N + k
        OBVIOUS
      <3>5. cov2[i] = N + j /\ cov2[i - 1] = at /\ D[i] = Literal(0)
        BY <1>4, <1>6, <1>8, <3>1, <3>3, <3>4, SMTT(30)
      <3>6. N + j = at + 1 /\ at + 1 <= N + m
        BY <1>2, <3>2, <3>4
      <3>7. more[at + 1] = 0
        BY <1>4, <1>7, <3>1, <3>6
      <3>8. Literal(0).length = 1 /\ Literal(0).byte = 0 /\ ~Long(Literal(0))
        BY DEF Literal, Long, MinMatch
      <3>9. Stands(Literal(0), at, more)
        BY <1>7, <3>6, <3>7, <3>8 DEF Stands
      <3> QED BY <3>5, <3>6, <3>8, <3>9
    <2> QED BY <1>2, <2>1, <2>2
  <1>11. Described(D, cov2, more)
    BY <1>6, <1>7, <1>9, <1>10 DEF Described
  <1>12. cov2[Len(D)] = Len(more)
    <2>1. m \in 0 .. m
      OBVIOUS
    <2> QED BY <1>6, <1>7, <1>8, <2>1
  <1> QED BY <1>3, <1>5, <1>11, <1>12
-----------------------------------------------------------------------------
(* The cells of a group. *)

LEMMA CellsRecursion ==
  /\ Cells[0] = <<>>
  /\ \A n \in Nat \ {0} : Cells[n] = Cells[n - 1] \o CellsOf(codepoints[n])
  <1> DEFINE V == {Cell("byte", codepoints[n].byte) : n \in Nat}
                  \cup {Cell("pair", <<codepoints[n].offset, codepoints[n].length>>) : n \in Nat}
                  \cup {Hole}
             D == Seq(V)
             Value(f, i) == IF i = 0 THEN <<>> ELSE f[i - 1] \o CellsOf(codepoints[i])
             G == [i \in Nat |-> [f \in [0 .. i - 1 -> D] |-> Value(f, i)]]
  <1>1. ASSUME NEW i \in Nat
        PROVE  CellsOf(codepoints[i]) \in D
    <2>1. PICK x, y : /\ x = Cell("byte", codepoints[i].byte)
                      /\ y = Cell("pair", <<codepoints[i].offset, codepoints[i].length>>)
      OBVIOUS
    <2>2. x \in V /\ y \in V /\ Hole \in V
      BY <2>1
    <2>3. CellsOf(codepoints[i]) = <<x>> \/ CellsOf(codepoints[i]) = <<y, Hole>>
      BY <2>1 DEF CellsOf
    <2> HIDE DEF V
    <2>4. <<x>> \in Seq(V) /\ <<y, Hole>> \in Seq(V)
      BY <2>2
    <2> QED BY <2>3, <2>4
  <1> HIDE DEF V
  <1>2. <<>> \in D /\ \A q, r \in D : q \o r \in D
    BY Joint
  <1> HIDE DEF D
  <1>3. Builds(G, D)
    <2>1. ASSUME NEW i \in Nat, NEW f \in [0 .. i - 1 -> D]
          PROVE  Value(f, i) \in D
      <3>1. CASE i = 0
        BY <1>2, <3>1
      <3>2. CASE i # 0
        <4>1. f[i - 1] \in D
          BY <3>2
        <4> QED BY <1>1, <1>2, <3>2, <4>1
      <3> QED BY <3>1, <3>2
    <2> HIDE DEF Value
    <2> QED BY <2>1 DEF Builds
  <1>4. PICK g \in [Nat -> D] : \A i \in Nat : g[i] = Value(Prior(g, i), i)
    <2> HIDE DEF Value
    <2>1. PICK g \in [Nat -> D] : \A i \in Nat : g[i] = G[i][Prior(g, i)]
      <3> HIDE DEF G
      <3> QED BY <1>3, Recursive, SMTT(30)
    <2>2. \A i \in Nat : Prior(g, i) \in [0 .. i - 1 -> D]
      BY DEF Prior
    <2> QED BY <2>1, <2>2
  <1>5. ASSUME NEW i \in Nat
        PROVE  g[i] = Value(g, i)
    <2>1. i # 0 => Prior(g, i)[i - 1] = g[i - 1]
      BY DEF Prior
    <2>2. g[i] = Value(Prior(g, i), i)
      BY <1>4
    <2> QED BY <2>1, <2>2
  <1>6. g = [i \in Nat |-> Value(g, i)]
    <2> HIDE DEF Value
    <2> QED BY <1>5
  <1> DEFINE A == CHOOSE f : f = [i \in Nat |-> Value(f, i)]
  <1>7. Cells = A
    BY DEF Cells
  <1>8. A = [i \in Nat |-> Value(A, i)]
    <2> HIDE DEF Value
    <2> QED BY <1>6
  <1>9. \A i \in Nat : A[i] = Value(A, i)
    <2> HIDE DEF A, Value
    <2> QED BY <1>8
  <1> HIDE DEF A
  <1> QED BY <1>7, <1>9

\* What a cell can be.
Kinds == {"byte", "pair", "flags", "size", "count", "hole"}
Values == Nat \cup (Nat \X Nat) \cup [1 .. FlagBits -> BOOLEAN]
AnyCell == [kind : Kinds, value : Values]

LEMMA CellTypes ==
  /\ Hole \in AnyCell
  /\ \A c \in Codepoint : /\ HeadCell(c) \in AnyCell
                          /\ CellsOf(c) \in Seq(AnyCell)
                          /\ Len(CellsOf(c)) = Width(c) /\ CellsOf(c)[1] = HeadCell(c)
  <1>1. Hole \in AnyCell
    BY DEF Hole, Cell, AnyCell, Kinds, Values
  <1>2. ASSUME NEW c \in Codepoint
        PROVE  HeadCell(c) \in AnyCell
    <2>1. c.offset \in Nat /\ c.length \in Nat /\ c.byte \in Nat
      BY WindowAssumption DEF Codepoint
    <2> QED BY <2>1 DEF HeadCell, Cell, AnyCell, Kinds, Values
  <1>3. ASSUME NEW c \in Codepoint
        PROVE  /\ CellsOf(c) \in Seq(AnyCell)
               /\ Len(CellsOf(c)) = Width(c) /\ CellsOf(c)[1] = HeadCell(c)
    <2>1. c.length \in Nat /\ MinMatch \in Nat
      BY WindowAssumption DEF Codepoint, MinMatch
    <2>2. CASE Long(c)
      <3>1. CellsOf(c) = <<HeadCell(c), Hole>> /\ Width(c) = 2
        BY <2>1, <2>2 DEF CellsOf, HeadCell, Long, Width, Cell
      <3> QED BY <1>1, <1>2, <3>1
    <2>3. CASE ~Long(c)
      <3>1. CellsOf(c) = <<HeadCell(c)>> /\ Width(c) = 1
        BY <2>1, <2>3 DEF CellsOf, HeadCell, Long, Width, Cell
      <3> QED BY <1>2, <3>1
    <2> QED BY <2>2, <2>3
  <1> QED BY <1>1, <1>2, <1>3

\* Where the cells of the first n codepoints are, when e[i] are the lengths.
LEMMA CellsPlaced ==
  ASSUME codepoints \in Seq(Codepoint), NEW n \in 0 .. Len(codepoints),
         NEW e \in [0 .. n -> Nat], e[0] = 0,
         \A i \in 1 .. n : e[i] = e[i - 1] + Width(codepoints[i])
  PROVE  /\ Cells[n] \in Seq(AnyCell) /\ Len(Cells[n]) = e[n]
         /\ \A i \in 1 .. n : /\ e[i - 1] + 1 \in 1 .. e[n]
                            /\ Cells[n][e[i - 1] + 1] = HeadCell(codepoints[i])
  <1> DEFINE Placed(m) == /\ Cells[m] \in Seq(AnyCell) /\ Len(Cells[m]) = e[m]
                          /\ \A i \in 1 .. m :
                               /\ e[i - 1] + 1 \in 1 .. e[m]
                               /\ Cells[m][e[i - 1] + 1] = HeadCell(codepoints[i])
             T == {m \in Nat : m <= n => Placed(m)}
  <1>1. ASSUME NEW m \in Nat, \A k \in Nat : k < m => k \in T
        PROVE  m \in T
    <2>1. CASE m = 0
      <3>1. Cells[0] \in Seq(AnyCell) /\ Len(Cells[0]) = 0 /\ 1 .. 0 = {}
        BY CellsRecursion
      <3> QED BY <2>1, <3>1
    <2>2. CASE m # 0 /\ m <= n
      <3>1. PICK k \in Nat : m = k + 1
        <4>1. m - 1 \in Nat /\ m = (m - 1) + 1
          BY <2>2
        <4> QED BY <4>1
      <3>2. k < m /\ k <= n /\ m \in 1 .. n /\ m - 1 = k /\ k \in 0 .. n /\ m \in 0 .. n
        BY <2>2, <3>1
      <3>3. Placed(k)
        BY <1>1, <3>2
      <3>4. m \in 1 .. Len(codepoints)
        BY <3>2, LenProperties
      <3>5. PICK c : c = codepoints[m]
        OBVIOUS
      <3>6. c \in Codepoint
        BY <3>4, <3>5, ElementOfSeq
      <3>7. PICK q, r, a, w : q = Cells[k] /\ r = CellsOf(c) /\ a = e[k] /\ w = Width(c)
        OBVIOUS
      <3>8. /\ q \in Seq(AnyCell) /\ r \in Seq(AnyCell) /\ a = Len(q) /\ w = Len(r)
            /\ r[1] = HeadCell(c) /\ a \in Nat /\ w \in {1, 2}
        BY <3>2, <3>3, <3>6, <3>7, CellTypes DEF Width
      <3>9. /\ q \o r \in Seq(AnyCell) /\ Len(q \o r) = a + w
            /\ \A i \in 1 .. a : (q \o r)[i] = q[i]
            /\ \A i \in 1 .. w : (q \o r)[a + i] = r[i]
        BY <3>8, Joint
      <3>10. Cells[m] = q \o r /\ e[m] = a + w
        <4>1. Cells[m] = Cells[m - 1] \o CellsOf(codepoints[m])
          BY <2>2, CellsRecursion
        <4>2. e[m] = e[m - 1] + Width(codepoints[m])
          BY <3>2
        <4> QED BY <3>2, <3>5, <3>7, <4>1, <4>2
      <3>11. ASSUME NEW i \in 1 .. m
             PROVE  /\ e[i - 1] + 1 \in 1 .. e[m]
                    /\ Cells[m][e[i - 1] + 1] = HeadCell(codepoints[i])
        <4>1. CASE i = m
          <5>1. e[i - 1] = a /\ codepoints[i] = c
            BY <3>2, <3>5, <3>7, <4>1
          <5>2. a + 1 \in 1 .. a + w /\ 1 \in 1 .. w
            BY <3>8
          <5>3. e[i - 1] + 1 = a + 1
            BY <5>1
          <5> QED BY <3>8, <3>9, <3>10, <4>1, <5>1, <5>2, <5>3
        <4>2. CASE i # m
          <5>1. i \in 1 .. k
            BY <3>1, <4>2
          <5>2. PICK x : x = e[i - 1] + 1
            OBVIOUS
          <5>3. x \in 1 .. a /\ q[x] = HeadCell(codepoints[i])
            BY <3>3, <3>7, <5>1, <5>2
          <5>4. x \in 1 .. a + w
            BY <3>8, <5>3
          <5> QED BY <3>9, <3>10, <5>2, <5>3, <5>4
        <4> QED BY <4>1, <4>2
      <3>12. Placed(m)
        BY <3>9, <3>10, <3>11
      <3> QED BY <3>12
    <2> QED BY <2>1, <2>2
  <1> HIDE DEF T
  <1>2. n \in T
    BY <1>1, Induction
  <1> QED BY <1>2 DEF T
-----------------------------------------------------------------------------
(* The invariant. *)

Restoring == phase \in {"size", "flags", "codes", "done"}

Shape ==
  /\ phase \in {"search", "pack", "size", "flags", "codes", "done", "lost"}
  /\ input \in Seq(Nat) /\ padding \in Nat
  /\ packed \in Seq(AnyCell)

Unread == source = 0 /\ output = <<>>

Searching ==
  /\ Unread /\ padding = 0 /\ packed = Blank /\ origin = 0
  /\ \E cov : Described(codepoints, cov, input) /\ cov[Len(codepoints)] = covered

Packs ==
  /\ Unread
  /\ \E C, cov, nxt, K, d : Plan(C, cov, nxt, K) /\ Packing(C, nxt, K, d)

Restores ==
  Fits => \E C, cov, nxt, K, r :
            Plan(C, cov, nxt, K) /\ Packed(C, nxt, K) /\ Reading(C, cov, nxt, K, r)

IInv ==
  /\ Shape
  /\ phase = "search" => Searching
  /\ phase = "pack" => Packs
  /\ Restoring => Restores
  /\ phase = "lost" => ~Fits

LEMMA Initially ==
  ASSUME Init
  PROVE  IInv
  <1>1. input \in Seq(Nat)
    BY InputAssumption DEF Init
  <1>2. Blank \in Seq(AnyCell)
    <2>1. Cell("size", 0) \in AnyCell /\ Hole \in AnyCell
      BY DEF Cell, Hole, AnyCell, Kinds, Values
    <2> QED BY <2>1 DEF Blank
  <1>3. Described(codepoints, [i \in 0 .. 0 |-> 0], input)
    <2>1. codepoints = <<>> /\ Len(codepoints) = 0 /\ codepoints \in Seq(Codepoint)
      BY DEF Init
    <2> QED BY <1>1, <2>1 DEF Described
  <1>4. [i \in 0 .. 0 |-> 0][Len(codepoints)] = covered
    BY DEF Init
  <1>5. Searching
    BY <1>3, <1>4 DEF Init, Searching, Unread
  <1> QED BY <1>1, <1>2, <1>5 DEF Init, IInv, Shape, Restoring

LEMMA LiteralType ==
  ASSUME NEW byte \in Nat
  PROVE  /\ Literal(byte) \in Codepoint /\ Literal(byte).length = 1
         /\ Literal(byte).byte = byte /\ ~Long(Literal(byte))
  BY WindowAssumption DEF Literal, Codepoint, Long, MinMatch

LEMMA SearchStep ==
  ASSUME IInv, Search
  PROVE  IInv'
  <1>1. /\ phase = "search" /\ phase' = "search" /\ covered < Len(input)
        /\ UNCHANGED <<input, padding, packed, origin, source, output>>
    BY DEF Search, reading
  <1>2. PICK cov : Described(codepoints, cov, input) /\ cov[Len(codepoints)] = covered
    BY <1>1 DEF IInv, Searching
  <1>3. input \in Seq(Nat) /\ Len(input) \in Nat /\ covered \in Nat
    BY <1>2, LenProperties DEF Described
  <1>4. covered + 1 \in 1 .. Len(input) /\ input[covered + 1] \in Nat
    BY <1>1, <1>3, ElementOfSeq
  <1>5. PICK c : /\ codepoints' = Append(codepoints, c) /\ covered' = covered + c.length
                 /\ c = IF Matches = {} THEN Literal(input[covered + 1])
                        ELSE [offset |-> Best[1], length |-> Best[2], byte |-> input[covered + 1]]
    BY Zenon DEF Search
  <1>6. c \in Codepoint /\ Stands(c, covered, input)
    <2>1. CASE Matches = {}
      BY <1>3, <1>4, <1>5, <2>1, LiteralType DEF Stands
    <2>2. CASE Matches # {}
      <3>1. PICK m : m = Best
        OBVIOUS
      <3>2. /\ m[1] \in 1 .. Window - 1 /\ m[2] \in MinMatch .. MaxMatch
            /\ covered + m[2] <= Len(input) /\ Match(m[1], m[2])
        BY <2>2, <3>1, BestMatch DEF Matches
      <3>3. c.offset = m[1] /\ c.length = m[2] /\ c.byte = input[covered + 1]
            /\ c = [offset |-> m[1], length |-> m[2], byte |-> input[covered + 1]]
        BY <1>5, <2>2, <3>1
      <3>4. MinMatch = 3 /\ Window \in Nat /\ MaxMatch \in Nat
        BY WindowAssumption DEF MinMatch
      <3>5. m[1] \in 0 .. Window - 1 /\ m[2] \in 1 .. MaxMatch /\ m[2] >= MinMatch
        BY <3>2, <3>4
      <3>6. c \in Codepoint
        BY <1>4, <3>3, <3>5 DEF Codepoint
      <3>7. /\ m[1] \in 1 .. covered
            /\ \A k \in 1 .. m[2] : input[covered + k] = input[covered + k - m[1]]
        BY <1>3, <3>2, <3>4, SMTT(30) DEF Match
      <3>8. Stands(c, covered, input)
        BY <3>2, <3>3, <3>5, <3>7 DEF Stands, Long
      <3> QED BY <3>6, <3>8
    <2> QED BY <2>1, <2>2
  <1>7. \E cov2 : Described(codepoints', cov2, input) /\ cov2[Len(codepoints')] = covered'
    BY <1>2, <1>5, <1>6, Extended
  <1>8. Searching'
    BY <1>1, <1>7 DEF IInv, Searching, Unread
  <1> QED BY <1>1, <1>8 DEF IInv, Shape, Restoring

LEMMA PadStep ==
  ASSUME IInv, Pad
  PROVE  IInv'
  <1>1. /\ phase = "search" /\ phase' = "pack" /\ covered = Len(input)
        /\ UNCHANGED <<input, packed, origin, source, output>>
    BY DEF Pad, reading
  <1>2. PICK cov : Described(codepoints, cov, input) /\ cov[Len(codepoints)] = covered
    BY <1>1 DEF IInv, Searching
  <1>3. /\ codepoints \in Seq(Codepoint) /\ input \in Seq(Nat)
        /\ FlagBits \in Nat \ {0} /\ Len(codepoints) \in Nat
    BY <1>2, FlagAssumption, LenProperties DEF Described
  <1>4. PICK m : /\ m = IF Len(codepoints) < FlagBits THEN FlagBits - Len(codepoints) ELSE 0
                 /\ codepoints' = codepoints \o [i \in 1 .. m |-> Literal(0)]
                 /\ padding' = m
    BY DEF Pad
  <1>5. m \in Nat /\ Len(codepoints) + m >= FlagBits
    BY <1>3, <1>4
  <1>6. PICK C : C = codepoints'
    OBVIOUS
  <1>7. PICK cov2 : Described(C, cov2, Padded') /\ cov2[Len(C)] = Len(Padded')
    <2>1. Padded' = input \o [i \in 1 .. m |-> 0]
      BY <1>1, <1>4 DEF Padded
    <2>2. Literal(0) \in Codepoint
      BY LiteralType
    <2>3. PICK data : data = input
      OBVIOUS
    <2>4. Described(codepoints, cov, data) /\ cov[Len(codepoints)] = Len(data)
      BY <1>1, <1>2, <2>3
    <2>6. \E cov2 : /\ Described(codepoints \o Literals(m), cov2, data \o Zeros(m))
                    /\ cov2[Len(codepoints \o Literals(m))] = Len(data \o Zeros(m))
      <3>1. m \in Nat
        BY <1>5
      <3> QED BY <2>2, <2>4, <3>1, ZerosAdded
    <2>7. codepoints \o Literals(m) = C /\ data \o Zeros(m) = Padded'
      BY <1>4, <1>6, <2>1, <2>3 DEF Literals, Zeros
    <2> QED BY <2>6, <2>7
  <1>8. C \in Seq(Codepoint) /\ Len(C) >= FlagBits /\ Len(C) \in Nat
    <2>1. PICK z : z = [i \in 1 .. m |-> Literal(0)]
      OBVIOUS
    <2>2. z \in Seq(Codepoint) /\ Len(z) = m
      BY <1>5, <2>1, LiteralType
    <2>3. Len(codepoints \o z) = Len(codepoints) + m /\ codepoints \o z \in Seq(Codepoint)
      BY <1>3, <2>2, Joint
    <2> QED BY <1>3, <1>4, <1>5, <1>6, <2>1, <2>3
  <1>9. PICK nxt : Laid(C, nxt)
    BY <1>8, LaidExists
  <1>10. PICK K \in 0 .. Len(C) : Grid(K) /\ Len(C) < K + FlagBits
    BY <1>8, GridBelow
  <1>11. K \in FlagBits .. Len(C)
    <2>1. 0 < K
      BY <1>3, <1>8, <1>10
    <2>2. 0 + FlagBits <= K
      BY <1>10, <2>1, GridFacts
    <2> QED BY <1>3, <1>8, <1>10, <2>2
  <1>12. Plan(C, cov2, nxt, K)'
    BY <1>7, <1>9, <1>10, <1>11 DEF Plan
  <1>13. Packing(C, nxt, K, 0)'
    <2>1. packed = Blank /\ origin = 0
      BY <1>1 DEF IInv, Searching
    <2>2. packed'[origin' + 1] = Cell("size", 0) /\ Len(packed') = 2 /\ origin' = 0
      BY <1>1, <2>1 DEF Blank
    <2>3. codepoints' = SubSeq(C, 0 + 1, Len(C))
      BY <1>6, <1>8
    <2>4. Written(packed, C, nxt, 0)'
      BY DEF Written
    <2>5. 0 < K /\ nxt[0] = 2 /\ 0 \in 0 .. Len(C) /\ 0 <= K
      BY <1>3, <1>8, <1>9, <1>11 DEF Laid
    <2> QED BY <2>2, <2>3, <2>4, <2>5, GridFacts DEF Packing
  <1>14. Packs'
    BY <1>1, <1>12, <1>13 DEF IInv, Searching, Packs, Unread
  <1> QED BY <1>1, <1>4, <1>5, <1>14 DEF IInv, Shape, Restoring
-----------------------------------------------------------------------------
(* The packing. *)

\* The codepoints of a group follow one another: e[i] are the cells of its first i.
Follow(e, C, nxt, d, n, S) ==
  /\ e \in [0 .. n -> Nat] /\ e[0] = 0
  /\ \A i \in 1 .. n : /\ e[i] = e[i - 1] + Width(C[d + i])
                       /\ S + e[i - 1] = Start(C, nxt, d + i)
  /\ S + e[n] = nxt[d + n]

LEMMA GroupStarts ==
  ASSUME NEW C, NEW nxt, Len(C) \in Nat, Laid(C, nxt), NEW d \in Nat, NEW n \in Nat \ {0},
         Grid(d), d + n <= Len(C), n <= FlagBits, NEW S, S = Start(C, nxt, d + 1)
  PROVE  \E e : Follow(e, C, nxt, d, n, S)
  <1>0. FlagBits \in Nat \ {0}
    BY FlagAssumption
  <1>1. ASSUME NEW i \in 1 .. n
        PROVE  /\ d + i \in 1 .. Len(C) /\ nxt[d + i] \in Nat /\ S \in Nat /\ S < nxt[d + i]
               /\ nxt[d + i] = Start(C, nxt, d + i) + Width(C[d + i])
    <2>1. d + 1 \in 1 .. Len(C) /\ d + i \in 1 .. Len(C) /\ d + 1 <= d + i
      OBVIOUS
    <2>2. PICK j, k : j = d + 1 /\ k = d + i
      OBVIOUS
    <2>3. /\ S \in Nat /\ S < nxt[j] /\ nxt[j] \in Nat
          /\ nxt[k] = Start(C, nxt, k) + Width(C[k])
      BY <2>1, <2>2, StartFacts
    <2>4. nxt[k] \in Nat /\ nxt[j] + (k - j) <= nxt[k]
      <3>1. j \in 0 .. Len(C) /\ k \in 0 .. Len(C) /\ j <= k
        BY <2>1, <2>2
      <3> QED BY <3>1, Rising
    <2>5. S < nxt[k]
      <3>1. PICK x, y : x = nxt[j] /\ y = nxt[k]
        OBVIOUS
      <3> QED BY <2>1, <2>2, <2>3, <2>4, <3>1
    <2> QED BY <2>1, <2>2, <2>3, <2>4, <2>5
  <1> DEFINE e == [i \in 0 .. n |-> IF i = 0 THEN 0 ELSE nxt[d + i] - S]
  <1>2. e[0] = 0 /\ \A i \in 1 .. n : e[i] = nxt[d + i] - S /\ e[i] \in Nat
    <2>1. ASSUME NEW i \in 1 .. n PROVE nxt[d + i] - S \in Nat
      <3>1. PICK x, y : x = nxt[d + i] /\ y = S
        OBVIOUS
      <3>2. x \in Nat /\ y \in Nat /\ y < x
        BY <1>1, <3>1
      <3>3. x - y \in Nat
        BY <3>2
      <3> QED BY <3>1, <3>3
    <2>2. \A i \in 1 .. n : i \in 0 .. n /\ i # 0
      OBVIOUS
    <2>3. e[0] = 0 /\ \A i \in 1 .. n : e[i] = nxt[d + i] - S
      BY <2>2
    <2> QED BY <2>1, <2>3
  <1>3. e \in [0 .. n -> Nat]
    <2>1. \A i \in 0 .. n : i = 0 \/ i \in 1 .. n
      OBVIOUS
    <2>2. e = [i \in 0 .. n |-> e[i]]
      OBVIOUS
    <2> HIDE DEF e
    <2>3. \A i \in 0 .. n : e[i] \in Nat
      BY <1>2, <2>1
    <2> QED BY <2>2, <2>3
  <1> HIDE DEF e
  <1>4. ASSUME NEW i \in 1 .. n
        PROVE  S + e[i - 1] = Start(C, nxt, d + i)
    <2>1. CASE i = 1
      <3>1. i - 1 = 0 /\ d + i = d + 1 /\ S \in Nat
        BY <1>1, <2>1
      <3> QED BY <1>2, <3>1
    <2>2. CASE i # 1
      <3>1. PICK k : k = i - 1
        OBVIOUS
      <3>2. /\ k \in 1 .. n /\ d + k \in Nat /\ d < d + k /\ d + k < d + FlagBits
            /\ (d + i) - 1 = d + k
        BY <1>0, <2>2, <3>1
      <3>3. ~Grid((d + i) - 1)
        BY <3>2, GridBetween
      <3>4. Start(C, nxt, d + i) = nxt[d + k]
        BY <3>2, <3>3 DEF Start
      <3>5. PICK x : x = nxt[d + k]
        OBVIOUS
      <3>6. e[k] = x - S /\ x \in Nat /\ S \in Nat
        BY <1>1, <1>2, <3>2, <3>5
      <3> QED BY <3>1, <3>4, <3>5, <3>6
    <2> QED BY <2>1, <2>2
  <1>5. ASSUME NEW i \in 1 .. n
        PROVE  e[i] = e[i - 1] + Width(C[d + i])
    <2>1. PICK x, y, w : x = nxt[d + i] /\ y = e[i - 1] /\ w = Width(C[d + i])
      OBVIOUS
    <2>2. w \in Nat
      BY <2>1 DEF Width
    <2>3. y \in Nat
      <3>1. i - 1 \in 0 .. n
        OBVIOUS
      <3> QED BY <1>3, <2>1, <3>1
    <2>4. x = (S + y) + w /\ S \in Nat /\ x \in Nat
      BY <1>1, <1>4, <2>1
    <2>5. e[i] = x - S
      BY <1>2, <2>1
    <2>6. (S + y + w) - S = y + w
      BY <2>2, <2>3, <2>4
    <2> QED BY <2>1, <2>4, <2>5, <2>6
  <1>6. S + e[n] = nxt[d + n]
    <2>1. PICK x : x = nxt[d + n]
      OBVIOUS
    <2>2. e[n] = x - S /\ x \in Nat /\ S \in Nat
      BY <1>1, <1>2, <2>1
    <2> QED BY <2>1, <2>2
  <1> QED BY <1>2, <1>3, <1>4, <1>5, <1>6 DEF Follow

\* What is left of a sequence behind its first d elements, and of that behind n.
Left(r, T, s, d) ==
  /\ r \in Seq(T) /\ Len(r) = Len(s) - d
  /\ \A b \in 1 .. Len(s) - d : r[b] = s[d + b]

LEMMA Remainder ==
  ASSUME NEW T, NEW s \in Seq(T), NEW d \in 0 .. Len(s)
  PROVE  Left(SubSeq(s, d + 1, Len(s)), T, s, d)
  <1>1. Len(s) \in Nat
    BY LenProperties
  <1>2. \A i \in d + 1 .. Len(s) : s[i] \in T
    BY <1>1, ElementOfSeq
  <1>3. d + 1 \in Int /\ Len(s) \in Int
    BY <1>1
  <1>4. PICK r : r = SubSeq(s, d + 1, Len(s))
    OBVIOUS
  <1>5. /\ r \in Seq(T)
        /\ Len(r) = (IF d + 1 <= Len(s) THEN Len(s) - (d + 1) + 1 ELSE 0)
        /\ \A i \in 1 .. Len(s) - (d + 1) + 1 : r[i] = s[(d + 1) + i - 1]
    BY <1>1, <1>2, <1>3, <1>4, SubSeqProperties
  <1> QED BY <1>1, <1>4, <1>5 DEF Left

LEMMA RemainderOfRemainder ==
  ASSUME NEW T, NEW s \in Seq(T), NEW d \in 0 .. Len(s), NEW n \in 0 .. Len(s) - d
  PROVE  \A r : r = SubSeq(s, d + 1, Len(s)) => SubSeq(r, n + 1, Len(r)) = SubSeq(s, (d + n) + 1, Len(s))
  <1>1. Len(s) \in Nat /\ d + n \in 0 .. Len(s)
    BY LenProperties
  <1>2. PICK r, q, p : /\ r = SubSeq(s, d + 1, Len(s))
                       /\ q = SubSeq(r, n + 1, Len(r)) /\ p = SubSeq(s, (d + n) + 1, Len(s))
    OBVIOUS
  <1>3. /\ r \in Seq(T) /\ Len(r) = Len(s) - d
        /\ \A b \in 1 .. Len(s) - d : r[b] = s[d + b]
    BY <1>2, Remainder DEF Left
  <1>4. n \in 0 .. Len(r)
    BY <1>3
  <1>5. /\ q \in Seq(T) /\ Len(q) = Len(r) - n
        /\ \A b \in 1 .. Len(r) - n : q[b] = r[n + b]
    <2>1. Left(SubSeq(r, n + 1, Len(r)), T, r, n)
      BY <1>3, <1>4, Remainder
    <2> QED BY <1>2, <2>1 DEF Left
  <1>6. PICK m : m = d + n
    OBVIOUS
  <1>7. m \in 0 .. Len(s) /\ p = SubSeq(s, m + 1, Len(s))
    BY <1>1, <1>2, <1>6
  <1>8. /\ p \in Seq(T) /\ Len(p) = Len(s) - m
        /\ \A b \in 1 .. Len(s) - m : p[b] = s[m + b]
    <2>1. Left(SubSeq(s, m + 1, Len(s)), T, s, m)
      BY <1>7, Remainder
    <2> QED BY <1>7, <2>1 DEF Left
  <1>9. ASSUME NEW b \in 1 .. Len(q)
        PROVE  q[b] = p[b]
    <2>1. q[b] = r[n + b] /\ n + b \in 1 .. Len(s) - d /\ b \in 1 .. Len(s) - m
      BY <1>1, <1>3, <1>5, <1>6
    <2>2. r[n + b] = s[d + (n + b)]
      BY <1>3, <2>1
    <2>3. d + (n + b) = m + b
      BY <1>1, <1>3, <1>5, <1>6
    <2> QED BY <1>8, <2>1, <2>2, <2>3
  <1>10. Len(q) = Len(p)
    BY <1>1, <1>3, <1>5, <1>6, <1>8
  <1>11. q = p
    BY <1>5, <1>8, <1>9, <1>10, SeqEqual
  <1> QED BY <1>2, <1>11

\* The group behind the first d codepoints, with its flags in front of it.
LEMMA GroupPacked ==
  ASSUME NEW C \in Seq(Codepoint), NEW nxt, Laid(C, nxt), NEW d \in 0 .. Len(C), d < Len(C), Grid(d),
         codepoints = SubSeq(C, d + 1, Len(C)), packed \in Seq(AnyCell),
         NEW n, n = Smaller(Len(codepoints), FlagBits),
         NEW S, S = Start(C, nxt, d + 1), Len(packed) + 1 = S
  PROVE  /\ PackFlags \in Seq(AnyCell) /\ Len(PackFlags) = nxt[d + n]
         /\ \A i \in 1 .. Len(packed) : PackFlags[i] = packed[i]
         /\ PackFlags[S] = FlagsCell(C, d)
         /\ \A i \in 1 .. n : PackFlags[Start(C, nxt, d + i) + 1] = HeadCell(C[d + i])
  <1>1. /\ Len(C) \in Nat /\ FlagBits \in Nat \ {0} /\ Len(packed) \in Nat
        /\ codepoints \in Seq(Codepoint) /\ Len(codepoints) = Len(C) - d
        /\ \A b \in 1 .. Len(C) - d : codepoints[b] = C[d + b]
    BY Remainder, LenProperties, FlagAssumption DEF Left
  <1>2. /\ n \in Nat \ {0} /\ n <= FlagBits /\ d + n <= Len(C) /\ n \in 0 .. Len(codepoints)
        /\ n = Smaller(Len(C) - d, FlagBits)
    BY <1>1 DEF Smaller
  <1>3. PICK e : Follow(e, C, nxt, d, n, S)
    <2>1. /\ Len(C) \in Nat /\ d \in Nat /\ n \in Nat \ {0} /\ d + n <= Len(C)
          /\ n <= FlagBits /\ Laid(C, nxt) /\ Grid(d) /\ S = Start(C, nxt, d + 1)
      BY <1>1, <1>2
    <2> QED BY <2>1, GroupStarts
  <1>4. \A i \in 1 .. n : codepoints[i] = C[d + i]
    BY <1>1, <1>2
  <1>5. /\ Cells[n] \in Seq(AnyCell) /\ Len(Cells[n]) = e[n]
        /\ \A i \in 1 .. n : /\ e[i - 1] + 1 \in 1 .. e[n]
                             /\ Cells[n][e[i - 1] + 1] = HeadCell(codepoints[i])
    <2>1. \A i \in 1 .. n : e[i] = e[i - 1] + Width(codepoints[i])
      BY <1>3, <1>4 DEF Follow
    <2>2. codepoints \in Seq(Codepoint) /\ n \in 0 .. Len(codepoints) /\ e \in [0 .. n -> Nat] /\ e[0] = 0
      BY <1>1, <1>2, <1>3 DEF Follow
    <2> QED BY <2>1, <2>2, CellsPlaced
  <1>6. PICK f : f = FlagsCell(C, d)
    OBVIOUS
  <1>7. f = Cell("flags", [b \in 1 .. FlagBits |-> b > n \/ codepoints[b].length >= MinMatch])
    <2>1. \A b \in 1 .. FlagBits : (b > n \/ codepoints[b].length >= MinMatch) = (b > n \/ Long(C[d + b]))
      BY <1>2, <1>4 DEF Long
    <2>2. PICK g, h : /\ g = [b \in 1 .. FlagBits |-> b > n \/ codepoints[b].length >= MinMatch]
                      /\ h = [b \in 1 .. FlagBits |-> b > n \/ Long(C[d + b])]
      OBVIOUS
    <2>3. g = h
      BY <2>1, <2>2, Zenon
    <2>4. f = Cell("flags", h)
      BY <1>2, <1>6, <2>2 DEF FlagsCell
    <2> QED BY <2>2, <2>3, <2>4
  <1>8. f \in AnyCell
    <2>1. PICK g : /\ g = [b \in 1 .. FlagBits |-> b > n \/ codepoints[b].length >= MinMatch]
      OBVIOUS
    <2>2. g \in [1 .. FlagBits -> BOOLEAN]
      BY <2>1
    <2>3. f = Cell("flags", g)
      BY <1>7, <2>1
    <2> QED BY <2>2, <2>3 DEF Cell, AnyCell, Kinds, Values
  <1>9. PICK q, r : q = Append(packed, f) /\ r = Cells[n]
    OBVIOUS
  <1>10. /\ q \in Seq(AnyCell) /\ Len(q) = S /\ q[S] = f
         /\ \A i \in 1 .. Len(packed) : q[i] = packed[i]
    BY <1>1, <1>8, <1>9, AppendProperties
  <1>11. PICK m : m = e[n] /\ m = Len(r) /\ r \in Seq(AnyCell)
    BY <1>5, <1>9
  <1>12. /\ q \o r \in Seq(AnyCell) /\ Len(q \o r) = S + m
         /\ \A i \in 1 .. S : (q \o r)[i] = q[i]
         /\ \A i \in 1 .. m : (q \o r)[S + i] = r[i]
    <2>1. q \in Seq(AnyCell) /\ r \in Seq(AnyCell) /\ S = Len(q) /\ m = Len(r)
      BY <1>10, <1>11
    <2> QED BY <2>1, Joint, SMTT(30)
  <1>13. PICK P : P = PackFlags
    OBVIOUS
  <1>14. P = q \o r
    BY <1>7, <1>9, <1>13 DEF PackFlags
  <1>15. ASSUME NEW i \in 1 .. n
         PROVE  P[Start(C, nxt, d + i) + 1] = HeadCell(C[d + i])
    <2>1. PICK x : x = e[i - 1]
      OBVIOUS
    <2>2. x \in Nat /\ x + 1 \in 1 .. m /\ r[x + 1] = HeadCell(C[d + i])
      <3>1. i - 1 \in 0 .. n
        BY <1>2
      <3>2. x \in Nat
        BY <1>3, <2>1, <3>1 DEF Follow
      <3> QED BY <1>4, <1>5, <1>9, <1>11, <2>1, <3>2
    <2>3. Start(C, nxt, d + i) = S + x
      BY <1>3, <2>1 DEF Follow
    <2>4. S \in Nat
      BY <1>1
    <2>5. Start(C, nxt, d + i) + 1 = S + (x + 1)
      BY <2>2, <2>3, <2>4
    <2>6. PICK y : y = x + 1
      OBVIOUS
    <2> QED BY <1>12, <1>14, <2>2, <2>5, <2>6
  <1>16. \A i \in 1 .. Len(packed) : i \in 1 .. S
    BY <1>1
  <1>17. S \in 1 .. S
    BY <1>1
  <1>18. S + m = nxt[d + n]
    BY <1>3, <1>11 DEF Follow
  <1> QED BY <1>6, <1>10, <1>12, <1>13, <1>14, <1>15, <1>16, <1>17, <1>18

\* What closing a block does to its cells: the size at its origin, a count, and
\* the place for another size.
Closes(cells, P, o, w, left) ==
  /\ cells \in Seq(AnyCell) /\ Len(cells) = Len(P) + 3
  /\ \A i \in 1 .. Len(P) : i # o + 1 => cells[i] = P[i]
  /\ cells[o + 1] = Cell("size", w)
  /\ cells[Len(P) + 1] = Cell("count", left) /\ cells[Len(P) + 2] = Cell("size", 0)

ClosedCells(P, o, w, left) == [P EXCEPT ![o + 1].value = w] \o <<Cell("count", left)>>

LEMMA Closing ==
  ASSUME NEW P \in Seq(AnyCell), NEW o \in Nat, o + 1 <= Len(P), P[o + 1] = Cell("size", 0),
         NEW w \in Nat, NEW left \in Nat
  PROVE  /\ Len(ClosedCells(P, o, w, left)) = Len(P) + 1
         /\ Closes(ClosedCells(P, o, w, left) \o Blank, P, o, w, left)
  <1>1. PICK n, q : n = Len(P) /\ q = [P EXCEPT ![o + 1].value = w]
    OBVIOUS
  <1>2. n \in Nat /\ o + 1 \in 1 .. n
    BY <1>1, LenProperties
  <1>3. [P[o + 1] EXCEPT !.value = w] = Cell("size", w)
    BY DEF Cell
  <1>4. /\ Cell("size", w) \in AnyCell /\ Cell("count", left) \in AnyCell
        /\ Cell("size", 0) \in AnyCell /\ Hole \in AnyCell
    BY DEF Cell, AnyCell, Kinds, Values, Hole
  <1>5. q = [P EXCEPT ![o + 1] = Cell("size", w)]
    BY <1>1, <1>3
  <1>6. /\ q \in Seq(AnyCell) /\ n = Len(q)
        /\ \A i \in 1 .. n : q[i] = IF i = o + 1 THEN Cell("size", w) ELSE P[i]
    BY <1>1, <1>2, <1>4, <1>5, ExceptSeq, SMTT(30)
  <1>7. PICK c, b : c = <<Cell("count", left)>> /\ b = Blank
    OBVIOUS
  <1>8. /\ c \in Seq(AnyCell) /\ 1 = Len(c) /\ c[1] = Cell("count", left)
        /\ b \in Seq(AnyCell) /\ 2 = Len(b) /\ b[1] = Cell("size", 0)
    BY <1>4, <1>7 DEF Blank
  <1>9. PICK r : r = q \o c
    OBVIOUS
  <1>10. /\ r \in Seq(AnyCell) /\ Len(r) = n + 1
         /\ \A i \in 1 .. n : r[i] = q[i]
         /\ \A i \in 1 .. 1 : r[n + i] = c[i]
    <2>1. PICK a : a = 1
      OBVIOUS
    <2>2. q \in Seq(AnyCell) /\ c \in Seq(AnyCell) /\ n = Len(q) /\ a = Len(c)
      BY <1>6, <1>8, <2>1
    <2>3. /\ q \o c \in Seq(AnyCell) /\ Len(q \o c) = n + a
          /\ \A i \in 1 .. n : (q \o c)[i] = q[i]
          /\ \A i \in 1 .. a : (q \o c)[n + i] = c[i]
      BY <2>2, Joint
    <2> QED BY <1>9, <2>1, <2>3
  <1>11. PICK k : k = n + 1
    OBVIOUS
  <1>12. PICK s : s = r \o b
    OBVIOUS
  <1>13. /\ s \in Seq(AnyCell) /\ Len(s) = k + 2
         /\ \A i \in 1 .. k : s[i] = r[i]
         /\ \A i \in 1 .. 2 : s[k + i] = b[i]
    <2>1. PICK a : a = 2
      OBVIOUS
    <2>2. r \in Seq(AnyCell) /\ b \in Seq(AnyCell) /\ k = Len(r) /\ a = Len(b)
      BY <1>8, <1>10, <1>11, <2>1
    <2>3. /\ r \o b \in Seq(AnyCell) /\ Len(r \o b) = k + a
          /\ \A i \in 1 .. k : (r \o b)[i] = r[i]
          /\ \A i \in 1 .. a : (r \o b)[k + i] = b[i]
      BY <2>2, Joint
    <2> QED BY <1>12, <2>1, <2>3
  <1>14. \A i \in 1 .. n : i \in 1 .. k /\ s[i] = q[i]
    BY <1>2, <1>10, <1>11, <1>13
  <1>15. s[n + 1] = Cell("count", left)
    <2>1. k \in 1 .. k /\ 1 \in 1 .. 1
      BY <1>2, <1>11
    <2> QED BY <1>8, <1>10, <1>11, <1>13, <2>1
  <1>16. s[n + 2] = Cell("size", 0)
    <2>1. k + 1 = n + 2 /\ 1 \in 1 .. 2
      BY <1>2, <1>11
    <2> QED BY <1>8, <1>13, <2>1
  <1>17. Len(s) = n + 3
    BY <1>2, <1>11, <1>13
  <1>18. Closes(s, P, o, w, left)
    BY <1>1, <1>2, <1>6, <1>13, <1>14, <1>15, <1>16, <1>17 DEF Closes
  <1>19. s = ClosedCells(P, o, w, left) \o Blank
    BY <1>1, <1>7, <1>9, <1>12 DEF ClosedCells
  <1>20. Len(ClosedCells(P, o, w, left)) = Len(P) + 1
    BY <1>1, <1>7, <1>9, <1>10 DEF ClosedCells
  <1> QED BY <1>18, <1>19, <1>20

\* Between which positions a codepoint and its flags are.
LEMMA Bounds ==
  ASSUME NEW C, NEW nxt, Len(C) \in Nat, Laid(C, nxt), NEW d \in 0 .. Len(C), NEW i \in 1 .. d
  PROVE  Start(C, nxt, i) \in Nat /\ 2 <= Start(C, nxt, i) /\ Start(C, nxt, i) + 1 <= nxt[d]
  <1>1. /\ i \in 1 .. Len(C) /\ i \in 0 .. Len(C) /\ i - 1 \in 0 .. Len(C)
        /\ 0 \in 0 .. Len(C) /\ 0 <= i - 1 /\ i <= d
    OBVIOUS
  <1>2. PICK S, k : S = Start(C, nxt, i) /\ k = i - 1
    OBVIOUS
  <1>3. S \in Nat /\ nxt[k] \in Nat /\ nxt[i] \in Nat /\ nxt[k] <= S /\ S < nxt[i]
    BY <1>1, <1>2, StartFacts
  <1>4. nxt[0] + (k - 0) <= nxt[k] /\ nxt[i] + (d - i) <= nxt[d] /\ nxt[d] \in Nat
    BY <1>1, <1>2, Rising
  <1>5. nxt[0] = 2
    BY DEF Laid
  <1>6. PICK x, y, z : x = nxt[k] /\ y = nxt[i] /\ z = nxt[d]
    OBVIOUS
  <1>7. 2 <= x /\ x <= S
    BY <1>1, <1>2, <1>3, <1>4, <1>5, <1>6
  <1>8. S + 1 <= y /\ y <= z
    BY <1>1, <1>3, <1>4, <1>6
  <1> QED BY <1>2, <1>3, <1>4, <1>6, <1>7, <1>8, SMTT(30)

\* What is written stays, when no position of it changes.
LEMMA WrittenKept ==
  ASSUME NEW C, NEW nxt, Len(C) \in Nat, Laid(C, nxt), NEW d \in 0 .. Len(C), NEW P, NEW Q,
         Written(P, C, nxt, d), NEW skip,
         \A i \in 1 .. nxt[d] : i # skip => Q[i] = P[i],
         \A i \in 1 .. d : Start(C, nxt, i) # skip /\ Start(C, nxt, i) + 1 # skip
  PROVE  Written(Q, C, nxt, d)
  <1>1. ASSUME NEW i \in 1 .. d
        PROVE  /\ Q[Start(C, nxt, i) + 1] = P[Start(C, nxt, i) + 1]
               /\ Q[Start(C, nxt, i)] = P[Start(C, nxt, i)]
    <2>1. PICK a, b, z : a = Start(C, nxt, i) /\ b = a + 1 /\ z = nxt[d]
      OBVIOUS
    <2>2. a \in Nat /\ 2 <= a /\ a + 1 <= z
      BY <2>1, Bounds
    <2>3. z \in Nat
      BY <2>1 DEF Laid
    <2>4. a \in 1 .. z /\ b \in 1 .. z
      BY <2>1, <2>2, <2>3
    <2>5. a # skip /\ b # skip
      BY <2>1
    <2> QED BY <2>1, <2>4, <2>5
  <1> QED BY <1>1 DEF Written

\* With the next group in place its codepoints are written too.
LEMMA GroupWritten ==
  ASSUME NEW C, NEW nxt, Len(C) \in Nat, Laid(C, nxt), NEW d \in 0 .. Len(C), NEW n \in Nat \ {0},
         Grid(d), n <= FlagBits, d + n <= Len(C), Written(packed, C, nxt, d), NEW P,
         \A i \in 1 .. nxt[d] : P[i] = packed[i],
         P[Start(C, nxt, d + 1)] = FlagsCell(C, d),
         \A i \in 1 .. n : P[Start(C, nxt, d + i) + 1] = HeadCell(C[d + i])
  PROVE  Written(P, C, nxt, d + n)
  <1>1. Written(P, C, nxt, d)
    <2>1. ASSUME NEW i \in 1 .. d
          PROVE  Start(C, nxt, i) # 0 /\ Start(C, nxt, i) + 1 # 0
      <3>1. PICK a : a = Start(C, nxt, i)
        OBVIOUS
      <3>2. a \in Nat /\ 2 <= a
        BY <3>1, Bounds
      <3> QED BY <3>1, <3>2
    <2>2. \A i \in 1 .. nxt[d] : i # 0 => P[i] = packed[i]
      OBVIOUS
    <2> QED BY <2>1, <2>2, WrittenKept
  <1>2. PICK e : e = d + n
    OBVIOUS
  <1>3. ASSUME NEW i \in 1 .. e
        PROVE  /\ P[Start(C, nxt, i) + 1] = HeadCell(C[i])
               /\ Grid(i - 1) => P[Start(C, nxt, i)] = FlagsCell(C, i - 1)
    <2>1. CASE i <= d
      BY <1>1, <2>1 DEF Written
    <2>2. CASE i > d
      <3>1. PICK j \in 1 .. n : i = d + j
        <4>1. i - d \in 1 .. n /\ i = d + (i - d)
          BY <1>2, <2>2
        <4> QED BY <4>1
      <3>2. P[Start(C, nxt, i) + 1] = HeadCell(C[i])
        BY <3>1
      <3>3. ASSUME Grid(i - 1)
            PROVE  P[Start(C, nxt, i)] = FlagsCell(C, i - 1)
        <4>1. CASE j = 1
          <5>1. i = d + 1 /\ i - 1 = d
            BY <3>1, <4>1
          <5> QED BY <5>1
        <4>2. CASE j # 1
          <5>1. PICK y : y = i - 1
            OBVIOUS
          <5>2. y \in Nat /\ d < y /\ y < d + FlagBits /\ d \in Nat
            BY <3>1, <4>2, <5>1, FlagAssumption
          <5>3. ~Grid(y)
            BY <5>2, GridBetween
          <5> QED BY <3>3, <5>1, <5>3
        <4> QED BY <4>1, <4>2
      <3> QED BY <3>2, <3>3
    <2> QED BY <1>2, <2>1, <2>2
  <1> QED BY <1>2, <1>3 DEF Written

\* No codepoint begins where the second block keeps its size.
LEMMA SecondSize ==
  ASSUME NEW C, NEW nxt, Len(C) \in Nat, Laid(C, nxt), NEW K \in 0 .. Len(C),
         Grid(K), Len(C) < K + FlagBits, NEW i \in 1 .. Len(C)
  PROVE  Start(C, nxt, i) # nxt[K] + 2 /\ Start(C, nxt, i) + 1 # nxt[K] + 2
  <1>1. nxt[K] \in Nat /\ FlagBits \in Nat \ {0}
    BY FlagAssumption DEF Laid
  <1>2. PICK S, x : S = Start(C, nxt, i) /\ x = nxt[K]
    OBVIOUS
  <1>3. CASE i <= K
    <2>1. i \in 1 .. K
      BY <1>3
    <2>2. S \in Nat /\ S + 1 <= x
      BY <1>2, <2>1, Bounds
    <2> QED BY <1>1, <1>2, <2>2
  <1>4. CASE i > K
    <2>1. Start(C, nxt, K + 1) = x + 4
      <3>1. (K + 1) - 1 = K /\ ~(Len(C) - K >= FlagBits)
        BY <1>1
      <3> QED BY <1>2, <3>1 DEF Start
    <2>2. S >= x + 4 /\ S \in Nat
      <3>1. CASE i = K + 1
        BY <1>1, <1>2, <2>1, <3>1
      <3>2. CASE i # K + 1
        <4>1. PICK k, y : k = i - 1 /\ y = nxt[k]
          OBVIOUS
        <4>2. K + 1 \in 1 .. k /\ k \in 0 .. Len(C)
          BY <1>4, <3>2, <4>1
        <4>3. Start(C, nxt, K + 1) + 1 <= y
          BY <4>1, <4>2, Bounds
        <4>4. y <= S /\ y \in Nat /\ S \in Nat
          BY <1>2, <4>1, StartFacts
        <4> QED BY <1>1, <1>2, <2>1, <4>3, <4>4
      <3> QED BY <3>1, <3>2
    <2> QED BY <1>1, <1>2, <2>2
  <1> QED BY <1>3, <1>4

LEMMA PackStep ==
  ASSUME IInv, Pack
  PROVE  IInv'
  <1>1. /\ phase = "pack" /\ phase' = "pack" /\ codepoints # <<>>
        /\ UNCHANGED <<input, padding, source, output>> /\ packed \in Seq(AnyCell)
    BY DEF Pack, reading, IInv, Shape
  <1>2. PICK C, cov, nxt, K, d : Plan(C, cov, nxt, K) /\ Packing(C, nxt, K, d)
    BY <1>1 DEF IInv, Packs
  <1>3. /\ C \in Seq(Codepoint) /\ Len(C) \in Nat /\ Laid(C, nxt) /\ FlagBits \in Nat \ {0}
        /\ d \in 0 .. Len(C) /\ d \in Nat /\ K \in FlagBits .. Len(C) /\ K \in 0 .. Len(C) /\ Grid(K)
        /\ Len(C) < K + FlagBits /\ codepoints = SubSeq(C, d + 1, Len(C))
        /\ Written(packed, C, nxt, d) /\ packed[origin + 1] = Cell("size", 0)
    <2>1. C \in Seq(Codepoint)
      BY <1>2 DEF Plan, Described
    <2>2. Len(C) \in Nat
      BY <2>1, LenProperties
    <2> QED BY <1>2, <2>1, <2>2, FlagAssumption DEF Plan, Packing
  <1>4. Left(codepoints, Codepoint, C, d)
    BY <1>3, Remainder
  <1>5. d < Len(C) /\ d <= K /\ Grid(d)
    <2>1. d # Len(C)
      <3>1. ASSUME d = Len(C) PROVE FALSE
        <4>1. codepoints \in Seq(Codepoint) /\ Len(codepoints) = 0
          BY <1>3, <1>4, <3>1 DEF Left
        <4> QED BY <1>1, <4>1, EmptySeq
      <3> QED BY <3>1
    <2> QED BY <1>2, <1>3, <2>1 DEF Packing
  <1>6. PICK n, e : n = Smaller(Len(codepoints), FlagBits) /\ e = d + n
    OBVIOUS
  <1>7. /\ n \in Nat \ {0} /\ n <= FlagBits /\ e \in 0 .. Len(C) /\ n \in 0 .. Len(C) - d
        /\ \/ d < K /\ e = d + FlagBits /\ e <= K /\ Grid(e)
           \/ d = K /\ e = Len(C)
    <2>1. Len(codepoints) = Len(C) - d
      BY <1>4 DEF Left
    <2>2. d < K => d + FlagBits <= K /\ Grid(d + FlagBits)
      BY <1>3, <1>5, GridFacts
    <2> QED BY <1>3, <1>5, <1>6, <2>1, <2>2 DEF Smaller
  <1>8. PICK S, x, y : S = Start(C, nxt, d + 1) /\ x = nxt[d] /\ y = nxt[e]
    OBVIOUS
  <1>9. x \in Nat /\ y \in Nat /\ 2 <= x /\ x < y
    <2>1. 0 \in 0 .. Len(C) /\ 0 <= d /\ d < e
      BY <1>3, <1>6, <1>7
    <2>2. nxt[0] + (d - 0) <= nxt[d] /\ nxt[d] + (e - d) <= nxt[e] /\ nxt[d] \in Nat /\ nxt[e] \in Nat
      <3>1. nxt[0] + (d - 0) <= nxt[d] /\ nxt[d] \in Nat
        BY <1>3, <2>1, Rising
      <3>2. d <= e
        BY <1>3, <1>7, <2>1
      <3>3. nxt[d] + (e - d) <= nxt[e] /\ nxt[e] \in Nat
        BY <1>3, <1>7, <3>2, Rising
      <3> QED BY <3>1, <3>3
    <2>3. nxt[0] = 2
      BY <1>3 DEF Laid
    <2> QED BY <1>3, <1>7, <1>8, <2>1, <2>2, <2>3, SMTT(30)
  <1>10. Len(packed) + 1 = S /\ Len(packed) >= x /\ Len(packed) \in Nat
    <2>1. (d + 1) - 1 = d
      BY <1>3
    <2>2. S = IF Len(C) - d >= FlagBits THEN x + 1 ELSE x + 4
      BY <1>5, <1>8, <2>1 DEF Start
    <2>3. CASE d < K
      <3>1. Len(C) - d >= FlagBits
        BY <1>3, <1>7, <2>3
      <3>2. Len(packed) = x
        BY <1>2, <1>8, <2>3 DEF Packing
      <3> QED BY <1>9, <2>2, <3>1, <3>2
    <2>4. CASE d = K
      <3>1. ~(Len(C) - d >= FlagBits) /\ ~(d < K)
        BY <1>3, <2>4
      <3>2. Len(packed) = x + 3
        BY <1>2, <1>8, <3>1 DEF Packing
      <3> QED BY <1>9, <2>2, <3>1, <3>2
    <2> QED BY <1>3, <1>5, <2>3, <2>4
  <1>11. PICK P : P = PackFlags
    OBVIOUS
  <1>12. /\ P \in Seq(AnyCell) /\ Len(P) = y
         /\ \A i \in 1 .. Len(packed) : P[i] = packed[i]
         /\ P[S] = FlagsCell(C, d)
         /\ \A i \in 1 .. n : P[Start(C, nxt, d + i) + 1] = HeadCell(C[d + i])
    <2>1. /\ C \in Seq(Codepoint) /\ Laid(C, nxt) /\ d \in 0 .. Len(C) /\ d < Len(C) /\ Grid(d)
          /\ codepoints = SubSeq(C, d + 1, Len(C)) /\ packed \in Seq(AnyCell)
          /\ n = Smaller(Len(codepoints), FlagBits)
          /\ S = Start(C, nxt, d + 1) /\ Len(packed) + 1 = S
      BY <1>1, <1>3, <1>5, <1>6, <1>8, <1>10
    <2>2. /\ PackFlags \in Seq(AnyCell) /\ Len(PackFlags) = nxt[d + n]
          /\ \A i \in 1 .. Len(packed) : PackFlags[i] = packed[i]
          /\ PackFlags[S] = FlagsCell(C, d)
          /\ \A i \in 1 .. n : PackFlags[Start(C, nxt, d + i) + 1] = HeadCell(C[d + i])
      BY <2>1, GroupPacked
    <2> QED BY <1>6, <1>8, <1>11, <2>2
  <1>13. Written(P, C, nxt, e)
    <2>1. \A i \in 1 .. nxt[d] : P[i] = packed[i]
      BY <1>8, <1>9, <1>10, <1>12
    <2>2. /\ Len(C) \in Nat /\ Laid(C, nxt) /\ d \in 0 .. Len(C) /\ n \in Nat \ {0}
          /\ Grid(d) /\ n <= FlagBits /\ d + n <= Len(C) /\ Written(packed, C, nxt, d)
          /\ P[Start(C, nxt, d + 1)] = FlagsCell(C, d)
          /\ \A i \in 1 .. n : P[Start(C, nxt, d + i) + 1] = HeadCell(C[d + i])
      BY <1>3, <1>5, <1>6, <1>7, <1>8, <1>12
    <2>3. Written(P, C, nxt, d + n)
      BY <2>1, <2>2, GroupWritten
    <2> QED BY <1>6, <2>3
  <1>14. codepoints' = SubSeq(C, e + 1, Len(C)) /\ Len(Rest(n)) = Len(C) - e
    <2>1. codepoints' = Rest(n)
      BY <1>6 DEF Pack
    <2>2. Rest(n) = SubSeq(C, (d + n) + 1, Len(C))
      BY <1>3, <1>7, RemainderOfRemainder DEF Rest
    <2>3. Left(SubSeq(C, e + 1, Len(C)), Codepoint, C, e)
      BY <1>3, <1>7, Remainder
    <2> QED BY <1>6, <2>1, <2>2, <2>3 DEF Left
  <1>15. /\ origin \in Nat /\ origin + 1 <= Len(P) /\ P[origin + 1] = Cell("size", 0)
         /\ d < K => origin = 0
         /\ d = K => origin = x + 1 /\ ClosedFirst(packed, C, nxt, K)
    <2>1. CASE d < K
      <3>1. origin = 0
        BY <1>2, <2>1 DEF Packing
      <3>2. 1 \in 1 .. Len(packed)
        BY <1>9, <1>10
      <3> QED BY <1>3, <1>9, <1>12, <2>1, <3>1, <3>2
    <2>2. CASE d = K
      <3>1. ~(d < K)
        BY <1>3, <2>2
      <3>2. origin = x + 1 /\ Len(packed) = x + 3 /\ ClosedFirst(packed, C, nxt, K)
        BY <1>2, <1>8, <3>1 DEF Packing
      <3>3. Len(P) >= Len(packed)
        <4>1. d + 1 \in 1 .. e
          BY <1>6, <1>7, <1>3
        <4>2. S \in Nat /\ S + 1 <= y
          BY <1>3, <1>7, <1>8, <4>1, Bounds
        <4> QED BY <1>9, <1>10, <1>12, <4>2
      <3>4. PICK o : o = origin + 1
        OBVIOUS
      <3>5. o \in 1 .. Len(packed) /\ o <= Len(P) /\ origin \in Nat
        BY <1>9, <1>10, <1>12, <3>2, <3>3, <3>4
      <3> QED BY <1>3, <1>12, <2>2, <3>1, <3>2, <3>4, <3>5
    <2> QED BY <1>3, <1>5, <2>1, <2>2
  <1>16. PICK left : left = Len(C) - e /\ left \in Nat
    BY <1>3, <1>7
  <1>17. CASE left >= FlagBits
    <2>1. packed' = P /\ origin' = origin
      BY <1>6, <1>11, <1>14, <1>16, <1>17 DEF Pack
    <2>2. e < K /\ Grid(e) /\ d < K
      <3>1. Len(C) \in Nat /\ K + FlagBits > Len(C)
        BY <1>3
      <3> QED BY <1>3, <1>7, <1>16, <1>17, <3>1
    <2>3. Packing(C, nxt, K, e)'
      BY <1>7, <1>8, <1>12, <1>13, <1>14, <1>15, <2>1, <2>2 DEF Packing
    <2>4. Packs'
      BY <1>1, <1>2, <2>3 DEF Packs, Unread, IInv, Plan, Padded
    <2> QED BY <1>1, <1>12, <2>1, <2>4 DEF IInv, Shape, Restoring
  <1>18. CASE ~(left >= FlagBits)
    <2>1. PICK w : w = EndSize(y) /\ w \in Nat
      <3>1. y - 2 \in Int /\ y - 0 \in Int /\ SizeModulus \in Nat \ {0}
        BY <1>9, FlagAssumption
      <3>2. EndSize(y) = (y - 2) % SizeModulus \/ EndSize(y) = (y - 0) % SizeModulus
        BY DEF EndSize
      <3> QED BY <3>1, <3>2
    <2>2. /\ packed' = ClosedCells(P, origin, w, left) \o Blank
          /\ origin' = Len(ClosedCells(P, origin, w, left))
      BY <1>6, <1>11, <1>12, <1>14, <1>16, <1>18, <2>1 DEF Pack, CloseBlock, ClosedCells
    <2>3. /\ origin' = y + 1 /\ Closes(packed', P, origin, w, left)
      <3>1. /\ P \in Seq(AnyCell) /\ origin \in Nat /\ w \in Nat /\ left \in Nat
            /\ origin + 1 <= Len(P) /\ P[origin + 1] = Cell("size", 0)
        BY <1>12, <1>15, <1>16, <2>1
      <3>2. /\ Len(ClosedCells(P, origin, w, left)) = Len(P) + 1
            /\ Closes(ClosedCells(P, origin, w, left) \o Blank, P, origin, w, left)
        BY <3>1, Closing
      <3> QED BY <1>12, <2>2, <3>2
    <2>4. /\ packed' \in Seq(AnyCell) /\ Len(packed') = y + 3
          /\ \A i \in 1 .. y : i # origin + 1 => packed'[i] = P[i]
          /\ packed'[origin + 1] = Cell("size", w)
          /\ packed'[y + 1] = Cell("count", left) /\ packed'[y + 2] = Cell("size", 0)
      BY <1>12, <2>3 DEF Closes
    <2>5. ASSUME d < K
          PROVE  /\ ~(e < K) /\ (e = K \/ e = Len(C)) /\ ClosedFirst(packed', C, nxt, K)
                 /\ e = Len(C) => ClosedLast(packed', C, nxt, K)
                 /\ Written(packed', C, nxt, e)
      <3>1. e = K /\ origin = 0
        <4>1. ~(e < K)
          <5>1. ASSUME e < K PROVE FALSE
            <6>1. e + FlagBits <= K
              BY <1>3, <1>7, <2>5, <5>1, GridFacts
            <6> QED BY <1>3, <1>7, <1>16, <1>18, <6>1
          <5> QED BY <5>1
        <4> QED BY <1>3, <1>7, <1>15, <2>5, <4>1
      <3>2. w = (y - 2) % SizeModulus
        BY <2>1, <3>1 DEF EndSize
      <3>3. origin + 1 = 1
        BY <3>1
      <3>4. ClosedFirst(packed', C, nxt, K)
        BY <1>8, <1>16, <2>4, <3>1, <3>2, <3>3 DEF ClosedFirst
      <3>5. e = Len(C) => ClosedLast(packed', C, nxt, K)
        BY <1>3, <3>1 DEF ClosedLast
      <3>6. Written(packed', C, nxt, e)
        <4>1. ASSUME NEW i \in 1 .. e
              PROVE  Start(C, nxt, i) # 1 /\ Start(C, nxt, i) + 1 # 1
          <5>1. PICK a : a = Start(C, nxt, i)
            OBVIOUS
          <5>2. a \in Nat /\ 2 <= a
            BY <1>3, <1>7, <5>1, Bounds
          <5> QED BY <5>1, <5>2
        <4>2. \A i \in 1 .. nxt[e] : i # 1 => packed'[i] = P[i]
          BY <1>8, <2>4, <3>3
        <4> QED BY <1>3, <1>7, <1>13, <4>1, <4>2, WrittenKept
      <3>7. ~(e < K)
        BY <1>3, <3>1
      <3> QED BY <3>1, <3>4, <3>5, <3>6, <3>7
    <2>6. ASSUME d = K
          PROVE  /\ ~(e < K) /\ (e = K \/ e = Len(C)) /\ ClosedFirst(packed', C, nxt, K)
                 /\ e = Len(C) => ClosedLast(packed', C, nxt, K)
                 /\ Written(packed', C, nxt, e)
      <3>1. e = Len(C) /\ origin = x + 1 /\ ClosedFirst(packed, C, nxt, K)
        BY <1>3, <1>7, <1>15, <2>6
      <3>2. w = y % SizeModulus
        <4>1. EndSize(y) = (y - 0) % SizeModulus /\ y - 0 = y
          BY <1>9, <3>1 DEF EndSize
        <4> QED BY <2>1, <4>1
      <3>3. origin + 1 = x + 2
        BY <1>9, <3>1
      <3>4. ClosedFirst(packed', C, nxt, K)
        <4>1. x = nxt[K]
          BY <1>8, <2>6
        <4>2. /\ 1 \in 1 .. Len(packed) /\ x + 1 \in 1 .. Len(packed)
              /\ 1 \in 1 .. y /\ x + 1 \in 1 .. y /\ 1 # x + 2 /\ x + 1 # x + 2
          <5>1. S \in Nat /\ S + 1 <= y
            <6>1. d + 1 \in 1 .. e
              BY <1>6, <1>7, <1>3
            <6> QED BY <1>3, <1>7, <1>8, <6>1, Bounds
          <5>2. Len(packed) = x + 3
            BY <1>2, <1>8, <2>6, <1>3 DEF Packing
          <5> QED BY <1>9, <1>10, <5>1, <5>2
        <4>3. packed'[1] = packed[1] /\ packed'[x + 1] = packed[x + 1]
          BY <1>12, <2>4, <3>3, <4>2
        <4> QED BY <3>1, <4>1, <4>3 DEF ClosedFirst
      <3>5. ClosedLast(packed', C, nxt, K)
        <4>1. left = 0 /\ nxt[K] = x /\ nxt[Len(C)] = y
          BY <1>3, <1>8, <1>16, <2>6, <3>1
        <4> QED BY <2>4, <3>2, <3>3, <4>1 DEF ClosedLast
      <3>6. Written(packed', C, nxt, e)
        <4>1. ASSUME NEW i \in 1 .. e
              PROVE  Start(C, nxt, i) # x + 2 /\ Start(C, nxt, i) + 1 # x + 2
          <5>1. i \in 1 .. Len(C) /\ nxt[K] = x
            BY <1>8, <2>6, <3>1
          <5> QED BY <1>3, <5>1, SecondSize
        <4>2. \A i \in 1 .. nxt[e] : i # x + 2 => packed'[i] = P[i]
          BY <1>8, <2>4, <3>3
        <4> QED BY <1>3, <1>7, <1>13, <4>1, <4>2, WrittenKept
      <3>7. ~(e < K)
        BY <1>3, <3>1
      <3> QED BY <3>1, <3>4, <3>5, <3>6, <3>7
    <2>7. /\ ~(e < K) /\ (e = K \/ e = Len(C)) /\ ClosedFirst(packed', C, nxt, K)
          /\ e = Len(C) => ClosedLast(packed', C, nxt, K)
          /\ Written(packed', C, nxt, e)
      <3>1. d < K \/ d = K
        BY <1>3, <1>5
      <3> QED BY <2>5, <2>6, <3>1, Zenon
    <2>8. packed'[origin' + 1] = Cell("size", 0)
      <3>1. origin' + 1 = y + 2
        BY <1>9, <2>3
      <3> QED BY <2>4, <3>1
    <2>9. Packing(C, nxt, K, e)'
      <3>1. e = Len(C) \/ (e <= K /\ Grid(e))
        BY <1>3, <2>7
      <3>2. origin' = nxt[e] + 1 /\ Len(packed') = nxt[e] + 3
        BY <1>8, <2>3, <2>4
      <3> QED BY <1>7, <1>14, <2>7, <2>8, <3>1, <3>2 DEF Packing
    <2>10. Packs'
      BY <1>1, <1>2, <2>9 DEF Packs, Unread, IInv, Plan, Padded
    <2> QED BY <1>1, <2>4, <2>10 DEF IInv, Shape, Restoring
  <1> QED BY <1>17, <1>18

LEMMA FinishStep ==
  ASSUME IInv, Finish
  PROVE  IInv'
  <1>1. /\ phase = "pack" /\ phase' = "size" /\ codepoints = <<>>
        /\ UNCHANGED <<input, padding, source, output>> /\ packed \in Seq(AnyCell)
        /\ packed' = SubSeq(packed, 1, Len(packed) - 2)
        /\ input \in Seq(Nat) /\ padding \in Nat
    BY DEF Finish, reading, IInv, Shape
  <1>2. PICK C, cov, nxt, K, d : Plan(C, cov, nxt, K) /\ Packing(C, nxt, K, d)
    BY <1>1 DEF IInv, Packs
  <1>3. /\ C \in Seq(Codepoint) /\ Len(C) \in Nat /\ Laid(C, nxt) /\ FlagBits \in Nat \ {0}
        /\ d \in 0 .. Len(C) /\ K \in FlagBits .. Len(C) /\ K \in 0 .. Len(C)
        /\ codepoints = SubSeq(C, d + 1, Len(C)) /\ Written(packed, C, nxt, d)
    <2>1. C \in Seq(Codepoint)
      BY <1>2 DEF Plan, Described
    <2>2. Len(C) \in Nat
      BY <2>1, LenProperties
    <2> QED BY <1>2, <2>1, <2>2, FlagAssumption DEF Plan, Packing
  <1>4. d = Len(C)
    <2>1. Left(codepoints, Codepoint, C, d)
      BY <1>3, Remainder
    <2>2. Len(C) - d = 0
      BY <1>1, <2>1 DEF Left
    <2> QED BY <1>3, <2>2
  <1>5. PICK L, x, y : L = Len(C) /\ x = nxt[K] /\ y = nxt[L]
    OBVIOUS
  <1>6. x \in Nat /\ y \in Nat /\ x <= y /\ (K < L => x < y)
    <2>1. nxt[K] + (L - K) <= nxt[L] /\ nxt[K] \in Nat /\ nxt[L] \in Nat
      <3>1. L \in 0 .. Len(C) /\ K <= L
        BY <1>3, <1>5
      <3> QED BY <1>3, <3>1, Rising
    <2> QED BY <1>3, <1>5, <2>1
  <1>7. /\ Len(packed) = y + 3 /\ ClosedFirst(packed, C, nxt, K) /\ ClosedLast(packed, C, nxt, K)
    <2>1. ~(d < K)
      BY <1>3, <1>4
    <2> QED BY <1>2, <1>4, <1>5, <2>1 DEF Packing
  <1>8. /\ packed' \in Seq(AnyCell) /\ Len(packed') = y + 1
        /\ \A i \in 1 .. y + 1 : packed'[i] = packed[i]
    <2>1. PICK m : m = y + 1
      OBVIOUS
    <2>2. Len(packed) - 2 = m /\ m \in Nat /\ 1 <= m /\ (m - 1) + 1 = m
      BY <1>6, <1>7, <2>1
    <2>3. packed' = SubSeq(packed, 1, m)
      BY <1>1, <2>2
    <2>4. \A i \in 1 .. m : packed[i] \in AnyCell
      <3>1. \A i \in 1 .. m : i \in 1 .. Len(packed)
        BY <1>6, <1>7, <2>1
      <3> QED BY <1>1, <3>1, ElementOfSeq
    <2>5. /\ SubSeq(packed, 1, m) \in Seq(AnyCell)
          /\ Len(SubSeq(packed, 1, m)) = (IF 1 <= m THEN m - 1 + 1 ELSE 0)
          /\ \A i \in 1 .. m - 1 + 1 : SubSeq(packed, 1, m)[i] = packed[1 + i - 1]
      BY <1>1, <2>2, <2>4, SubSeqProperties
    <2>6. \A i \in 1 .. m : packed'[i] = packed[i]
      <3>1. ASSUME NEW i \in 1 .. m PROVE packed'[i] = packed[i]
        <4>1. i \in 1 .. m - 1 + 1 /\ 1 + i - 1 = i
          BY <2>2
        <4> QED BY <2>3, <2>5, <4>1
      <3> QED BY <3>1
    <2>7. Len(packed') = m
      BY <2>2, <2>3, <2>5
    <2> QED BY <2>1, <2>3, <2>5, <2>6, <2>7
  <1>9. Written(packed', C, nxt, L)
    <2>1. ASSUME NEW i \in 1 .. L
          PROVE  Start(C, nxt, i) # 0 /\ Start(C, nxt, i) + 1 # 0
      <3>1. PICK a : a = Start(C, nxt, i)
        OBVIOUS
      <3>2. L \in 0 .. Len(C)
        BY <1>3, <1>5
      <3>3. a \in Nat /\ 2 <= a
        BY <1>3, <3>1, <3>2, Bounds
      <3> QED BY <3>1, <3>3
    <2>2. \A i \in 1 .. nxt[L] : i # 0 => packed'[i] = packed[i]
      BY <1>5, <1>6, <1>8
    <2>3. L \in 0 .. Len(C) /\ Written(packed, C, nxt, L)
      BY <1>3, <1>4, <1>5
    <2> QED BY <1>3, <2>1, <2>2, <2>3, WrittenKept
  <1>10. ClosedFirst(packed', C, nxt, K)
    <2>1. 1 \in 1 .. y + 1 /\ x + 1 \in 1 .. y + 1
      BY <1>6
    <2> QED BY <1>5, <1>7, <1>8, <2>1 DEF ClosedFirst
  <1>11. ClosedLast(packed', C, nxt, K)
    <2>1. K < L => x + 2 \in 1 .. y + 1 /\ y + 1 \in 1 .. y + 1
      BY <1>6
    <2> QED BY <1>5, <1>7, <1>8, <2>1 DEF ClosedLast
  <1>12. Plan(C, cov, nxt, K)'
    BY <1>1, <1>2 DEF Plan, Padded
  <1>13. Packed(C, nxt, K)'
    BY <1>5, <1>8, <1>9, <1>10, <1>11 DEF Packed
  <1>14. Reading(C, cov, nxt, K, 0)'
    <2>1. output = <<>> /\ source = 0
      BY <1>1 DEF IInv, Packs, Unread
    <2>2. SubSeq(Padded, 1, 0)' = <<>>
      OBVIOUS
    <2>3. cov[0] = 0
      BY <1>2 DEF Plan, Described
    <2>4. 0 \in 0 .. Len(C)
      BY <1>3
    <2> QED BY <1>1, <2>1, <2>2, <2>3, <2>4 DEF Reading, ReadingSize
  <1>15. Restores'
    BY <1>12, <1>13, <1>14 DEF Restores
  <1> QED BY <1>1, <1>8, <1>15 DEF IInv, Shape, Restoring
-----------------------------------------------------------------------------
(* The reading. *)

\* What the decompressor has before it, while the data is not too long.
Setting(C, cov, nxt, K) ==
  /\ C \in Seq(Codepoint) /\ Len(C) \in Nat /\ Laid(C, nxt) /\ FlagBits \in Nat \ {0}
  /\ K \in FlagBits .. Len(C) /\ K \in 0 .. Len(C) /\ Grid(K) /\ Len(C) < K + FlagBits
  /\ Described(C, cov, Padded) /\ cov[Len(C)] = Len(Padded)
  /\ Packed(C, nxt, K)
  /\ Len(packed) = nxt[Len(C)] + 1 /\ nxt[Len(C)] \in Nat /\ nxt[Len(C)] + 1 < SizeModulus
  /\ SizeModulus \in Nat \ {0}

LEMMA Facing ==
  ASSUME IInv, Restoring, Fits
  PROVE  \E C, cov, nxt, K, r : Setting(C, cov, nxt, K) /\ Reading(C, cov, nxt, K, r)
  <1>1. PICK C, cov, nxt, K, r : /\ Plan(C, cov, nxt, K) /\ Packed(C, nxt, K)
                                 /\ Reading(C, cov, nxt, K, r)
    BY DEF IInv, Restores
  <1>2. C \in Seq(Codepoint)
    BY <1>1 DEF Plan, Described
  <1>3. Len(C) \in Nat /\ FlagBits \in Nat \ {0} /\ SizeModulus \in Nat \ {0}
    BY <1>2, LenProperties, FlagAssumption
  <1>4. /\ Laid(C, nxt) /\ K \in FlagBits .. Len(C) /\ Grid(K) /\ Len(C) < K + FlagBits
        /\ Described(C, cov, Padded) /\ cov[Len(C)] = Len(Padded)
    BY <1>1 DEF Plan
  <1>5. K \in 0 .. Len(C)
    BY <1>3, <1>4
  <1>6. nxt[Len(C)] \in Nat
    BY <1>3, <1>4 DEF Laid
  <1>7. Len(packed) = nxt[Len(C)] + 1 /\ nxt[Len(C)] + 1 < SizeModulus
    BY <1>1 DEF Packed, Fits
  <1> QED BY <1>1, <1>2, <1>3, <1>4, <1>5, <1>6, <1>7 DEF Setting

\* The positions a reader may be at.
LEMMA Places ==
  ASSUME NEW C, NEW cov, NEW nxt, NEW K, Setting(C, cov, nxt, K), NEW r \in 0 .. Len(C)
  PROVE  /\ nxt[r] \in Nat /\ 2 <= nxt[r] /\ nxt[r] <= nxt[Len(C)]
         /\ r <= K => nxt[r] <= nxt[K]
         /\ r < K => nxt[r] < nxt[K]
         /\ r < Len(C) => nxt[r] < nxt[Len(C)]
  <1>1. Len(C) \in Nat /\ Laid(C, nxt) /\ K \in 0 .. Len(C) /\ 0 \in 0 .. Len(C) /\ Len(C) \in 0 .. Len(C)
    BY DEF Setting
  <1>2. nxt[0] = 2
    BY <1>1 DEF Laid
  <1>3. nxt[0] + (r - 0) <= nxt[r] /\ nxt[r] \in Nat
    BY <1>1, Rising
  <1>4. nxt[r] + (Len(C) - r) <= nxt[Len(C)] /\ nxt[Len(C)] \in Nat
    <2>1. r <= Len(C)
      BY <1>1
    <2> QED BY <1>1, <2>1, Rising
  <1>5. r <= K => nxt[r] + (K - r) <= nxt[K] /\ nxt[K] \in Nat
    BY <1>1, Rising
  <1>6. PICK x, y, z : x = nxt[r] /\ y = nxt[K] /\ z = nxt[Len(C)]
    OBVIOUS
  <1>7. x \in Nat /\ 2 <= x /\ x <= z /\ (r < Len(C) => x < z)
    BY <1>1, <1>2, <1>3, <1>4, <1>6
  <1>8. (r <= K => x <= y) /\ (r < K => x < y)
    BY <1>1, <1>3, <1>5, <1>6
  <1> QED BY <1>6, <1>7, <1>8

LEMMA SizeRead ==
  ASSUME NEW C, NEW cov, NEW nxt, NEW K, NEW r \in 0 .. Len(C), Setting(C, cov, nxt, K),
         phase = "size", ReadingSize(C, nxt, K, r)
  PROVE  /\ Readable
         /\ \/ /\ r = 0 /\ source = 0
               /\ (Read + (IF source = 0 THEN 2 ELSE 0)) % SizeModulus = nxt[K]
            \/ /\ r = K /\ K < Len(C) /\ source = nxt[K] + 1 /\ source # 0 /\ remaining = Len(C) - K
               /\ (Read + (IF source = 0 THEN 2 ELSE 0)) % SizeModulus = nxt[Len(C)]
  <1>1. PICK x, y : x = nxt[K] /\ y = nxt[Len(C)]
    OBVIOUS
  <1>2. /\ x \in Nat /\ y \in Nat /\ 2 <= x /\ x <= y /\ (K < Len(C) => x < y)
        /\ Len(packed) = y + 1 /\ y + 1 < SizeModulus /\ SizeModulus \in Nat \ {0}
    <2>1. K \in 0 .. Len(C)
      BY DEF Setting
    <2> QED BY <1>1, <2>1, Places DEF Setting
  <1>3. /\ packed[1] = Cell("size", (x - 2) % SizeModulus)
        /\ K < Len(C) => packed[x + 2] = Cell("size", y % SizeModulus)
    BY <1>1 DEF Setting, Packed, ClosedFirst, ClosedLast
  <1>4. (x - 2) % SizeModulus = x - 2 /\ x % SizeModulus = x /\ y % SizeModulus = y
    BY <1>2
  <1>5. Wanted = "size"
    BY DEF Wanted
  <1>6. CASE r = 0 /\ source = 0
    <2>1. 0 + 1 = 1 /\ source + 1 = 1 /\ source < Len(packed)
      BY <1>2, <1>6
    <2>2. packed[source + 1].kind = "size" /\ Read = x - 2
      BY <1>3, <1>4, <2>1 DEF Cell, Read
    <2>3. Read + (IF source = 0 THEN 2 ELSE 0) = x
      BY <1>2, <1>6, <2>2
    <2> QED BY <1>1, <1>4, <1>5, <1>6, <2>1, <2>2, <2>3 DEF Readable
  <1>7. CASE r = K /\ K < Len(C) /\ source = x + 1 /\ remaining = Len(C) - K
    <2>1. source + 1 = x + 2 /\ source < Len(packed) /\ source # 0
      BY <1>2, <1>7
    <2>2. packed[source + 1].kind = "size" /\ Read = y
      BY <1>3, <1>4, <1>7, <2>1 DEF Cell, Read
    <2>3. Read + (IF source = 0 THEN 2 ELSE 0) = y
      BY <1>2, <2>1, <2>2
    <2> QED BY <1>1, <1>4, <1>5, <1>7, <2>1, <2>2, <2>3 DEF Readable
  <1> QED BY <1>1, <1>6, <1>7 DEF ReadingSize

\* A step of the decompressor leaves the plan and the data as they are.
LEMMA Onward ==
  ASSUME IInv, phase' \in {"size", "flags", "codes", "done"}, UNCHANGED <<input, padding, packed>>,
         Fits => \E C, cov, nxt, K, r : Setting(C, cov, nxt, K) /\ Reading(C, cov, nxt, K, r)'
  PROVE  IInv'
  <1>1. ASSUME Fits'
        PROVE  \E C, cov, nxt, K, r :
                 Plan(C, cov, nxt, K)' /\ Packed(C, nxt, K)' /\ Reading(C, cov, nxt, K, r)'
    <2>1. Fits
      BY <1>1 DEF Fits
    <2>2. PICK C, cov, nxt, K, r : Setting(C, cov, nxt, K) /\ Reading(C, cov, nxt, K, r)'
      BY <2>1
    <2>3. Plan(C, cov, nxt, K)
      BY <2>2 DEF Setting, Plan
    <2>4. Packed(C, nxt, K)
      BY <2>2 DEF Setting
    <2>5. Padded' = Padded
      BY DEF Padded
    <2>6. Plan(C, cov, nxt, K)'
      BY <2>3, <2>5 DEF Plan
    <2>7. Packed(C, nxt, K)'
      BY <2>4 DEF Packed
    <2> QED BY <2>2, <2>6, <2>7
  <1>2. Restores'
    BY <1>1 DEF Restores
  <1> QED BY <1>2 DEF IInv, Shape, Restoring

LEMMA ReadSizeStep ==
  ASSUME IInv, ReadSize
  PROVE  IInv'
  <1>1. /\ phase = "size" /\ phase' = "flags" /\ source' = source + 2 /\ UNCHANGED <<input, padding, packed, output>>
        /\ remaining' = IF source = 0 THEN FlagBits ELSE remaining
        /\ size' = (Read + (IF source = 0 THEN 2 ELSE 0)) % SizeModulus
    BY DEF ReadSize, packing
  <1>2. ASSUME Fits
        PROVE  \E C, cov, nxt, K, r : Setting(C, cov, nxt, K) /\ Reading(C, cov, nxt, K, r)'
    <2>1. PICK C, cov, nxt, K, r : Setting(C, cov, nxt, K) /\ Reading(C, cov, nxt, K, r)
      BY <1>1, <1>2, Facing DEF Restoring
    <2>2. r \in 0 .. Len(C) /\ output = SubSeq(Padded, 1, cov[r]) /\ ReadingSize(C, nxt, K, r)
      BY <1>1, <2>1 DEF Reading
    <2>3. \/ /\ r = 0 /\ source = 0
             /\ (Read + (IF source = 0 THEN 2 ELSE 0)) % SizeModulus = nxt[K]
          \/ /\ r = K /\ K < Len(C) /\ source = nxt[K] + 1 /\ source # 0 /\ remaining = Len(C) - K
             /\ (Read + (IF source = 0 THEN 2 ELSE 0)) % SizeModulus = nxt[Len(C)]
      BY <1>1, <2>1, <2>2, SizeRead
    <2>4. /\ K \in FlagBits .. Len(C) /\ FlagBits \in Nat \ {0} /\ nxt[0] = 2 /\ nxt[K] \in Nat
      BY <2>1 DEF Setting, Laid
    <2>5. ReadingFlags(C, nxt, K, r)'
      <3>1. CASE source = 0
        <4>1. r = 0 /\ size' = nxt[K] /\ source' = nxt[r] /\ remaining' = FlagBits /\ r < K /\ Grid(r)
          BY <1>1, <2>3, <2>4, <3>1, GridFacts
        <4> QED BY <4>1 DEF ReadingFlags
      <3>2. CASE source # 0
        <4>1. PICK x : x = nxt[K]
          OBVIOUS
        <4>2. r = K /\ K < Len(C) /\ source = x + 1 /\ remaining = Len(C) - K
              /\ size' = nxt[Len(C)] /\ remaining' = remaining
          BY <1>1, <2>3, <3>2, <4>1
        <4>3. source' = x + 3
          BY <1>1, <2>4, <4>1, <4>2
        <4> QED BY <4>1, <4>2, <4>3 DEF ReadingFlags
      <3> QED BY <3>1, <3>2
    <2>6. Padded' = Padded
      BY <1>1 DEF Padded
    <2>7. Reading(C, cov, nxt, K, r)'
      BY <1>1, <2>2, <2>5, <2>6 DEF Reading
    <2> QED BY <2>1, <2>7
  <1> QED BY <1>1, <1>2, Onward

\* The flags of full groups, and those of the second block.
LEMMA FlagsRead ==
  ASSUME NEW C, NEW cov, NEW nxt, NEW K, NEW r \in 0 .. Len(C), Setting(C, cov, nxt, K),
         phase = "flags", ReadingFlags(C, nxt, K, r), source < size
  PROVE  /\ Readable
         /\ r < Len(C) /\ source + 1 = Start(C, nxt, r + 1)
         /\ Read = [b \in 1 .. FlagBits |-> b > remaining \/ Long(C[r + b])]
         /\ remaining \in 1 .. FlagBits /\ r + remaining <= Len(C)
         /\ \/ Grid(r + remaining) /\ r + remaining <= K /\ size = nxt[K]
            \/ r >= K /\ K < Len(C) /\ r + remaining = Len(C) /\ size = nxt[Len(C)]
  <1>1. /\ Len(C) \in Nat /\ FlagBits \in Nat \ {0} /\ K \in 0 .. Len(C) /\ Grid(K) /\ Len(C) < K + FlagBits
        /\ Laid(C, nxt)
    BY DEF Setting
  <1>2. PICK x, y, z : x = nxt[r] /\ y = nxt[K] /\ z = nxt[Len(C)]
    OBVIOUS
  <1>3. x \in Nat /\ y \in Nat /\ z \in Nat /\ y <= z
    BY <1>1, <1>2, Places
  <1>4. /\ r < Len(C) /\ source + 1 = Start(C, nxt, r + 1) /\ Grid(r)
        /\ remaining = Smaller(Len(C) - r, FlagBits)
        /\ \/ r < K /\ remaining = FlagBits /\ size = y
           \/ r = K /\ K < Len(C) /\ remaining = Len(C) - K /\ size = z
    <2>1. (r + 1) - 1 = r
      OBVIOUS
    <2>2. CASE Grid(r) /\ r < K /\ source = x /\ size = y /\ remaining = FlagBits
      <3>1. r + FlagBits <= K
        BY <1>1, <2>2, GridFacts
      <3>2. Len(C) - r >= FlagBits
        BY <1>1, <3>1
      <3>3. Start(C, nxt, r + 1) = x + 1
        BY <1>2, <2>1, <2>2, <3>2 DEF Start
      <3> QED BY <1>1, <2>2, <3>2, <3>3 DEF Smaller
    <2>3. CASE r = K /\ K < Len(C) /\ source = y + 3 /\ size = z /\ remaining = Len(C) - K
      <3>1. ~(Len(C) - r >= FlagBits)
        BY <1>1, <2>3
      <3>2. Start(C, nxt, r + 1) = x + 4 /\ x = y
        BY <1>1, <1>2, <2>1, <2>3, <3>1 DEF Start
      <3> QED BY <1>1, <1>3, <2>3, <3>1, <3>2 DEF Smaller
    <2>4. ~(source = size)
      <3>1. size \in Nat
        BY <1>2, <1>3 DEF ReadingFlags
      <3> QED BY <3>1
    <2> QED BY <1>2, <2>2, <2>3, <2>4 DEF ReadingFlags
  <1>5. packed[source + 1] = FlagsCell(C, r)
    <2>1. r + 1 \in 1 .. Len(C) /\ (r + 1) - 1 = r
      BY <1>1, <1>4
    <2>2. Written(packed, C, nxt, Len(C))
      BY DEF Setting, Packed
    <2> QED BY <1>4, <2>1, <2>2 DEF Written
  <1>6. /\ packed[source + 1].kind = "flags"
        /\ Read = [b \in 1 .. FlagBits |-> b > remaining \/ Long(C[r + b])]
    BY <1>4, <1>5 DEF FlagsCell, Cell, Read
  <1>7. Wanted = "flags"
    BY DEF Wanted
  <1>8. source < Len(packed)
    <2>1. Len(packed) = z + 1 /\ source \in Nat
      BY <1>2, <1>3, SMTT(30) DEF Setting, ReadingFlags
    <2>2. size <= z
      BY <1>3, <1>4
    <2> QED BY <1>3, <1>4, <2>1, <2>2
  <1>9. Readable
    BY <1>6, <1>7, <1>8 DEF Readable
  <1>10. /\ remaining \in 1 .. FlagBits /\ r + remaining <= Len(C)
         /\ \/ Grid(r + remaining) /\ r + remaining <= K /\ size = y
            \/ r >= K /\ K < Len(C) /\ r + remaining = Len(C) /\ size = z
    <2>1. CASE r < K /\ remaining = FlagBits /\ size = y
      BY <1>1, <1>4, <2>1, GridFacts, SMTT(30)
    <2>2. CASE r = K /\ K < Len(C) /\ remaining = Len(C) - K /\ size = z
      BY <1>1, <2>2
    <2> QED BY <1>4, <2>1, <2>2
  <1> QED BY <1>2, <1>4, <1>6, <1>9, <1>10

LEMMA ReadFlagsStep ==
  ASSUME IInv, ReadFlags
  PROVE  IInv'
  <1>1. /\ phase = "flags" /\ phase' = "codes" /\ source < size /\ source' = source + 1 /\ flags' = Read
        /\ UNCHANGED <<input, padding, packed, size, remaining, output>>
    BY DEF ReadFlags, packing
  <1>2. ASSUME Fits
        PROVE  \E C, cov, nxt, K, r : Setting(C, cov, nxt, K) /\ Reading(C, cov, nxt, K, r)'
    <2>1. PICK C, cov, nxt, K, r : Setting(C, cov, nxt, K) /\ Reading(C, cov, nxt, K, r)
      BY <1>1, <1>2, Facing DEF Restoring
    <2>2. r \in 0 .. Len(C) /\ output = SubSeq(Padded, 1, cov[r]) /\ ReadingFlags(C, nxt, K, r)
      BY <1>1, <2>1 DEF Reading
    <2>3. /\ source + 1 = Start(C, nxt, r + 1)
          /\ Read = [b \in 1 .. FlagBits |-> b > remaining \/ Long(C[r + b])]
          /\ remaining \in 1 .. FlagBits /\ r + remaining <= Len(C)
          /\ \/ Grid(r + remaining) /\ r + remaining <= K /\ size = nxt[K]
             \/ r >= K /\ K < Len(C) /\ r + remaining = Len(C) /\ size = nxt[Len(C)]
      BY <1>1, <2>1, <2>2, FlagsRead
    <2>4. FlagBits \in Nat \ {0}
      BY FlagAssumption
    <2>5. /\ flags' \in Seq(BOOLEAN) /\ Len(flags') = FlagBits
          /\ \A b \in 1 .. remaining : flags'[b] = Long(C[r + b])
      <3>1. flags' = [b \in 1 .. FlagBits |-> b > remaining \/ Long(C[r + b])]
        BY <1>1, <2>3
      <3>2. flags' \in [1 .. FlagBits -> BOOLEAN]
        BY <3>1
      <3>3. flags' \in Seq(BOOLEAN) /\ Len(flags') = FlagBits
        BY <2>4, <3>2
      <3>4. ASSUME NEW b \in 1 .. remaining
            PROVE  flags'[b] = Long(C[r + b])
        <4>1. b \in 1 .. FlagBits /\ ~(b > remaining)
          BY <2>3, <2>4
        <4>2. flags'[b] = (b > remaining \/ Long(C[r + b]))
          BY <3>1, <4>1
        <4>3. Long(C[r + b]) \in BOOLEAN
          BY DEF Long
        <4> QED BY <4>1, <4>2, <4>3
      <3> QED BY <3>3, <3>4
    <2>6. ReadingCodes(C, nxt, K, r)'
      <3>1. remaining \in 0 .. FlagBits /\ remaining # 0 /\ FlagBits >= remaining
        BY <2>3, <2>4
      <3> QED BY <1>1, <2>3, <2>5, <3>1 DEF ReadingCodes
    <2>7. Padded' = Padded
      BY <1>1 DEF Padded
    <2>8. Reading(C, cov, nxt, K, r)'
      BY <1>1, <2>2, <2>6, <2>7 DEF Reading
    <2> QED BY <2>1, <2>8
  <1> QED BY <1>1, <1>2, Onward

LEMMA CountRead ==
  ASSUME NEW C, NEW cov, NEW nxt, NEW K, NEW r \in 0 .. Len(C), Setting(C, cov, nxt, K),
         phase = "flags", ReadingFlags(C, nxt, K, r), ~(source < size)
  PROVE  /\ Readable /\ source = nxt[r] /\ size = source
         /\ \/ r = Len(C) /\ Read = 0
            \/ r = K /\ K < Len(C) /\ Read = Len(C) - K /\ Read # 0
  <1>1. /\ Len(C) \in Nat /\ FlagBits \in Nat \ {0} /\ K \in 0 .. Len(C) /\ Grid(K) /\ Len(C) < K + FlagBits
        /\ Laid(C, nxt)
    BY DEF Setting
  <1>2. PICK x, y, z : x = nxt[r] /\ y = nxt[K] /\ z = nxt[Len(C)]
    OBVIOUS
  <1>3. /\ x \in Nat /\ y \in Nat /\ z \in Nat /\ y <= z /\ (r < K => x < y) /\ (K < Len(C) => y < z)
    BY <1>1, <1>2, Places
  <1>4. /\ packed[y + 1] = Cell("count", Len(C) - K)
        /\ K < Len(C) => packed[z + 1] = Cell("count", 0)
        /\ Len(packed) = z + 1
    BY <1>2 DEF Setting, Packed, ClosedFirst, ClosedLast
  <1>5. source = x /\ size = x /\ (r = K \/ r = Len(C))
    <2>1. ~(Grid(r) /\ r < K /\ source = x /\ size = y /\ remaining = FlagBits)
      BY <1>3
    <2>2. ~(r = K /\ K < Len(C) /\ source = y + 3 /\ size = z /\ remaining = Len(C) - K)
      <3>1. ASSUME K < Len(C) PROVE y + 3 < z
        <4>1. (K + 1) - 1 = K /\ ~(Len(C) - K >= FlagBits) /\ K + 1 \in 1 .. Len(C)
          BY <1>1, <3>1
        <4>2. Start(C, nxt, K + 1) = y + 4
          BY <1>1, <1>2, <4>1 DEF Start
        <4>3. Start(C, nxt, K + 1) + 1 <= z
          <5>1. Len(C) \in 0 .. Len(C)
            BY <1>1
          <5> QED BY <1>1, <1>2, <4>1, <5>1, Bounds
        <4> QED BY <1>3, <4>2, <4>3
      <3> QED BY <1>3, <3>1
    <2> QED BY <1>2, <2>1, <2>2 DEF ReadingFlags
  <1>6. source < Len(packed)
    BY <1>1, <1>2, <1>3, <1>4, <1>5
  <1>7. Wanted = "count"
    BY DEF Wanted
  <1>8. CASE r = Len(C)
    <2>1. packed[source + 1] = Cell("count", 0)
      <3>1. CASE K < Len(C)
        BY <1>2, <1>4, <1>5, <1>8, <3>1
      <3>2. CASE K = Len(C)
        BY <1>1, <1>2, <1>4, <1>5, <1>8, <3>2
      <3> QED BY <1>1, <3>1, <3>2
    <2>2. packed[source + 1].kind = "count" /\ Read = 0
      BY <2>1 DEF Cell, Read
    <2> QED BY <1>2, <1>5, <1>6, <1>7, <1>8, <2>2 DEF Readable
  <1>9. CASE r # Len(C)
    <2>1. r = K /\ K < Len(C) /\ packed[source + 1] = Cell("count", Len(C) - K)
      BY <1>1, <1>2, <1>4, <1>5, <1>9
    <2>2. packed[source + 1].kind = "count" /\ Read = Len(C) - K
      BY <2>1 DEF Cell, Read
    <2>3. Len(C) - K # 0
      BY <1>1, <2>1
    <2> QED BY <1>2, <1>5, <1>6, <1>7, <2>1, <2>2, <2>3 DEF Readable
  <1> QED BY <1>8, <1>9

LEMMA ReadCountStep ==
  ASSUME IInv, ReadCount
  PROVE  IInv'
  <1>1. /\ phase = "flags" /\ source >= size /\ source' = source + 1 /\ remaining' = Read
        /\ phase' = (IF Read = 0 THEN "done" ELSE "size")
        /\ UNCHANGED <<input, padding, packed, output>>
    BY DEF ReadCount, packing
  <1>2. ASSUME Fits
        PROVE  \E C, cov, nxt, K, r : Setting(C, cov, nxt, K) /\ Reading(C, cov, nxt, K, r)'
    <2>1. PICK C, cov, nxt, K, r : Setting(C, cov, nxt, K) /\ Reading(C, cov, nxt, K, r)
      BY <1>1, <1>2, Facing DEF Restoring
    <2>2. r \in 0 .. Len(C) /\ output = SubSeq(Padded, 1, cov[r]) /\ ReadingFlags(C, nxt, K, r)
      BY <1>1, <2>1 DEF Reading
    <2>3. ~(source < size)
      <3>1. K \in 0 .. Len(C) /\ Len(C) \in 0 .. Len(C)
        BY <2>1 DEF Setting
      <3>2. nxt[r] \in Nat /\ nxt[K] \in Nat /\ nxt[Len(C)] \in Nat
        BY <2>1, <2>2, <3>1, Places
      <3>3. source \in Nat /\ size \in Nat
        BY <2>2, <3>2 DEF ReadingFlags
      <3> QED BY <1>1, <3>3
    <2>4. /\ source = nxt[r] /\ size = source
          /\ \/ r = Len(C) /\ Read = 0
             \/ r = K /\ K < Len(C) /\ Read = Len(C) - K /\ Read # 0
      BY <1>1, <2>1, <2>2, <2>3, CountRead
    <2>5. Padded' = Padded
      BY <1>1 DEF Padded
    <2>6. Reading(C, cov, nxt, K, r)'
      <3>1. CASE Read = 0
        <4>1. phase' = "done" /\ r = Len(C) /\ source' = nxt[Len(C)] + 1
          BY <1>1, <2>4, <3>1
        <4> QED BY <1>1, <2>2, <2>5, <4>1 DEF Reading
      <3>2. CASE Read # 0
        <4>1. /\ phase' = "size" /\ r = K /\ K < Len(C) /\ source' = nxt[K] + 1
              /\ remaining' = Len(C) - K
          BY <1>1, <2>4, <3>2
        <4> QED BY <1>1, <2>2, <2>5, <4>1 DEF Reading, ReadingSize
      <3> QED BY <3>1, <3>2
    <2> QED BY <2>1, <2>6
  <1>3. phase' \in {"size", "flags", "codes", "done"}
    BY <1>1
  <1> QED BY <1>1, <1>2, <1>3, Onward

LEMMA NextFlagsStep ==
  ASSUME IInv, NextFlags
  PROVE  IInv'
  <1>1. /\ phase = "codes" /\ phase' = "flags" /\ remaining = 0 /\ remaining' = FlagBits
        /\ UNCHANGED <<input, padding, packed, source, size, output>>
    BY DEF NextFlags, packing
  <1>2. ASSUME Fits
        PROVE  \E C, cov, nxt, K, r : Setting(C, cov, nxt, K) /\ Reading(C, cov, nxt, K, r)'
    <2>1. PICK C, cov, nxt, K, r : Setting(C, cov, nxt, K) /\ Reading(C, cov, nxt, K, r)
      BY <1>1, <1>2, Facing DEF Restoring
    <2>2. r \in 0 .. Len(C) /\ output = SubSeq(Padded, 1, cov[r]) /\ ReadingCodes(C, nxt, K, r)
      BY <1>1, <2>1 DEF Reading
    <2>3. r + remaining = r /\ source = nxt[r]
      BY <1>1, <2>2 DEF ReadingCodes
    <2>4. \/ Grid(r) /\ r <= K /\ size = nxt[K]
          \/ r = Len(C) /\ size = nxt[Len(C)]
      BY <2>2, <2>3 DEF ReadingCodes
    <2>5. K \in 0 .. Len(C) /\ Len(C) \in Nat
      BY <2>1 DEF Setting
    <2>6. ReadingFlags(C, nxt, K, r)'
      <3>1. r \in Nat /\ K \in Nat /\ (r <= K => r < K \/ r = K)
        BY <2>2, <2>5
      <3> QED BY <1>1, <2>3, <2>4, <3>1 DEF ReadingFlags
    <2>7. Padded' = Padded
      BY <1>1 DEF Padded
    <2>8. Reading(C, cov, nxt, K, r)'
      BY <1>1, <2>2, <2>6, <2>7 DEF Reading
    <2> QED BY <2>1, <2>8
  <1> QED BY <1>1, <1>2, Onward

\* Beginnings of a sequence.
LEMMA Prefix ==
  ASSUME NEW T, NEW s \in Seq(T), NEW m \in 0 .. Len(s)
  PROVE  /\ SubSeq(s, 1, m) \in Seq(T) /\ Len(SubSeq(s, 1, m)) = m
         /\ \A i \in 1 .. m : SubSeq(s, 1, m)[i] = s[i]
  <1>1. Len(s) \in Nat
    BY LenProperties
  <1>2. \A i \in 1 .. m : s[i] \in T
    BY <1>1, ElementOfSeq
  <1>3. PICK q : q = SubSeq(s, 1, m)
    OBVIOUS
  <1>4. m \in Int /\ 1 \in Int
    BY <1>1
  <1>5. /\ q \in Seq(T) /\ Len(q) = (IF 1 <= m THEN m - 1 + 1 ELSE 0)
        /\ \A i \in 1 .. m - 1 + 1 : q[i] = s[1 + i - 1]
    BY <1>2, <1>3, <1>4, SubSeqProperties
  <1>6. m - 1 + 1 = m /\ (~(1 <= m) => m = 0)
    BY <1>1
  <1>7. \A i \in 1 .. m : 1 + i - 1 = i
    BY <1>1
  <1> QED BY <1>3, <1>5, <1>6, <1>7

LEMMA PrefixIs ==
  ASSUME NEW T, NEW s \in Seq(T), NEW m \in 0 .. Len(s), NEW q \in Seq(T), Len(q) = m,
         \A i \in 1 .. m : q[i] = s[i]
  PROVE  q = SubSeq(s, 1, m)
  <1>1. PICK p : p = SubSeq(s, 1, m)
    OBVIOUS
  <1>2. p \in Seq(T) /\ Len(p) = m /\ \A i \in 1 .. m : p[i] = s[i]
    BY <1>1, Prefix
  <1>3. Len(q) = Len(p) /\ \A i \in 1 .. Len(q) : q[i] = p[i]
    BY <1>2
  <1> QED BY <1>1, <1>2, <1>3, SeqEqual

\* What the first codepoints stand for.
LEMMA Coverage ==
  ASSUME NEW C, NEW cov, NEW data, Len(C) \in Nat, Described(C, cov, data), NEW r \in 0 .. Len(C)
  PROVE  cov[r] \in Nat /\ cov[r] <= Len(data) /\ data \in Seq(Nat) /\ Len(data) \in Nat
  <1>1. cov[r] \in Nat /\ data \in Seq(Nat) /\ Len(data) \in Nat
    BY LenProperties DEF Described
  <1>2. CASE r = 0
    BY <1>1, <1>2 DEF Described
  <1>3. CASE r # 0
    <2>1. r \in 1 .. Len(C)
      BY <1>3
    <2>2. cov[r] = cov[r - 1] + C[r].length /\ Stands(C[r], cov[r - 1], data)
      BY <2>1 DEF Described
    <2> QED BY <1>1, <2>2 DEF Stands
  <1> QED BY <1>2, <1>3

\* Copying from what was written, the bytes being copied included, goes on with
\* the data if the data repeats itself there.
LEMMA CopyGoesOn ==
  ASSUME NEW data \in Seq(Nat), NEW at \in Nat, NEW length \in Nat, NEW offset \in 1 .. at,
         at + length <= Len(data), output = SubSeq(data, 1, at),
         \A k \in 1 .. length : data[at + k] = data[at + k - offset]
  PROVE  Copied(offset, length) = SubSeq(data, 1, at + length)
  <1>1. Len(data) \in Nat
    BY LenProperties
  <1>2. output \in Seq(Nat) /\ Len(output) = at /\ \A i \in 1 .. at : output[i] = data[i]
    <2>1. at \in 0 .. Len(data)
      BY <1>1
    <2> QED BY <2>1, Prefix
  <1> DEFINE D == {output[i] : i \in 0 .. at}
             Value(f, i) == IF i <= at THEN output[i] ELSE f[i - offset]
             G == [i \in Nat |-> [f \in [0 .. i - 1 -> D] |-> Value(f, i)]]
  <1>3. Builds(G, D)
    <2>1. ASSUME NEW i \in Nat, NEW f \in [0 .. i - 1 -> D]
          PROVE  Value(f, i) \in D
      <3>1. CASE i <= at
        <4>1. i \in 0 .. at
          BY <3>1
        <4>2. output[i] \in D
          BY <4>1
        <4>3. Value(f, i) = output[i]
          BY <3>1, Zenon
        <4> QED BY <4>2, <4>3, Zenon
      <3>2. CASE ~(i <= at)
        <4>1. i - offset \in 0 .. i - 1
          BY <3>2
        <4> HIDE DEF D
        <4>2. f[i - offset] \in D
          BY <4>1
        <4> QED BY <3>2, <4>2
      <3> QED BY <3>1, <3>2
    <2> HIDE DEF Value, D
    <2> QED BY <2>1 DEF Builds
  <1> HIDE DEF D
  <1>4. PICK g \in [Nat -> D] : \A i \in Nat : g[i] = Value(Prior(g, i), i)
    <2> HIDE DEF Value
    <2>1. PICK g \in [Nat -> D] : \A i \in Nat : g[i] = G[i][Prior(g, i)]
      <3> HIDE DEF G
      <3> QED BY <1>3, Recursive, SMTT(30)
    <2>2. \A i \in Nat : Prior(g, i) \in [0 .. i - 1 -> D]
      BY DEF Prior
    <2> QED BY <2>1, <2>2
  <1>5. ASSUME NEW i \in Nat
        PROVE  g[i] = Value(g, i)
    <2>1. ~(i <= at) => Prior(g, i)[i - offset] = g[i - offset]
      <3>1. ~(i <= at) => i - offset \in 0 .. i - 1
        OBVIOUS
      <3> QED BY <3>1 DEF Prior
    <2>2. g[i] = Value(Prior(g, i), i)
      BY <1>4
    <2> QED BY <2>1, <2>2
  <1>6. g = [i \in Nat |-> Value(g, i)]
    <2> HIDE DEF Value
    <2> QED BY <1>5
  <1> DEFINE A == CHOOSE f : f = [i \in Nat |-> IF i <= Len(output) THEN output[i] ELSE f[i - offset]]
  <1>7. Copied(offset, length) = [i \in 1 .. Len(output) + length |-> A[i]]
    BY DEF Copied
  <1>8. A = [i \in Nat |-> Value(A, i)]
    <2>1. A = CHOOSE f : f = [i \in Nat |-> Value(f, i)]
      BY <1>2
    <2> HIDE DEF Value, A
    <2> QED BY <1>6, <2>1
  <1>9. \A i \in Nat : A[i] = Value(A, i)
    <2> HIDE DEF A, Value
    <2> QED BY <1>8
  <1> HIDE DEF A
  <1> DEFINE E == {i \in Nat : 1 <= i /\ i <= at + length => A[i] = data[i]}
  <1>10. ASSUME NEW i \in Nat, \A j \in Nat : j < i => j \in E
         PROVE  i \in E
    <2>1. CASE i <= at
      <3>1. A[i] = output[i]
        BY <1>9, <2>1
      <3> QED BY <1>2, <2>1, <3>1
    <2>2. CASE at < i /\ i <= at + length
      <3>1. PICK j, k : j = i - offset /\ k = i - at
        OBVIOUS
      <3>2. /\ j \in Nat /\ 1 <= j /\ j < i /\ j <= at + length /\ ~(i <= at)
            /\ k \in 1 .. length /\ at + k = i /\ at + k - offset = j
        BY <2>2, <3>1
      <3>3. A[i] = A[j]
        BY <1>9, <3>1, <3>2
      <3>4. A[j] = data[j]
        BY <1>10, <3>2
      <3>5. data[i] = data[j]
        BY <3>2
      <3> QED BY <3>3, <3>4, <3>5
    <2> QED BY <2>1, <2>2
  <1> HIDE DEF E
  <1>11. Nat \subseteq E
    BY <1>10, Induction
  <1>12. PICK m : m = at + length
    OBVIOUS
  <1>13. \A i \in 1 .. m : A[i] = data[i]
    BY <1>11, <1>12 DEF E
  <1>14. PICK q : q = [i \in 1 .. m |-> A[i]]
    OBVIOUS
  <1>15. m \in 0 .. Len(data) /\ m \in Nat
    BY <1>1, <1>12
  <1>16. \A i \in 1 .. m : data[i] \in Nat
    BY <1>1, <1>15, ElementOfSeq
  <1>17. q \in Seq(Nat) /\ Len(q) = m /\ \A i \in 1 .. m : q[i] = data[i]
    BY <1>13, <1>14, <1>15, <1>16
  <1>18. q = SubSeq(data, 1, m)
    BY <1>15, <1>17, PrefixIs
  <1> QED BY <1>2, <1>7, <1>12, <1>14, <1>18

\* What the decompressor knows of the codepoint it reads next.
Facts(C, cov, nxt, r) ==
  /\ r + 1 \in 1 .. Len(C) /\ C[r + 1] \in Codepoint
  /\ cov[r] \in Nat /\ Len(output) = cov[r]
  /\ cov[r + 1] = cov[r] + C[r + 1].length /\ Stands(C[r + 1], cov[r], Padded)
  /\ source \in Nat /\ nxt[r + 1] = source + Width(C[r + 1])
  /\ Head(flags) = Long(C[r + 1])
  /\ Read = IF Long(C[r + 1]) THEN <<C[r + 1].offset, C[r + 1].length>> ELSE C[r + 1].byte

LEMMA CodeRead ==
  ASSUME NEW C, NEW cov, NEW nxt, NEW K, NEW r \in 0 .. Len(C), Setting(C, cov, nxt, K),
         phase = "codes", ReadingCodes(C, nxt, K, r), remaining > 0,
         output = SubSeq(Padded, 1, cov[r])
  PROVE  Readable /\ Facts(C, cov, nxt, r)
  <1>1. /\ C \in Seq(Codepoint) /\ Len(C) \in Nat /\ Laid(C, nxt) /\ Described(C, cov, Padded)
        /\ Written(packed, C, nxt, Len(C)) /\ Len(packed) = nxt[Len(C)] + 1
    BY DEF Setting, Packed
  <1>2. /\ remaining \in Nat /\ r + remaining <= Len(C) /\ source = Start(C, nxt, r + 1)
        /\ flags \in Seq(BOOLEAN) /\ Len(flags) >= remaining
        /\ \A b \in 1 .. remaining : flags[b] = Long(C[r + b])
    <2>1. remaining \in 0 .. FlagBits
      BY DEF ReadingCodes
    <2> QED BY <2>1, FlagAssumption DEF ReadingCodes
  <1>3. PICK i, c : i = r + 1 /\ c = C[i]
    OBVIOUS
  <1>4. i \in 1 .. Len(C) /\ i - 1 = r /\ c \in Codepoint
    <2>1. i \in 1 .. Len(C) /\ i - 1 = r
      BY <1>1, <1>2, <1>3
    <2> QED BY <1>1, <1>3, <2>1, ElementOfSeq
  <1>5. source \in Nat /\ nxt[i] = source + Width(c) /\ source < nxt[i] /\ nxt[i] \in Nat
    BY <1>1, <1>2, <1>3, <1>4, StartFacts
  <1>6. source < Len(packed)
    <2>1. nxt[i] <= nxt[Len(C)] /\ nxt[Len(C)] \in Nat
      <3>1. i \in 0 .. Len(C) /\ Len(C) \in 0 .. Len(C)
        BY <1>1, <1>4
      <3> QED BY <3>1, Places
    <2> QED BY <1>1, <1>5, <2>1
  <1>7. packed[source + 1] = HeadCell(c)
    BY <1>1, <1>2, <1>3, <1>4 DEF Written
  <1>8. /\ packed[source + 1].kind = (IF Long(c) THEN "pair" ELSE "byte")
        /\ Read = IF Long(c) THEN <<c.offset, c.length>> ELSE c.byte
    BY <1>7 DEF HeadCell, Cell, Read
  <1>9. Head(flags) = Long(c)
    <2>1. 1 \in 1 .. remaining
      BY <1>2
    <2>2. Head(flags) = flags[1]
      BY <1>2, <2>1
    <2> QED BY <1>2, <1>3, <2>1, <2>2
  <1>10. Wanted = IF Long(c) THEN "pair" ELSE "byte"
    BY <1>9 DEF Wanted
  <1>11. /\ cov[r] \in Nat /\ cov[r] <= Len(Padded) /\ Padded \in Seq(Nat) /\ Len(Padded) \in Nat
    BY <1>1, Coverage
  <1>12. Len(output) = cov[r]
    <2>1. cov[r] \in 0 .. Len(Padded)
      BY <1>11
    <2> QED BY <1>11, <2>1, Prefix
  <1>13. cov[i] = cov[r] + c.length /\ Stands(c, cov[r], Padded)
    BY <1>1, <1>3, <1>4 DEF Described
  <1>14. Wanted = "pair" => Read[1] <= Len(output)
    <2>1. ASSUME Wanted = "pair"
          PROVE  Read[1] <= Len(output)
      <3>1. Long(c)
        BY <1>10, <2>1
      <3>2. c.offset \in 1 .. cov[r] /\ Read[1] = c.offset
        BY <1>8, <1>13, <3>1 DEF Stands
      <3> QED BY <1>11, <1>12, <3>2
    <2> QED BY <2>1
  <1>15. Readable
    BY <1>6, <1>8, <1>10, <1>14 DEF Readable
  <1>16. Facts(C, cov, nxt, r)
    BY <1>3, <1>4, <1>5, <1>8, <1>9, <1>11, <1>12, <1>13 DEF Facts
  <1> QED BY <1>15, <1>16

LEMMA ReadCodeStep ==
  ASSUME IInv, ReadCode
  PROVE  IInv'
  <1>1. /\ phase = "codes" /\ phase' = "codes" /\ remaining > 0
        /\ flags' = Tail(flags) /\ remaining' = remaining - 1
        /\ UNCHANGED <<input, padding, packed, size>>
        /\ IF Head(flags)
           THEN output' = Copied(Read[1], Read[2]) /\ source' = source + 2
           ELSE output' = Append(output, Read) /\ source' = source + 1
    BY DEF ReadCode, packing
  <1>2. ASSUME Fits
        PROVE  \E C, cov, nxt, K, r : Setting(C, cov, nxt, K) /\ Reading(C, cov, nxt, K, r)'
    <2>1. PICK C, cov, nxt, K, r : Setting(C, cov, nxt, K) /\ Reading(C, cov, nxt, K, r)
      BY <1>1, <1>2, Facing DEF Restoring
    <2>2. r \in 0 .. Len(C) /\ output = SubSeq(Padded, 1, cov[r]) /\ ReadingCodes(C, nxt, K, r)
      BY <1>1, <2>1 DEF Reading
    <2>3. Facts(C, cov, nxt, r)
      BY <1>1, <2>1, <2>2, CodeRead
    <2>4. PICK i, c, at : i = r + 1 /\ c = C[i] /\ at = cov[r]
      OBVIOUS
    <2>5. /\ i \in 1 .. Len(C) /\ c \in Codepoint /\ at \in Nat /\ Len(output) = at
          /\ cov[i] = at + c.length /\ Stands(c, at, Padded)
          /\ source \in Nat /\ nxt[i] = source + Width(c) /\ Head(flags) = Long(c)
          /\ Read = IF Long(c) THEN <<c.offset, c.length>> ELSE c.byte
      BY <2>3, <2>4 DEF Facts
    <2>6. /\ Len(C) \in Nat /\ FlagBits \in Nat \ {0} /\ K \in 0 .. Len(C) /\ Grid(K)
          /\ Len(C) < K + FlagBits /\ Padded \in Seq(Nat)
      BY <2>1 DEF Setting, Described
    <2>7. output' = SubSeq(Padded, 1, cov[i]) /\ source' = nxt[i]
      <3>1. PICK data, n : data = Padded /\ n = c.length
        OBVIOUS
      <3>2. n \in Nat /\ at + n <= Len(data) /\ data \in Seq(Nat) /\ Len(data) \in Nat
        <4>1. n \in 1 .. MaxMatch /\ MaxMatch \in Nat
          BY <2>5, <3>1, WindowAssumption DEF Codepoint
        <4> QED BY <2>5, <2>6, <3>1, <4>1, LenProperties DEF Stands
      <3>3. CASE Long(c)
        <4>1. PICK w : w = c.offset
          OBVIOUS
        <4>2. w \in 1 .. at /\ \A k \in 1 .. n : data[at + k] = data[at + k - w]
          BY <2>5, <3>1, <3>3, <4>1 DEF Stands
        <4>3. output = SubSeq(data, 1, at)
          BY <2>2, <2>4, <3>1
        <4>4. Copied(w, n) = SubSeq(data, 1, at + n)
          <5>1. /\ data \in Seq(Nat) /\ at \in Nat /\ n \in Nat /\ w \in 1 .. at
                /\ at + n <= Len(data) /\ output = SubSeq(data, 1, at)
                /\ \A k \in 1 .. n : data[at + k] = data[at + k - w]
            BY <2>5, <3>2, <4>2, <4>3
          <5> QED BY <5>1, CopyGoesOn
        <4>5. Read[1] = w /\ Read[2] = n
          BY <2>5, <3>1, <3>3, <4>1
        <4>6. output' = Copied(w, n) /\ source' = source + 2
          BY <1>1, <2>5, <3>3, <4>5
        <4>7. Width(c) = 2
          BY <3>3 DEF Width
        <4> QED BY <2>5, <3>1, <4>4, <4>6, <4>7
      <3>4. CASE ~Long(c)
        <4>1. n = 1 /\ c.byte = data[at + 1] /\ Read = c.byte
          BY <2>5, <3>1, <3>4 DEF Stands
        <4>2. output' = Append(output, Read) /\ source' = source + 1 /\ Width(c) = 1
          BY <1>1, <2>5, <3>4 DEF Width
        <4>3. PICK m, q : m = at + 1 /\ q = output'
          OBVIOUS
        <4>4. m \in 0 .. Len(data) /\ m \in 1 .. Len(data) /\ at \in 0 .. Len(data)
          BY <2>5, <3>2, <4>1, <4>3
        <4>5. output \in Seq(Nat) /\ \A j \in 1 .. at : output[j] = data[j]
          BY <2>2, <2>4, <3>1, <3>2, <4>4, Prefix
        <4>6. data[m] \in Nat /\ Read = data[m]
          BY <3>2, <4>1, <4>3, <4>4, ElementOfSeq
        <4>7. /\ q \in Seq(Nat) /\ Len(q) = at + 1 /\ q[at + 1] = Read
              /\ \A j \in 1 .. at : q[j] = output[j]
          <5>1. PICK e : e = Read
            OBVIOUS
          <5>2. output \in Seq(Nat) /\ e \in Nat
            BY <4>5, <4>6, <5>1
          <5>3. /\ Append(output, e) \in Seq(Nat) /\ Len(Append(output, e)) = Len(output) + 1
                /\ \A j \in 1 .. Len(output) : Append(output, e)[j] = output[j]
                /\ Append(output, e)[Len(output) + 1] = e
            BY <5>2, AppendProperties
          <5> QED BY <2>5, <4>2, <4>3, <5>1, <5>3
        <4>8. \A j \in 1 .. m : q[j] = data[j]
          <5>1. \A j \in 1 .. m : j \in 1 .. at \/ j = m
            BY <2>5, <4>3
          <5> QED BY <4>3, <4>5, <4>6, <4>7, <5>1
        <4>9. q = SubSeq(data, 1, m)
          <5>1. Len(q) = m
            BY <4>3, <4>7
          <5> QED BY <3>2, <4>4, <4>7, <4>8, <5>1, PrefixIs
        <4>10. cov[i] = m
          BY <2>5, <3>1, <4>1, <4>3
        <4> QED BY <2>5, <3>1, <4>2, <4>3, <4>9, <4>10
      <3> QED BY <3>3, <3>4
    <2>8. ReadingCodes(C, nxt, K, i)'
      <3>1. /\ remaining \in 0 .. FlagBits /\ r + remaining <= Len(C)
            /\ \/ Grid(r + remaining) /\ r + remaining <= K /\ size = nxt[K]
               \/ r >= K /\ K < Len(C) /\ r + remaining = Len(C) /\ size = nxt[Len(C)]
            /\ flags \in Seq(BOOLEAN) /\ Len(flags) >= remaining
            /\ \A b \in 1 .. remaining : flags[b] = Long(C[r + b])
        BY <2>2 DEF ReadingCodes
      <3>2. PICK m : m = remaining - 1
        OBVIOUS
      <3>3. /\ m \in 0 .. FlagBits /\ m < FlagBits /\ i + m = r + remaining /\ remaining' = m
            /\ remaining = m + 1
        <4>1. remaining \in Int /\ FlagBits \in Int /\ r \in Int /\ remaining > 0
              /\ remaining <= FlagBits /\ i = r + 1 /\ remaining' = m
          <5>1. remaining > 0 /\ remaining' = m
            BY <1>1, <3>2, Zenon
          <5>2. remaining \in 0 .. FlagBits
            BY <3>1
          <5>3. remaining \in Int /\ FlagBits \in Int /\ remaining <= FlagBits
            BY <2>6, <5>2
          <5>4. r \in Int /\ i = r + 1
            BY <2>2, <2>4, <2>6
          <5> QED BY <5>1, <5>3, <5>4
        <4>2. PICK x, y, z : x = remaining /\ y = r /\ z = FlagBits
          OBVIOUS
        <4>3. /\ m = x - 1 /\ x \in Int /\ x > 0 /\ x <= z /\ z \in Int /\ y \in Int /\ i = y + 1
          BY <3>2, <4>1, <4>2
        <4>4. m \in 0 .. z /\ m < z /\ i + m = y + x /\ x = m + 1
          BY <4>3
        <4> QED BY <4>1, <4>2, <4>4
      <3>4. /\ flags' \in Seq(BOOLEAN) /\ Len(flags') >= m
            /\ \A b \in 1 .. m : flags'[b] = flags[b + 1]
        <4>1. Len(flags) \in Nat /\ Len(flags) >= 1 /\ flags # <<>>
          <5>1. Len(flags) \in Nat /\ Len(flags) >= m + 1 /\ m \in Nat
            BY <2>6, <3>1, <3>3, LenProperties
          <5>2. Len(<<>>) = 0
            OBVIOUS
          <5> QED BY <5>1, <5>2
        <4>2. flags' \in Seq(BOOLEAN) /\ Len(flags') = Len(flags) - 1
              /\ \A b \in 1 .. Len(flags) - 1 : flags'[b] = flags[b + 1]
          <5>1. /\ Tail(flags) \in Seq(BOOLEAN) /\ Len(Tail(flags)) = Len(flags) - 1
                /\ \A b \in 1 .. Len(Tail(flags)) : Tail(flags)[b] = flags[b + 1]
            BY <3>1, <4>1, HeadTailProperties
          <5> QED BY <1>1, <5>1
        <4> QED BY <2>6, <3>1, <3>3, <4>1, <4>2
      <3>5. \A b \in 1 .. m : flags'[b] = Long(C[i + b])
        <4>1. ASSUME NEW b \in 1 .. m
              PROVE  flags'[b] = Long(C[i + b])
          <5>1. PICK d : d = b + 1
            OBVIOUS
          <5>2. d \in 1 .. remaining /\ r + d = i + b
            BY <2>2, <2>4, <3>3, <5>1
          <5> QED BY <3>1, <3>4, <5>1, <5>2
        <4> QED BY <4>1
      <3>6. \/ Grid(i + m) /\ i + m <= K /\ size = nxt[K]
            \/ i >= K /\ K < Len(C) /\ i + m = Len(C) /\ size = nxt[Len(C)]
        BY <2>2, <2>4, <2>6, <3>1, <3>3
      <3>7. m # 0 => nxt[i] = Start(C, nxt, i + 1)
        <4>1. ASSUME m # 0
              PROVE  nxt[i] = Start(C, nxt, i + 1)
          <5>1. ~Grid(i)
            <6>1. CASE Grid(i + m)
              <7>1. i \in Nat /\ i + m \in Nat /\ i < i + m
                BY <2>5, <3>3, <4>1
              <7>2. Grid(i) => i + FlagBits <= i + m
                BY <6>1, <7>1, GridFacts
              <7> QED BY <2>5, <2>6, <3>3, <7>2
            <6>2. CASE ~Grid(i + m)
              <7>1. r >= K /\ i + m = Len(C)
                BY <3>1, <3>3, <6>2
              <7>2. i \in Nat /\ K \in Nat /\ K < i /\ i < K + FlagBits
                BY <2>2, <2>4, <2>5, <2>6, <3>3, <4>1, <7>1
              <7> QED BY <2>6, <7>2, GridBetween
            <6> QED BY <6>1, <6>2
          <5>2. (i + 1) - 1 = i
            BY <2>5
          <5> QED BY <5>1, <5>2 DEF Start
        <4> QED BY <4>1
      <3> QED BY <1>1, <2>7, <3>1, <3>3, <3>4, <3>5, <3>6, <3>7 DEF ReadingCodes
    <2>9. Padded' = Padded
      BY <1>1 DEF Padded
    <2>10. i \in 0 .. Len(C)
      BY <2>5
    <2>11. Reading(C, cov, nxt, K, i)'
      BY <1>1, <2>7, <2>8, <2>9, <2>10 DEF Reading
    <2> QED BY <2>1, <2>11
  <1> QED BY <1>1, <1>2, Onward

LEMMA LostStep ==
  ASSUME IInv, Lost
  PROVE  IInv'
  <1>1. /\ phase \in {"size", "flags", "codes"} /\ (phase = "codes" => remaining > 0) /\ ~Readable
        /\ phase' = "lost" /\ UNCHANGED <<input, padding, packed>>
    BY DEF Lost, packing
  <1>2. ASSUME Fits
        PROVE  FALSE
    <2>1. PICK C, cov, nxt, K, r : Setting(C, cov, nxt, K) /\ Reading(C, cov, nxt, K, r)
      BY <1>1, <1>2, Facing DEF Restoring
    <2>2. r \in 0 .. Len(C) /\ output = SubSeq(Padded, 1, cov[r])
      BY <2>1 DEF Reading
    <2>3. CASE phase = "size"
      <3>1. ReadingSize(C, nxt, K, r)
        BY <2>1, <2>3 DEF Reading
      <3> QED BY <1>1, <2>1, <2>2, <2>3, <3>1, SizeRead
    <2>4. CASE phase = "flags"
      <3>1. ReadingFlags(C, nxt, K, r)
        BY <2>1, <2>4 DEF Reading
      <3>2. CASE source < size
        BY <1>1, <2>1, <2>2, <2>4, <3>1, <3>2, FlagsRead
      <3>3. CASE ~(source < size)
        BY <1>1, <2>1, <2>2, <2>4, <3>1, <3>3, CountRead
      <3> QED BY <3>2, <3>3
    <2>5. CASE phase = "codes"
      <3>1. ReadingCodes(C, nxt, K, r) /\ remaining > 0
        BY <1>1, <2>1, <2>5 DEF Reading
      <3> QED BY <1>1, <2>1, <2>2, <2>5, <3>1, CodeRead
    <2> QED BY <1>1, <2>3, <2>4, <2>5
  <1>3. ~Fits'
    BY <1>1, <1>2 DEF Fits
  <1> QED BY <1>1, <1>3 DEF IInv, Shape, Restoring

LEMMA Stutter ==
  ASSUME IInv, UNCHANGED vars
  PROVE  IInv'
  <1>1. /\ UNCHANGED <<phase, input, codepoints, covered, padding, packed, origin>>
        /\ UNCHANGED <<source, size, flags, remaining, output>>
    BY DEF vars
  <1>2. Padded' = Padded /\ Fits' = Fits
    BY <1>1 DEF Padded, Fits
  <1>3. ASSUME NEW C, NEW cov, NEW nxt, NEW K, Plan(C, cov, nxt, K)
        PROVE  Plan(C, cov, nxt, K)'
    BY <1>2, <1>3 DEF Plan
  <1>4. Searching => Searching'
    BY <1>1 DEF Searching, Unread
  <1>5. Packs => Packs'
    <2>1. ASSUME NEW C, NEW nxt, NEW K, NEW d, Packing(C, nxt, K, d)
          PROVE  Packing(C, nxt, K, d)'
      BY <1>1, <2>1, Zenon DEF Packing
    <2> QED BY <1>1, <1>3, <2>1 DEF Packs, Unread
  <1>6. Restores => Restores'
    <2>1. ASSUME NEW C, NEW nxt, NEW K, Packed(C, nxt, K)
          PROVE  Packed(C, nxt, K)'
      BY <1>1, <2>1, Zenon DEF Packed
    <2>2. ASSUME NEW C, NEW cov, NEW nxt, NEW K, NEW r, Reading(C, cov, nxt, K, r)
          PROVE  Reading(C, cov, nxt, K, r)'
      <3>1. ReadingSize(C, nxt, K, r) => ReadingSize(C, nxt, K, r)'
        BY <1>1, Zenon DEF ReadingSize
      <3>2. ReadingFlags(C, nxt, K, r) => ReadingFlags(C, nxt, K, r)'
        BY <1>1, Zenon DEF ReadingFlags
      <3>3. ReadingCodes(C, nxt, K, r) => ReadingCodes(C, nxt, K, r)'
        BY <1>1, Zenon DEF ReadingCodes
      <3> QED BY <1>1, <1>2, <2>2, <3>1, <3>2, <3>3 DEF Reading
    <2> QED BY <1>2, <1>3, <2>1, <2>2 DEF Restores
  <1> QED BY <1>1, <1>2, <1>4, <1>5, <1>6 DEF IInv, Shape, Restoring

LEMMA Invariance == Spec => []IInv
  <1>1. Init => IInv
    BY Initially
  <1>2. IInv /\ [Next]_vars => IInv'
    <2> SUFFICES ASSUME IInv, [Next]_vars
                 PROVE  IInv'
      OBVIOUS
    <2>1. CASE UNCHANGED vars
      BY <2>1, Stutter
    <2>2. CASE Next
      BY <2>2, SearchStep, PadStep, PackStep, FinishStep, ReadSizeStep, ReadFlagsStep, ReadCodeStep,
         NextFlagsStep, ReadCountStep, LostStep DEF Next
    <2> QED BY <2>1, <2>2
  <1> QED BY <1>1, <1>2, PTL DEF Spec

\* For every input the decompressor takes each cell for what the compressor wrote
\* there, and ends where the data ends (decompressor.hpp:124, script-encoder.cpp:195).
THEOREM WholeReadCorrect == Spec => []WholeRead
  <1>1. IInv => WholeRead
    <2> SUFFICES ASSUME IInv, Fits
                 PROVE  phase # "lost" /\ (phase = "done" => source % SizeModulus = Len(packed))
      BY DEF WholeRead
    <2>1. phase # "lost"
      BY DEF IInv
    <2>2. ASSUME phase = "done"
          PROVE  source % SizeModulus = Len(packed)
      <3>1. PICK C, cov, nxt, K, r : Setting(C, cov, nxt, K) /\ Reading(C, cov, nxt, K, r)
        BY <2>2, Facing DEF Restoring
      <3>2. source = nxt[Len(C)] + 1
        BY <2>2, <3>1 DEF Reading
      <3>3. PICK x : x = nxt[Len(C)]
        OBVIOUS
      <3>4. /\ Len(packed) = x + 1 /\ x \in Nat /\ x + 1 < SizeModulus /\ SizeModulus \in Nat \ {0}
        BY <3>1, <3>3 DEF Setting
      <3>5. (x + 1) % SizeModulus = x + 1
        BY <3>4
      <3> QED BY <3>2, <3>3, <3>4, <3>5
    <2> QED BY <2>1, <2>2
  <1> QED BY <1>1, Invariance, PTL

\* For every input the decompressor writes at each step what was compressed so
\* far, and in the end all of it (compressor.hpp, decompressor.hpp).
THEOREM RoundTripCorrect == Spec => []RoundTrip
  <1>1. IInv => RoundTrip
    <2> SUFFICES ASSUME IInv, Fits, phase # "lost"
                 PROVE  /\ output = SubSeq(Padded, 1, Len(output))
                        /\ phase = "done" => output = Padded
      BY DEF RoundTrip
    <2>1. CASE Restoring
      <3>1. PICK C, cov, nxt, K, r : Setting(C, cov, nxt, K) /\ Reading(C, cov, nxt, K, r)
        BY <2>1, Facing
      <3>2. r \in 0 .. Len(C) /\ output = SubSeq(Padded, 1, cov[r])
            /\ (phase = "done" => r = Len(C))
        BY <3>1 DEF Reading
      <3>3. Len(C) \in Nat /\ Described(C, cov, Padded) /\ cov[Len(C)] = Len(Padded)
        BY <3>1 DEF Setting
      <3>4. cov[r] \in 0 .. Len(Padded) /\ Padded \in Seq(Nat)
        BY <3>2, <3>3, Coverage
      <3>5. Len(output) = cov[r]
        BY <3>2, <3>4, Prefix
      <3>6. SubSeq(Padded, 1, Len(Padded)) = Padded
        BY <3>4, SubSeqFull
      <3> QED BY <3>2, <3>3, <3>5, <3>6
    <2>2. CASE ~Restoring
      <3>1. output = <<>> /\ phase # "done"
        BY <2>2 DEF IInv, Shape, Restoring, Searching, Packs, Unread
      <3>2. SubSeq(Padded, 1, Len(output)) = <<>>
        <4>1. Len(output) = 0
          BY <3>1
        <4> QED BY <4>1
      <3> QED BY <3>1, <3>2
    <2> QED BY <2>1, <2>2
  <1> QED BY <1>1, Invariance, PTL
-----------------------------------------------------------------------------
(* Types.  Cells can be read as what they say they are, whether the sizes   *)
(* can hold the data or not: a pair or a size is never the last cell.       *)

Typed(cells, i) ==
  /\ cells[i].kind = "size" => cells[i].value \in Nat
  /\ cells[i].kind = "flags" => cells[i].value \in [1 .. FlagBits -> BOOLEAN]
  /\ cells[i].kind = "count" => cells[i].value \in 0 .. FlagBits
  /\ cells[i].kind \in {"pair", "size"} => i < Len(cells)

Sound(cells) == cells \in Seq(AnyCell) /\ \A i \in 1 .. Len(cells) : Typed(cells, i)

Types ==
  /\ TypeOK
  /\ input \in Seq(Nat) /\ codepoints \in Seq(Codepoint) /\ Sound(packed)
  /\ phase = "search" => packed = Blank /\ origin = 0
  /\ phase \in {"search", "pack"} => source = 0
  /\ phase = "pack" => origin + 2 <= Len(packed) /\ packed[origin + 1] = Cell("size", 0)
  /\ phase = "pack" /\ codepoints = <<>> =>
       origin >= 1 /\ origin + 2 = Len(packed) /\ packed[origin].kind = "count"
  /\ phase = "codes" => remaining <= Len(flags)

LEMMA SoundJoint ==
  ASSUME NEW q, NEW r, Sound(q), Sound(r)
  PROVE  Sound(q \o r)
  <1>1. PICK m, n, s : m = Len(q) /\ n = Len(r) /\ s = q \o r
    OBVIOUS
  <1>2. q \in Seq(AnyCell) /\ r \in Seq(AnyCell)
    BY DEF Sound
  <1>3. /\ m \in Nat /\ n \in Nat /\ s \in Seq(AnyCell) /\ Len(s) = m + n
        /\ \A i \in 1 .. m : s[i] = q[i]
        /\ \A i \in 1 .. n : s[m + i] = r[i]
    <2>1. /\ m \in Nat /\ n \in Nat /\ q \o r \in Seq(AnyCell) /\ Len(q \o r) = m + n
          /\ \A i \in 1 .. m : (q \o r)[i] = q[i]
          /\ \A i \in 1 .. n : (q \o r)[m + i] = r[i]
      BY <1>1, <1>2, Joint
    <2> QED BY <1>1, <2>1
  <1>4. ASSUME NEW i \in 1 .. m + n
        PROVE  Typed(s, i)
    <2>1. CASE i \in 1 .. m
      <3>1. Typed(q, i) /\ s[i] = q[i] /\ (i < m => i < m + n)
        BY <1>1, <1>3, <2>1 DEF Sound
      <3> QED BY <1>1, <1>3, <3>1 DEF Typed
    <2>2. CASE i \notin 1 .. m
      <3>1. PICK j : j = i - m
        OBVIOUS
      <3>2. j \in 1 .. n /\ m + j = i /\ (j < n => i < m + n)
        BY <1>3, <2>2, <3>1
      <3>3. Typed(r, j) /\ s[i] = r[j]
        BY <1>1, <1>3, <3>2 DEF Sound
      <3> QED BY <1>1, <1>3, <3>2, <3>3 DEF Typed
    <2> QED BY <2>1, <2>2
  <1> QED BY <1>1, <1>3, <1>4 DEF Sound

LEMMA SoundPieces ==
  /\ Sound(<<>>) /\ Sound(Blank)
  /\ \A g \in [1 .. FlagBits -> BOOLEAN] : Sound(<<Cell("flags", g)>>)
  /\ \A n \in 0 .. FlagBits : Sound(<<Cell("count", n)>>)
  /\ \A c \in Codepoint : Sound(CellsOf(c))
  <1>1. Sound(<<>>)
    BY DEF Sound
  <1>2. Sound(Blank)
    <2>1. Blank \in Seq(AnyCell) /\ Len(Blank) = 2
      BY DEF Blank, Cell, Hole, AnyCell, Kinds, Values
    <2>2. Blank[1] = Cell("size", 0) /\ Blank[2] = Cell("hole", 0)
      BY DEF Blank, Hole
    <2>3. Typed(Blank, 1) /\ Typed(Blank, 2)
      BY <2>1, <2>2 DEF Typed, Cell
    <2> QED BY <2>1, <2>3 DEF Sound
  <1>3. ASSUME NEW g \in [1 .. FlagBits -> BOOLEAN]
        PROVE  Sound(<<Cell("flags", g)>>)
    <2>1. Cell("flags", g) \in AnyCell
      BY DEF Cell, AnyCell, Kinds, Values
    <2>2. PICK s : s = <<Cell("flags", g)>>
      OBVIOUS
    <2>3. s \in Seq(AnyCell) /\ Len(s) = 1 /\ s[1].kind = "flags" /\ s[1].value = g
      BY <2>1, <2>2 DEF Cell
    <2>4. Typed(s, 1)
      BY <2>3 DEF Typed
    <2> QED BY <2>2, <2>3, <2>4 DEF Sound
  <1>4. ASSUME NEW n \in 0 .. FlagBits
        PROVE  Sound(<<Cell("count", n)>>)
    <2>1. Cell("count", n) \in AnyCell
      BY FlagAssumption DEF Cell, AnyCell, Kinds, Values
    <2>2. PICK s : s = <<Cell("count", n)>>
      OBVIOUS
    <2>3. s \in Seq(AnyCell) /\ Len(s) = 1 /\ s[1].kind = "count" /\ s[1].value = n
      BY <2>1, <2>2 DEF Cell
    <2>4. Typed(s, 1)
      BY <2>3 DEF Typed
    <2> QED BY <2>2, <2>3, <2>4 DEF Sound
  <1>5. ASSUME NEW c \in Codepoint
        PROVE  Sound(CellsOf(c))
    <2>1. PICK s : s = CellsOf(c)
      OBVIOUS
    <2>2. s \in Seq(AnyCell) /\ c.length \in Nat /\ MinMatch \in Nat
      BY <2>1, CellTypes, WindowAssumption DEF Codepoint, MinMatch
    <2>3. CASE c.length < MinMatch
      <3>1. Len(s) = 1 /\ s[1].kind = "byte"
        BY <2>1, <2>3 DEF CellsOf, Cell
      <3>2. Typed(s, 1)
        BY <3>1 DEF Typed
      <3> QED BY <2>1, <2>2, <3>1, <3>2 DEF Sound
    <2>4. CASE ~(c.length < MinMatch)
      <3>1. Len(s) = 2 /\ s[1].kind = "pair" /\ s[2].kind = "hole"
        BY <2>1, <2>4 DEF CellsOf, Cell, Hole
      <3>2. Typed(s, 1) /\ Typed(s, 2)
        BY <3>1 DEF Typed
      <3> QED BY <2>1, <2>2, <3>1, <3>2 DEF Sound
    <2> QED BY <2>3, <2>4
  <1> QED BY <1>1, <1>2, <1>3, <1>4, <1>5

LEMMA SoundCells ==
  ASSUME codepoints \in Seq(Codepoint), NEW n \in 0 .. Len(codepoints)
  PROVE  Sound(Cells[n])
  <1> DEFINE T == {m \in Nat : m <= n => Sound(Cells[m])}
  <1>1. ASSUME NEW m \in Nat, \A k \in Nat : k < m => k \in T
        PROVE  m \in T
    <2>1. CASE m = 0
      <3>1. Sound(Cells[0])
        BY CellsRecursion, SoundPieces
      <3> QED BY <2>1, <3>1
    <2>2. CASE m # 0 /\ m <= n
      <3>1. PICK k : k = m - 1
        OBVIOUS
      <3>2. k \in Nat /\ k < m /\ k <= n /\ m \in 1 .. Len(codepoints)
        BY <2>2, <3>1, LenProperties
      <3>3. Sound(Cells[k])
        BY <1>1, <3>2
      <3>4. codepoints[m] \in Codepoint
        BY <3>2, ElementOfSeq
      <3>5. Sound(CellsOf(codepoints[m]))
        BY <3>4, SoundPieces
      <3>6. Cells[m] = Cells[k] \o CellsOf(codepoints[m])
        BY <2>2, <3>1, CellsRecursion
      <3>7. Sound(Cells[m])
        BY <3>3, <3>5, <3>6, SoundJoint
      <3> QED BY <3>7
    <2> QED BY <2>1, <2>2
  <1> HIDE DEF T
  <1>2. n \in T
    <2>1. n \in Nat
      BY LenProperties
    <2> QED BY <1>1, <2>1, Induction
  <1> QED BY <1>2 DEF T

\* The size of a block is filled in.
LEMMA SoundSize ==
  ASSUME NEW P, Sound(P), NEW o \in Nat, o + 1 <= Len(P), P[o + 1] = Cell("size", 0), NEW w \in Nat
  PROVE  /\ Sound([P EXCEPT ![o + 1].value = w]) /\ Len([P EXCEPT ![o + 1].value = w]) = Len(P)
  <1>1. PICK n, q : n = Len(P) /\ q = [P EXCEPT ![o + 1].value = w]
    OBVIOUS
  <1>2. P \in Seq(AnyCell) /\ n \in Nat /\ o + 1 \in 1 .. n
    BY <1>1, LenProperties DEF Sound
  <1>3. [P[o + 1] EXCEPT !.value = w] = Cell("size", w)
    BY DEF Cell
  <1>4. Cell("size", w) \in AnyCell
    BY DEF Cell, AnyCell, Kinds, Values
  <1>5. q = [P EXCEPT ![o + 1] = Cell("size", w)]
    BY <1>1, <1>3
  <1>6. /\ q \in Seq(AnyCell) /\ n = Len(q)
        /\ \A i \in 1 .. n : q[i] = IF i = o + 1 THEN Cell("size", w) ELSE P[i]
    BY <1>1, <1>2, <1>4, <1>5, ExceptSeq, SMTT(30)
  <1>7. ASSUME NEW i \in 1 .. n
        PROVE  Typed(q, i)
    <2>1. Typed(P, i)
      BY <1>1 DEF Sound
    <2>2. CASE i = o + 1
      <3>1. P[i].kind = "size"
        BY <2>2 DEF Cell
      <3>2. q[i].kind = "size" /\ q[i].value = w
        BY <1>6, <2>2 DEF Cell
      <3> QED BY <1>1, <1>6, <2>1, <3>1, <3>2 DEF Typed
    <2>3. CASE i # o + 1
      <3>1. q[i] = P[i]
        BY <1>6, <2>3
      <3> QED BY <1>1, <1>6, <2>1, <3>1 DEF Typed
    <2> QED BY <2>2, <2>3
  <1> QED BY <1>1, <1>6, <1>7 DEF Sound

LEMMA TypesInit == ASSUME Init PROVE Types
  <1>1. input \in Inputs /\ input \in Seq(Nat) /\ Len(input) \in Nat
    BY InputAssumption, LenProperties DEF Init
  <1>2. /\ phase = "search" /\ codepoints = <<>> /\ covered = 0 /\ padding = 0 /\ packed = Blank
        /\ origin = 0 /\ source = 0 /\ size = 0 /\ flags = <<>> /\ remaining = 0
    BY DEF Init
  <1>3. Len(packed) = 2 /\ Sound(packed)
    BY <1>2, SoundPieces DEF Blank
  <1>4. codepoints \in Seq(Codepoint) /\ DOMAIN codepoints = {}
    BY <1>2
  <1>5. 0 \in 0 .. SizeModulus - 1 /\ 0 \in 0 .. FlagBits
    BY FlagAssumption
  <1>6. flags \in Seq(BOOLEAN) /\ Len(flags) <= FlagBits
    BY <1>2, FlagAssumption
  <1>7. TypeOK
    BY <1>1, <1>2, <1>3, <1>4, <1>5, <1>6 DEF TypeOK
  <1> QED BY <1>1, <1>2, <1>3, <1>4, <1>7 DEF Types

\* Codepoints of the plan are codepoints in TypeOK.
LEMMA CodepointFields ==
  ASSUME NEW C \in Seq(Codepoint)
  PROVE  \A i \in DOMAIN C : C[i].offset \in 0 .. Window - 1 /\ C[i].length \in 1 .. MaxMatch
  <1>1. \A i \in DOMAIN C : C[i] \in Codepoint
    BY ElementOfSeq, LenProperties
  <1> QED BY <1>1 DEF Codepoint

LEMMA TypesSearch == ASSUME Types, Search PROVE Types'
  <1>1. /\ phase = "search" /\ phase' = "search" /\ covered < Len(input)
        /\ UNCHANGED <<input, padding, packed, origin, source, size, flags, remaining>>
    BY DEF Search, reading
  <1>2. /\ input \in Seq(Nat) /\ input \in Inputs /\ Len(input) \in Nat /\ covered \in Nat
        /\ codepoints \in Seq(Codepoint)
    BY LenProperties DEF Types, TypeOK
  <1>3. covered + 1 \in 1 .. Len(input) /\ input[covered + 1] \in Nat
    BY <1>1, <1>2, ElementOfSeq
  <1>4. PICK c : /\ codepoints' = Append(codepoints, c) /\ covered' = covered + c.length
                 /\ c = IF Matches = {} THEN Literal(input[covered + 1])
                        ELSE [offset |-> Best[1], length |-> Best[2], byte |-> input[covered + 1]]
    BY Zenon DEF Search
  <1>5. c \in Codepoint /\ covered + c.length <= Len(input)
    <2>1. CASE Matches = {}
      <3>1. PICK byte : byte = input[covered + 1]
        OBVIOUS
      <3>2. c = Literal(byte) /\ byte \in Nat
        BY <1>3, <1>4, <2>1, <3>1
      <3>3. c \in Codepoint /\ c.length = 1
        BY <3>2, LiteralType
      <3> QED BY <1>2, <1>3, <3>3
    <2>2. CASE Matches # {}
      <3>1. PICK m : m = Best
        OBVIOUS
      <3>2. /\ m[1] \in 1 .. Window - 1 /\ m[2] \in MinMatch .. MaxMatch /\ covered + m[2] <= Len(input)
        BY <2>2, <3>1, BestMatch DEF Matches
      <3>3. c = [offset |-> m[1], length |-> m[2], byte |-> input[covered + 1]]
        BY <1>4, <2>2, <3>1
      <3>4. m[1] \in 0 .. Window - 1 /\ m[2] \in 1 .. MaxMatch
        BY <3>2, WindowAssumption DEF MinMatch
      <3> QED BY <1>3, <3>2, <3>3, <3>4 DEF Codepoint
    <2> QED BY <2>1, <2>2
  <1>6. codepoints' \in Seq(Codepoint)
    BY <1>2, <1>4, <1>5, AppendProperties
  <1>7. \A i \in DOMAIN codepoints' : /\ codepoints'[i].offset \in 0 .. Window - 1
                                      /\ codepoints'[i].length \in 1 .. MaxMatch
    BY <1>6, CodepointFields
  <1>8. covered' \in 0 .. Len(input)
    <2>1. PICK k : k = c.length
      OBVIOUS
    <2>2. k \in Nat /\ covered + k <= Len(input)
      BY <1>5, <2>1, WindowAssumption DEF Codepoint
    <2>3. covered' = covered + k
      BY <1>4, <2>1
    <2> QED BY <1>2, <2>2, <2>3
  <1>9. TypeOK'
    BY <1>1, <1>7, <1>8 DEF Types, TypeOK
  <1> QED BY <1>1, <1>6, <1>9 DEF Types

LEMMA TypesPad == ASSUME Types, Pad PROVE Types'
  <1>1. /\ phase = "search" /\ phase' = "pack"
        /\ UNCHANGED <<input, covered, packed, origin, source, size, flags, remaining>>
    BY DEF Pad, reading
  <1>2. codepoints \in Seq(Codepoint) /\ Len(codepoints) \in Nat /\ FlagBits \in Nat \ {0}
    BY LenProperties, FlagAssumption DEF Types
  <1>3. PICK m : /\ m = IF Len(codepoints) < FlagBits THEN FlagBits - Len(codepoints) ELSE 0
                 /\ codepoints' = codepoints \o [i \in 1 .. m |-> Literal(0)] /\ padding' = m
    BY Zenon DEF Pad
  <1>4. m \in 0 .. FlagBits /\ m \in Nat /\ Len(codepoints) + m # 0
    BY <1>2, <1>3
  <1>5. PICK z : z = [i \in 1 .. m |-> Literal(0)]
    OBVIOUS
  <1>6. z \in Seq(Codepoint) /\ Len(z) = m
    BY <1>4, <1>5, LiteralType
  <1>7. codepoints' \in Seq(Codepoint) /\ Len(codepoints') = Len(codepoints) + m
    BY <1>2, <1>3, <1>5, <1>6, ConcatProperties
  <1>8. codepoints' # <<>>
    <2>1. Len(<<>>) = 0
      OBVIOUS
    <2> QED BY <1>4, <1>7, <2>1
  <1>9. \A i \in DOMAIN codepoints' : /\ codepoints'[i].offset \in 0 .. Window - 1
                                      /\ codepoints'[i].length \in 1 .. MaxMatch
    BY <1>7, CodepointFields
  <1>10. TypeOK'
    BY <1>1, <1>3, <1>4, <1>9 DEF Types, TypeOK
  <1>11. packed = Blank /\ origin = 0 /\ Len(packed) = 2 /\ packed[1] = Cell("size", 0) /\ source = 0
    <2>1. packed = Blank /\ origin = 0 /\ source = 0
      BY <1>1 DEF Types
    <2> QED BY <2>1 DEF Blank
  <1> QED BY <1>1, <1>7, <1>8, <1>10, <1>11 DEF Types

LEMMA TypesPack == ASSUME Types, Pack PROVE Types'
  <1>1. /\ phase = "pack" /\ phase' = "pack" /\ codepoints # <<>>
        /\ UNCHANGED <<input, covered, padding, source, size, flags, remaining>>
    BY DEF Pack, reading
  <1>2. PICK L, n : L = Len(codepoints) /\ n = Smaller(Len(codepoints), FlagBits)
    OBVIOUS
  <1>3. /\ codepoints \in Seq(Codepoint) /\ L \in Nat \ {0} /\ FlagBits \in Nat \ {0}
        /\ n \in 0 .. L /\ n \in 0 .. Len(codepoints)
    <2>1. codepoints \in Seq(Codepoint)
      BY DEF Types
    <2>2. L \in Nat /\ L # 0
      BY <1>1, <1>2, <2>1, EmptySeq, LenProperties
    <2> QED BY <1>2, <2>1, <2>2, FlagAssumption DEF Smaller
  <1>4. PICK P, left : P = PackFlags /\ left = Len(Rest(n))
    OBVIOUS
  <1>5. left \in Nat /\ Rest(n) \in Seq(Codepoint) /\ left = L - n
    <2>1. Left(SubSeq(codepoints, n + 1, Len(codepoints)), Codepoint, codepoints, n)
      BY <1>3, Remainder
    <2> QED BY <1>2, <1>3, <1>4, <2>1 DEF Left, Rest
  <1>6. /\ Sound(packed) /\ origin \in Nat /\ source = 0 /\ Len(packed) \in Nat
        /\ origin + 2 <= Len(packed) /\ packed[origin + 1] = Cell("size", 0)
    <2>1. Sound(packed) /\ origin \in 0 .. Len(packed)
      BY DEF Types, TypeOK
    <2>2. Len(packed) \in Nat
      BY <2>1, LenProperties DEF Sound
    <2> QED BY <1>1, <2>1, <2>2 DEF Types
  <1>7. PICK g : g = [b \in 1 .. FlagBits |-> b > n \/ codepoints[b].length >= MinMatch]
    OBVIOUS
  <1>8. PICK f : f = <<Cell("flags", g)>> \o Cells[n]
    OBVIOUS
  <1>9. Sound(f) /\ Sound(<<Cell("flags", g)>>)
    <2>1. g \in [1 .. FlagBits -> BOOLEAN]
      BY <1>7
    <2>2. Sound(<<Cell("flags", g)>>)
      BY <2>1, SoundPieces
    <2>3. Sound(Cells[n])
      BY <1>3, SoundCells
    <2> QED BY <1>8, <2>2, <2>3, SoundJoint
  <1>10. /\ Sound(P) /\ Len(P) \in Nat /\ Len(packed) <= Len(P)
         /\ \A i \in 1 .. Len(packed) : P[i] = packed[i]
    <2>1. PICK c, a, q : c = Cell("flags", g) /\ a = Append(packed, c) /\ q = Cells[n]
      OBVIOUS
    <2>2. P = a \o q
      BY <1>2, <1>4, <1>7, <2>1 DEF PackFlags
    <2>3. packed \in Seq(AnyCell) /\ c \in AnyCell
      <3>1. packed \in Seq(AnyCell)
        BY <1>6 DEF Sound
      <3>2. g \in [1 .. FlagBits -> BOOLEAN]
        BY <1>7
      <3> QED BY <2>1, <3>1, <3>2 DEF Cell, AnyCell, Kinds, Values
    <2>4. a = packed \o <<c>>
      BY <2>1, <2>3, AppendIsConcat
    <2>5. Sound(a)
      BY <1>6, <1>9, <2>1, <2>4, SoundJoint
    <2>6. Sound(q)
      BY <1>3, <2>1, SoundCells
    <2>7. Sound(P)
      BY <2>2, <2>5, <2>6, SoundJoint
    <2>8. PICK k, m : k = Len(a) /\ m = Len(q)
      OBVIOUS
    <2>9. a \in Seq(AnyCell) /\ q \in Seq(AnyCell)
      BY <2>5, <2>6 DEF Sound
    <2>10. /\ k \in Nat /\ m \in Nat /\ Len(P) = k + m
           /\ \A i \in 1 .. k : P[i] = a[i]
      BY <2>2, <2>8, <2>9, Joint
    <2>11. /\ k = Len(packed) + 1
           /\ \A i \in 1 .. Len(packed) : a[i] = packed[i]
      BY <2>1, <2>3, <2>8, AppendProperties
    <2> QED BY <1>6, <2>7, <2>10, <2>11
  <1>11. P[origin + 1] = Cell("size", 0) /\ origin + 1 <= Len(P) /\ origin + 2 <= Len(P)
    <2>1. origin + 1 \in 1 .. Len(packed)
      BY <1>6
    <2> QED BY <1>6, <1>10, <2>1
  <1>12. codepoints' = Rest(n)
    BY <1>2 DEF Pack
  <1>13. \A i \in DOMAIN codepoints' : /\ codepoints'[i].offset \in 0 .. Window - 1
                                       /\ codepoints'[i].length \in 1 .. MaxMatch
    BY <1>5, <1>12, CodepointFields
  <1>14. codepoints' = <<>> => left = 0
    BY <1>4, <1>12
  <1>15. /\ Sound(packed') /\ origin' \in 0 .. Len(packed') /\ origin' + 2 <= Len(packed')
         /\ packed'[origin' + 1] = Cell("size", 0)
         /\ codepoints' = <<>> => /\ origin' >= 1 /\ origin' + 2 = Len(packed')
                                  /\ packed'[origin'].kind = "count"
    <2>1. CASE left >= FlagBits
      <3>1. packed' = P /\ origin' = origin
        BY <1>2, <1>4, <2>1 DEF Pack
      <3>2. codepoints' # <<>>
        BY <1>3, <1>14, <2>1
      <3> QED BY <1>6, <1>10, <1>11, <3>1, <3>2
    <2>2. CASE ~(left >= FlagBits)
      <3>1. PICK w, q, closed : /\ w = EndSize(Len(P)) /\ q = [P EXCEPT ![origin + 1].value = w]
                                /\ closed = q \o <<Cell("count", left)>>
        OBVIOUS
      <3>2. packed' = closed \o Blank /\ origin' = Len(closed)
        BY <1>2, <1>4, <2>2, <3>1 DEF Pack, CloseBlock
      <3>3. w \in Nat
        <4>1. PICK t : t = Len(P) - (IF origin = 0 THEN 2 ELSE 0)
          OBVIOUS
        <4>2. t \in Int /\ SizeModulus \in Nat \ {0} /\ w = t % SizeModulus
          BY <1>10, <3>1, <4>1, FlagAssumption DEF EndSize
        <4> QED BY <4>2
      <3>4. Sound(q) /\ Len(q) = Len(P)
        BY <1>6, <1>10, <1>11, <3>1, <3>3, SoundSize
      <3>5. PICK c, b, k : c = <<Cell("count", left)>> /\ b = Blank /\ k = Len(P)
        OBVIOUS
      <3>6. Sound(c) /\ Sound(b) /\ c[1].kind = "count" /\ b[1] = Cell("size", 0)
        <4>1. left \in 0 .. FlagBits
          BY <1>3, <1>5, <2>2
        <4>2. c[1].kind = "count" /\ b[1] = Cell("size", 0)
          BY <3>5 DEF Cell, Blank
        <4> QED BY <3>5, <4>1, <4>2, SoundPieces
      <3>7. Sound(closed) /\ Sound(packed')
        BY <3>1, <3>2, <3>4, <3>5, <3>6, SoundJoint
      <3>8. /\ q \in Seq(AnyCell) /\ c \in Seq(AnyCell) /\ b \in Seq(AnyCell) /\ closed \in Seq(AnyCell)
        BY <3>4, <3>6, <3>7 DEF Sound
      <3>9. Len(closed) = k + 1 /\ k \in Nat /\ closed[k + 1] = c[1]
        <4>1. PICK e : e = 1
          OBVIOUS
        <4>2. e = Len(c)
          BY <3>5, <4>1
        <4>3. Len(q \o c) = k + e /\ \A i \in 1 .. e : (q \o c)[k + i] = c[i]
          BY <3>4, <3>5, <3>8, <4>2, Joint
        <4>4. 1 \in 1 .. 1
          OBVIOUS
        <4> QED BY <1>10, <3>1, <3>5, <4>1, <4>3, <4>4
      <3>10. PICK o : o = k + 1
        OBVIOUS
      <3>11. Len(packed') = o + 2 /\ packed'[o] = closed[o] /\ packed'[o + 1] = b[1]
        <4>1. PICK e : e = 2
          OBVIOUS
        <4>2. e = Len(b) /\ o = Len(closed)
          BY <3>5, <3>9, <3>10, <4>1 DEF Blank
        <4>3. /\ Len(closed \o b) = o + e
              /\ \A i \in 1 .. o : (closed \o b)[i] = closed[i]
              /\ \A i \in 1 .. e : (closed \o b)[o + i] = b[i]
          BY <3>8, <4>2, Joint
        <4>4. o \in 1 .. o /\ 1 \in 1 .. 2
          BY <3>9, <3>10
        <4> QED BY <3>2, <3>5, <4>1, <4>3, <4>4
      <3>12. origin' = o /\ o \in Nat /\ o >= 1
        BY <3>2, <3>9, <3>10
      <3> QED BY <3>6, <3>7, <3>9, <3>10, <3>11, <3>12
    <2> QED BY <2>1, <2>2
  <1>16. source' = 0 /\ 0 \in 0 .. Len(packed')
    <2>1. Len(packed') \in Nat
      BY <1>15, LenProperties DEF Sound
    <2> QED BY <1>1, <1>6, <2>1
  <1>17. TypeOK'
    BY <1>1, <1>13, <1>15, <1>16 DEF Types, TypeOK
  <1> QED BY <1>1, <1>5, <1>12, <1>15, <1>16, <1>17 DEF Types

\* The size field that is cut off is the last two cells.
LEMMA TypesFinish == ASSUME Types, Finish PROVE Types'
  <1>1. /\ phase = "pack" /\ phase' = "size" /\ codepoints = <<>>
        /\ packed' = SubSeq(packed, 1, Len(packed) - 2)
        /\ UNCHANGED <<input, codepoints, covered, padding, origin, source, size, flags, remaining>>
    BY DEF Finish, reading
  <1>2. PICK o : o = origin
    OBVIOUS
  <1>3. /\ packed \in Seq(AnyCell) /\ o \in Nat /\ o >= 1 /\ o + 2 = Len(packed)
        /\ packed[o].kind = "count" /\ source = 0
    <2>1. packed \in Seq(AnyCell) /\ origin \in 0 .. Len(packed) /\ Len(packed) \in Nat
      BY LenProperties DEF Types, TypeOK, Sound
    <2> QED BY <1>1, <1>2, <2>1 DEF Types
  <1>4. PICK q : q = packed'
    OBVIOUS
  <1>5. q \in Seq(AnyCell) /\ Len(q) = o /\ \A i \in 1 .. o : q[i] = packed[i]
    <2>1. Len(packed) - 2 = o /\ o \in 0 .. Len(packed)
      BY <1>3
    <2>2. q = SubSeq(packed, 1, o)
      BY <1>1, <1>4, <2>1
    <2> QED BY <1>3, <2>1, <2>2, Prefix
  <1>6. ASSUME NEW i \in 1 .. o
        PROVE  Typed(q, i)
    <2>1. Typed(packed, i)
      <3>1. i \in 1 .. Len(packed)
        BY <1>3
      <3> QED BY <3>1 DEF Types, Sound
    <2>2. q[i] = packed[i]
      BY <1>5
    <2>3. i = o => q[i].kind = "count"
      BY <1>3, <2>2
    <2>4. i # o => i < o
      BY <1>3
    <2>5. q[i].kind \in {"pair", "size"} => i < Len(q)
      BY <1>5, <2>3, <2>4
    <2> QED BY <2>1, <2>2, <2>5 DEF Typed
  <1>7. Sound(packed')
    BY <1>4, <1>5, <1>6 DEF Sound
  <1>8. TypeOK'
    <2>1. {origin', source'} \subseteq 0 .. Len(packed')
      BY <1>1, <1>2, <1>3, <1>4, <1>5
    <2> QED BY <1>1, <2>1 DEF Types, TypeOK
  <1> QED BY <1>1, <1>7, <1>8 DEF Types

\* What every step of the decompressor finds.
LEMMA Found ==
  ASSUME Types, phase \in {"size", "flags", "codes"}, Readable
  PROVE  /\ source \in Nat /\ Len(packed) \in Nat /\ source + 1 <= Len(packed)
         /\ Typed(packed, source + 1) /\ packed[source + 1].kind = Wanted
  <1>1. Sound(packed) /\ source \in 0 .. Len(packed) /\ Len(packed) \in Nat
    BY LenProperties DEF Types, TypeOK, Sound
  <1>2. source < Len(packed) /\ packed[source + 1].kind = Wanted
    BY DEF Readable
  <1>3. source + 1 \in 1 .. Len(packed)
    BY <1>1, <1>2
  <1> QED BY <1>1, <1>2, <1>3 DEF Sound

\* What a step of the decompressor has to keep.
LEMMA TypesRead ==
  ASSUME Types, UNCHANGED <<input, packing>>, phase' \in {"size", "flags", "codes", "done", "lost"},
         source' \in Nat, source' <= Len(packed), size' \in 0 .. SizeModulus - 1,
         flags' \in Seq(BOOLEAN), Len(flags') <= FlagBits, remaining' \in 0 .. FlagBits,
         phase' = "codes" => remaining' <= Len(flags')
  PROVE  Types'
  <1>1. UNCHANGED <<input, codepoints, covered, padding, packed, origin>>
    BY DEF packing
  <1>2. {origin', source'} \subseteq 0 .. Len(packed')
    <2>1. Len(packed) \in Nat /\ origin \in 0 .. Len(packed)
      BY LenProperties DEF Types, TypeOK, Sound
    <2> QED BY <1>1, <2>1
  <1>3. TypeOK'
    BY <1>1, <1>2 DEF Types, TypeOK
  <1> QED BY <1>1, <1>3 DEF Types

LEMMA TypesReads ==
  ASSUME Types, ReadSize \/ ReadFlags \/ ReadCode \/ NextFlags \/ ReadCount \/ Lost
  PROVE  Types'
  <1>1. /\ source \in Nat /\ Len(packed) \in Nat /\ source <= Len(packed) /\ FlagBits \in Nat \ {0}
        /\ SizeModulus \in Nat \ {0}
    <2>1. Len(packed) \in Nat /\ source \in 0 .. Len(packed)
      BY LenProperties DEF Types, TypeOK, Sound
    <2> QED BY <2>1, FlagAssumption
  <1>2. /\ size \in 0 .. SizeModulus - 1 /\ flags \in Seq(BOOLEAN) /\ Len(flags) <= FlagBits
        /\ remaining \in 0 .. FlagBits /\ (phase = "codes" => remaining <= Len(flags))
    BY DEF Types, TypeOK
  <1>3. CASE ReadSize
    <2>1. /\ phase = "size" /\ Readable /\ UNCHANGED <<input, packing, flags>> /\ phase' = "flags"
          /\ size' = (Read + (IF source = 0 THEN 2 ELSE 0)) % SizeModulus
          /\ source' = source + 2 /\ remaining' = IF source = 0 THEN FlagBits ELSE remaining
      BY <1>3 DEF ReadSize
    <2>2. Typed(packed, source + 1) /\ packed[source + 1].kind = "size"
      BY <2>1, Found DEF Wanted
    <2>3. source + 1 < Len(packed) /\ Read \in Nat
      BY <2>2 DEF Typed, Read
    <2>4. PICK t : t = Read + (IF source = 0 THEN 2 ELSE 0)
      OBVIOUS
    <2>5. t \in Int /\ size' = t % SizeModulus
      BY <2>1, <2>3, <2>4
    <2>6. size' \in 0 .. SizeModulus - 1
      BY <1>1, <2>5
    <2>7. source' \in Nat /\ source' <= Len(packed)
      BY <1>1, <2>1, <2>3
    <2>8. remaining' \in 0 .. FlagBits
      BY <1>1, <1>2, <2>1
    <2> QED BY <1>2, <2>1, <2>6, <2>7, <2>8, TypesRead
  <1>4. CASE ReadFlags
    <2>1. /\ phase = "flags" /\ source < size /\ Readable /\ phase' = "codes"
          /\ flags' = Read /\ source' = source + 1 /\ UNCHANGED <<input, packing, size, remaining>>
      BY <1>4 DEF ReadFlags
    <2>2. /\ Typed(packed, source + 1) /\ packed[source + 1].kind = "flags"
          /\ source + 1 <= Len(packed)
      BY <2>1, Found DEF Wanted
    <2>3. flags' \in [1 .. FlagBits -> BOOLEAN]
      BY <2>1, <2>2 DEF Typed, Read
    <2>4. flags' \in Seq(BOOLEAN) /\ Len(flags') = FlagBits
      BY <1>1, <2>3
    <2>5. source' \in Nat /\ source' <= Len(packed)
      BY <1>1, <2>1, <2>2
    <2>6. Len(flags') <= FlagBits /\ remaining' \in 0 .. FlagBits /\ remaining' <= Len(flags')
      BY <1>1, <1>2, <2>1, <2>4
    <2> QED BY <1>2, <2>1, <2>4, <2>5, <2>6, TypesRead
  <1>5. CASE ReadCode
    <2>1. /\ phase = "codes" /\ Readable /\ UNCHANGED <<input, packing, size>>
          /\ phase' = "codes" /\ flags' = Tail(flags)
          /\ source' = IF Head(flags) THEN source + 2 ELSE source + 1
      BY <1>5 DEF ReadCode
    <2>2. remaining > 0 /\ remaining' = remaining - 1
      BY <1>5 DEF ReadCode
    <2>3. /\ Typed(packed, source + 1)
          /\ packed[source + 1].kind = IF Head(flags) THEN "pair" ELSE "byte"
      BY <2>1, Found DEF Wanted
    <2>4. source + 1 <= Len(packed)
      BY <2>1, Found
    <2>5. source' \in Nat /\ source' <= Len(packed)
      <3>1. CASE Head(flags)
        <4>1. source + 1 < Len(packed)
          BY <2>3, <3>1 DEF Typed
        <4>2. source' = source + 2
          BY <2>1, <3>1
        <4> QED BY <1>1, <4>1, <4>2
      <3>2. CASE ~Head(flags)
        <4>1. source' = source + 1
          BY <2>1, <3>2
        <4> QED BY <1>1, <2>4, <4>1
      <3> QED BY <3>1, <3>2
    <2>6. PICK n : n = Len(flags)
      OBVIOUS
    <2>7. n \in Nat /\ n <= FlagBits /\ remaining \in 0 .. FlagBits /\ remaining <= n
      BY <1>2, <2>1, <2>6, LenProperties
    <2>8. n >= 1 /\ flags # <<>>
      <3>1. n >= 1
        BY <1>1, <2>2, <2>7
      <3>2. Len(<<>>) = 0
        OBVIOUS
      <3> QED BY <2>6, <3>1, <3>2
    <2>9. flags' \in Seq(BOOLEAN) /\ Len(flags') = n - 1
      BY <1>2, <2>1, <2>6, <2>8, HeadTailProperties
    <2>10. n - 1 <= FlagBits /\ remaining - 1 \in 0 .. FlagBits /\ remaining - 1 <= n - 1
      BY <1>1, <2>2, <2>7
    <2>11. Len(flags') <= FlagBits /\ remaining' \in 0 .. FlagBits /\ remaining' <= Len(flags')
      BY <2>2, <2>9, <2>10
    <2> QED BY <1>2, <2>1, <2>5, <2>9, <2>11, TypesRead
  <1>6. CASE NextFlags
    <2>1. /\ phase' = "flags" /\ remaining' = FlagBits /\ UNCHANGED <<input, packing, source, size, flags>>
      BY <1>6 DEF NextFlags
    <2> QED BY <1>1, <1>2, <2>1, TypesRead
  <1>7. CASE ReadCount
    <2>1. /\ phase = "flags" /\ ~(source < size) /\ Readable /\ UNCHANGED <<input, packing, size, flags>>
          /\ remaining' = Read /\ source' = source + 1 /\ phase' \in {"done", "size"}
      BY <1>1, <1>2, <1>7 DEF ReadCount
    <2>2. /\ Typed(packed, source + 1) /\ packed[source + 1].kind = "count"
          /\ source + 1 <= Len(packed)
      BY <2>1, Found DEF Wanted
    <2>3. remaining' \in 0 .. FlagBits
      BY <2>1, <2>2 DEF Typed, Read
    <2>4. source' \in Nat /\ source' <= Len(packed)
      BY <1>1, <2>1, <2>2
    <2> QED BY <1>2, <2>1, <2>3, <2>4, TypesRead
  <1>8. CASE Lost
    <2>1. phase' = "lost" /\ UNCHANGED <<input, packing, source, size, flags, remaining>>
      BY <1>8 DEF Lost, reading
    <2> QED BY <1>1, <1>2, <2>1, TypesRead
  <1> QED BY <1>3, <1>4, <1>5, <1>6, <1>7, <1>8

\* Codepoints fit their fields, and every position stays inside the data, also
\* where the data is longer than its sizes can tell (compressor.hpp, decompressor.hpp).
THEOREM TypeCorrect == Spec => []TypeOK
  <1>1. Init => Types
    BY TypesInit
  <1>2. Types /\ [Next]_vars => Types'
    <2> SUFFICES ASSUME Types, [Next]_vars
                 PROVE  Types'
      OBVIOUS
    <2>1. CASE UNCHANGED vars
      <3>1. UNCHANGED <<phase, input, codepoints, covered, padding, packed, origin,
                        source, size, flags, remaining>>
        BY <2>1 DEF vars
      <3>2. TypeOK'
        BY <3>1 DEF Types, TypeOK
      <3> QED BY <3>1, <3>2 DEF Types
    <2>2. CASE Next
      BY <2>2, TypesSearch, TypesPad, TypesPack, TypesFinish, TypesReads DEF Next
    <2> QED BY <2>1, <2>2
  <1>3. Types => TypeOK
    BY DEF Types
  <1> QED BY <1>1, <1>2, <1>3, PTL DEF Spec

-----------------------------------------------------------------------------
(* LZ77: the bytes of a block *)

\* A number of two digits has these digits.
LEMMA TwoDigits ==
  ASSUME NEW d \in Nat \ {0}, NEW a \in 0 .. d - 1, NEW b \in Nat
  PROVE  (a + d * b) % d = a /\ (a + d * b) \div d = b
  <1>1. PICK x \in Nat : x = a + d * b
    <2>1. d * b \in Nat
      OBVIOUS
    <2> QED BY <2>1
  <1>2. PICK q, r : q = x \div d /\ r = x % d
    OBVIOUS
  <1>3. q \in Nat /\ r \in 0 .. d - 1 /\ x = d * q + r
    BY <1>1, <1>2
  <1>4. \A k \in Nat : d * k >= 0
    OBVIOUS
  <1>5. ~(q < b)
    <2> SUFFICES ASSUME q < b PROVE FALSE
      OBVIOUS
    <2>1. PICK k \in Nat : b = q + 1 + k
      <3>1. b - q - 1 \in Nat /\ b = q + 1 + (b - q - 1)
        BY <1>3
      <3> QED BY <3>1
    <2>2. d * b = d * q + d + d * k
      BY <1>3, <2>1
    <2>3. d * q \in Int /\ d * k \in Int /\ d * b \in Int
      BY <1>3
    <2> QED BY <1>1, <1>3, <1>4, <2>2, <2>3
  <1>6. ~(b < q)
    <2> SUFFICES ASSUME b < q PROVE FALSE
      OBVIOUS
    <2>1. PICK k \in Nat : q = b + 1 + k
      <3>1. q - b - 1 \in Nat /\ q = b + 1 + (q - b - 1)
        BY <1>3
      <3> QED BY <3>1
    <2>2. d * q = d * b + d + d * k
      BY <1>3, <2>1
    <2>3. d * q \in Int /\ d * k \in Int /\ d * b \in Int
      BY <1>3
    <2> QED BY <1>1, <1>3, <1>4, <2>2, <2>3
  <1>7. q = b
    BY <1>3, <1>5, <1>6
  <1>8. r = a
    BY <1>1, <1>3, <1>7
  <1> QED BY <1>1, <1>2, <1>7, <1>8

\* Quotients and remainders are what they should be.
LEMMA Divided ==
  ASSUME NEW x \in Nat, NEW d \in Nat \ {0}
  PROVE  x % d \in 0 .. d - 1 /\ x \div d \in Nat /\ x = (x % d) + d * (x \div d)
  OBVIOUS

\* What is found is an entry.
LEMMA LongestFound ==
  ASSUME NEW data, NEW at, Entries(data, at) # {}
  PROVE  LongestEntry(data, at) \in Entries(data, at)
  <1>1. Lengths \in Nat /\ Middles \in Nat /\ Lows \in Nat
    BY FieldsAssumption
  <1>2. PICK most \in Nat : most = 2 * Middles * Lows
    BY <1>1
  <1>3. PICK M : M = Entries(data, at)
    OBVIOUS
  <1>4. \A e \in M : e[1] \in 1 .. most - 1 /\ e[2] \in 4 .. Lengths - 1
    BY <1>2, <1>3 DEF Entries, Offsets, MinLength, LongestLength
  <1>5. PICK s \in M : \A n \in M : s[2] >= n[2]
    <2> DEFINE T == {t \in Nat : \E m \in M : t = Lengths - m[2]}
    <2>1. \A m \in M : Lengths - m[2] \in T
      BY <1>1, <1>4
    <2>2. T \subseteq Nat /\ T # {}
      BY <1>3, <2>1
    <2>3. PICK t \in T : \A u \in T : t <= u
      <3> HIDE DEF T
      <3> QED BY <2>2, Smallest
    <2>4. PICK s \in M : t = Lengths - s[2]
      OBVIOUS
    <2>5. ASSUME NEW n \in M PROVE s[2] >= n[2]
      <3>1. Lengths - s[2] <= Lengths - n[2]
        BY <2>1, <2>3, <2>4
      <3> QED BY <1>1, <1>4, <3>1
    <2> QED BY <2>5
  <1>6. PICK e \in M : \A f \in M : e[2] > f[2] \/ (e[2] = f[2] /\ e[1] >= f[1])
    <2> DEFINE T == {t \in Nat : \E m \in M : t = most - m[1] /\ m[2] = s[2]}
    <2>1. \A m \in M : m[2] = s[2] => most - m[1] \in T
      BY <1>4
    <2>2. T \subseteq Nat /\ T # {}
      BY <2>1
    <2>3. PICK t \in T : \A u \in T : t <= u
      <3> HIDE DEF T
      <3> QED BY <2>2, Smallest
    <2>4. PICK m \in M : t = most - m[1] /\ m[2] = s[2]
      OBVIOUS
    <2>5. ASSUME NEW n \in M PROVE m[2] > n[2] \/ (m[2] = n[2] /\ m[1] >= n[1])
      <3>1. CASE n[2] = s[2]
        <4>1. most - m[1] <= most - n[1]
          BY <2>1, <2>3, <2>4, <3>1
        <4> QED BY <1>4, <2>4, <3>1, <4>1
      <3>2. CASE n[2] # s[2]
        BY <1>1, <1>4, <1>5, <2>4, <3>2
      <3> QED BY <3>1, <3>2
    <2> QED BY <2>5
  <1> QED BY <1>3, <1>6, Zenon DEF LongestEntry

\* What compressBlockLZ77 writes for the next bytes, and how many they are.
Chunk(data, at) ==
  IF Entries(data, at) = {} THEN LiteralBytes(data[at + 1])
  ELSE EntryBytes(LongestEntry(data, at)[1], LongestEntry(data, at)[2])
Taken(data, at) ==
  IF Entries(data, at) = {} THEN 1 ELSE LongestEntry(data, at)[2]

\* The bytes of an entry: an escape, a length that is none of an escape's own,
\* and an offset that is put together again.
LEMMA EntryFacts ==
  ASSUME NEW offset \in Offsets, NEW length \in MinLength .. LongestLength
  PROVE  \E lo \in Escapes, mid \in Nat, low \in Nat :
           /\ EntryBytes(offset, length) = <<lo, mid, low>>
           /\ mid # 0 /\ mid % Lengths = length
           /\ EntryOffset(lo, <<mid, low>>) = offset
  <1>1. Lengths \in Nat \ {0} /\ Middles \in Nat \ {0} /\ Lows \in Nat \ {0} /\ Escape \in Nat
    BY FieldsAssumption, EscapeAssumption
  <1>2. length \in 4 .. Lengths - 1
    BY <1>1 DEF MinLength, LongestLength
  <1>3. offset \in Nat /\ offset < 2 * Middles * Lows
    <2>1. 2 * Middles * Lows \in Nat
      BY <1>1
    <2> QED BY <2>1 DEF Offsets
  <1>4. PICK low \in 0 .. Lows - 1, high \in Nat : low = offset % Lows /\ high = offset \div Lows
                                                   /\ offset = low + Lows * high
    BY <1>1, <1>3, Divided
  <1>5. PICK middle \in 0 .. Middles - 1, top \in Nat : middle = high % Middles /\ top = high \div Middles
                                                       /\ high = middle + Middles * top
    BY <1>1, Divided
  <1>6. top \in 0 .. 1
    <2> SUFFICES ASSUME top >= 2 PROVE FALSE
      OBVIOUS
    <2>1. PICK k \in Nat : top = 2 + k
      <3>1. top - 2 \in Nat /\ top = 2 + (top - 2)
        OBVIOUS
      <3> QED BY <3>1
    <2>2. PICK j \in Nat : high = 2 * Middles + j
      <3>1. Middles * top = 2 * Middles + Middles * k /\ Middles * k \in Nat
        BY <1>1, <2>1
      <3>2. middle + Middles * k \in Nat /\ high = 2 * Middles + (middle + Middles * k)
        BY <1>1, <1>5, <3>1
      <3> QED BY <3>2
    <2>3. Lows * high = 2 * Middles * Lows + Lows * j /\ Lows * j \in Nat /\ 2 * Middles * Lows \in Nat
      BY <1>1, <2>2
    <2> QED BY <1>1, <1>3, <1>4, <2>3
  <1>7. PICK mid \in Nat : mid = length + Lengths * middle
    BY <1>1, <1>2
  <1>8. mid % Lengths = length /\ mid \div Lengths = middle
    BY <1>1, <1>2, <1>7, TwoDigits
  <1>9. mid # 0
    <2>1. Lengths * middle >= 0 /\ Lengths * middle \in Int
      BY <1>1
    <2> QED BY <1>1, <1>2, <1>7, <2>1
  <1>10. PICK lo \in Escapes : lo = Escape + top
    BY <1>1, <1>6 DEF Escapes
  <1>11. top % 2 = top /\ lo % 2 = top
    BY <1>6, <1>10, EscapeAssumption
  <1>12. length % Lengths = length
    BY <1>1, <1>2
  <1>13. EntryBytes(offset, length) = <<lo, mid, low>>
    BY <1>4, <1>5, <1>7, <1>10, <1>11, <1>12 DEF EntryBytes
  <1>14. EntryOffset(lo, <<mid, low>>) = low + Lows * (middle + Middles * top)
    BY <1>8, <1>11 DEF EntryOffset
  <1>15. low \in Nat /\ EntryOffset(lo, <<mid, low>>) = offset
    BY <1>4, <1>5, <1>14
  <1> QED BY <1>8, <1>9, <1>13, <1>15

\* Before the end there is always something to write for what comes next.
LEMMA ChunkFacts ==
  ASSUME NEW data \in Seq(Nat), NEW at \in 0 .. Len(data) - 1
  PROVE  Chunk(data, at) \in Seq(Nat) /\ Taken(data, at) \in 1 .. Len(data) - at
  <1>1. CASE Entries(data, at) = {}
    <2>1. PICK byte \in Nat : byte = data[at + 1]
      OBVIOUS
    <2>2. LiteralBytes(byte) \in Seq(Nat)
      BY DEF LiteralBytes
    <2> QED BY <1>1, <2>1, <2>2 DEF Chunk, Taken
  <1>2. CASE Entries(data, at) # {}
    <2>1. PICK e \in Entries(data, at) : e = LongestEntry(data, at)
      BY <1>2, LongestFound
    <2>2. /\ e[1] \in Offsets /\ e[2] \in MinLength .. LongestLength /\ at + e[2] <= Len(data)
      BY DEF Entries
    <2>3. PICK lo \in Escapes, mid \in Nat, low \in Nat : EntryBytes(e[1], e[2]) = <<lo, mid, low>>
      BY <2>2, EntryFacts
    <2>4. lo \in Nat
      BY EscapeAssumption DEF Escapes
    <2>5. Chunk(data, at) = <<lo, mid, low>> /\ Taken(data, at) = e[2]
      BY <1>2, <2>1, <2>3 DEF Chunk, Taken
    <2>6. e[2] \in 1 .. Len(data) - at
      <3>1. PICK n \in Nat, k \in Nat, a \in Nat : n = Len(data) /\ k = Lengths /\ a = at
        BY FieldsAssumption, LenProperties
      <3>2. \A length \in 4 .. k - 1 : a + length <= n => length \in 1 .. n - a
        OBVIOUS
      <3>3. e[2] \in 4 .. k - 1 /\ a + e[2] <= n
        BY <2>2, <3>1 DEF MinLength, LongestLength
      <3>4. e[2] \in 1 .. n - a
        BY <3>2, <3>3
      <3> QED BY <3>1, <3>4
    <2> QED BY <2>3, <2>4, <2>5, <2>6
  <1> QED BY <1>1, <1>2

\* A packed block ends, and begins with what stands for the first bytes.
Packs77(from, data) ==
  \A at \in Nat :
    /\ from[at] \in Seq(Nat)
    /\ from[at] = IF at >= Len(data) THEN End
                  ELSE Chunk(data, at) \o from[at + Taken(data, at)]

\* What compressBlockLZ77 chooses satisfies its own definition: one function does.
LEMMA BlockFacts ==
  ASSUME NEW data \in Seq(Nat)
  PROVE  \E from : compressBlockLZ77(data) = from[0] /\ Packs77(from, data)
  <1> DEFINE Body(from) ==
               [source_ \in Nat |->
                  IF source_ >= Len(data) THEN End
                  ELSE IF Entries(data, source_) = {}
                       THEN LiteralBytes(data[source_ + 1]) \o from[source_ + 1]
                       ELSE LET e == LongestEntry(data, source_)
                            IN  EntryBytes(e[1], e[2]) \o from[source_ + e[2]]]
             Plain(from) ==
               [at \in Nat |-> IF at >= Len(data) THEN End
                               ELSE Chunk(data, at) \o from[at + Taken(data, at)]]
  <1>1. \A from : Body(from) = Plain(from)
    <2> SUFFICES ASSUME NEW from, NEW at \in Nat
                 PROVE  (IF at >= Len(data) THEN End
                         ELSE IF Entries(data, at) = {}
                              THEN LiteralBytes(data[at + 1]) \o from[at + 1]
                              ELSE LET e == LongestEntry(data, at)
                                   IN  EntryBytes(e[1], e[2]) \o from[at + e[2]])
                        = (IF at >= Len(data) THEN End
                           ELSE Chunk(data, at) \o from[at + Taken(data, at)])
      OBVIOUS
    <2>1. CASE Entries(data, at) = {}
      BY <2>1 DEF Chunk, Taken
    <2>2. CASE Entries(data, at) # {}
      BY <2>2 DEF Chunk, Taken
    <2> QED BY <2>1, <2>2
  <1>2. End \in Seq(Nat)
    BY EscapeAssumption DEF End
  <1>3. PICK n \in Nat : n = Len(data)
    BY LenProperties
  <1>4. PICK G : G = [k \in Nat |-> [h \in [0 .. k - 1 -> Seq(Nat)] |->
                       IF k \in 1 .. n THEN Chunk(data, n - k) \o h[k - Taken(data, n - k)] ELSE End]]
    OBVIOUS
  <1>5. Builds(G, Seq(Nat))
    <2> SUFFICES ASSUME NEW k \in Nat, NEW h \in [0 .. k - 1 -> Seq(Nat)], k \in 1 .. n
                 PROVE  Chunk(data, n - k) \o h[k - Taken(data, n - k)] \in Seq(Nat)
      BY <1>2, <1>4 DEF Builds
    <2>1. n - k \in 0 .. Len(data) - 1
      BY <1>3
    <2>2. Chunk(data, n - k) \in Seq(Nat) /\ Taken(data, n - k) \in 1 .. Len(data) - (n - k)
      BY <2>1, ChunkFacts
    <2>3. k - Taken(data, n - k) \in 0 .. k - 1
      BY <1>3, <2>2
    <2> QED BY <2>2, <2>3, ConcatProperties
  <1>6. PICK g \in [Nat -> Seq(Nat)] : \A k \in Nat : g[k] = G[k][Prior(g, k)]
    <2>1. PICK W : W = Seq(Nat)
      OBVIOUS
    <2>2. Builds(G, W)
      BY <1>5, <2>1
    <2>3. \E g \in [Nat -> W] : \A k \in Nat : g[k] = G[k][Prior(g, k)]
      BY <2>2, Recursive
    <2> QED BY <2>1, <2>3
  <1>7. \A k \in 1 .. n : g[k] = Chunk(data, n - k) \o g[k - Taken(data, n - k)]
    <2> SUFFICES ASSUME NEW k \in 1 .. n
                 PROVE  g[k] = Chunk(data, n - k) \o g[k - Taken(data, n - k)]
      OBVIOUS
    <2>1. k - Taken(data, n - k) \in 0 .. k - 1
      <3>1. PICK at \in Nat : at = n - k /\ at \in 0 .. Len(data) - 1 /\ n - at = k
        <4>1. n - k \in Nat /\ n - k \in 0 .. n - 1 /\ n - (n - k) = k
          OBVIOUS
        <4> QED BY <1>3, <4>1
      <3>2. PICK t \in 1 .. k : t = Taken(data, at)
        BY <1>3, <3>1, ChunkFacts
      <3>3. k - t \in 0 .. k - 1
        <4>1. \A j \in Nat : \A u \in 1 .. j : j - u \in 0 .. j - 1
          OBVIOUS
        <4>2. k \in Nat
          OBVIOUS
        <4> QED BY <4>1, <4>2
      <3>4. Taken(data, n - k) = t
        BY <3>1, <3>2, Zenon
      <3> QED BY <3>3, <3>4, Zenon
    <2>2. Prior(g, k) \in [0 .. k - 1 -> Seq(Nat)] /\ \A j \in 0 .. k - 1 : Prior(g, k)[j] = g[j]
      BY <1>6 DEF Prior
    <2>3. g[k] = G[k][Prior(g, k)]
      BY <1>6
    <2>4. G[k][Prior(g, k)] = Chunk(data, n - k) \o Prior(g, k)[k - Taken(data, n - k)]
      <3>1. PICK h \in [0 .. k - 1 -> Seq(Nat)] : h = Prior(g, k)
        BY <2>2
      <3>2. G[k][h] = Chunk(data, n - k) \o h[k - Taken(data, n - k)]
        <4>1. k \in Nat
          OBVIOUS
        <4>2. G[k] = [x \in [0 .. k - 1 -> Seq(Nat)] |-> Chunk(data, n - k) \o x[k - Taken(data, n - k)]]
          BY <1>4, <4>1
        <4> QED BY <4>2
      <3> QED BY <3>1, <3>2
    <2> QED BY <2>1, <2>2, <2>3, <2>4
  <1>8. g[0] = End
    <2>1. Prior(g, 0) \in [0 .. 0 - 1 -> Seq(Nat)]
      BY DEF Prior
    <2>2. g[0] = G[0][Prior(g, 0)]
      BY <1>6
    <2> QED BY <1>4, <2>1, <2>2
  <1>9. PICK f : f = [at \in Nat |-> IF at >= n THEN End ELSE g[n - at]]
    OBVIOUS
  <1>10. f = Plain(f)
    <2>1. ASSUME NEW at \in Nat
          PROVE  f[at] = IF at >= Len(data) THEN End
                         ELSE Chunk(data, at) \o f[at + Taken(data, at)]
      <3>1. CASE at >= n
        BY <1>3, <1>9, <3>1
      <3>2. CASE ~(at >= n)
        <4>1. at \in 0 .. Len(data) - 1
          BY <1>3, <3>2
        <4>2. Taken(data, at) \in 1 .. Len(data) - at
          BY <4>1, ChunkFacts
        <4>3. PICK t \in 1 .. n - at : t = Taken(data, at)
          BY <1>3, <4>2
        <4>4. n - at \in 1 .. n /\ n - (n - at) = at
          BY <1>3, <4>1
        <4>5. g[n - at] = Chunk(data, at) \o g[(n - at) - t]
          BY <1>7, <4>3, <4>4
        <4>6. f[at + t] = g[(n - at) - t]
          <5>1. at + t \in Nat /\ (at + t >= n => at + t = n) /\ (n - at) - t = n - (at + t)
            OBVIOUS
          <5>2. CASE at + t >= n
            <6>1. (n - at) - t = 0
              BY <5>1, <5>2
            <6> QED BY <1>8, <1>9, <5>1, <5>2, <6>1
          <5>3. CASE ~(at + t >= n)
            BY <1>9, <5>1, <5>3
          <5> QED BY <5>2, <5>3
        <4>7. f[at] = g[n - at]
          BY <1>9, <3>2
        <4> QED BY <1>3, <3>2, <4>3, <4>5, <4>6, <4>7
      <3> QED BY <3>1, <3>2
    <2>2. f = [at \in Nat |-> f[at]]
      BY <1>9
    <2> QED BY <2>1, <2>2
  <1>11. PICK from : from = CHOOSE h : h = Body(h)
    OBVIOUS
  <1>12. from = Plain(from)
    <2> HIDE DEF Body, Plain
    <2> QED BY <1>1, <1>10, <1>11
  <1>13. compressBlockLZ77(data) = from[0]
    BY <1>11 DEF compressBlockLZ77
  <1>14. \A at \in Nat : from[at] = IF at >= Len(data) THEN End
                                    ELSE Chunk(data, at) \o from[at + Taken(data, at)]
    BY <1>12
  <1>15. \A at \in Nat : from[at] \in Seq(Nat)
    <2> DEFINE T == {k \in Nat : k <= n => from[n - k] \in Seq(Nat)}
    <2>1. ASSUME NEW k \in Nat, \A j \in Nat : j < k => j \in T
          PROVE  k \in T
      <3> SUFFICES ASSUME k <= n
                   PROVE  from[n - k] \in Seq(Nat)
        OBVIOUS
      <3>1. CASE k = 0
        BY <1>2, <1>3, <1>14, <3>1
      <3>2. CASE k # 0
        <4>1. PICK at \in 0 .. Len(data) - 1 : /\ at = n - k /\ at \in Nat /\ ~(at >= Len(data))
                                              /\ n - at = k
          <5>1. n - k \in 0 .. n - 1 /\ n - k \in Nat /\ ~(n - k >= n) /\ n - (n - k) = k
            BY <3>2
          <5> QED BY <1>3, <5>1
        <4>2. Chunk(data, at) \in Seq(Nat) /\ Taken(data, at) \in 1 .. n - at
          BY <1>3, ChunkFacts
        <4>3. PICK j \in Nat : j < k /\ j <= n /\ at + Taken(data, at) = n - j
          <5>1. k - Taken(data, at) \in Nat /\ k - Taken(data, at) < k
                /\ at + Taken(data, at) = n - (k - Taken(data, at))
            <6>1. PICK t \in 1 .. k : t = Taken(data, at)
              BY <4>1, <4>2
            <6>2. \A u \in 1 .. k : k - u \in Nat /\ k - u < k /\ (n - k) + u = n - (k - u)
              OBVIOUS
            <6>3. k - t \in Nat /\ k - t < k /\ at + t = n - (k - t)
              BY <4>1, <6>2, Zenon
            <6> QED BY <6>1, <6>3, Zenon
          <5>2. k - Taken(data, at) <= n
            BY <5>1
          <5> QED BY <5>1, <5>2
        <4>4. from[at + Taken(data, at)] \in Seq(Nat)
          BY <2>1, <4>3
        <4>5. from[at] = Chunk(data, at) \o from[at + Taken(data, at)]
          BY <1>14, <4>1
        <4> QED BY <4>1, <4>2, <4>4, <4>5, ConcatProperties
      <3> QED BY <3>1, <3>2
    <2>2. Nat \subseteq T
      <3> HIDE DEF T
      <3> QED BY <2>1, Induction
    <2> SUFFICES ASSUME NEW at \in Nat
                 PROVE  from[at] \in Seq(Nat)
      OBVIOUS
    <2>3. CASE at >= n
      BY <1>2, <1>3, <1>14, <2>3
    <2>4. CASE ~(at >= n)
      <3>1. n - at \in Nat /\ n - at <= n /\ n - (n - at) = at
        BY <2>4
      <3> QED BY <2>2, <3>1
    <2> QED BY <2>3, <2>4
  <1> QED BY <1>13, <1>14, <1>15 DEF Packs77

\* A function that repeats what is d before, from n on.
Repeats77(f, n, x, d) ==
  \A i \in Nat \ {0} : f[i] = IF i <= n THEN x[i] ELSE IF d = 0 THEN 0 ELSE f[i - d]

\* There is one: each byte depends on earlier ones only.
LEMMA RepeatsExists ==
  ASSUME NEW n \in Nat, NEW x \in [1 .. n -> Nat], NEW d \in 0 .. n
  PROVE  \E f \in [Nat \ {0} -> Nat] : Repeats77(f, n, x, d)
  <1>1. PICK W : W = Nat
    OBVIOUS
  <1>2. PICK G : G = [k \in Nat |-> [h \in [0 .. k - 1 -> W] |->
                       IF k \in 1 .. n THEN x[k]
                       ELSE IF d = 0 \/ k = 0 THEN 0 ELSE h[k - d]]]
    OBVIOUS
  <1>3. Builds(G, W)
    <2> SUFFICES ASSUME NEW k \in Nat, NEW h \in [0 .. k - 1 -> Nat], k \notin 1 .. n, d # 0, k # 0
                 PROVE  h[k - d] \in Nat
      BY <1>1, <1>2 DEF Builds
    <2>1. k - d \in 0 .. k - 1
      OBVIOUS
    <2> QED BY <2>1
  <1>4. PICK g \in [Nat -> W] : \A k \in Nat : g[k] = G[k][Prior(g, k)]
    BY <1>3, Recursive
  <1>5. PICK f : f = [i \in Nat \ {0} |-> g[i]]
    OBVIOUS
  <1>6. ASSUME NEW i \in Nat \ {0}
        PROVE  f[i] = IF i <= n THEN x[i] ELSE IF d = 0 THEN 0 ELSE f[i - d]
    <2>1. PICK h : h = Prior(g, i)
      OBVIOUS
    <2>2. h \in [0 .. i - 1 -> W] /\ \A j \in 0 .. i - 1 : h[j] = g[j]
      BY <1>4, <2>1 DEF Prior
    <2>3. g[i] = G[i][h]
      BY <1>4, <2>1
    <2>4. G[i][h] = IF i \in 1 .. n THEN x[i] ELSE IF d = 0 \/ i = 0 THEN 0 ELSE h[i - d]
      BY <1>2, <2>2
    <2>5. i <= n <=> i \in 1 .. n
      OBVIOUS
    <2>6. ~(i <= n) /\ d # 0 => i - d \in 0 .. i - 1 /\ i - d \in Nat \ {0}
      OBVIOUS
    <2> QED BY <1>5, <2>2, <2>3, <2>4, <2>5, <2>6
  <1>7. f \in [Nat \ {0} -> Nat]
    BY <1>1, <1>4, <1>5
  <1> QED BY <1>6, <1>7 DEF Repeats77

\* Whichever repeats bytes gives bytes.
LEMMA RepeatsType ==
  ASSUME NEW n \in Nat, NEW x \in [1 .. n -> Nat], NEW d \in 0 .. n, NEW f, Repeats77(f, n, x, d)
  PROVE  \A i \in Nat \ {0} : f[i] \in Nat
  <1> DEFINE T == {i \in Nat : i # 0 => f[i] \in Nat}
  <1>1. ASSUME NEW i \in Nat, \A j \in Nat : j < i => j \in T
        PROVE  i \in T
    <2> SUFFICES ASSUME i # 0
                 PROVE  f[i] \in Nat
      OBVIOUS
    <2>1. f[i] = IF i <= n THEN x[i] ELSE IF d = 0 THEN 0 ELSE f[i - d]
      BY DEF Repeats77
    <2>2. CASE i <= n \/ d = 0
      <3>1. i <= n => i \in 1 .. n
        OBVIOUS
      <3> QED BY <2>1, <2>2, <3>1
    <2>3. CASE ~(i <= n \/ d = 0)
      <3>1. i - d \in Nat /\ i - d < i /\ i - d # 0
        BY <2>3
      <3>2. f[i - d] \in Nat
        BY <1>1, <3>1
      <3> QED BY <2>1, <2>3, <3>2
    <2> QED BY <2>2, <2>3
  <1>2. Nat \subseteq T
    <2> HIDE DEF T
    <2> QED BY <1>1, Induction
  <1> QED BY <1>2

\* x is out and length bytes more, each the one offset bytes before it.
Repetition(x, out, n, offset, length) ==
  /\ x \in Seq(Nat) /\ Len(x) = n + length
  /\ \A i \in 1 .. n : x[i] = out[i]
  /\ offset # 0 => \A i \in n + 1 .. n + length : x[i] = x[i - offset]

\* Repeated, which chooses one, repeats.
LEMMA RepeatedFacts ==
  ASSUME NEW out \in Seq(Nat), NEW n \in Nat, n = Len(out), NEW offset \in 0 .. n, NEW length \in Nat
  PROVE  Repetition(Repeated(out, offset, length), out, n, offset, length)
  <1> DEFINE Body(f) == [i \in Nat \ {0} |-> IF i <= Len(out) THEN out[i]
                                            ELSE IF offset = 0 THEN 0 ELSE f[i - offset]]
  <1>1. out \in [1 .. n -> Nat]
    OBVIOUS
  <1>2. PICK f \in [Nat \ {0} -> Nat] : Repeats77(f, n, out, offset)
    BY <1>1, RepeatsExists
  <1>3. f = Body(f)
    <2>1. f = [i \in Nat \ {0} |-> f[i]]
      OBVIOUS
    <2> QED BY <1>2, <2>1 DEF Repeats77
  <1>4. PICK byte : byte = CHOOSE h : h = Body(h)
    OBVIOUS
  <1>5. byte = Body(byte)
    <2> HIDE DEF Body
    <2> QED BY <1>3, <1>4
  <1>6. Repeated(out, offset, length) = [i \in 1 .. n + length |-> byte[i]]
    BY <1>4 DEF Repeated
  <1>7. Repeats77(byte, n, out, offset)
    BY <1>5 DEF Repeats77
  <1>8. \A i \in Nat \ {0} : byte[i] \in Nat
    BY <1>1, <1>7, RepeatsType
  <1> HIDE DEF Body
  <1>9. PICK m \in Nat : m = n + length
    OBVIOUS
  <1>10. PICK r : r = Repeated(out, offset, length) /\ r = [i \in 1 .. m |-> byte[i]]
    BY <1>6, <1>9
  <1>11. r \in Seq(Nat) /\ Len(r) = m
    <2>1. \A i \in 1 .. m : byte[i] \in Nat
      BY <1>8
    <2>2. r \in [1 .. m -> Nat]
      BY <1>10, <2>1
    <2> QED BY <2>2
  <1>12. \A i \in 1 .. n : r[i] = out[i]
    <2>1. \A i \in 1 .. n : i \in 1 .. m /\ i \in Nat \ {0} /\ i <= n
      BY <1>9
    <2> QED BY <1>7, <1>10, <2>1 DEF Repeats77
  <1>13. ASSUME offset # 0, NEW i \in n + 1 .. m
         PROVE  r[i] = r[i - offset]
    <2>1. i \in Nat \ {0} /\ ~(i <= n) /\ i \in 1 .. m /\ i - offset \in 1 .. m
      BY <1>13
    <2> QED BY <1>7, <1>10, <1>13, <2>1 DEF Repeats77
  <1> QED BY <1>9, <1>10, <1>11, <1>12, <1>13 DEF Repetition

\* Any three bytes are read as an entry with some offset and length.
LEMMA OffsetType ==
  ASSUME NEW lo \in Nat, NEW mid \in Nat, NEW low \in Nat
  PROVE  EntryOffset(lo, <<mid, low>>) \in Nat /\ mid % Lengths \in Nat
  <1>1. Lengths \in Nat \ {0} /\ Middles \in Nat \ {0} /\ Lows \in Nat \ {0}
    BY FieldsAssumption
  <1>2. PICK high \in Nat, length \in Nat, top \in Nat :
          high = mid \div Lengths /\ length = mid % Lengths /\ top = lo % 2
    BY <1>1
  <1>3. PICK k \in Nat : k = high + Middles * top
    BY <1>1
  <1>4. low + Lows * k \in Nat
    BY <1>1
  <1>5. EntryOffset(lo, <<mid, low>>) = low + Lows * k
    BY <1>2, <1>3 DEF EntryOffset
  <1> QED BY <1>2, <1>4, <1>5

\* What decompressBlockLZ77 does at p of what is packed, with out written so far.
Reads77(from, q) ==
  \A p \in Nat, out \in Seq(Nat) :
    LET lo == q[p + 1]
        hi == <<q[p + 2], q[p + 3]>>
    IN  from[<<p, out>>] =
          IF p + 3 > Len(q) THEN BadBlock
          ELSE IF lo \notin Escapes THEN from[<<p + 1, Append(out, lo)>>]
          ELSE IF hi = <<0, 1>> THEN [data |-> out, source |-> p + 3]
          ELSE IF hi = <<0, 0>> THEN from[<<p + 3, Append(out, lo)>>]
          ELSE IF EntryOffset(lo, hi) > Len(out) THEN BadBlock
          ELSE from[<<p + 3, Repeated(out, EntryOffset(lo, hi), hi[1] % Lengths)>>]

\* The decompressor, which chooses one, reads so.
LEMMA ReaderFacts ==
  ASSUME NEW q \in Seq(Nat)
  PROVE  \E from : decompressBlockLZ77(q) = from[<<0, <<>>>>] /\ Reads77(from, q)
  <1> DEFINE S == Nat \X Seq(Nat)
             Lo(s) == q[s[1] + 1]
             Hi(s) == <<q[s[1] + 2], q[s[1] + 3]>>
             Offset(s) == EntryOffset(Lo(s), Hi(s))
             Short(s) == s[1] + 3 > Len(q)
             Grown(s) == <<s[1] + 3, Repeated(s[2], Offset(s), Hi(s)[1] % Lengths)>>
             Rule(f, s) ==
               IF Short(s) THEN BadBlock
               ELSE IF Lo(s) \notin Escapes THEN f[<<s[1] + 1, Append(s[2], Lo(s))>>]
               ELSE IF Hi(s) = <<0, 1>> THEN [data |-> s[2], source |-> s[1] + 3]
               ELSE IF Hi(s) = <<0, 0>> THEN f[<<s[1] + 3, Append(s[2], Lo(s))>>]
               ELSE IF Offset(s) > Len(s[2]) THEN BadBlock
               ELSE f[Grown(s)]
             Stop(s) == Short(s) \/ (Lo(s) \in Escapes /\ (Hi(s) = <<0, 1>>
                                      \/ (Hi(s) # <<0, 0>> /\ Offset(s) > Len(s[2]))))
             Next77(s) ==
               IF Stop(s) THEN s
               ELSE IF Lo(s) \notin Escapes THEN <<s[1] + 1, Append(s[2], Lo(s))>>
               ELSE IF Hi(s) = <<0, 0>> THEN <<s[1] + 3, Append(s[2], Lo(s))>>
               ELSE Grown(s)
             Final(s) == IF ~Short(s) /\ Hi(s) = <<0, 1>> THEN [data |-> s[2], source |-> s[1] + 3]
                         ELSE BadBlock
             Body(f) ==
               [state \in Nat \X Seq(Nat) |->
                  LET source_ == state[1]
                      output_ == state[2]
                      lo == q[source_ + 1]
                      hi == <<q[source_ + 2], q[source_ + 3]>>
                  IN  IF source_ + 3 > Len(q) THEN BadBlock
                      ELSE IF lo \notin Escapes THEN f[<<source_ + 1, Append(output_, lo)>>]
                      ELSE IF hi = <<0, 1>> THEN [data |-> output_, source |-> source_ + 3]
                      ELSE IF hi = <<0, 0>> THEN f[<<source_ + 3, Append(output_, lo)>>]
                      ELSE IF EntryOffset(lo, hi) > Len(output_) THEN BadBlock
                      ELSE f[<<source_ + 3, Repeated(output_, EntryOffset(lo, hi),
                                                     hi[1] % Lengths)>>]]
  <1>1. ASSUME NEW s \in S, ~Stop(s)
        PROVE  Next77(s) \in S
    <2>1. PICK p \in Nat, out \in Seq(Nat) : s = <<p, out>>
      OBVIOUS
    <2>2. p + 3 <= Len(q) /\ Len(q) \in Nat /\ Len(out) \in Nat
      BY <1>1, <2>1, LenProperties
    <2>3. q[p + 1] \in Nat /\ q[p + 2] \in Nat /\ q[p + 3] \in Nat
      BY <2>2
    <2>4. PICK lo \in Nat, mid \in Nat, low \in Nat : lo = q[p + 1] /\ mid = q[p + 2] /\ low = q[p + 3]
      BY <2>3
    <2>5. Lo(s) = lo /\ Hi(s) = <<mid, low>>
      BY <2>1, <2>4
    <2>6. EntryOffset(lo, <<mid, low>>) \in Nat /\ mid % Lengths \in Nat
      BY OffsetType
    <2>7. Append(out, lo) \in Seq(Nat) /\ p + 1 \in Nat /\ p + 3 \in Nat
      <3>1. Append(out, lo) \in Seq(Nat)
        BY <2>1, <2>4, AppendProperties
      <3>2. p + 1 \in Nat /\ p + 3 \in Nat
        OBVIOUS
      <3> QED BY <3>1, <3>2
    <2>8. CASE lo \notin Escapes
      BY <1>1, <2>1, <2>5, <2>7, <2>8
    <2>9. CASE lo \in Escapes /\ Hi(s) = <<0, 0>>
      BY <1>1, <2>1, <2>5, <2>7, <2>9
    <2>10. CASE lo \in Escapes /\ Hi(s) # <<0, 0>>
      <3>1. EntryOffset(lo, <<mid, low>>) \in 0 .. Len(out)
        BY <1>1, <2>1, <2>2, <2>5, <2>6, <2>10
      <3>2. Repeated(out, EntryOffset(lo, <<mid, low>>), mid % Lengths) \in Seq(Nat)
        BY <2>6, <3>1, RepeatedFacts, LenProperties DEF Repetition
      <3> QED BY <1>1, <2>1, <2>5, <2>7, <2>10, <3>2
    <2> QED BY <2>8, <2>9, <2>10
  <1>2. \A f : \A s : Rule(f, s) = IF Stop(s) THEN Final(s) ELSE f[Next77(s)]
    <2> SUFFICES ASSUME NEW f, NEW s
                 PROVE  Rule(f, s) = IF Stop(s) THEN Final(s) ELSE f[Next77(s)]
      OBVIOUS
    <2>1. <<0, 0>> # <<0, 1>>
      OBVIOUS
    <2>2. PICK short, escape, ends, plain, bad :
            /\ short = Short(s) /\ escape = (Lo(s) \in Escapes) /\ ends = (Hi(s) = <<0, 1>>)
            /\ plain = (Hi(s) = <<0, 0>>) /\ bad = (Offset(s) > Len(s[2]))
      OBVIOUS
    <2> QED BY <2>1
  <1>3. \A f : Body(f) = [s \in S |-> Rule(f, s)]
    OBVIOUS
  <1>4. \E f : f = Body(f)
    <2> DEFINE stops == {s \in S : Stop(s)}
               value == [s \in S |-> Final(s)]
               step == [s \in S |-> Next77(s)]
    <2>1. step \in [S -> S]
      <3> SUFFICES ASSUME NEW s \in S
                   PROVE  Next77(s) \in S
        OBVIOUS
      <3>1. Stop(s) => Next77(s) = s
        OBVIOUS
      <3> HIDE DEF Next77, Stop
      <3> QED BY <1>1, <3>1
    <2>2. PICK f : f = [s \in S |-> IF s \in stops THEN value[s] ELSE f[step[s]]]
      <3> HIDE DEF stops, value, step, S
      <3>1. \E f : RunsTo(f, S, stops, value, step)
        BY <2>1, Looping
      <3> QED BY <3>1 DEF RunsTo
    <2>3. \A s \in S : (IF s \in stops THEN value[s] ELSE f[step[s]]) = Rule(f, s)
      <3> HIDE DEF Rule, Stop, Final, Next77, S
      <3> QED BY <1>2
    <2>4. f = [s \in S |-> Rule(f, s)]
      <3> HIDE DEF Rule, stops, value, step, S
      <3> QED BY <2>2, <2>3
    <2> HIDE DEF Rule, Body, S
    <2> QED BY <1>3, <2>4
  <1>5. PICK from : from = CHOOSE f : f = Body(f)
    OBVIOUS
  <1>6. from = Body(from)
    <2> HIDE DEF Body
    <2> QED BY <1>4, <1>5
  <1>7. decompressBlockLZ77(q) = from[<<0, <<>>>>]
    BY <1>5 DEF decompressBlockLZ77
  <1>8. \A s \in S : from[s] = Rule(from, s)
    <2>1. from = [s \in S |-> Rule(from, s)]
      <3> HIDE DEF Body, Rule
      <3> QED BY <1>3, <1>6
    <2> HIDE DEF Rule, S
    <2> QED BY <2>1
  <1>9. Reads77(from, q)
    <2> SUFFICES ASSUME NEW p \in Nat, NEW out \in Seq(Nat)
                 PROVE  LET lo == q[p + 1]
                            hi == <<q[p + 2], q[p + 3]>>
                        IN  from[<<p, out>>] =
                              IF p + 3 > Len(q) THEN BadBlock
                              ELSE IF lo \notin Escapes THEN from[<<p + 1, Append(out, lo)>>]
                              ELSE IF hi = <<0, 1>> THEN [data |-> out, source |-> p + 3]
                              ELSE IF hi = <<0, 0>> THEN from[<<p + 3, Append(out, lo)>>]
                              ELSE IF EntryOffset(lo, hi) > Len(out) THEN BadBlock
                              ELSE from[<<p + 3, Repeated(out, EntryOffset(lo, hi), hi[1] % Lengths)>>]
      BY DEF Reads77
    <2>1. <<p, out>> \in S /\ <<p, out>>[1] = p /\ <<p, out>>[2] = out
      OBVIOUS
    <2>2. from[<<p, out>>] = Rule(from, <<p, out>>)
      <3> HIDE DEF Rule, S
      <3> QED BY <1>8, <2>1
    <2> QED BY <2>1, <2>2
  <1> QED BY <1>7, <1>9

\* Behind the first p bytes of q come those of x.
Comes(q, p, x) == p + Len(x) <= Len(q) /\ \A i \in 1 .. Len(x) : q[p + i] = x[i]

\* Of two parts the second comes behind the first.
LEMMA ComesParts ==
  ASSUME NEW q \in Seq(Nat), NEW p \in Nat, NEW x \in Seq(Nat), NEW y \in Seq(Nat),
         Comes(q, p, x \o y)
  PROVE  Comes(q, p, x) /\ Comes(q, p + Len(x), y)
  <1>1. PICK m \in Nat, n \in Nat, l \in Nat : m = Len(x) /\ n = Len(y) /\ l = Len(q)
    BY LenProperties
  <1>2. Len(x \o y) = m + n /\ (\A i \in 1 .. m : (x \o y)[i] = x[i])
        /\ \A i \in 1 .. n : (x \o y)[m + i] = y[i]
    <2>1. \A i \in 1 .. n : m + i \in 1 .. m + n /\ m + i > m /\ (m + i) - m = i
      BY <1>1
    <2>2. \A i \in 1 .. m : i \in 1 .. m + n /\ i <= m
      OBVIOUS
    <2> QED BY <1>1, <2>1, <2>2, ConcatProperties
  <1>3. p + (m + n) <= l /\ \A i \in 1 .. m + n : q[p + i] = (x \o y)[i]
    BY <1>1, <1>2 DEF Comes
  <1>4. p + m <= l /\ \A i \in 1 .. m : q[p + i] = x[i]
    <2>1. \A i \in 1 .. m : i \in 1 .. m + n
      OBVIOUS
    <2>2. p + m <= l
      BY <1>3
    <2> QED BY <1>2, <1>3, <2>1, <2>2
  <1>5. (p + m) + n <= l /\ \A i \in 1 .. n : q[(p + m) + i] = y[i]
    <2>1. \A i \in 1 .. n : m + i \in 1 .. m + n /\ (p + m) + i = p + (m + i)
      OBVIOUS
    <2>2. (p + m) + n <= l
      BY <1>3
    <2> QED BY <1>2, <1>3, <2>1, <2>2
  <1> QED BY <1>1, <1>4, <1>5 DEF Comes

\* The first n bytes of data.
LEMMA FirstFacts ==
  ASSUME NEW data \in Seq(Nat), NEW n \in 0 .. Len(data)
  PROVE  /\ SubSeq(data, 1, n) \in Seq(Nat) /\ Len(SubSeq(data, 1, n)) = n
         /\ \A i \in 1 .. n : SubSeq(data, 1, n)[i] = data[i]
  BY SubSeqProperties

\* What has them all is these n bytes.
LEMMA FirstIs ==
  ASSUME NEW data \in Seq(Nat), NEW n \in 0 .. Len(data), NEW x \in Seq(Nat), Len(x) = n,
         \A i \in 1 .. n : x[i] = data[i]
  PROVE  x = SubSeq(data, 1, n)
  <1>1. PICK y : y = SubSeq(data, 1, n)
    OBVIOUS
  <1>2. y \in Seq(Nat) /\ Len(y) = n /\ \A i \in 1 .. n : y[i] = data[i]
    BY <1>1, FirstFacts
  <1>3. x = [i \in 1 .. n |-> x[i]] /\ y = [i \in 1 .. n |-> y[i]]
    BY <1>2
  <1>4. \A i \in 1 .. n : x[i] = y[i]
    BY <1>2
  <1> QED BY <1>1, <1>3, <1>4

\* Reading on from p, with what at bytes stand for, is reading on from p2 with at2.
Goes(back, data, p, at, p2, at2) ==
  back[<<p, SubSeq(data, 1, at)>>] = back[<<p2, SubSeq(data, 1, at2)>>]

\* Reading what stands for the next bytes adds these to what is written.
LEMMA ChunkRead ==
  ASSUME NEW data \in Seq(Nat), NEW at \in 0 .. Len(data) - 1, NEW q \in Seq(Nat), NEW p \in Nat,
         NEW back, Reads77(back, q), Comes(q, p, Chunk(data, at)),
         p + Len(Chunk(data, at)) + 3 <= Len(q)
  PROVE  Goes(back, data, p, at, p + Len(Chunk(data, at)), at + Taken(data, at))
  <1>1. PICK out : out = SubSeq(data, 1, at)
    OBVIOUS
  <1>2. PICK n \in Nat, l \in Nat : n = Len(data) /\ l = Len(q)
    BY LenProperties
  <1>3. at \in Nat /\ at < n /\ at \in 0 .. Len(data) /\ at + 1 \in 1 .. Len(data)
    BY <1>2
  <1>4. out \in Seq(Nat) /\ Len(out) = at /\ \A i \in 1 .. at : out[i] = data[i]
    BY <1>1, <1>3, FirstFacts
  <1>5. PICK c \in Seq(Nat), m \in Nat : c = Chunk(data, at) /\ m = Len(c)
    BY ChunkFacts, LenProperties
  <1>6. p + m + 3 <= l /\ \A i \in 1 .. m : q[p + i] = c[i]
    BY <1>2, <1>5 DEF Comes
  <1>7. ASSUME Entries(data, at) = {}
        PROVE  back[<<p, out>>] = back[<<p + m, SubSeq(data, 1, at + 1)>>]
    <2>1. PICK byte \in Nat : byte = data[at + 1]
      BY <1>3
    <2>2. c = LiteralBytes(byte)
      BY <1>5, <1>7, <2>1 DEF Chunk
    <2>3. m \in Nat /\ m >= 1 /\ c[1] = byte
      BY <1>5, <2>2 DEF LiteralBytes
    <2>4. q[p + 1] = byte
      <3>1. 1 \in 1 .. m
        BY <2>3
      <3> QED BY <1>6, <2>3, <3>1
    <2>5. Append(out, byte) = SubSeq(data, 1, at + 1)
      <3>1. PICK x : x = Append(out, byte)
        OBVIOUS
      <3>2. x \in Seq(Nat) /\ Len(x) = at + 1 /\ x[at + 1] = byte /\ \A i \in 1 .. at : x[i] = out[i]
        BY <1>4, <3>1, AppendProperties
      <3>3. \A i \in 1 .. at + 1 : i = at + 1 \/ i \in 1 .. at
        BY <1>3
      <3>4. \A i \in 1 .. at + 1 : x[i] = data[i]
        BY <1>4, <2>1, <3>2, <3>3
      <3>5. at + 1 \in 0 .. Len(data)
        BY <1>3
      <3>6. x = SubSeq(data, 1, at + 1)
        BY <3>2, <3>4, <3>5, FirstIs
      <3> QED BY <3>1, <3>6
    <2>6. ~(p + 3 > l)
      BY <1>6
    <2>7. CASE byte \notin Escapes
      <3>1. m = 1
        BY <1>5, <2>2, <2>7 DEF LiteralBytes
      <3>2. back[<<p, out>>] = back[<<p + 1, Append(out, byte)>>]
        BY <1>2, <1>4, <2>4, <2>6, <2>7 DEF Reads77
      <3> QED BY <2>5, <3>1, <3>2
    <2>8. CASE byte \in Escapes
      <3>1. m = 3 /\ c[2] = 0 /\ c[3] = 0
        BY <1>5, <2>2, <2>8 DEF LiteralBytes
      <3>2. q[p + 2] = 0 /\ q[p + 3] = 0
        <4>1. 2 \in 1 .. m /\ 3 \in 1 .. m
          BY <3>1
        <4> QED BY <1>6, <3>1, <4>1
      <3>3. <<q[p + 2], q[p + 3]>> = <<0, 0>> /\ <<q[p + 2], q[p + 3]>> # <<0, 1>>
        BY <3>2
      <3>4. back[<<p, out>>] = back[<<p + 3, Append(out, byte)>>]
        BY <1>2, <1>4, <2>4, <2>6, <2>8, <3>3 DEF Reads77
      <3> QED BY <2>5, <3>1, <3>4
    <2> QED BY <2>7, <2>8
  <1>8. ASSUME Entries(data, at) # {}
        PROVE  back[<<p, out>>] = back[<<p + m, SubSeq(data, 1, at + Taken(data, at))>>]
    <2>1. PICK e \in Entries(data, at) : e = LongestEntry(data, at)
      BY <1>8, LongestFound
    <2>2. /\ e[1] \in Offsets /\ e[1] \in 1 .. at /\ e[2] \in MinLength .. LongestLength
          /\ at + e[2] <= Len(data)
          /\ \A i \in at + 1 .. at + e[2] : data[i] = data[i - e[1]]
      BY DEF Entries
    <2>3. PICK offset \in Offsets, length \in MinLength .. LongestLength : offset = e[1] /\ length = e[2]
      BY <2>2
    <2>4. PICK lo \in Escapes, mid \in Nat, low \in Nat :
            /\ EntryBytes(offset, length) = <<lo, mid, low>>
            /\ mid # 0 /\ mid % Lengths = length
            /\ EntryOffset(lo, <<mid, low>>) = offset
      BY EntryFacts
    <2>5. c = <<lo, mid, low>> /\ Taken(data, at) = length
      BY <1>5, <1>8, <2>1, <2>3, <2>4 DEF Chunk, Taken
    <2>6. m = 3 /\ c[1] = lo /\ c[2] = mid /\ c[3] = low
      BY <1>5, <2>5
    <2>7. q[p + 1] = lo /\ q[p + 2] = mid /\ q[p + 3] = low
      <3>1. 1 \in 1 .. m /\ 2 \in 1 .. m /\ 3 \in 1 .. m
        BY <2>6
      <3> QED BY <1>6, <2>6, <3>1
    <2>8. PICK hi : hi = <<mid, low>>
      OBVIOUS
    <2>9. hi # <<0, 0>> /\ hi # <<0, 1>> /\ hi[1] = mid
      BY <2>4, <2>8
    <2>10. length \in Nat /\ offset \in 1 .. at /\ offset \in 0 .. at /\ offset # 0
      <3>1. length \in Nat
        BY FieldsAssumption DEF MinLength, LongestLength
      <3>2. \A a \in Nat : \A d \in 1 .. a : d \in 0 .. a /\ d # 0
        OBVIOUS
      <3>3. offset \in 1 .. at
        BY <2>2, <2>3
      <3> QED BY <1>3, <3>1, <3>2, <3>3
    <2>11. ~(p + 3 > l) /\ ~(offset > Len(out))
      BY <1>4, <1>6, <2>10
    <2>12. back[<<p, out>>] = back[<<p + 3, Repeated(out, offset, length)>>]
      BY <1>2, <1>4, <2>4, <2>7, <2>8, <2>9, <2>11 DEF Reads77
    <2>13. Repeated(out, offset, length) = SubSeq(data, 1, at + length)
      <3>1. PICK x : x = Repeated(out, offset, length)
        OBVIOUS
      <3>2. /\ x \in Seq(Nat) /\ Len(x) = at + length
            /\ \A i \in 1 .. at : x[i] = out[i]
            /\ \A i \in at + 1 .. at + length : x[i] = x[i - offset]
        <4>1. PICK a \in Nat : a = at
          BY <1>3
        <4>2. a = Len(out) /\ offset \in 0 .. a /\ length \in Nat /\ out \in Seq(Nat)
          BY <1>4, <2>10, <4>1
        <4>3. Repetition(Repeated(out, offset, length), out, a, offset, length)
          BY <4>2, RepeatedFacts
        <4> QED BY <2>10, <3>1, <4>1, <4>3 DEF Repetition
      <3>3. at + length <= n /\ \A i \in at + 1 .. at + length : data[i] = data[i - offset]
        BY <1>2, <2>2, <2>3
      <3>4. \A i \in 1 .. at : x[i] = data[i]
        BY <1>4, <3>2
      <3>5. \A i \in 1 .. at + length : x[i] = data[i]
        <4> DEFINE T == {i \in Nat : i \in 1 .. at + length => x[i] = data[i]}
        <4>1. ASSUME NEW i \in Nat, \A j \in Nat : j < i => j \in T
              PROVE  i \in T
          <5> SUFFICES ASSUME i \in 1 .. at + length
                       PROVE  x[i] = data[i]
            OBVIOUS
          <5>1. CASE i <= at
            <6>1. i \in 1 .. at
              BY <5>1
            <6> QED BY <3>4, <6>1
          <5>2. CASE ~(i <= at)
            <6>1. i \in at + 1 .. at + length
              BY <1>3, <2>10, <5>2
            <6>2. i - offset \in Nat /\ i - offset < i /\ i - offset \in 1 .. at + length
              BY <1>3, <2>10, <5>2
            <6>3. x[i - offset] = data[i - offset]
              BY <4>1, <6>2
            <6> QED BY <3>2, <3>3, <6>1, <6>3
          <5> QED BY <5>1, <5>2
        <4>2. Nat \subseteq T
          <5> HIDE DEF T
          <5> QED BY <4>1, Induction
        <4> QED BY <4>2
      <3>6. at + length \in 0 .. Len(data)
        BY <1>2, <1>3, <2>10, <3>3
      <3>7. x = SubSeq(data, 1, at + length)
        BY <3>2, <3>5, <3>6, FirstIs
      <3> QED BY <3>1, <3>7
    <2> QED BY <2>5, <2>6, <2>12, <2>13
  <1>9. Entries(data, at) = {} => Taken(data, at) = 1
    BY DEF Taken
  <1> QED BY <1>1, <1>5, <1>7, <1>8, <1>9 DEF Goes

\* A packed block at the start, whatever comes behind it, gives back the data and
\* its end.
LEMMA BlockReturns ==
  ASSUME NEW data \in Seq(Nat), NEW q \in Seq(Nat), Comes(q, 0, compressBlockLZ77(data))
  PROVE  /\ compressBlockLZ77(data) \in Seq(Nat)
         /\ decompressBlockLZ77(q) = [data |-> data, source |-> Len(compressBlockLZ77(data))]
  <1>1. PICK from : compressBlockLZ77(data) = from[0] /\ Packs77(from, data)
    BY BlockFacts
  <1>2. PICK back : decompressBlockLZ77(q) = back[<<0, <<>>>>] /\ Reads77(back, q)
    BY ReaderFacts
  <1>3. PICK n \in Nat, l \in Nat : n = Len(data) /\ l = Len(q)
    BY LenProperties
  <1>4. \A at \in Nat : from[at] \in Seq(Nat)
    BY <1>1 DEF Packs77
  <1> DEFINE Given(p, at) == back[<<p, SubSeq(data, 1, at)>>] = [data |-> data, source |-> p + Len(from[at])]
             T == {k \in Nat : k <= n => /\ Len(from[n - k]) >= 3
                                         /\ \A p \in Nat : Comes(q, p, from[n - k]) => Given(p, n - k)}
  <1>5. ASSUME NEW k \in Nat, k <= n, \A j \in Nat : j < k => j \in T
        PROVE  k \in T
    <2>1. PICK at \in Nat : at = n - k /\ at <= n /\ n - at = k
      <3>1. n - k \in Nat /\ n - k <= n /\ n - (n - k) = k
        BY <1>5
      <3> QED BY <3>1
    <2>2. CASE k = 0
      <3>1. at = n /\ from[n] = End
        BY <1>1, <1>3, <2>1, <2>2 DEF Packs77
      <3>2. Len(End) = 3 /\ End[1] = Escape + 1 /\ End[2] = 0 /\ End[3] = 1
        BY DEF End
      <3>3. ASSUME NEW p \in Nat, Comes(q, p, End)
            PROVE  Given(p, n)
        <4>1. p + 3 <= l /\ q[p + 1] = Escape + 1 /\ q[p + 2] = 0 /\ q[p + 3] = 1
          BY <1>3, <3>2, <3>3 DEF Comes
        <4>2. SubSeq(data, 1, n) = data
          <5>1. n \in 0 .. Len(data) /\ data \in Seq(Nat) /\ Len(data) = n
            BY <1>3
          <5> QED BY <5>1, FirstIs
        <4>3. q[p + 1] \in Escapes /\ <<q[p + 2], q[p + 3]>> = <<0, 1>> /\ ~(p + 3 > Len(q))
          BY <1>3, <4>1 DEF Escapes
        <4>4. back[<<p, data>>] = [data |-> data, source |-> p + 3]
          BY <1>2, <4>3 DEF Reads77
        <4> QED BY <3>1, <3>2, <4>2, <4>4
      <3>4. Len(from[at]) >= 3
        BY <3>1, <3>2
      <3>5. \A p \in Nat : Comes(q, p, from[at]) => Given(p, at)
        <4> HIDE DEF Given
        <4> QED BY <3>1, <3>3
      <3> HIDE DEF Given
      <3> QED BY <2>1, <3>4, <3>5
    <2>3. CASE k # 0
      <3>1. at \in 0 .. Len(data) - 1 /\ ~(at >= Len(data))
        BY <1>3, <2>1, <2>3
      <3>2. PICK t \in 1 .. k, c \in Seq(Nat) : t = Taken(data, at) /\ c = Chunk(data, at)
        BY <1>3, <2>1, <3>1, ChunkFacts
      <3>3. PICK to \in Nat, j \in Nat : to = at + t /\ j < k /\ j <= n /\ to = n - j
        <4>1. at + t \in Nat /\ k - t \in Nat /\ k - t < k
          BY <2>1, <2>3
        <4>2. k - t <= n /\ at + t = n - (k - t)
          BY <1>5, <2>1, <4>1
        <4> QED BY <4>1, <4>2
      <3>4. from[at] = c \o from[to]
        BY <1>1, <3>1, <3>2, <3>3 DEF Packs77
      <3>5. Len(from[to]) >= 3 /\ \A p \in Nat : Comes(q, p, from[to]) => Given(p, to)
        <4>1. j \in T
          BY <1>5, <3>3
        <4> HIDE DEF Given
        <4> QED BY <3>3, <4>1
      <3>6. PICK m \in Nat, r \in Nat : /\ m = Len(c) /\ r = Len(from[to])
                                        /\ Len(from[at]) = m + r /\ r >= 3
        <4>1. PICK x \in Seq(Nat) : x = from[to]
          BY <1>4, <3>3
        <4>2. Len(c) \in Nat /\ Len(x) \in Nat /\ Len(c \o x) = Len(c) + Len(x)
          BY LenProperties, ConcatProperties
        <4> QED BY <3>4, <3>5, <4>1, <4>2
      <3>7. ASSUME NEW p \in Nat, Comes(q, p, from[at])
            PROVE  Given(p, at)
        <4>1. Comes(q, p, c) /\ Comes(q, p + m, from[to])
          <5>1. PICK x \in Seq(Nat) : x = from[to]
            BY <1>4, <3>3
          <5>2. Comes(q, p, c \o x)
            BY <3>4, <3>7, <5>1
          <5>3. Comes(q, p, c) /\ Comes(q, p + Len(c), x)
            BY <5>2, ComesParts
          <5> QED BY <3>6, <5>1, <5>3
        <4>2. p + m \in Nat /\ p + m + 3 <= Len(q)
          <5>1. (p + m) + Len(from[to]) <= Len(q)
            BY <4>1 DEF Comes
          <5>2. (p + m) + r <= l
            BY <1>3, <3>6, <5>1
          <5>3. \A a \in Nat : a + r <= l => a + 3 <= l
            BY <3>6
          <5>4. p + m \in Nat
            OBVIOUS
          <5> QED BY <1>3, <5>2, <5>3, <5>4
        <4>3. back[<<p, SubSeq(data, 1, at)>>] = back[<<p + m, SubSeq(data, 1, to)>>]
          <5>1. Comes(q, p, Chunk(data, at)) /\ p + Len(Chunk(data, at)) + 3 <= Len(q)
            BY <3>2, <3>6, <4>1, <4>2
          <5>2. Goes(back, data, p, at, p + Len(Chunk(data, at)), at + Taken(data, at))
            BY <1>2, <3>1, <5>1, ChunkRead
          <5> QED BY <3>2, <3>3, <3>6, <5>2 DEF Goes
        <4>4. Given(p + m, to)
          <5> HIDE DEF Given
          <5> QED BY <3>5, <4>1, <4>2
        <4>5. (p + m) + r = p + (m + r)
          OBVIOUS
        <4> QED BY <3>6, <4>3, <4>4, <4>5
      <3>8. Len(from[at]) >= 3
        BY <3>6
      <3> HIDE DEF Given
      <3> QED BY <2>1, <3>7, <3>8
    <2> QED BY <2>2, <2>3
  <1>6. Nat \subseteq T
    <2>1. ASSUME NEW k \in Nat, \A j \in Nat : j < k => j \in T
          PROVE  k \in T
      <3>1. CASE k <= n
        <4> HIDE DEF T
        <4> QED BY <1>5, <2>1, <3>1
      <3>2. CASE ~(k <= n)
        <4> HIDE DEF Given
        <4> QED BY <3>2
      <3> QED BY <3>1, <3>2
    <2> HIDE DEF T
    <2> QED BY <2>1, Induction
  <1>7. n \in T /\ n <= n /\ n - n = 0
    <2> HIDE DEF T
    <2> QED BY <1>6
  <1>8. \A p \in Nat : Comes(q, p, from[0]) => Given(p, 0)
    <2> HIDE DEF Given
    <2> QED BY <1>7
  <1>9. Given(0, 0)
    <2> HIDE DEF Given
    <2> QED BY <1>1, <1>8
  <1>10. SubSeq(data, 1, 0) = <<>>
    <2>1. <<>> \in Seq(Nat) /\ Len(<<>>) = 0 /\ 0 \in 0 .. Len(data)
      BY <1>3
    <2> QED BY <2>1, FirstIs
  <1>11. PICK r \in Nat : r = Len(from[0])
    BY <1>4, LenProperties
  <1>12. back[<<0, <<>>>>] = [data |-> data, source |-> r]
    <2>1. back[<<0, SubSeq(data, 1, 0)>>] = [data |-> data, source |-> 0 + Len(from[0])]
      BY <1>9
    <2>2. 0 + r = r
      OBVIOUS
    <2> QED BY <1>10, <1>11, <2>1, <2>2
  <1> QED BY <1>1, <1>2, <1>4, <1>11, <1>12

\* What stands in q from p on is found there.
LEMMA ComesBehind ==
  ASSUME NEW x \in Seq(Nat), NEW y \in Seq(Nat), NEW z \in Seq(Nat)
  PROVE  Comes(x \o (y \o z), Len(x), y)
  <1>1. PICK q \in Seq(Nat), r \in Seq(Nat) : r = y \o z /\ q = x \o r
    BY ConcatProperties
  <1>2. PICK m \in Nat, n \in Nat, k \in Nat : m = Len(x) /\ n = Len(y) /\ k = Len(z)
    BY LenProperties
  <1>3. Len(r) = n + k /\ \A i \in 1 .. n : r[i] = y[i]
    <2>1. \A i \in 1 .. n : i \in 1 .. n + k /\ i <= n
      OBVIOUS
    <2> QED BY <1>1, <1>2, <2>1, ConcatProperties
  <1>4. Len(q) = m + (n + k) /\ \A i \in 1 .. n : q[m + i] = r[i]
    <2>1. \A i \in 1 .. n : m + i \in 1 .. m + (n + k) /\ m + i > m /\ (m + i) - m = i
      OBVIOUS
    <2> QED BY <1>1, <1>2, <1>3, <2>1, ConcatProperties
  <1>5. m + n <= m + (n + k)
    OBVIOUS
  <1> QED BY <1>1, <1>2, <1>3, <1>4, <1>5 DEF Comes

\* A packed block is made of bytes.
LEMMA Packed77 ==
  ASSUME NEW data \in Seq(Nat)
  PROVE  compressBlockLZ77(data) \in Seq(Nat)
  <1>1. PICK from : compressBlockLZ77(data) = from[0] /\ Packs77(from, data)
    BY BlockFacts
  <1> QED BY <1>1 DEF Packs77

\* A block alone, and one with something behind it.
LEMMA BlockAlone ==
  ASSUME NEW data \in Seq(Nat), NEW rest \in Seq(Nat)
  PROVE  /\ decompressBlockLZ77(compressBlockLZ77(data)).data = data
         /\ decompressBlockLZ77(compressBlockLZ77(data) \o rest)
              = [data |-> data, source |-> Len(compressBlockLZ77(data))]
  <1>1. PICK c \in Seq(Nat) : c = compressBlockLZ77(data)
    BY Packed77
  <1>2. ASSUME NEW y \in Seq(Nat)
        PROVE  decompressBlockLZ77(c \o y) = [data |-> data, source |-> Len(c)]
    <2>1. <<>> \in Seq(Nat) /\ c \o y \in Seq(Nat) /\ <<>> \o (c \o y) = c \o y /\ Len(<<>>) = 0
      BY ConcatProperties
    <2>2. Comes(<<>> \o (c \o y), Len(<<>>), c)
      BY <2>1, ComesBehind
    <2>3. Comes(c \o y, 0, c)
      BY <2>1, <2>2
    <2> QED BY <1>1, <2>1, <2>3, BlockReturns
  <1>3. Comes(c, 0, c)
    <2>1. PICK n \in Nat : n = Len(c)
      BY LenProperties
    <2>2. 0 + n <= n /\ \A i \in 1 .. n : 0 + i = i
      OBVIOUS
    <2> QED BY <2>1, <2>2 DEF Comes
  <1>4. decompressBlockLZ77(c) = [data |-> data, source |-> Len(c)]
    BY <1>1, <1>3, BlockReturns
  <1> QED BY <1>1, <1>2, <1>4

\* A function of 1 .. n is a sequence of n.
LEMMA ListedFunction ==
  ASSUME NEW n \in Nat, NEW x \in [1 .. n -> Nat]
  PROVE  x \in Seq(Nat) /\ Len(x) = n
  OBVIOUS

\* A sequence is the function it is.
LEMMA ListedSequence ==
  ASSUME NEW x \in Seq(Nat), NEW n, n = Len(x)
  PROVE  x = [i \in 1 .. n |-> x[i]]
  OBVIOUS

\* Sequences are the same when their elements are.
LEMMA SameList ==
  ASSUME NEW x \in Seq(Nat), NEW y \in Seq(Nat), NEW n, n = Len(x), n = Len(y),
         \A i \in 1 .. n : x[i] = y[i]
  PROVE  x = y
  <1>1. x = [i \in 1 .. n |-> x[i]]
    BY ListedSequence
  <1>2. y = [i \in 1 .. n |-> y[i]]
    BY ListedSequence
  <1> QED BY <1>1, <1>2

\* The bytes at odd and even places, put together again.
LEMMA Halves ==
  ASSUME NEW data \in Seq(Nat), Len(data) % 2 = 0
  PROVE  /\ Even(data) \in Seq(Nat) /\ Odd(data) \in Seq(Nat)
         /\ Len(Even(data)) = Len(Odd(data))
         /\ Interleaved(Even(data), Odd(data)) = data
  <1>1. PICK n \in Nat : Len(data) = 2 * n /\ Len(data) \div 2 = n
    <2>1. \A l \in Nat : l % 2 = 0 => l \div 2 \in Nat /\ l = 2 * (l \div 2)
      OBVIOUS
    <2> QED BY <2>1, LenProperties
  <1>2. \A i \in 1 .. n : 2 * i - 1 \in 1 .. 2 * n /\ 2 * i \in 1 .. 2 * n
    OBVIOUS
  <1>3. \A i \in 1 .. 2 * n : data[i] \in Nat
    BY <1>1
  <1>4. PICK even, odd : even = Even(data) /\ odd = Odd(data)
    OBVIOUS
  <1>5. even = [i \in 1 .. n |-> data[2 * i - 1]] /\ odd = [i \in 1 .. n |-> data[2 * i]]
    BY <1>1, <1>4 DEF Even, Odd
  <1>6. even \in [1 .. n -> Nat] /\ odd \in [1 .. n -> Nat]
    <2>1. \A i \in 1 .. n : data[2 * i - 1] \in Nat /\ data[2 * i] \in Nat
      BY <1>2, <1>3
    <2> QED BY <1>5, <2>1
  <1>7. even \in Seq(Nat) /\ odd \in Seq(Nat) /\ Len(even) = n /\ Len(odd) = n
    BY <1>6, ListedFunction
  <1>8. Interleaved(even, odd)
          = [i \in 1 .. 2 * n |-> IF i % 2 = 1 THEN even[(i + 1) \div 2] ELSE odd[i \div 2]]
    BY <1>7 DEF Interleaved
  <1>9. ASSUME NEW i \in 1 .. 2 * n
        PROVE  data[i] = IF i % 2 = 1 THEN even[(i + 1) \div 2] ELSE odd[i \div 2]
    <2>1. CASE i % 2 = 1
      <3>1. PICK j \in 1 .. n : j = (i + 1) \div 2 /\ i = 2 * j - 1
        <4>1. (i + 1) \div 2 \in 1 .. n /\ i = 2 * ((i + 1) \div 2) - 1
          BY <2>1
        <4> QED BY <4>1
      <3> QED BY <1>5, <2>1, <3>1
    <2>2. CASE ~(i % 2 = 1)
      <3>1. PICK j \in 1 .. n : j = i \div 2 /\ i = 2 * j
        <4>1. i \div 2 \in 1 .. n /\ i = 2 * (i \div 2)
          BY <2>2
        <4> QED BY <4>1
      <3> QED BY <1>5, <2>2, <3>1
    <2> QED BY <2>1, <2>2
  <1>10. data = [i \in 1 .. 2 * n |-> data[i]]
    BY <1>1
  <1>11. Interleaved(even, odd) = data
    BY <1>8, <1>9, <1>10
  <1> QED BY <1>4, <1>7, <1>11

\* A byte in front is a head.
LEMMA Headed ==
  ASSUME NEW b \in Nat, NEW x \in Seq(Nat)
  PROVE  <<b>> \o x \in Seq(Nat) /\ Head(<<b>> \o x) = b /\ Tail(<<b>> \o x) = x
  <1>1. PICK n \in Nat : n = Len(x)
    BY LenProperties
  <1>2. <<b>> \in Seq(Nat) /\ Len(<<b>>) = 1 /\ <<b>>[1] = b
    OBVIOUS
  <1>3. PICK z \in Seq(Nat) : z = <<b>> \o x
    BY <1>2, ConcatProperties
  <1>4. Len(z) = 1 + n /\ z[1] = b /\ \A i \in 1 .. n : z[i + 1] = x[i]
    <2>1. 1 \in 1 .. 1 + n /\ \A i \in 1 .. n : i + 1 \in 1 .. 1 + n /\ ~(i + 1 <= 1) /\ (i + 1) - 1 = i
      OBVIOUS
    <2> QED BY <1>1, <1>2, <1>3, <2>1, ConcatProperties
  <1>5. z # <<>> /\ (1 + n) - 1 = n
    <2>1. 1 + n # 0 /\ (1 + n) - 1 = n /\ Len(<<>>) = 0
      OBVIOUS
    <2> QED BY <1>4, <2>1, Zenon
  <1>6. PICK t : t = Tail(z)
    OBVIOUS
  <1>7. t \in Seq(Nat) /\ Len(t) = Len(z) - 1 /\ \A i \in 1 .. Len(z) - 1 : t[i] = z[i + 1]
    BY <1>5, <1>6, HeadTailProperties
  <1>8. t = x
    <2>1. Len(t) = n /\ \A i \in 1 .. n : t[i] = z[i + 1]
      BY <1>4, <1>5, <1>7
    <2>2. \A i \in 1 .. n : t[i] = x[i]
      BY <1>4, <2>1
    <2> QED BY <1>1, <1>7, <2>1, <2>2, SameList
  <1>9. Head(z) = b
    BY <1>4
  <1> QED BY <1>3, <1>6, <1>8, <1>9

\* How the first byte is read.
LEMMA Modes ==
  ASSUME NEW q
  PROVE  /\ Head(q) = 0 => decompressLZ77(q) = decompressBlockLZ77(Tail(q)).data
         /\ Head(q) = 6 => \A lower, upper :
              /\ lower = decompressBlockLZ77(Tail(q)).data
              /\ upper = decompressBlockLZ77(SubSeq(q, decompressBlockLZ77(Tail(q)).source + 4,
                                                    Len(q))).data
              /\ Len(lower) = Len(upper)
              => decompressLZ77(q) = Interleaved(lower, upper)
  <1>1. PICK first, lower, upper :
          /\ first = decompressBlockLZ77(Tail(q)) /\ lower = first.data
          /\ upper = decompressBlockLZ77(SubSeq(q, first.source + 4, Len(q))).data
    OBVIOUS
  <1>2. ASSUME Head(q) = 0
        PROVE  decompressLZ77(q) = lower
    <2>1. PICK mode : mode = Head(q)
      OBVIOUS
    <2>2. mode = 0 /\ mode # 3 /\ mode # 6
      BY <1>2, <2>1
    <2> QED BY <1>1, <2>1, <2>2, Zenon DEF decompressLZ77
  <1>3. ASSUME Head(q) = 6, Len(lower) = Len(upper)
        PROVE  decompressLZ77(q) = Interleaved(lower, upper)
    BY <1>1, <1>3 DEF decompressLZ77
  <1> QED BY <1>1, <1>2, <1>3

\* Parts may be joined in any order.
LEMMA ThreeParts ==
  ASSUME NEW a \in Seq(Nat), NEW b \in Seq(Nat), NEW c \in Seq(Nat)
  PROVE  (a \o b) \o c = a \o (b \o c)
  BY ConcatAssociative

LEMMA FourParts ==
  \A a, b, c, d \in Seq(Nat) : ((a \o b) \o c) \o d = a \o (b \o (c \o d))
  <1> DEFINE Q == Seq(Nat)
             J(x, y) == x \o y
  <1>1. \A a, b \in Q : J(a, b) \in Q
    BY ConcatProperties
  <1>2. \A a, b, c \in Q : J(J(a, b), c) = J(a, J(b, c))
    BY ThreeParts
  <1> HIDE DEF Q, J
  <1>3. \A a, b, c, d \in Q : J(J(J(a, b), c), d) = J(a, J(b, J(c, d)))
    BY <1>1, <1>2
  <1> QED BY <1>3 DEF Q, J

\* Both modes return what suits them.
LEMMA TilesReturned ==
  ASSUME NEW data \in Seq(Nat), NEW mode \in {0, 6}, Suits(mode, data)
  PROVE  decompressLZ77(compressLZ77(mode, data)) = data
  <1>1. CASE mode = 0
    <2>1. PICK c \in Seq(Nat) : c = compressBlockLZ77(data)
      BY Packed77
    <2>2. compressLZ77(mode, data) = <<0>> \o c
      BY <1>1, <2>1 DEF compressLZ77
    <2>3. Head(<<0>> \o c) = 0 /\ Tail(<<0>> \o c) = c
      BY Headed
    <2>4. decompressBlockLZ77(c).data = data
      BY <2>1, BlockAlone
    <2> QED BY <2>2, <2>3, <2>4, Modes
  <1>2. CASE mode = 6
    <2>1. Len(data) % 2 = 0
      BY <1>2 DEF Suits
    <2>2. PICK lower \in Seq(Nat), upper \in Seq(Nat) :
            /\ lower = Even(data) /\ upper = Odd(data) /\ Len(lower) = Len(upper)
            /\ Interleaved(lower, upper) = data
      BY <2>1, Halves
    <2>3. PICK c \in Seq(Nat), d \in Seq(Nat) :
            c = compressBlockLZ77(lower) /\ d = compressBlockLZ77(upper)
      BY Packed77
    <2>4. PICK q : q = compressLZ77(mode, data)
      OBVIOUS
    <2>5. q = ((<<6>> \o c) \o <<0, 6>>) \o d
      BY <1>2, <2>2, <2>3, <2>4 DEF compressLZ77, TwoBlocks
    <2>6. PICK r \in Seq(Nat) : r = <<0, 6>> \o d
      <3>1. <<0, 6>> \in Seq(Nat)
        OBVIOUS
      <3> QED BY <3>1, ConcatProperties
    <2>7. q = <<6>> \o (c \o r)
      <3>1. <<6>> \in Seq(Nat) /\ <<0, 6>> \in Seq(Nat)
        OBVIOUS
      <3> DEFINE Q == Seq(Nat)
                 J(x, y) == x \o y
                 six == <<6>>
                 mark == <<0, 6>>
      <3>2. six \in Q /\ mark \in Q /\ c \in Q /\ d \in Q
        BY <3>1
      <3>3. \A v, w, x, y \in Q : J(J(J(v, w), x), y) = J(v, J(w, J(x, y)))
        BY FourParts
      <3>4. q = J(J(J(six, c), mark), d)
        BY <2>5
      <3>5. r = J(mark, d)
        BY <2>6
      <3> HIDE DEF Q, J, six, mark
      <3>6. q = J(six, J(c, r))
        BY <3>2, <3>3, <3>4, <3>5
      <3> QED BY <3>6 DEF J, six
    <2>8. c \o r \in Seq(Nat)
      BY ConcatProperties
    <2>9. Head(q) = 6 /\ Tail(q) = c \o r
      BY <2>7, <2>8, Headed
    <2>10. decompressBlockLZ77(Tail(q)) = [data |-> lower, source |-> Len(c)]
      <3>1. PICK y : y = compressBlockLZ77(lower) \o r
        OBVIOUS
      <3>2. decompressBlockLZ77(y) = [data |-> lower, source |-> Len(compressBlockLZ77(lower))]
        BY <3>1, BlockAlone
      <3>3. Tail(q) = y
        BY <2>3, <2>9, <3>1
      <3> QED BY <2>3, <3>2, <3>3
    <2>11. SubSeq(q, Len(c) + 4, Len(q)) = d
      <3>1. PICK m \in Nat, n \in Nat : m = Len(c) /\ n = Len(d)
        BY LenProperties
      <3>2. Len(q) = m + 3 + n /\ \A i \in 1 .. n : q[m + 3 + i] = d[i]
        BY <2>5, <3>1
      <3>3. q \in Seq(Nat)
        BY <2>7, <2>8, ConcatProperties
      <3>4. PICK s : s = SubSeq(q, m + 4, m + 3 + n)
        OBVIOUS
      <3>5. s = [i \in 1 .. n |-> q[m + 3 + i]]
        <4>1. \A i \in m + 4 .. m + 3 + n : q[i] \in Nat
          <5> SUFFICES ASSUME NEW i \in m + 4 .. m + 3 + n
                       PROVE  q[i] \in Nat
            OBVIOUS
          <5>1. i \in 1 .. Len(q)
            BY <3>2
          <5> QED BY <3>3, <5>1
        <4>2. m + 4 \in Int /\ m + 3 + n \in Int /\ (m + 3 + n) - (m + 4) + 1 = n
              /\ (IF m + 4 <= m + 3 + n THEN n ELSE 0) = n
          OBVIOUS
        <4>3. s \in Seq(Nat) /\ Len(s) = n /\ \A i \in 1 .. n : s[i] = q[(m + 4) + i - 1]
          BY <3>4, <4>1, <4>2, SubSeqProperties
        <4>4. \A i \in 1 .. n : (m + 4) + i - 1 = m + 3 + i
          OBVIOUS
        <4>5. \A i \in 1 .. n : s[i] = q[m + 3 + i]
          BY <4>3, <4>4
        <4>6. s = [i \in 1 .. n |-> s[i]]
          BY <4>3
        <4> QED BY <4>5, <4>6
      <3>6. d = [i \in 1 .. n |-> d[i]]
        BY <3>1
      <3> QED BY <3>1, <3>2, <3>4, <3>5, <3>6
    <2>12. decompressBlockLZ77(d).data = upper
      BY <2>3, BlockAlone
    <2>13. decompressLZ77(q) = Interleaved(lower, upper)
      <3>1. /\ decompressBlockLZ77(Tail(q)).data = lower
            /\ decompressBlockLZ77(Tail(q)).source = Len(c)
        BY <2>10
      <3> QED BY <2>2, <2>9, <2>11, <2>12, <3>1, Modes, Zenon
    <2> QED BY <2>2, <2>4, <2>13
  <1> QED BY <1>1, <1>2

\* For every input, tiles compressed by LZ77 as they are or in two halves come back
\* as they were (compressor.hpp, decompressor.hpp, font-encoder.cpp:63).
THEOREM TilesCorrect == Spec => []TilesReturn
  <1>1. TypeOK => TilesReturn
    BY InputAssumption, TilesReturned DEF TypeOK, TilesReturn
  <1> QED BY <1>1, TypeCorrect, PTL
=============================================================================
