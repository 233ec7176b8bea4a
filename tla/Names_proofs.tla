---------------------------- MODULE Names_proofs -----------------------------
(***************************************************************************)
(* Names are packed, unpacked, loaded, typed and drawn as Names says they  *)
(* are, whatever they are and however many there are.                      *)
(*                                                                         *)
(* A packed name is the number of its codes (Coded): the upper part counts *)
(* in digits of 7, the lower in digits of 8.  Encode adds one product per  *)
(* character and never carries out of the last word (PartNext), the tool   *)
(* multiplies by 7 (ToolValue), so both make the same words (CodedUnique); *)
(* Decode divides the digits out again (DecodeValue).  The invariant Right *)
(* says that what is in the table, on the screen and in the saved game are *)
(* such names, byte by byte while they are loaded, and IInv that the tiles *)
(* show them; from the two follow the types, one encoding, tiles that show *)
(* whole names, and that all of it is a book of names.                     *)
(***************************************************************************)
EXTENDS Names, Recursion, TLAPS

-----------------------------------------------------------------------------
(* Numbers: words, and digits of 7 and 8. *)

Words == [1..4 -> 0..Word - 1]
Places == 0..10
Codes == [Places -> 0..55]

\* What four words stand for.
Value(n) == n[1] + Word * (n[2] + Word * (n[3] + Word * n[4]))

\* Their sum is one of four words, too.
Fit(m, n) == Value(m) + Value(n) < Word * Word * Word * Word

\* Numbers of eleven digits of 7 and of 8, by the place of a digit.
Septal(h) ==
  h[0] + 7 * (h[1] + 7 * (h[2] + 7 * (h[3] + 7 * (h[4] + 7 * (h[5]
    + 7 * (h[6] + 7 * (h[7] + 7 * (h[8] + 7 * (h[9] + 7 * h[10])))))))))
Octal(l) ==
  l[0] + 8 * (l[1] + 8 * (l[2] + 8 * (l[3] + 8 * (l[4] + 8 * (l[5]
    + 8 * (l[6] + 8 * (l[7] + 8 * (l[8] + 8 * (l[9] + 8 * l[10])))))))))

\* The number of a name is made of its codes.
High(e) == [p \in Places |-> e[p] \div 8]
Low(e) == [p \in Places |-> e[p] % 8]
Coded(n, e) == n \in Words /\ Value(n) = 2 * Word * Word * Septal(High(e)) + Octal(Low(e))

\* Eleven digits of 7 take less than 31 bits.
LEMMA SeptalBound ==
  ASSUME NEW h \in [Places -> 0..6]
  PROVE  Septal(h) \in Nat /\ Septal(h) < 128 * 256 * Word
  <1>1. PICK a, b, c, d, e, f, g, i, j, k, l :
          /\ a = h[0] /\ b = h[1] /\ c = h[2] /\ d = h[3] /\ e = h[4] /\ f = h[5]
          /\ g = h[6] /\ i = h[7] /\ j = h[8] /\ k = h[9] /\ l = h[10]
    OBVIOUS
  <1>2. /\ a \in 0..6 /\ b \in 0..6 /\ c \in 0..6 /\ d \in 0..6 /\ e \in 0..6 /\ f \in 0..6
        /\ g \in 0..6 /\ i \in 0..6 /\ j \in 0..6 /\ k \in 0..6 /\ l \in 0..6
    BY <1>1 DEF Places
  <1>3. PICK m : m = g + 7 * (i + 7 * (j + 7 * (k + 7 * l)))
    OBVIOUS
  <1>4. m \in Nat /\ m < 7 * 7 * 7 * 7 * 7
    BY <1>2, <1>3
  <1>5. Septal(h) = a + 7 * (b + 7 * (c + 7 * (d + 7 * (e + 7 * (f + 7 * m)))))
    BY <1>1, <1>3 DEF Septal
  <1>6. /\ a + 7 * (b + 7 * (c + 7 * (d + 7 * (e + 7 * (f + 7 * m))))) \in Nat
        /\ a + 7 * (b + 7 * (c + 7 * (d + 7 * (e + 7 * (f + 7 * m))))) < 128 * 256 * (256 * 256)
    BY <1>2, <1>4
  <1> QED BY <1>5, <1>6 DEF Word

\* Words carry and keep like digits of any base.
LEMMA WordFacts == Word \in Nat \ {0}
  BY DEF Word

\* Digits of any base w: the quotient and the remainder.
LEMMA BaseFacts ==
  ASSUME NEW w \in Nat \ {0}, NEW k \in Nat
  PROVE  /\ k \div w \in Nat /\ k % w \in Nat /\ k % w < w
         /\ k = w * (k \div w) + (k % w)
         /\ k < w => k % w = k
         /\ k < 2 * w => k \div w \in 0..1
  <1>1. k \div w \in Nat
    OBVIOUS
  <1>2. k % w \in Nat /\ k % w < w
    OBVIOUS
  <1>3. k = w * (k \div w) + (k % w)
    OBVIOUS
  <1>4. k < w => k % w = k
    OBVIOUS
  <1>5. k < 2 * w => k \div w \in 0..1
    OBVIOUS
  <1> QED BY <1>1, <1>2, <1>3, <1>4, <1>5

\* A number has one last digit and one rest.
LEMMA BaseUnique ==
  ASSUME NEW w \in Nat \ {0}, NEW x \in Nat, NEW y \in Nat, x < w, y < w,
         NEW a \in Nat, NEW b \in Nat, x + w * a = y + w * b
  PROVE  x = y /\ a = b
  <1>1. ~(a < b)
    <2> SUFFICES ASSUME a < b
                 PROVE  FALSE
      OBVIOUS
    <2>1. PICK c \in Nat : b = a + 1 + c
      <3>1. b - a - 1 \in Nat /\ b = a + 1 + (b - a - 1)
        OBVIOUS
      <3> QED BY <3>1
    <2>2. w * b = w * a + w + w * c /\ w * c \in Nat /\ w * a \in Nat
      BY <2>1
    <2> QED BY <2>2
  <1>2. ~(b < a)
    <2> SUFFICES ASSUME b < a
                 PROVE  FALSE
      OBVIOUS
    <2>1. PICK c \in Nat : a = b + 1 + c
      <3>1. a - b - 1 \in Nat /\ a = b + 1 + (a - b - 1)
        OBVIOUS
      <3> QED BY <3>1
    <2>2. w * a = w * b + w + w * c /\ w * c \in Nat /\ w * b \in Nat
      BY <2>1
    <2> QED BY <2>2
  <1>3. a = b
    BY <1>1, <1>2
  <1> QED BY <1>3

\* A number without its last digit is smaller.
LEMMA BaseLess ==
  ASSUME NEW w \in Nat \ {0}, NEW x \in Nat, NEW a \in Nat, NEW b \in Nat,
         x + w * a < w * b
  PROVE  a < b
  <1> SUFFICES ASSUME ~(a < b)
               PROVE  FALSE
    OBVIOUS
  <1>1. PICK c \in Nat : a = b + c
    <2>1. a - b \in Nat /\ a = b + (a - b)
      OBVIOUS
    <2> QED BY <2>1
  <1>2. w * a = w * b + w * c /\ w * c \in Nat /\ w * b \in Nat
    BY <1>1
  <1> QED BY <1>2

\* What a number stands for.
LEMMA NumberValue ==
  ASSUME NEW u \in Nat, u < 128 * 256 * Word, NEW l \in [Places -> 0..7]
  PROVE  Number(u, l) \in Words /\ Value(Number(u, l)) = 2 * Word * Word * u + Octal(l)
  <1>1. PICK a, b, c, d, e, f, g, i, j, k, m :
          /\ a = l[0] /\ b = l[1] /\ c = l[2] /\ d = l[3] /\ e = l[4] /\ f = l[5]
          /\ g = l[6] /\ i = l[7] /\ j = l[8] /\ k = l[9] /\ m = l[10]
    OBVIOUS
  <1>2. /\ a \in 0..7 /\ b \in 0..7 /\ c \in 0..7 /\ d \in 0..7 /\ e \in 0..7 /\ f \in 0..7
        /\ g \in 0..7 /\ i \in 0..7 /\ j \in 0..7 /\ k \in 0..7 /\ m \in 0..7
    BY <1>1 DEF Places
  <1>3. PICK half, p, q, r, s, t, v, w, x, y, z :
          /\ half = Word \div 2
          /\ p = f % 2 /\ q = f \div 2 /\ r = m % 4 /\ s = m \div 4
          /\ t = u % half /\ v = u \div half
          /\ w = a + 8 * (b + 8 * (c + 8 * (d + 8 * (e + 8 * p))))
          /\ x = q + 4 * (g + 8 * (i + 8 * (j + 8 * (k + 8 * r))))
          /\ y = s + 2 * t /\ z = v % Word
    OBVIOUS
  <1>4. /\ p \in 0..1 /\ q \in 0..3 /\ f = 2 * q + p
        /\ r \in 0..3 /\ s \in 0..1 /\ m = 4 * s + r
    BY <1>2, <1>3
  <1>5. half = 128 * 256 /\ half \in Nat \ {0}
    BY <1>3 DEF Word
  <1>6. /\ t \in Nat /\ t < 128 * 256 /\ v \in Nat /\ u = 128 * 256 * v + t
    BY <1>3, <1>5, BaseFacts
  <1>7. v < Word
    <2>1. t + (128 * 256) * v < (128 * 256) * Word
      BY <1>6, WordFacts
    <2>2. 128 * 256 \in Nat \ {0}
      OBVIOUS
    <2> QED BY <1>6, <2>1, <2>2, BaseLess, WordFacts
  <1>8. z = v
    BY <1>3, <1>6, <1>7, BaseFacts, WordFacts
  <1>9. w \in 0..Word - 1 /\ x \in 0..Word - 1 /\ y \in 0..Word - 1 /\ v \in 0..Word - 1
    <2>1. w \in Nat /\ w < 256 * 256
      BY <1>2, <1>3, <1>4
    <2>2. x \in Nat /\ x < 256 * 256
      BY <1>2, <1>3, <1>4
    <2>3. y \in Nat /\ y < 256 * 256
      BY <1>3, <1>4, <1>6
    <2>4. w < Word /\ x < Word /\ y < Word
      BY <2>1, <2>2, <2>3 DEF Word
    <2> QED BY <1>6, <1>7, <2>1, <2>2, <2>3, <2>4, WordFacts
  <1>10. Number(u, l) = <<w, x, y, v>>
    BY <1>1, <1>3, <1>8 DEF Number
  <1>11. Number(u, l) \in Words
    BY <1>9, <1>10 DEF Words
  <1>12. Value(Number(u, l)) = w + Word * (x + Word * (y + Word * v))
    BY <1>10 DEF Value
  <1>13. Octal(l) = w + Word * (x + Word * s)
    <2>1. Octal(l) = a + 8 * (b + 8 * (c + 8 * (d + 8 * (e + 8 * (f + 8 * (g + 8 * (i
                       + 8 * (j + 8 * (k + 8 * m)))))))))
      BY <1>1 DEF Octal
    <2>2.   a + 8 * (b + 8 * (c + 8 * (d + 8 * (e + 8 * (f + 8 * (g + 8 * (i
              + 8 * (j + 8 * (k + 8 * m)))))))))
          = w + (256 * 256) * (x + (256 * 256) * s)
      BY <1>2, <1>3, <1>4
    <2> QED BY <2>1, <2>2 DEF Word
  <1>14.   w + Word * (x + Word * (y + Word * v))
         = 2 * Word * Word * u + (w + Word * (x + Word * s))
    <2>1. PICK big \in Nat : big = Word
      BY WordFacts
    <2>2. 2 * u = big * v + 2 * t
      BY <1>6, <2>1 DEF Word
    <2>3. y = s + 2 * t
      BY <1>3
    <2>4. w \in Nat /\ x \in Nat /\ s \in Nat
      BY <1>4, <1>9, WordFacts
    <2>5. 2 * big * big * u = big * big * (big * v + 2 * t)
      <3>1. 2 * big * big * u = big * big * (2 * u)
        OBVIOUS
      <3> QED BY <2>2, <3>1
    <2>6.   w + big * (x + big * (y + big * v))
          = big * big * (big * v + 2 * t) + (w + big * (x + big * s))
      BY <1>6, <2>3, <2>4
    <2> QED BY <2>1, <2>5, <2>6
  <1> QED BY <1>11, <1>12, <1>13, <1>14

\* Four words and their value.
LEMMA WordsFacts ==
  ASSUME NEW n \in Words
  PROVE  \E a \in Nat, b \in Nat, c \in Nat, d \in Nat :
           /\ n = <<a, b, c, d>> /\ a < Word /\ b < Word /\ c < Word /\ d < Word
           /\ Value(n) = a + Word * (b + Word * (c + Word * d))
  <1>1. n[1] \in 0..Word - 1 /\ n[2] \in 0..Word - 1 /\ n[3] \in 0..Word - 1 /\ n[4] \in 0..Word - 1
    BY DEF Words
  <1>2. n = <<n[1], n[2], n[3], n[4]>>
    BY DEF Words
  <1>3. \A k \in 0..Word - 1 : k \in Nat /\ k < Word
    BY WordFacts
  <1>4. Value(n) = n[1] + Word * (n[2] + Word * (n[3] + Word * n[4]))
    BY DEF Value
  <1> QED BY <1>1, <1>2, <1>3, <1>4

\* Four words are determined by what they stand for.
LEMMA ValueUnique ==
  ASSUME NEW m \in Words, NEW n \in Words, Value(m) = Value(n)
  PROVE  m = n
  <1>1. PICK a \in Nat, b \in Nat, c \in Nat, d \in Nat :
          /\ m = <<a, b, c, d>> /\ a < Word /\ b < Word /\ c < Word /\ d < Word
          /\ Value(m) = a + Word * (b + Word * (c + Word * d))
    BY WordsFacts
  <1>2. PICK e \in Nat, f \in Nat, g \in Nat, h \in Nat :
          /\ n = <<e, f, g, h>> /\ e < Word /\ f < Word /\ g < Word /\ h < Word
          /\ Value(n) = e + Word * (f + Word * (g + Word * h))
    BY WordsFacts
  <1>3. PICK w \in Nat \ {0} : w = Word
    BY WordFacts
  <1>4. /\ w * d \in Nat /\ w * (c + w * d) \in Nat /\ w * (b + w * (c + w * d)) \in Nat
        /\ w * h \in Nat /\ w * (g + w * h) \in Nat /\ w * (f + w * (g + w * h)) \in Nat
    OBVIOUS
  <1>5. a + w * (b + w * (c + w * d)) = e + w * (f + w * (g + w * h))
    BY <1>1, <1>2, <1>3
  <1>6. a = e /\ b + w * (c + w * d) = f + w * (g + w * h)
    <2>1. a < w /\ e < w
      BY <1>1, <1>2, <1>3
    <2>2. b + w * (c + w * d) \in Nat /\ f + w * (g + w * h) \in Nat
      BY <1>4
    <2> QED BY <1>5, <2>1, <2>2, BaseUnique
  <1>7. b = f /\ c + w * d = g + w * h
    <2>1. b < w /\ f < w
      BY <1>1, <1>2, <1>3
    <2>2. c + w * d \in Nat /\ g + w * h \in Nat
      BY <1>4
    <2> QED BY <1>6, <2>1, <2>2, BaseUnique
  <1>8. c = g /\ d = h
    <2>1. c < w /\ g < w
      BY <1>1, <1>2, <1>3
    <2> QED BY <1>7, <2>1, BaseUnique
  <1> QED BY <1>1, <1>2, <1>6, <1>7, <1>8

\* Adding word by word adds, as long as nothing is carried out of the last word.
LEMMA AddValue ==
  ASSUME NEW m \in Words, NEW n \in Words, Fit(m, n)
  PROVE  Add(m, n) \in Words /\ Value(Add(m, n)) = Value(m) + Value(n)
  <1>1. PICK a \in Nat, b \in Nat, c \in Nat, d \in Nat :
          /\ m = <<a, b, c, d>> /\ a < Word /\ b < Word /\ c < Word /\ d < Word
          /\ Value(m) = a + Word * (b + Word * (c + Word * d))
    BY WordsFacts
  <1>2. PICK e \in Nat, f \in Nat, g \in Nat, h \in Nat :
          /\ n = <<e, f, g, h>> /\ e < Word /\ f < Word /\ g < Word /\ h < Word
          /\ Value(n) = e + Word * (f + Word * (g + Word * h))
    BY WordsFacts
  <1>3. PICK w \in Nat \ {0} : w = Word
    BY WordFacts
  <1>4. /\ a < w /\ b < w /\ c < w /\ d < w /\ e < w /\ f < w /\ g < w /\ h < w
    BY <1>1, <1>2, <1>3
  <1>5. PICK p, x : p = (a + e) \div w /\ x = (a + e) % w
    OBVIOUS
  <1>6. p \in 0..1 /\ x \in Nat /\ x < w /\ a + e = w * p + x
    <2>1. a + e \in Nat /\ a + e < 2 * w
      BY <1>4
    <2> QED BY <1>5, <2>1, BaseFacts
  <1>7. PICK q, y : q = (b + f + p) \div w /\ y = (b + f + p) % w
    OBVIOUS
  <1>8. q \in 0..1 /\ y \in Nat /\ y < w /\ b + f + p = w * q + y
    <2>1. b + f + p \in Nat /\ b + f + p < 2 * w
      BY <1>4, <1>6
    <2> QED BY <1>7, <2>1, BaseFacts
  <1>9. PICK r, z : r = (c + g + q) \div w /\ z = (c + g + q) % w
    OBVIOUS
  <1>10. r \in 0..1 /\ z \in Nat /\ z < w /\ c + g + q = w * r + z
    <2>1. c + g + q \in Nat /\ c + g + q < 2 * w
      BY <1>4, <1>8
    <2> QED BY <1>9, <2>1, BaseFacts
  <1>11. PICK v \in Nat : v = d + h + r
    BY <1>10
  <1>12. Add(m, n) = <<x, y, z, v % w>>
    BY <1>1, <1>2, <1>3, <1>5, <1>7, <1>9, <1>11 DEF Add
  <1>13. x + w * (y + w * (z + w * v)) = Value(m) + Value(n)
    <2>1.   x + w * (y + w * (z + w * v))
          = (a + w * (b + w * (c + w * d))) + (e + w * (f + w * (g + w * h)))
      BY <1>6, <1>8, <1>10, <1>11
    <2> QED BY <1>1, <1>2, <1>3, <2>1
  <1>14. v < w
    <2>1. x + w * (y + w * (z + w * v)) < w * (w * (w * w))
      <3>1. Word * Word * Word * Word = Word * (Word * (Word * Word))
        BY WordFacts
      <3> QED BY <1>3, <1>13, <3>1 DEF Fit
    <2>2. w * v \in Nat /\ w * (z + w * v) \in Nat /\ w * w \in Nat /\ w * (w * w) \in Nat
      BY <1>10
    <2>3. y + w * (z + w * v) < w * (w * w)
      <3>1. y + w * (z + w * v) \in Nat
        BY <1>8, <2>2
      <3> QED BY <1>6, <2>1, <2>2, <3>1, BaseLess
    <2>4. z + w * v < w * w
      <3>1. z + w * v \in Nat
        BY <1>10, <2>2
      <3> QED BY <1>8, <2>2, <2>3, <3>1, BaseLess
    <2> QED BY <1>10, <2>4, BaseLess
  <1>15. Add(m, n) = <<x, y, z, v>>
    BY <1>12, <1>14, BaseFacts
  <1>16. Add(m, n) \in Words
    <2>1. x \in 0..Word - 1 /\ y \in 0..Word - 1 /\ z \in 0..Word - 1 /\ v \in 0..Word - 1
      BY <1>3, <1>6, <1>8, <1>10, <1>14
    <2> QED BY <1>15, <2>1 DEF Words
  <1>17. Value(Add(m, n)) = x + w * (y + w * (z + w * v))
    BY <1>3, <1>15 DEF Value
  <1> QED BY <1>13, <1>16, <1>17

\* Only the digit at one place, and only those below one.
At(k, d) == [p \in Places |-> IF p = k THEN d ELSE 0]
Upto(k, h) == [p \in Places |-> IF p < k THEN h[p] ELSE 0]

Shifted(h, g) == h \in [Places -> Nat] /\ g \in [Places -> Nat] /\ g[10] = 0
                 /\ \A p \in 0..9 : h[p + 1] = g[p]

\* A digit before all others.
LEMMA SeptalShift ==
  ASSUME NEW h, NEW g, Shifted(h, g)
  PROVE  Septal(h) = h[0] + 7 * Septal(g)
  <1>1. PICK a, b, c, d, e, f, n, i, j, k, l :
          /\ a = h[0] /\ b = h[1] /\ c = h[2] /\ d = h[3] /\ e = h[4] /\ f = h[5]
          /\ n = h[6] /\ i = h[7] /\ j = h[8] /\ k = h[9] /\ l = h[10]
    OBVIOUS
  <1>2. /\ a \in Nat /\ b \in Nat /\ c \in Nat /\ d \in Nat /\ e \in Nat /\ f \in Nat
        /\ n \in Nat /\ i \in Nat /\ j \in Nat /\ k \in Nat /\ l \in Nat
    BY <1>1 DEF Places, Shifted
  <1>3. /\ g[0] = b /\ g[1] = c /\ g[2] = d /\ g[3] = e /\ g[4] = f /\ g[5] = n
        /\ g[6] = i /\ g[7] = j /\ g[8] = k /\ g[9] = l /\ g[10] = 0
    <2>1. \A p \in 0..9 : h[p + 1] = g[p]
      BY DEF Shifted
    <2>2. /\ h[0 + 1] = g[0] /\ h[1 + 1] = g[1] /\ h[2 + 1] = g[2] /\ h[3 + 1] = g[3]
          /\ h[4 + 1] = g[4] /\ h[5 + 1] = g[5] /\ h[6 + 1] = g[6] /\ h[7 + 1] = g[7]
          /\ h[8 + 1] = g[8] /\ h[9 + 1] = g[9]
      BY <2>1
    <2> QED BY <1>1, <2>2 DEF Shifted
  <1>4. Septal(h) = a + 7 * (b + 7 * (c + 7 * (d + 7 * (e + 7 * (f
                      + 7 * (n + 7 * (i + 7 * (j + 7 * (k + 7 * l)))))))))
    BY <1>1 DEF Septal
  <1>5. Septal(g) = b + 7 * (c + 7 * (d + 7 * (e + 7 * (f
                      + 7 * (n + 7 * (i + 7 * (j + 7 * (k + 7 * (l + 7 * 0)))))))))
    BY <1>3 DEF Septal
  <1> QED BY <1>1, <1>2, <1>4, <1>5

Sums(f, g, h) == /\ f \in [Places -> Nat] /\ g \in [Places -> Nat] /\ h \in [Places -> Nat]
                 /\ \A p \in Places : f[p] = g[p] + h[p]

\* Digits that are added without a carry add their numbers.
LEMMA DigitsSum ==
  ASSUME NEW f, NEW g, NEW h, Sums(f, g, h)
  PROVE  Septal(f) = Septal(g) + Septal(h) /\ Octal(f) = Octal(g) + Octal(h)
  <1>1. PICK a, b, c, d, e, m, n, i, j, k, l :
          /\ a = g[0] /\ b = g[1] /\ c = g[2] /\ d = g[3] /\ e = g[4] /\ m = g[5]
          /\ n = g[6] /\ i = g[7] /\ j = g[8] /\ k = g[9] /\ l = g[10]
    OBVIOUS
  <1>2. /\ a \in Nat /\ b \in Nat /\ c \in Nat /\ d \in Nat /\ e \in Nat /\ m \in Nat
        /\ n \in Nat /\ i \in Nat /\ j \in Nat /\ k \in Nat /\ l \in Nat
    BY <1>1 DEF Places, Sums
  <1>3. PICK o, p, q, r, s, t, u, v, w, x, y :
          /\ o = h[0] /\ p = h[1] /\ q = h[2] /\ r = h[3] /\ s = h[4] /\ t = h[5]
          /\ u = h[6] /\ v = h[7] /\ w = h[8] /\ x = h[9] /\ y = h[10]
    OBVIOUS
  <1>4. /\ o \in Nat /\ p \in Nat /\ q \in Nat /\ r \in Nat /\ s \in Nat /\ t \in Nat
        /\ u \in Nat /\ v \in Nat /\ w \in Nat /\ x \in Nat /\ y \in Nat
    BY <1>3 DEF Places, Sums
  <1>5. /\ f[0] = a + o /\ f[1] = b + p /\ f[2] = c + q /\ f[3] = d + r /\ f[4] = e + s
        /\ f[5] = m + t /\ f[6] = n + u /\ f[7] = i + v /\ f[8] = j + w /\ f[9] = k + x
        /\ f[10] = l + y
    <2>1. \A z \in 0..10 : f[z] = g[z] + h[z]
      BY DEF Sums, Places
    <2> QED BY <1>1, <1>3, <2>1
  <1>6. Septal(f) = Septal(g) + Septal(h)
    <2>1. Septal(g) = a + 7 * (b + 7 * (c + 7 * (d + 7 * (e + 7 * (m
                        + 7 * (n + 7 * (i + 7 * (j + 7 * (k + 7 * l)))))))))
      BY <1>1 DEF Septal
    <2>2. Septal(h) = o + 7 * (p + 7 * (q + 7 * (r + 7 * (s + 7 * (t
                        + 7 * (u + 7 * (v + 7 * (w + 7 * (x + 7 * y)))))))))
      BY <1>3 DEF Septal
    <2>3. Septal(f) = (a + o) + 7 * ((b + p) + 7 * ((c + q) + 7 * ((d + r) + 7 * ((e + s)
                        + 7 * ((m + t) + 7 * ((n + u) + 7 * ((i + v) + 7 * ((j + w)
                        + 7 * ((k + x) + 7 * (l + y))))))))))
      BY <1>5 DEF Septal
    <2> QED BY <1>2, <1>4, <2>1, <2>2, <2>3
  <1>7. Octal(f) = Octal(g) + Octal(h)
    <2>1. Octal(g) = a + 8 * (b + 8 * (c + 8 * (d + 8 * (e + 8 * (m
                       + 8 * (n + 8 * (i + 8 * (j + 8 * (k + 8 * l)))))))))
      BY <1>1 DEF Octal
    <2>2. Octal(h) = o + 8 * (p + 8 * (q + 8 * (r + 8 * (s + 8 * (t
                       + 8 * (u + 8 * (v + 8 * (w + 8 * (x + 8 * y)))))))))
      BY <1>3 DEF Octal
    <2>3. Octal(f) = (a + o) + 8 * ((b + p) + 8 * ((c + q) + 8 * ((d + r) + 8 * ((e + s)
                       + 8 * ((m + t) + 8 * ((n + u) + 8 * ((i + v) + 8 * ((j + w)
                       + 8 * ((k + x) + 8 * (l + y))))))))))
      BY <1>5 DEF Octal
    <2> QED BY <1>2, <1>4, <2>1, <2>2, <2>3
  <1> QED BY <1>6, <1>7

\* Digits of 7 make a number.
LEMMA SeptalType ==
  ASSUME NEW h \in [Places -> Nat]
  PROVE  Septal(h) \in Nat
  <1>1. PICK a, b, c, d, e, f, g, i, j, k, l :
          /\ a = h[0] /\ b = h[1] /\ c = h[2] /\ d = h[3] /\ e = h[4] /\ f = h[5]
          /\ g = h[6] /\ i = h[7] /\ j = h[8] /\ k = h[9] /\ l = h[10]
    OBVIOUS
  <1>2. /\ a \in Nat /\ b \in Nat /\ c \in Nat /\ d \in Nat /\ e \in Nat /\ f \in Nat
        /\ g \in Nat /\ i \in Nat /\ j \in Nat /\ k \in Nat /\ l \in Nat
    BY <1>1 DEF Places
  <1>3. Septal(h) = a + 7 * (b + 7 * (c + 7 * (d + 7 * (e + 7 * (f
                      + 7 * (g + 7 * (i + 7 * (j + 7 * (k + 7 * l)))))))))
    BY <1>1 DEF Septal
  <1> QED BY <1>2, <1>3

\* A digit at the first place is its number.
LEMMA AtZero ==
  ASSUME NEW d \in Nat
  PROVE  Septal(At(0, d)) = d /\ Octal(At(0, d)) = d
  <1>1. /\ At(0, d)[0] = d /\ At(0, d)[1] = 0 /\ At(0, d)[2] = 0 /\ At(0, d)[3] = 0
        /\ At(0, d)[4] = 0 /\ At(0, d)[5] = 0 /\ At(0, d)[6] = 0 /\ At(0, d)[7] = 0
        /\ At(0, d)[8] = 0 /\ At(0, d)[9] = 0 /\ At(0, d)[10] = 0
    BY DEF At, Places
  <1>2. Septal(At(0, d)) = d + 7 * (0 + 7 * (0 + 7 * (0 + 7 * (0 + 7 * (0 + 7 * (0 + 7 * (0
                             + 7 * (0 + 7 * (0 + 7 * 0)))))))))
    BY <1>1 DEF Septal
  <1>3. Octal(At(0, d)) = d + 8 * (0 + 8 * (0 + 8 * (0 + 8 * (0 + 8 * (0 + 8 * (0 + 8 * (0
                            + 8 * (0 + 8 * (0 + 8 * 0)))))))))
    BY <1>1 DEF Octal
  <1> QED BY <1>2, <1>3

\* A digit one place further up counts seven times as much.
LEMMA AtNext ==
  ASSUME NEW d \in Nat, NEW k \in 0..9
  PROVE  Septal(At(k + 1, d)) = 7 * Septal(At(k, d))
  <1>1. Shifted(At(k + 1, d), At(k, d))
    BY DEF Shifted, At, Places
  <1>2. At(k + 1, d)[0] = 0
    BY DEF At, Places
  <1>3. Septal(At(k, d)) \in Nat
    <2>1. At(k, d) \in [Places -> Nat]
      BY DEF At
    <2> QED BY <2>1, SeptalType
  <1>4. Septal(At(k + 1, d)) = At(k + 1, d)[0] + 7 * Septal(At(k, d))
    BY <1>1, SeptalShift
  <1> QED BY <1>2, <1>3, <1>4

\* The tool's table holds what a code adds to a number.
LEMMA ProductsValue ==
  ASSUME NEW index \in Places, NEW value \in 0..55
  PROVE  /\ Products(index, value) \in Words
         /\ Value(Products(index, value))
              = 2 * Word * Word * Septal(At(index, value \div 8)) + Octal(At(index, value % 8))
  <1> DEFINE Body(f) == [multiplier \in 0..index |->
                           IF multiplier = 0 THEN value \div 8 ELSE 7 * f[multiplier - 1]]
  <1>1. PICK d, o : d = value \div 8 /\ o = value % 8
    OBVIOUS
  <1>2. d \in 0..6 /\ o \in 0..7
    BY <1>1
  <1>3. \E f : f = Body(f)
    <2>1. PICK step : step = [k \in 1..index |-> [v \in Nat |-> 7 * v]]
      OBVIOUS
    <2>2. PICK D : D = Nat
      OBVIOUS
    <2>3. index \in Nat /\ d \in D /\ \A k \in 1..index : step[k] \in [D -> D]
      BY <1>2, <2>1, <2>2 DEF Places
    <2>4. \E g : Loops(g, index, D, d, step)
      BY <2>3, Looped
    <2>5. PICK g : Loops(g, index, D, d, step)
      BY <2>4
    <2>6. \A k \in 1..index : g[k] = 7 * g[k - 1]
      <3> SUFFICES ASSUME NEW k \in 1..index
                   PROVE  g[k] = 7 * g[k - 1]
        OBVIOUS
      <3>1. k - 1 \in 0..index
        BY <2>3
      <3>2. g[k] = step[k][g[k - 1]] /\ g[k - 1] \in Nat
        BY <2>2, <2>5, <3>1 DEF Loops
      <3> QED BY <2>1, <3>2
    <2>7. g[0] = d /\ g = [k \in 0..index |-> g[k]]
      BY <2>5 DEF Loops
    <2>8. \A k \in 0..index : g[k] = IF k = 0 THEN d ELSE 7 * g[k - 1]
      <3> SUFFICES ASSUME NEW k \in 0..index
                   PROVE  g[k] = IF k = 0 THEN d ELSE 7 * g[k - 1]
        OBVIOUS
      <3>1. k = 0 \/ k \in 1..index
        BY <2>3
      <3> QED BY <2>6, <2>7, <3>1
    <2>9. g = [k \in 0..index |-> IF k = 0 THEN d ELSE 7 * g[k - 1]]
      BY <2>7, <2>8
    <2>10. g = Body(g)
      BY <1>1, <2>9
    <2> QED BY <2>10
  <1>4. PICK encoded : encoded = CHOOSE f : f = Body(f)
    OBVIOUS
  <1>5. encoded = Body(encoded)
    <2> HIDE DEF Body
    <2> QED BY <1>3, <1>4
  <1>6. encoded[0] = d /\ \A k \in 1..index : encoded[k] = 7 * encoded[k - 1]
    BY <1>1, <1>5 DEF Places
  <1>7. Products(index, value) = Number(encoded[index], At(index, o))
    BY <1>1, <1>4 DEF Products, At, Places, Characters
  <1> HIDE DEF Body
  <1> DEFINE T == {k \in Nat : k <= index => encoded[k] = Septal(At(k, d))}
  <1>8. ASSUME NEW k \in Nat, \A j \in Nat : j < k => j \in T
        PROVE  k \in T
    <2>1. CASE k = 0
      BY <1>2, <1>6, <2>1, AtZero
    <2>2. CASE k # 0 /\ k <= index
      <3>1. k - 1 \in Nat /\ k - 1 < k /\ k - 1 <= index /\ k - 1 \in 0..9 /\ k \in 1..index
              /\ (k - 1) + 1 = k
        BY <2>2 DEF Places
      <3>2. encoded[k - 1] = Septal(At(k - 1, d))
        BY <1>8, <3>1
      <3>3. Septal(At((k - 1) + 1, d)) = 7 * Septal(At(k - 1, d))
        BY <1>2, <3>1, AtNext
      <3> QED BY <1>6, <3>1, <3>2, <3>3
    <2> QED BY <2>1, <2>2
  <1> HIDE DEF T
  <1>9. Nat \subseteq T
    BY <1>8, Induction
  <1>10. encoded[index] = Septal(At(index, d))
    BY <1>9 DEF T, Places
  <1>11. At(index, d) \in [Places -> 0..6] /\ At(index, o) \in [Places -> 0..7]
    BY <1>2 DEF At
  <1>12. Septal(At(index, d)) \in Nat /\ Septal(At(index, d)) < 128 * 256 * Word
    BY <1>11, SeptalBound
  <1>13. /\ Number(Septal(At(index, d)), At(index, o)) \in Words
         /\ Value(Number(Septal(At(index, d)), At(index, o)))
              = 2 * Word * Word * Septal(At(index, d)) + Octal(At(index, o))
    BY <1>11, <1>12, NumberValue
  <1> QED BY <1>1, <1>7, <1>10, <1>13

-----------------------------------------------------------------------------
(* Packing on the console. *)

\* Adding gives words, whatever is carried.
LEMMA AddType ==
  ASSUME NEW m \in Words, NEW n \in Words
  PROVE  Add(m, n) \in Words
  <1>1. PICK a \in Nat, b \in Nat, c \in Nat, d \in Nat :
          /\ m = <<a, b, c, d>> /\ a < Word /\ b < Word /\ c < Word /\ d < Word
          /\ Value(m) = a + Word * (b + Word * (c + Word * d))
    BY WordsFacts
  <1>2. PICK e \in Nat, f \in Nat, g \in Nat, h \in Nat :
          /\ n = <<e, f, g, h>> /\ e < Word /\ f < Word /\ g < Word /\ h < Word
          /\ Value(n) = e + Word * (f + Word * (g + Word * h))
    BY WordsFacts
  <1>3. PICK w \in Nat \ {0} : w = Word
    BY WordFacts
  <1>4. PICK x, y, z, v : /\ x = a + e /\ y = b + f + (x \div w) /\ z = c + g + (y \div w)
                          /\ v = d + h + (z \div w)
    OBVIOUS
  <1>5. Add(m, n) = <<x % w, y % w, z % w, v % w>>
    BY <1>1, <1>2, <1>3, <1>4 DEF Add
  <1>6. x \in Nat /\ x \div w \in Nat
    BY <1>4
  <1>7. y \in Nat /\ y \div w \in Nat
    BY <1>4, <1>6
  <1>8. z \in Nat /\ z \div w \in Nat
    BY <1>4, <1>7
  <1>9. v \in Nat
    BY <1>4, <1>8
  <1>10. x % w \in 0..w - 1 /\ y % w \in 0..w - 1 /\ z % w \in 0..w - 1 /\ v % w \in 0..w - 1
    BY <1>6, <1>7, <1>8, <1>9
  <1> QED BY <1>3, <1>5, <1>10 DEF Words

\* One place more.
LEMMA UptoNext ==
  ASSUME NEW h \in [Places -> Nat], NEW k \in Places
  PROVE  Sums(Upto(k + 1, h), Upto(k, h), At(k, h[k]))
  BY DEF Sums, Upto, At, Places

\* Eleven digits of 8 take 33 bits.
LEMMA OctalType ==
  ASSUME NEW l \in [Places -> 0..7]
  PROVE  Octal(l) \in Nat /\ Octal(l) < 2 * Word * Word
  <1>1. PICK a, b, c, d, e, f, g, i, j, k, m :
          /\ a = l[0] /\ b = l[1] /\ c = l[2] /\ d = l[3] /\ e = l[4] /\ f = l[5]
          /\ g = l[6] /\ i = l[7] /\ j = l[8] /\ k = l[9] /\ m = l[10]
    OBVIOUS
  <1>2. /\ a \in 0..7 /\ b \in 0..7 /\ c \in 0..7 /\ d \in 0..7 /\ e \in 0..7 /\ f \in 0..7
        /\ g \in 0..7 /\ i \in 0..7 /\ j \in 0..7 /\ k \in 0..7 /\ m \in 0..7
    BY <1>1 DEF Places
  <1>3. PICK n : n = g + 8 * (i + 8 * (j + 8 * (k + 8 * m)))
    OBVIOUS
  <1>4. n \in Nat /\ n < 8 * 8 * 8 * 8 * 8
    BY <1>2, <1>3
  <1>5. Octal(l) = a + 8 * (b + 8 * (c + 8 * (d + 8 * (e + 8 * (f + 8 * n)))))
    BY <1>1, <1>3 DEF Octal
  <1>6. /\ a + 8 * (b + 8 * (c + 8 * (d + 8 * (e + 8 * (f + 8 * n))))) \in Nat
        /\ a + 8 * (b + 8 * (c + 8 * (d + 8 * (e + 8 * (f + 8 * n)))))
             < 2 * (256 * 256) * (256 * 256)
    BY <1>2, <1>4
  <1> QED BY <1>5, <1>6 DEF Word

\* The part of a name's number below a place.
Part(e, k) == 2 * Word * Word * Septal(Upto(k, High(e))) + Octal(Upto(k, Low(e)))

\* The digits of codes, and of a part of them.
LEMMA HighLow ==
  ASSUME NEW e \in Codes
  PROVE  /\ High(e) \in [Places -> 0..6] /\ Low(e) \in [Places -> 0..7]
         /\ \A k \in Nat : /\ Upto(k, High(e)) \in [Places -> 0..6]
                           /\ Upto(k, Low(e)) \in [Places -> 0..7]
  <1>1. \A p \in Places : e[p] \div 8 \in 0..6 /\ e[p] % 8 \in 0..7
    BY DEF Codes
  <1> QED BY <1>1 DEF High, Low, Upto

\* Each character adds its part, and nothing is carried out of the last word.
LEMMA PartNext ==
  ASSUME NEW e \in Codes, NEW k \in Places, NEW m \in Words, Value(m) = Part(e, k)
  PROVE  Value(Add(m, Products(k, e[k]))) = Part(e, k + 1)
  <1>1. PICK c \in 0..55 : c = e[k]
    BY DEF Codes
  <1>2. PICK n, u, v, x, y, s, t :
          /\ n = Products(k, c)
          /\ u = Septal(Upto(k, High(e))) /\ v = Octal(Upto(k, Low(e)))
          /\ x = Septal(At(k, c \div 8)) /\ y = Octal(At(k, c % 8))
          /\ s = Septal(Upto(k + 1, High(e))) /\ t = Octal(Upto(k + 1, Low(e)))
    OBVIOUS
  <1>3. n \in Words /\ Value(n) = 2 * Word * Word * x + y
    BY <1>2, ProductsValue
  <1>4. s = u + x
    <2>1. High(e) \in [Places -> Nat] /\ High(e)[k] = c \div 8
      BY <1>1, HighLow DEF High
    <2>2. Sums(Upto(k + 1, High(e)), Upto(k, High(e)), At(k, c \div 8))
      BY <2>1, UptoNext
    <2> QED BY <1>2, <2>2, DigitsSum
  <1>5. t = v + y
    <2>1. Low(e) \in [Places -> Nat] /\ Low(e)[k] = c % 8
      BY <1>1, HighLow DEF Low
    <2>2. Sums(Upto(k + 1, Low(e)), Upto(k, Low(e)), At(k, c % 8))
      BY <2>1, UptoNext
    <2> QED BY <1>2, <2>2, DigitsSum
  <1>6. /\ s \in Nat /\ s < 128 * 256 * Word /\ t \in Nat /\ t < 2 * Word * Word
        /\ u \in Nat /\ v \in Nat
    <2>1. k \in Nat /\ k + 1 \in Nat
      BY DEF Places
    <2> QED BY <1>2, <2>1, HighLow, SeptalBound, OctalType
  <1>7. x \in Nat /\ y \in Nat
    <2>1. c \div 8 \in 0..6 /\ c % 8 \in 0..7
      OBVIOUS
    <2>2. At(k, c \div 8) \in [Places -> 0..6] /\ At(k, c % 8) \in [Places -> 0..7]
      BY <2>1 DEF At
    <2> QED BY <1>2, <2>2, SeptalBound, OctalType
  <1>8. PICK w \in Nat \ {0} : w = Word
    BY WordFacts
  <1>9. 2 * w * w * s + t = (2 * w * w * u + v) + (2 * w * w * x + y)
    BY <1>4, <1>5, <1>6, <1>7
  <1>10. Value(m) + Value(n) = 2 * w * w * s + t
    BY <1>2, <1>3, <1>8, <1>9 DEF Part
  <1>11. Fit(m, n)
    <2>1. s + 1 <= 128 * 256 * w /\ 2 * (128 * 256) = w
      BY <1>6, <1>8 DEF Word
    <2>2. 2 * w * w * s + t < 2 * w * w * (s + 1)
      <3>1. 2 * w * w * (s + 1) = 2 * w * w * s + 2 * w * w /\ 2 * w * w * s \in Nat
        BY <1>6
      <3> QED BY <1>6, <1>8, <3>1
    <2>3. PICK h \in Nat : h = 128 * 256 /\ w = 2 * h
      BY <2>1
    <2>4. 2 * w * w * (s + 1) <= w * w * w * w
      <3>1. PICK d \in Nat : h * w = (s + 1) + d
        <4>1. h * w - (s + 1) \in Nat /\ h * w = (s + 1) + (h * w - (s + 1))
          BY <1>6, <2>1, <2>3
        <4> QED BY <4>1
      <3>2. w * w * w * w = 2 * w * w * (h * w)
        <4>1. w * w * w * w = (2 * h) * w * w * w
          BY <2>3
        <4>2. (2 * h) * w * w * w = 2 * w * w * (h * w)
          OBVIOUS
        <4> QED BY <4>1, <4>2
      <3>3. 2 * w * w * ((s + 1) + d) = 2 * w * w * (s + 1) + 2 * w * w * d /\ 2 * w * w * d \in Nat
        BY <1>6
      <3> QED BY <1>6, <3>1, <3>2, <3>3
    <2>5. 2 * w * w * s + t < w * w * w * w
      <3>1. 2 * w * w * s + t \in Nat /\ 2 * w * w * (s + 1) \in Nat /\ w * w * w * w \in Nat
        BY <1>6
      <3> QED BY <2>2, <2>4, <3>1
    <2> QED BY <1>8, <1>10, <2>5 DEF Fit
  <1>12. Value(Add(m, n)) = Value(m) + Value(n)
    BY <1>3, <1>11, AddValue
  <1> QED BY <1>1, <1>2, <1>8, <1>10, <1>12 DEF Part

\* What Part is in the end.
LEMMA PartAll ==
  ASSUME NEW e \in Codes
  PROVE  /\ Part(e, 0) = 0
         /\ Part(e, 11) = 2 * Word * Word * Septal(High(e)) + Octal(Low(e))
  <1>1. Upto(0, High(e)) = At(0, 0) /\ Upto(0, Low(e)) = At(0, 0)
    BY DEF Upto, At, Places
  <1>2. Upto(11, High(e)) = High(e) /\ Upto(11, Low(e)) = Low(e)
    BY HighLow DEF Upto, Places
  <1>3. 2 * Word * Word * 0 + 0 = 0
    BY WordFacts
  <1>4. Septal(At(0, 0)) = 0 /\ Octal(At(0, 0)) = 0
    BY AtZero
  <1>5. Part(e, 0) = 2 * Word * Word * Septal(Upto(0, High(e))) + Octal(Upto(0, Low(e)))
    BY DEF Part
  <1>6. Part(e, 0) = 0
    BY <1>1, <1>3, <1>4, <1>5
  <1> QED BY <1>2, <1>6 DEF Part

\* The console packs a name into the number of its codes.
LEMMA EncodeValue ==
  ASSUME NEW input, NEW e \in Codes, \A p \in Places : EncodeCharacter(input[10 - p]) = e[p]
  PROVE  Coded(Encode(input), e)
  <1> DEFINE Plain(f) == [y \in 0..Characters |->
                            IF y = 0 THEN Zero
                            ELSE Add(f[y - 1],
                                     Products(y - 1, EncodeCharacter(input[Characters - y])))]
             Body(f) == [y \in 0..Characters |->
                           IF y = 0 THEN Zero
                           ELSE LET add(sum) ==
                                      Add(sum, Products(y - 1, EncodeCharacter(input[Characters - y])))
                                IN  Once(add, f[y - 1])]
  <1>1. \A k \in 1..11 : k - 1 \in Places /\ EncodeCharacter(input[11 - k]) = e[k - 1]
                           /\ e[k - 1] \in 0..55
    <2> SUFFICES ASSUME NEW k \in 1..11
                 PROVE  k - 1 \in Places /\ EncodeCharacter(input[11 - k]) = e[k - 1]
                           /\ e[k - 1] \in 0..55
      OBVIOUS
    <2>1. k - 1 \in Places /\ 10 - (k - 1) = 11 - k
      BY DEF Places
    <2>2. EncodeCharacter(input[10 - (k - 1)]) = e[k - 1]
      BY <2>1
    <2> QED BY <2>1, <2>2 DEF Codes
  <1>2. Zero \in Words /\ Value(Zero) = 0
    <2>1. 0 \in 0..Word - 1
      BY WordFacts
    <2>2. 0 + Word * (0 + Word * (0 + Word * 0)) = 0
      BY WordFacts
    <2> QED BY <2>1, <2>2 DEF Words, Value, Zero
  <1>3. \E f : f = Plain(f)
    <2>1. PICK step : step = [k \in 1..11 |-> [m \in Words |-> Add(m, Products(k - 1, e[k - 1]))]]
      OBVIOUS
    <2>2. \A k \in 1..11 : step[k] \in [Words -> Words]
      <3> SUFFICES ASSUME NEW k \in 1..11, NEW m \in Words
                   PROVE  Add(m, Products(k - 1, e[k - 1])) \in Words
        BY <2>1
      <3>1. Products(k - 1, e[k - 1]) \in Words
        BY <1>1, ProductsValue
      <3> QED BY <3>1, AddType
    <2>3. PICK g : Loops(g, 11, Words, Zero, step)
      BY <1>2, <2>2, Looped
    <2>4. g[0] = Zero /\ g = [k \in 0..11 |-> g[k]]
      BY <2>3 DEF Loops
    <2>5. \A k \in 1..11 : g[k] = Add(g[k - 1], Products(k - 1, EncodeCharacter(input[11 - k])))
      <3> SUFFICES ASSUME NEW k \in 1..11
                   PROVE  g[k] = Add(g[k - 1], Products(k - 1, EncodeCharacter(input[11 - k])))
        OBVIOUS
      <3>1. k - 1 \in 0..11
        OBVIOUS
      <3>2. g[k] = step[k][g[k - 1]] /\ g[k - 1] \in Words
        BY <2>3, <3>1 DEF Loops
      <3> QED BY <1>1, <2>1, <3>2
    <2>6. \A k \in 0..11 : g[k] = IF k = 0 THEN Zero
                             ELSE Add(g[k - 1], Products(k - 1, EncodeCharacter(input[11 - k])))
      <3> SUFFICES ASSUME NEW k \in 0..11
                   PROVE  g[k] = IF k = 0 THEN Zero
                             ELSE Add(g[k - 1], Products(k - 1, EncodeCharacter(input[11 - k])))
        OBVIOUS
      <3>1. k = 0 \/ k \in 1..11
        OBVIOUS
      <3> QED BY <2>4, <2>5, <3>1
    <2>7. g = [k \in 0..11 |-> IF k = 0 THEN Zero
                     ELSE Add(g[k - 1], Products(k - 1, EncodeCharacter(input[11 - k])))]
      BY <2>4, <2>6, Zenon
    <2> QED BY <2>7 DEF Characters
  <1>4. \A f : Body(f) = Plain(f)
    BY DEF Once
  <1>5. PICK output : output = CHOOSE f : f = Body(f)
    OBVIOUS
  <1>6. output = Plain(output)
    <2> HIDE DEF Body, Plain
    <2> QED BY <1>3, <1>4, <1>5
  <1>7. Encode(input) = output[11]
    BY <1>5 DEF Encode, Characters
  <1>8. output[0] = Zero
    BY <1>6 DEF Characters
  <1>9. \A k \in Places : output[k + 1] = Add(output[k], Products(k, e[k]))
    <2> SUFFICES ASSUME NEW k \in Places
                 PROVE  output[k + 1] = Add(output[k], Products(k, e[k]))
      OBVIOUS
    <2>1. k + 1 \in 0..11 /\ k + 1 # 0 /\ (k + 1) - 1 = k /\ k + 1 \in 1..11
      BY DEF Places
    <2>2. output[k + 1] = Add(output[(k + 1) - 1],
                              Products((k + 1) - 1, EncodeCharacter(input[11 - (k + 1)])))
      BY <1>6, <2>1 DEF Characters
    <2>3. EncodeCharacter(input[11 - (k + 1)]) = e[(k + 1) - 1]
      BY <1>1, <2>1
    <2> QED BY <2>1, <2>2, <2>3
  <1> HIDE DEF Body, Plain
  <1> DEFINE T == {k \in Nat : k <= 11 => output[k] \in Words /\ Value(output[k]) = Part(e, k)}
  <1>10. ASSUME NEW k \in Nat, \A j \in Nat : j < k => j \in T
         PROVE  k \in T
    <2>1. CASE k = 0
      BY <1>2, <1>8, <2>1, PartAll
    <2>2. CASE k # 0 /\ k <= 11
      <3>1. PICK j \in Places : k = j + 1 /\ j < k /\ j \in Nat /\ j <= 11
        <4>1. k - 1 \in Places /\ k = (k - 1) + 1 /\ k - 1 < k /\ k - 1 \in Nat /\ k - 1 <= 11
          BY <2>2 DEF Places
        <4> QED BY <4>1
      <3>2. output[j] \in Words /\ Value(output[j]) = Part(e, j)
        BY <1>10, <3>1
      <3>3. Value(Add(output[j], Products(j, e[j]))) = Part(e, j + 1)
        BY <3>2, PartNext
      <3>4. Products(j, e[j]) \in Words
        <4>1. e[j] \in 0..55
          BY DEF Codes
        <4> QED BY <4>1, ProductsValue
      <3>5. Add(output[j], Products(j, e[j])) \in Words
        BY <3>2, <3>4, AddType
      <3> QED BY <1>9, <3>1, <3>3, <3>5
    <2> QED BY <2>1, <2>2
  <1> HIDE DEF T
  <1>11. Nat \subseteq T
    BY <1>10, Induction
  <1>12. output[11] \in Words /\ Value(output[11]) = Part(e, 11)
    BY <1>11 DEF T
  <1> QED BY <1>7, <1>12, PartAll DEF Coded

-----------------------------------------------------------------------------
(* Packing by the tool. *)

\* The digits from a place on.
From(h, y) == [p \in Places |-> IF p + y <= 10 THEN h[p + y] ELSE 0]

\* From a place on, a digit and the rest.
LEMMA FromFacts ==
  ASSUME NEW h \in [Places -> 0..6]
  PROVE  /\ \A y \in 0..11 : From(h, y) \in [Places -> 0..6] /\ Septal(From(h, y)) \in Nat
         /\ Septal(From(h, 11)) = 0 /\ From(h, 0) = h
         /\ \A y \in Places : Septal(From(h, y)) = h[y] + 7 * Septal(From(h, y + 1))
  <1>1. \A y \in 0..11 : From(h, y) \in [Places -> 0..6]
    BY DEF From, Places
  <1>2. \A y \in 0..11 : Septal(From(h, y)) \in Nat
    BY <1>1, SeptalBound
  <1>3. Septal(From(h, 11)) = 0
    <2>1. From(h, 11) = At(0, 0)
      BY DEF From, At, Places
    <2> QED BY <2>1, AtZero
  <1>4. From(h, 0) = h
    BY DEF From, Places
  <1>5. ASSUME NEW y \in Places
        PROVE  Septal(From(h, y)) = h[y] + 7 * Septal(From(h, y + 1))
    <2>1. y \in 0..11 /\ y + 1 \in 0..11 /\ y \in Nat
      BY DEF Places
    <2>2. \A p \in 0..9 : From(h, y)[p + 1] = From(h, y + 1)[p]
      BY <2>1 DEF From, Places
    <2>3. From(h, y + 1)[10] = 0 /\ From(h, y)[0] = h[y]
      BY <2>1 DEF From, Places
    <2>4. From(h, y) \in [Places -> Nat] /\ From(h, y + 1) \in [Places -> Nat]
      BY <1>1, <2>1
    <2>5. Shifted(From(h, y), From(h, y + 1))
      BY <2>2, <2>3, <2>4 DEF Shifted
    <2> QED BY <2>3, <2>5, SeptalShift
  <1> QED BY <1>1, <1>2, <1>3, <1>4, <1>5

\* The tool packs a name into the number of its codes.
ToolCodes(text) ==
  [p \in Places |-> IF 10 - p < Len(text) THEN ToolCode(text[10 - p + 1]) ELSE 55]

\* They are codes.
LEMMA ToolCodesType ==
  ASSUME NEW text, \A i \in 1..Len(text) : ToolCode(text[i]) \in 0..55, Len(text) \in Nat
  PROVE  ToolCodes(text) \in Codes
  <1>1. ASSUME NEW p \in Places
        PROVE  (IF 10 - p < Len(text) THEN ToolCode(text[10 - p + 1]) ELSE 55) \in 0..55
    <2>1. PICK n \in Nat : n = Len(text)
      OBVIOUS
    <2>2. p \in Nat /\ p <= 10
      BY DEF Places
    <2>3. 10 - p < n => 10 - p + 1 \in 1..n
      BY <2>2
    <2>4. 10 - p < Len(text) => ToolCode(text[10 - p + 1]) \in 0..55
      BY <2>1, <2>3
    <2>5. 55 \in 0..55
      OBVIOUS
    <2> QED BY <2>4, <2>5
  <1> QED BY <1>1 DEF ToolCodes, Codes

\* The tool multiplies by 7 and ors by 8.
LEMMA ToolValue ==
  ASSUME NEW text, ToolCodes(text) \in Codes
  PROVE  Coded(ToolEncode(text), ToolCodes(text))
  <1> DEFINE code(offset) == IF offset < Len(text) THEN ToolCode(text[offset + 1]) ELSE 55
             Body(f) == [offset \in 0..Characters - 1 |->
                           code(offset) \div 8 + (IF offset = 0 THEN 0 ELSE 7 * f[offset - 1])]
  <1>1. PICK e \in Codes : e = ToolCodes(text)
    OBVIOUS
  <1>2. PICK h \in [Places -> 0..6] : h = High(e)
    BY HighLow
  <1>3. \A k \in 0..10 : code(k) = e[10 - k] /\ code(k) \div 8 = h[10 - k] /\ h[10 - k] \in Nat
    <2> SUFFICES ASSUME NEW k \in 0..10
                 PROVE  code(k) = e[10 - k] /\ code(k) \div 8 = h[10 - k] /\ h[10 - k] \in Nat
      OBVIOUS
    <2>1. 10 - k \in Places /\ 10 - (10 - k) = k
      BY DEF Places
    <2>2. e[10 - k] = code(k)
      BY <1>1, <2>1 DEF ToolCodes
    <2>3. h[10 - k] = e[10 - k] \div 8
      BY <1>2, <2>1 DEF High
    <2>4. h[10 - k] \in 0..6
      BY <2>1
    <2> QED BY <2>2, <2>3, <2>4
  <1> HIDE DEF code
  <1>4. \E f : f = Body(f)
    <2>1. PICK step : step = [k \in 1..10 |-> [v \in Nat |-> code(k) \div 8 + 7 * v]]
      OBVIOUS
    <2>2. \A k \in 1..10 : step[k] \in [Nat -> Nat]
      <3> SUFFICES ASSUME NEW k \in 1..10, NEW v \in Nat
                   PROVE  code(k) \div 8 + 7 * v \in Nat
        BY <2>1
      <3>1. code(k) \div 8 \in Nat
        BY <1>3
      <3> QED BY <3>1
    <2>3. code(0) \div 8 \in Nat
      BY <1>3
    <2>4. PICK g : Loops(g, 10, Nat, code(0) \div 8, step)
      <3>1. PICK D, start : D = Nat /\ start = code(0) \div 8
        OBVIOUS
      <3>2. start \in D /\ \A k \in 1..10 : step[k] \in [D -> D]
        BY <2>2, <2>3, <3>1
      <3>3. \E g : Loops(g, 10, D, start, step)
        BY <3>2, Looped
      <3> QED BY <3>1, <3>3
    <2>5. g[0] = code(0) \div 8 /\ g = [k \in 0..10 |-> g[k]]
      BY <2>4 DEF Loops
    <2>6. \A k \in 1..10 : g[k] = code(k) \div 8 + 7 * g[k - 1]
      <3> SUFFICES ASSUME NEW k \in 1..10
                   PROVE  g[k] = code(k) \div 8 + 7 * g[k - 1]
        OBVIOUS
      <3>1. k - 1 \in 0..10
        OBVIOUS
      <3>2. g[k] = step[k][g[k - 1]] /\ g[k - 1] \in Nat
        BY <2>4, <3>1 DEF Loops
      <3> QED BY <2>1, <3>2
    <2>7. \A k \in 0..10 : g[k] = code(k) \div 8 + (IF k = 0 THEN 0 ELSE 7 * g[k - 1])
      <3> SUFFICES ASSUME NEW k \in 0..10
                   PROVE  g[k] = code(k) \div 8 + (IF k = 0 THEN 0 ELSE 7 * g[k - 1])
        OBVIOUS
      <3>1. CASE k = 0
        <4>1. (code(0) \div 8) + 0 = code(0) \div 8
          BY <2>3
        <4> QED BY <2>5, <3>1, <4>1
      <3>2. CASE k \in 1..10
        BY <2>6, <3>2
      <3> QED BY <3>1, <3>2
    <2>8. g = [k \in 0..10 |-> code(k) \div 8 + (IF k = 0 THEN 0 ELSE 7 * g[k - 1])]
      BY <2>5, <2>7, Zenon
    <2>9. 0..Characters - 1 = 0..10
      BY DEF Characters
    <2> QED BY <2>8, <2>9
  <1>5. PICK mul : mul = CHOOSE f : f = Body(f)
    OBVIOUS
  <1>6. mul = Body(mul)
    <2> HIDE DEF Body
    <2> QED BY <1>4, <1>5
  <1>7. 0..Characters - 1 = 0..10 /\ Characters - 1 = 10
    BY DEF Characters
  <1>8. \A k \in 0..10 : mul[k] = code(k) \div 8 + (IF k = 0 THEN 0 ELSE 7 * mul[k - 1])
    BY <1>6, <1>7
  <1>9. ToolEncode(text) = Number(mul[10], Low(e))
    <2>1. ToolEncode(text) = Number(mul[Characters - 1],
             [p \in 0..Characters - 1 |-> code(Characters - 1 - p) % 8])
      BY <1>5 DEF ToolEncode, code
    <2>2. \A p \in 0..10 : code(10 - p) % 8 = e[p] % 8
      <3> SUFFICES ASSUME NEW p \in 0..10
                   PROVE  code(10 - p) % 8 = e[p] % 8
        OBVIOUS
      <3>1. 10 - p \in 0..10 /\ 10 - (10 - p) = p
        OBVIOUS
      <3> QED BY <1>3, <3>1
    <2>3. [p \in 0..10 |-> code(10 - p) % 8] = Low(e)
      BY <2>2 DEF Low, Places
    <2> QED BY <1>7, <2>1, <2>3
  <1> HIDE DEF Body
  <1> DEFINE T == {k \in Nat : k <= 10 => mul[k] = Septal(From(h, 10 - k))}
  <1>10. ASSUME NEW k \in Nat, \A j \in Nat : j < k => j \in T
         PROVE  k \in T
    <2>1. CASE k = 0
      <3>1. mul[0] = h[10]
        <4>1. h[10] + 0 = h[10] /\ 10 - 0 = 10
          BY <1>3
        <4> QED BY <1>3, <1>8, <4>1
      <3>2. Septal(From(h, 10)) = h[10] + 7 * Septal(From(h, 11))
        <4>1. 10 \in Places /\ 10 + 1 = 11
          BY DEF Places
        <4> QED BY <4>1, FromFacts
      <3>3. Septal(From(h, 11)) = 0
        BY FromFacts
      <3>4. h[10] \in Nat
        BY <1>3
      <3>5. Septal(From(h, 10)) = h[10]
        BY <3>2, <3>3, <3>4
      <3> QED BY <2>1, <3>1, <3>5
    <2>2. CASE k # 0 /\ k <= 10
      <3>1. k - 1 \in Nat /\ k - 1 < k /\ k - 1 <= 10 /\ k \in 0..10
             /\ 10 - k \in Places /\ (10 - k) + 1 = 10 - (k - 1)
        BY <2>2 DEF Places
      <3>2. mul[k - 1] = Septal(From(h, 10 - (k - 1)))
        BY <1>10, <3>1
      <3>3. mul[k] = h[10 - k] + 7 * mul[k - 1]
        BY <1>3, <1>8, <2>2, <3>1
      <3>4. Septal(From(h, 10 - k)) = h[10 - k] + 7 * Septal(From(h, (10 - k) + 1))
        BY <3>1, FromFacts
      <3> QED BY <3>1, <3>2, <3>3, <3>4
    <2> QED BY <2>1, <2>2
  <1> HIDE DEF T
  <1>11. Nat \subseteq T
    BY <1>10, Induction
  <1>12. mul[10] = Septal(h)
    <2>1. mul[10] = Septal(From(h, 10 - 10)) /\ 10 - 10 = 0
      BY <1>11 DEF T
    <2> QED BY <2>1, FromFacts
  <1>13. Septal(h) \in Nat /\ Septal(h) < 128 * 256 * Word
    BY SeptalBound
  <1>14. Low(e) \in [Places -> 0..7]
    BY HighLow
  <1>15. /\ Number(Septal(h), Low(e)) \in Words
         /\ Value(Number(Septal(h), Low(e))) = 2 * Word * Word * Septal(h) + Octal(Low(e))
    BY <1>13, <1>14, NumberValue
  <1> QED BY <1>1, <1>2, <1>9, <1>12, <1>15 DEF Coded

-----------------------------------------------------------------------------
(* Unpacking. *)

\* A name's number is the one made of its codes.
LEMMA CodedNumber ==
  ASSUME NEW n, NEW e \in Codes, Coded(n, e)
  PROVE  n = Number(Septal(High(e)), Low(e))
  <1>1. Septal(High(e)) \in Nat /\ Septal(High(e)) < 128 * 256 * Word
    BY HighLow, SeptalBound
  <1>2. PICK u \in Nat : u = Septal(High(e)) /\ u < 128 * 256 * Word
    BY <1>1
  <1>3. PICK l \in [Places -> 0..7] : l = Low(e)
    BY HighLow
  <1>4. Number(u, l) \in Words /\ Value(Number(u, l)) = 2 * Word * Word * u + Octal(l)
    BY <1>2, NumberValue
  <1>5. n \in Words /\ Value(n) = Value(Number(u, l))
    BY <1>2, <1>3, <1>4 DEF Coded
  <1>6. n = Number(u, l)
    BY <1>4, <1>5, ValueUnique
  <1> QED BY <1>2, <1>3, <1>6

\* The eight bytes of four words.
LEMMA Bytes ==
  ASSUME NEW n \in Words
  PROVE  \E b \in [0..7 -> 0..255] :
           /\ \A k \in 0..7 : Byte(n, k) = b[k]
           /\ n[1] = b[0] + 256 * b[1] /\ n[2] = b[2] + 256 * b[3]
           /\ n[3] = b[4] + 256 * b[5] /\ n[4] = b[6] + 256 * b[7]
  <1>1. n[1] \in 0..Word - 1 /\ n[2] \in 0..Word - 1 /\ n[3] \in 0..Word - 1 /\ n[4] \in 0..Word - 1
    BY DEF Words
  <1>2. \A k \in 0..Word - 1 : k \in Nat /\ k < 256 * 256
    BY DEF Word
  <1>3. ASSUME NEW k \in 0..Word - 1, NEW x, NEW y, x = (k \div 1) % 256, y = (k \div 256) % 256
        PROVE  x \in 0..255 /\ y \in 0..255 /\ k = x + 256 * y
    <2>1. k \in Nat /\ k < 256 * 256
      BY <1>2
    <2>2. k \div 1 = k
      BY <2>1
    <2>3. (k \div 256) % 256 = k \div 256 /\ k \div 256 \in 0..255
      BY <2>1
    <2> QED BY <1>3, <2>1, <2>2, <2>3
  <1>4. PICK b : b = [k \in 0..7 |-> Byte(n, k)]
    OBVIOUS
  <1>5. /\ b[0] = (n[1] \div 1) % 256 /\ b[1] = (n[1] \div 256) % 256
        /\ b[2] = (n[2] \div 1) % 256 /\ b[3] = (n[2] \div 256) % 256
        /\ b[4] = (n[3] \div 1) % 256 /\ b[5] = (n[3] \div 256) % 256
        /\ b[6] = (n[4] \div 1) % 256 /\ b[7] = (n[4] \div 256) % 256
    BY <1>4 DEF Byte
  <1>6. b[0] \in 0..255 /\ b[1] \in 0..255 /\ n[1] = b[0] + 256 * b[1]
    BY <1>1, <1>3, <1>5
  <1>7. b[2] \in 0..255 /\ b[3] \in 0..255 /\ n[2] = b[2] + 256 * b[3]
    BY <1>1, <1>3, <1>5
  <1>8. b[4] \in 0..255 /\ b[5] \in 0..255 /\ n[3] = b[4] + 256 * b[5]
    BY <1>1, <1>3, <1>5
  <1>9. b[6] \in 0..255 /\ b[7] \in 0..255 /\ n[4] = b[6] + 256 * b[7]
    BY <1>1, <1>3, <1>5
  <1>10. b \in [0..7 -> 0..255]
    <2>1. \A k \in 0..7 : b[k] \in 0..255
      BY <1>6, <1>7, <1>8, <1>9
    <2> QED BY <1>4, <2>1
  <1> QED BY <1>4, <1>6, <1>7, <1>8, <1>9, <1>10

\* Four bytes and what they stand for.
Quads == [1..4 -> 0..255]
Stands(m) == m[1] + 256 * (m[2] + 256 * (m[3] + 256 * m[4]))

\* One division by 7.
LEMMA DivideValue ==
  ASSUME NEW m \in Quads
  PROVE  /\ Divide(m).quotient \in Quads /\ Divide(m).remainder \in 0..6
         /\ Stands(m) \in Nat /\ Stands(Divide(m).quotient) \in Nat
         /\ Stands(m) = Divide(m).remainder + 7 * Stands(Divide(m).quotient)
  <1>1. PICK a, b, c, d : a = m[1] /\ b = m[2] /\ c = m[3] /\ d = m[4]
    OBVIOUS
  <1>2. a \in 0..255 /\ b \in 0..255 /\ c \in 0..255 /\ d \in 0..255
    BY <1>1 DEF Quads
  <1>3. PICK i, j, k : /\ i = 256 * (d % 7) + c /\ j = 256 * (i % 7) + b
                       /\ k = 256 * (j % 7) + a
    OBVIOUS
  <1>4. /\ Divide(m).quotient = <<k \div 7, j \div 7, i \div 7, d \div 7>>
        /\ Divide(m).remainder = k % 7
    BY <1>1, <1>3 DEF Divide
  <1>5. PICK o, p, q, r, s, t, u, v :
          /\ o = d \div 7 /\ p = d % 7 /\ q = i \div 7 /\ r = i % 7
          /\ s = j \div 7 /\ t = j % 7 /\ u = k \div 7 /\ v = k % 7
    OBVIOUS
  <1>6. o \in 0..255 /\ p \in 0..6 /\ d = 7 * o + p
    BY <1>2, <1>5
  <1>7. q \in 0..255 /\ r \in 0..6 /\ 256 * p + c = 7 * q + r
    <2>1. i = 256 * p + c /\ i \in 0..1791
      BY <1>2, <1>3, <1>5, <1>6
    <2>2. i \div 7 \in 0..255 /\ i % 7 \in 0..6 /\ i = 7 * (i \div 7) + (i % 7)
      BY <2>1
    <2> QED BY <1>5, <2>1, <2>2
  <1>8. s \in 0..255 /\ t \in 0..6 /\ 256 * r + b = 7 * s + t
    <2>1. j = 256 * r + b /\ j \in 0..1791
      BY <1>2, <1>3, <1>5, <1>7
    <2>2. j \div 7 \in 0..255 /\ j % 7 \in 0..6 /\ j = 7 * (j \div 7) + (j % 7)
      BY <2>1
    <2> QED BY <1>5, <2>1, <2>2
  <1>9. u \in 0..255 /\ v \in 0..6 /\ 256 * t + a = 7 * u + v
    <2>1. k = 256 * t + a /\ k \in 0..1791
      BY <1>2, <1>3, <1>5, <1>8
    <2>2. k \div 7 \in 0..255 /\ k % 7 \in 0..6 /\ k = 7 * (k \div 7) + (k % 7)
      BY <2>1
    <2> QED BY <1>5, <2>1, <2>2
  <1>10. Divide(m).quotient = <<u, s, q, o>> /\ Divide(m).remainder = v
    BY <1>4, <1>5
  <1>11. Divide(m).quotient \in Quads
    BY <1>6, <1>7, <1>8, <1>9, <1>10 DEF Quads
  <1>12. Stands(m) = a + 256 * (b + 256 * (c + 256 * d))
    BY <1>1 DEF Stands
  <1>13. Stands(Divide(m).quotient) = u + 256 * (s + 256 * (q + 256 * o))
    BY <1>10 DEF Stands
  <1>14. /\ a + 256 * (b + 256 * (c + 256 * d)) = v + 7 * (u + 256 * (s + 256 * (q + 256 * o)))
         /\ a + 256 * (b + 256 * (c + 256 * d)) \in Nat
         /\ u + 256 * (s + 256 * (q + 256 * o)) \in Nat
    BY <1>2, <1>6, <1>7, <1>8, <1>9
  <1> QED BY <1>9, <1>10, <1>11, <1>12, <1>13, <1>14

\* The multiplier is the upper part of the number.
LEMMA MultiplierValue ==
  ASSUME NEW u \in Nat, u < 128 * 256 * Word, NEW l \in [Places -> 0..7]
  PROVE  Multiplier(Number(u, l)) \in Quads /\ Stands(Multiplier(Number(u, l))) = u
  <1>1. PICK n \in Words : n = Number(u, l)
    BY NumberValue
  <1>2. PICK b \in [0..7 -> 0..255] :
          /\ \A k \in 0..7 : Byte(n, k) = b[k]
          /\ n[1] = b[0] + 256 * b[1] /\ n[2] = b[2] + 256 * b[3]
          /\ n[3] = b[4] + 256 * b[5] /\ n[4] = b[6] + 256 * b[7]
    BY Bytes
  <1>3. PICK c, d, e, f : c = b[4] /\ d = b[5] /\ e = b[6] /\ f = b[7]
    OBVIOUS
  <1>4. c \in 0..255 /\ d \in 0..255 /\ e \in 0..255 /\ f \in 0..255
    BY <1>3
  <1>5. PICK half \in Nat \ {0} : half = 128 * 256 /\ half = Word \div 2
    <2>1. Word \div 2 = 128 * 256
      BY DEF Word
    <2> QED BY <2>1
  <1>6. PICK t, v, s : /\ half = 128 * 256 /\ half = Word \div 2
                       /\ t = u % half /\ v = u \div half /\ s = l[10] \div 4
    BY <1>5
  <1>7. t \in Nat /\ t < 128 * 256 /\ v \in Nat /\ u = 128 * 256 * v + t /\ s \in 0..1
    <2>1. l[10] \in 0..7
      BY DEF Places
    <2>2. s \in 0..1
      BY <1>6, <2>1
    <2>3. t \in Nat /\ t < half /\ v \in Nat /\ u = half * v + t
      BY <1>6, BaseFacts
    <2> QED BY <1>6, <2>2, <2>3
  <1>8. v < Word
    <2>1. t + (128 * 256) * v < (128 * 256) * Word
      BY <1>7, WordFacts
    <2>2. 128 * 256 \in Nat \ {0}
      OBVIOUS
    <2> QED BY <1>7, <2>1, <2>2, BaseLess, WordFacts
  <1>9. c + 256 * d = s + 2 * t /\ e + 256 * f = v
    <2>1. n[3] = s + 2 * t /\ n[4] = v % Word
      BY <1>1, <1>6 DEF Number
    <2>2. v % Word = v
      BY <1>7, <1>8, BaseFacts, WordFacts
    <2> QED BY <1>3, <1>2, <2>1, <2>2
  <1>10. PICK g, h, i, j, x, y, z : /\ g = c \div 2 /\ h = d \div 2 /\ i = e \div 2 /\ j = f \div 2
                                    /\ x = d % 2 /\ y = e % 2 /\ z = f % 2
    OBVIOUS
  <1>11. /\ g \in 0..127 /\ h \in 0..127 /\ i \in 0..127 /\ j \in 0..127
        /\ x \in 0..1 /\ y \in 0..1 /\ z \in 0..1
        /\ d = 2 * h + x /\ e = 2 * i + y /\ f = 2 * j + z
    BY <1>4, <1>10
  <1>12. Multiplier(n) = <<g + 128 * x, h + 128 * y, i + 128 * z, j + 0>>
    <2>1. Byte(n, 4) = c /\ Byte(n, 5) = d /\ Byte(n, 6) = e /\ Byte(n, 7) = f
      BY <1>3, <1>2
    <2>2. Byte(n, 4 + 1) = d /\ Byte(n, 5 + 1) = e /\ Byte(n, 6 + 1) = f
      BY <2>1
    <2> QED BY <1>10, <2>1, <2>2 DEF Multiplier
  <1>13. Multiplier(n) \in Quads
    BY <1>11, <1>12 DEF Quads
  <1>14. Stands(Multiplier(n))
           = (g + 128 * x) + 256 * ((h + 128 * y) + 256 * ((i + 128 * z) + 256 * j))
    BY <1>11, <1>12 DEF Stands
  <1>15. c = 2 * g + s
    <2>1. c = 2 * g + (c % 2) /\ c % 2 \in 0..1
      BY <1>4, <1>10
    <2> QED BY <1>4, <1>7, <1>9, <1>11, <2>1
  <1>16. (g + 128 * x) + 256 * ((h + 128 * y) + 256 * ((i + 128 * z) + 256 * j)) = 128 * 256 * v + t
    BY <1>7, <1>9, <1>11, <1>15
  <1> QED BY <1>1, <1>7, <1>13, <1>14, <1>16

\* The low bits of the codes, in the order of the characters.
LEMMA LowBitsValue ==
  ASSUME NEW u \in Nat, u < 128 * 256 * Word, NEW l \in [Places -> 0..7]
  PROVE  LowBits(Number(u, l)) = [i \in 1..11 |-> l[11 - i]]
  <1>1. PICK n \in Words : n = Number(u, l)
    BY NumberValue
  <1>2. PICK b \in [0..7 -> 0..255] :
          /\ \A k \in 0..7 : Byte(n, k) = b[k]
          /\ n[1] = b[0] + 256 * b[1] /\ n[2] = b[2] + 256 * b[3]
          /\ n[3] = b[4] + 256 * b[5] /\ n[4] = b[6] + 256 * b[7]
    BY Bytes
  <1>3. PICK a, c, d, e, f, g, h, i, j, k, m :
          /\ a = l[0] /\ c = l[1] /\ d = l[2] /\ e = l[3] /\ f = l[4] /\ g = l[5]
          /\ h = l[6] /\ i = l[7] /\ j = l[8] /\ k = l[9] /\ m = l[10]
    OBVIOUS
  <1>4. /\ a \in 0..7 /\ c \in 0..7 /\ d \in 0..7 /\ e \in 0..7 /\ f \in 0..7 /\ g \in 0..7
        /\ h \in 0..7 /\ i \in 0..7 /\ j \in 0..7 /\ k \in 0..7 /\ m \in 0..7
    BY <1>3 DEF Places
  <1>5. PICK o, p, q, r, s : o = b[0] /\ p = b[1] /\ q = b[2] /\ r = b[3] /\ s = b[4]
    OBVIOUS
  <1>6. o \in 0..255 /\ p \in 0..255 /\ q \in 0..255 /\ r \in 0..255 /\ s \in 0..255
    BY <1>5
  <1>7. PICK t, v, w, x, y, z : /\ t = d % 4 /\ v = d \div 4 /\ w = g % 2 /\ x = g \div 2
                                /\ y = j % 2 /\ z = j \div 2
    OBVIOUS
  <1>8. /\ t \in 0..3 /\ v \in 0..1 /\ d = t + 4 * v
        /\ w \in 0..1 /\ x \in 0..3 /\ g = w + 2 * x
        /\ y \in 0..1 /\ z \in 0..3 /\ j = y + 2 * z
    BY <1>4, <1>7
  <1>9. PICK low, high : low = m % 4 /\ high = m \div 4
    OBVIOUS
  <1>10. low \in 0..3 /\ high \in 0..1 /\ m = low + 4 * high
    BY <1>4, <1>9
  <1>11. o = a + 8 * c + 64 * t /\ p = v + 2 * e + 16 * f + 128 * w
    <2>1. o + 256 * p = a + 8 * (c + 8 * (d + 8 * (e + 8 * (f + 8 * w))))
      <3>1. n[1] = a + 8 * (c + 8 * (d + 8 * (e + 8 * (f + 8 * w))))
        BY <1>1, <1>3, <1>7 DEF Number
      <3> QED BY <1>2, <1>5, <3>1
    <2> QED BY <1>4, <1>6, <1>8, <2>1
  <1>12. q = x + 4 * h + 32 * i /\ r = j + 8 * k + 64 * low
    <2>1. q + 256 * r = x + 4 * (h + 8 * (i + 8 * (j + 8 * (k + 8 * low))))
      <3>1. n[2] = x + 4 * (h + 8 * (i + 8 * (j + 8 * (k + 8 * low))))
        BY <1>1, <1>3, <1>7, <1>9 DEF Number
      <3> QED BY <1>2, <1>5, <3>1
    <2> QED BY <1>4, <1>6, <1>8, <1>10, <2>1
  <1>13. s % 2 = high
    <2>1. PICK rest, big : rest = u % (Word \div 2) /\ big = b[5]
      OBVIOUS
    <2>2. rest \in Nat /\ big \in Nat
      <3>1. PICK half \in Nat \ {0} : half = Word \div 2
        <4>1. Word \div 2 = 128 * 256
          BY DEF Word
        <4> QED BY <4>1
      <3>2. u % half \in Nat
        BY <3>1, BaseFacts
      <3>3. b[5] \in Nat
        OBVIOUS
      <3> QED BY <2>1, <3>1, <3>2, <3>3
    <2>3. s + 256 * big = high + 2 * rest
      <3>1. n[3] = high + 2 * rest
        BY <1>1, <1>3, <1>9, <2>1 DEF Number
      <3> QED BY <1>2, <1>5, <2>1, <3>1
    <2> QED BY <1>6, <1>10, <2>2, <2>3
  <1>14. /\ (o \div 1) % 8 = a /\ (o \div 8) % 8 = c /\ ((o + 256 * p) \div 64) % 8 = d
    <2>1. o + 256 * p = (a + 8 * c) + 64 * (d + 8 * e + 64 * f + 512 * w)
      BY <1>4, <1>8, <1>11
    <2>2. (o + 256 * p) \div 64 = d + 8 * e + 64 * f + 512 * w
      BY <1>4, <1>8, <2>1
    <2>3. ((o + 256 * p) \div 64) % 8 = d
      BY <1>4, <1>8, <2>2
    <2>4. o \div 1 = o /\ o % 8 = a
      BY <1>4, <1>8, <1>11
    <2>5. (o \div 8) % 8 = c
      BY <1>4, <1>8, <1>11
    <2> QED BY <2>3, <2>4, <2>5
  <1>15. (p \div 2) % 8 = e /\ (p \div 16) % 8 = f
    BY <1>4, <1>8, <1>11
  <1>16. ((p + 256 * q) \div 128) % 8 = g
    <2>1. p + 256 * q = (v + 2 * e + 16 * f) + 128 * (g + 8 * h + 64 * i)
      BY <1>4, <1>8, <1>11, <1>12
    <2>2. (p + 256 * q) \div 128 = g + 8 * h + 64 * i
      BY <1>4, <1>8, <2>1
    <2> QED BY <1>4, <2>2
  <1>17. (q \div 4) % 8 = h /\ (q \div 32) % 8 = i
    BY <1>4, <1>8, <1>12
  <1>18. (r \div 1) % 8 = j /\ (r \div 8) % 8 = k
    BY <1>4, <1>10, <1>12
  <1>19. ((r + 256 * s) \div 64) % 8 = m
    <2>1. PICK top \in Nat : s = high + 2 * top
      <3>1. s \div 2 \in Nat /\ s = (s % 2) + 2 * (s \div 2)
        BY <1>6
      <3> QED BY <1>13, <3>1
    <2>2. r + 256 * s = (j + 8 * k) + 64 * (m + 8 * top)
      BY <1>4, <1>10, <1>12, <2>1
    <2>3. (r + 256 * s) \div 64 = m + 8 * top
      BY <1>4, <2>1, <2>2
    <2> QED BY <1>4, <2>1, <2>3
  <1>20. LowBits(n) = <<m, k, j, i, h, g, f, e, d, c, a>>
    <2>1. Byte(n, 0) = o /\ Byte(n, 1) = p /\ Byte(n, 2) = q /\ Byte(n, 3) = r /\ Byte(n, 4) = s
      BY <1>2, <1>5
    <2>2. /\ LowBits(n) =
             <<((Byte(n, 3) + 256 * Byte(n, 3 + 1)) \div 64) % 8, (Byte(n, 3) \div 8) % 8,
               (Byte(n, 3) \div 1) % 8, (Byte(n, 2) \div 32) % 8, (Byte(n, 2) \div 4) % 8,
               ((Byte(n, 1) + 256 * Byte(n, 1 + 1)) \div 128) % 8, (Byte(n, 1) \div 16) % 8,
               (Byte(n, 1) \div 2) % 8, ((Byte(n, 0) + 256 * Byte(n, 0 + 1)) \div 64) % 8,
               (Byte(n, 0) \div 8) % 8, (Byte(n, 0) \div 1) % 8>>
          /\ 3 + 1 = 4 /\ 1 + 1 = 2 /\ 0 + 1 = 1
      BY DEF LowBits
    <2> QED BY <1>14, <1>15, <1>16, <1>17, <1>18, <1>19, <2>1, <2>2
  <1>21. <<m, k, j, i, h, g, f, e, d, c, a>> = [y1 \in 1..11 |-> l[11 - y1]]
    BY <1>3
  <1> QED BY <1>1, <1>20, <1>21

States == [rest : Quads, digits : Seq(0..6)]
Divided(s) == [rest |-> Divide(s.rest).quotient,
               digits |-> <<Divide(s.rest).remainder>> \o s.digits]
Found(h, y) == [i \in 1..y |-> h[y - i]]

\* A division keeps the kind of what it works on.
LEMMA DividedType ==
  ASSUME NEW s \in States
  PROVE  Divided(s) \in States
  <1>1. PICK rest \in Quads, digits \in Seq(0..6) : s = [rest |-> rest, digits |-> digits]
    BY DEF States
  <1>2. Divide(rest).quotient \in Quads /\ Divide(rest).remainder \in 0..6
    BY DivideValue
  <1>3. PICK q \in Quads, r \in 0..6 : q = Divide(rest).quotient /\ r = Divide(rest).remainder
    BY <1>2
  <1>4. Divided(s) = [rest |-> q, digits |-> <<r>> \o digits]
    BY <1>1, <1>3 DEF Divided
  <1>5. <<r>> \o digits \in Seq(0..6)
    OBVIOUS
  <1> QED BY <1>4, <1>5 DEF States

\* One more digit, before those found.
LEMMA FoundNext ==
  ASSUME NEW h \in [Places -> 0..6], NEW y \in Places
  PROVE  <<h[y]>> \o Found(h, y) = Found(h, y + 1)
  <1>1. y \in Nat /\ y <= 10 /\ Places = 0..10
    BY DEF Places
  <1>2. Found(h, y) \in Seq(0..6) /\ Len(Found(h, y)) = y
    <2>1. \A i \in 1..y : h[y - i] \in 0..6
      BY <1>1
    <2> QED BY <1>1, <2>1 DEF Found
  <1>3. h[y] \in 0..6
    OBVIOUS
  <1>4. PICK f \in Seq(0..6) : f = Found(h, y) /\ Len(f) = y
    BY <1>2
  <1>5. PICK d \in 0..6 : d = h[y]
    BY <1>3
  <1>6. PICK g : g = <<d>> \o f
    OBVIOUS
  <1>7. g \in Seq(0..6) /\ Len(g) = y + 1
    BY <1>1, <1>4, <1>6
  <1>8. ASSUME NEW i \in 1..y + 1
        PROVE  g[i] = h[(y + 1) - i]
    <2>1. CASE i = 1
      <3>1. (y + 1) - i = y
        BY <1>1, <2>1
      <3> QED BY <1>4, <1>5, <1>6, <2>1, <3>1
    <2>2. CASE i # 1
      <3>1. i - 1 \in 1..y /\ y - (i - 1) = (y + 1) - i
        BY <1>1, <2>2
      <3>2. g[i] = f[i - 1]
        BY <1>1, <1>4, <1>6, <2>2
      <3>3. f[i - 1] = h[y - (i - 1)]
        BY <1>4, <3>1 DEF Found
      <3> QED BY <3>1, <3>2, <3>3
    <2> QED BY <2>1, <2>2
  <1>9. g = [i \in 1..y + 1 |-> g[i]]
    BY <1>1, <1>7
  <1>10. g = Found(h, y + 1)
    BY <1>8, <1>9 DEF Found
  <1> QED BY <1>4, <1>5, <1>6, <1>10

\* Eleven divisions find eleven digits.
LEMMA DigitsValue ==
  ASSUME NEW n, NEW h \in [Places -> 0..6],
         Multiplier(n) \in Quads, Stands(Multiplier(n)) = Septal(h)
  PROVE  Digits(n) = [i \in 1..11 |-> h[11 - i]]
  <1> DEFINE Start == [rest |-> Multiplier(n), digits |-> << >>]
             Plain(f) == [y \in 0..Characters |-> IF y = 0 THEN Start ELSE Divided(f[y - 1])]
             Body(f) == [y \in 0..Characters |->
                           IF y = 0 THEN [rest |-> Multiplier(n), digits |-> << >>]
                           ELSE LET divide(s) == LET d == Divide(s.rest)
                                                 IN  [rest |-> d.quotient,
                                                      digits |-> <<d.remainder>> \o s.digits]
                                IN  Once(divide, f[y - 1])]
  <1>1. Start \in States
    <2>1. << >> \in Seq(0..6)
      OBVIOUS
    <2> QED BY <2>1 DEF States
  <1>2. PICK start \in States : start = Start
    BY <1>1
  <1>3. \E f : f = Plain(f)
    <2>1. PICK step : step = [k \in 1..11 |-> [s \in States |-> Divided(s)]]
      OBVIOUS
    <2>2. \A k \in 1..11 : step[k] \in [States -> States]
      BY <2>1, DividedType
    <2>3. PICK g : Loops(g, 11, States, start, step)
      BY <2>2, Looped
    <2>4. g[0] = start /\ g = [k \in 0..11 |-> g[k]]
      BY <2>3 DEF Loops
    <2>5. \A k \in 1..11 : g[k] = Divided(g[k - 1])
      <3> SUFFICES ASSUME NEW k \in 1..11
                   PROVE  g[k] = Divided(g[k - 1])
        OBVIOUS
      <3>1. k - 1 \in 0..11
        OBVIOUS
      <3>2. g[k] = step[k][g[k - 1]] /\ g[k - 1] \in States
        BY <2>3, <3>1 DEF Loops
      <3> QED BY <2>1, <3>2
    <2>6. \A k \in 0..11 : g[k] = IF k = 0 THEN start ELSE Divided(g[k - 1])
      <3> SUFFICES ASSUME NEW k \in 0..11
                   PROVE  g[k] = IF k = 0 THEN start ELSE Divided(g[k - 1])
        OBVIOUS
      <3>1. k = 0 \/ k \in 1..11
        OBVIOUS
      <3> QED BY <2>4, <2>5, <3>1
    <2>7. g = [k \in 0..11 |-> IF k = 0 THEN start ELSE Divided(g[k - 1])]
      BY <2>4, <2>6, Zenon
    <2>8. g = [k \in 0..11 |-> IF k = 0 THEN Start ELSE Divided(g[k - 1])]
      BY <1>2, <2>7, Zenon
    <2> QED BY <2>8 DEF Characters
  <1>4. \A f : Body(f) = Plain(f)
    BY DEF Once, Divided
  <1>5. PICK loop : loop = CHOOSE f : f = Body(f)
    OBVIOUS
  <1>6. loop = Plain(loop)
    <2> HIDE DEF Body, Plain
    <2> QED BY <1>3, <1>4, <1>5
  <1>7. Digits(n) = loop[11].digits
    BY <1>5 DEF Digits, Characters
  <1>8. loop[0] = Start
    BY <1>6 DEF Characters
  <1>9. \A k \in Places : loop[k + 1] = Divided(loop[k])
    <2> SUFFICES ASSUME NEW k \in Places
                 PROVE  loop[k + 1] = Divided(loop[k])
      OBVIOUS
    <2>1. k + 1 \in 0..11 /\ k + 1 # 0 /\ (k + 1) - 1 = k
      BY DEF Places
    <2>2. loop[k + 1] = Divided(loop[(k + 1) - 1])
      BY <1>6, <2>1 DEF Characters
    <2> QED BY <2>1, <2>2
  <1>10. loop[0].rest = Multiplier(n) /\ loop[0].digits = << >>
    BY <1>8
  <1> HIDE DEF Body, Plain, Start
  <1> DEFINE T == {k \in Nat : k <= 11 => /\ loop[k].rest \in Quads
                                          /\ Stands(loop[k].rest) = Septal(From(h, k))
                                          /\ loop[k].digits = Found(h, k)}
  <1>11. ASSUME NEW k \in Nat, \A j \in Nat : j < k => j \in T
         PROVE  k \in T
    <2>1. CASE k = 0
      <3>1. From(h, 0) = h
        BY FromFacts
      <3>2. Found(h, 0) = << >>
        BY DEF Found
      <3> QED BY <1>10, <2>1, <3>1, <3>2
    <2>2. CASE k # 0 /\ k <= 11
      <3>1. PICK j \in Places : k = j + 1 /\ j < k /\ j \in Nat /\ j <= 11
        <4>1. k - 1 \in Places /\ k = (k - 1) + 1 /\ k - 1 < k /\ k - 1 \in Nat /\ k - 1 <= 11
          BY <2>2 DEF Places
        <4> QED BY <4>1
      <3>2. j \in T
        BY <1>11, <3>1
      <3>3. /\ loop[j].rest \in Quads /\ Stands(loop[j].rest) = Septal(From(h, j))
            /\ loop[j].digits = Found(h, j)
        BY <3>1, <3>2
      <3>4. PICK m \in Quads : m = loop[j].rest
        BY <3>3
      <3>5. /\ Divide(m).quotient \in Quads /\ Divide(m).remainder \in 0..6
            /\ Stands(Divide(m).quotient) \in Nat
            /\ Stands(m) = Divide(m).remainder + 7 * Stands(Divide(m).quotient)
        BY DivideValue
      <3>6. /\ Septal(From(h, j)) = h[j] + 7 * Septal(From(h, j + 1))
            /\ Septal(From(h, j + 1)) \in Nat
        <4>1. j + 1 \in 0..11
          BY DEF Places
        <4> QED BY <4>1, FromFacts
      <3>7. PICK r, q, d, f : /\ r = Divide(m).remainder /\ q = Stands(Divide(m).quotient)
                              /\ d = h[j] /\ f = Septal(From(h, j + 1))
        OBVIOUS
      <3>8. r \in 0..6 /\ q \in Nat /\ d \in 0..6 /\ f \in Nat /\ r + 7 * q = d + 7 * f
        BY <3>3, <3>4, <3>5, <3>6, <3>7
      <3>9. r = d /\ q = f
        BY <3>8
      <3>10. loop[k] = Divided(loop[j])
        BY <1>9, <3>1
      <3>11. /\ loop[k].rest = Divide(m).quotient
             /\ loop[k].digits = <<Divide(m).remainder>> \o Found(h, j)
        BY <3>3, <3>4, <3>10 DEF Divided
      <3>12. loop[k].digits = Found(h, k)
        <4>1. <<h[j]>> \o Found(h, j) = Found(h, j + 1)
          BY FoundNext
        <4> QED BY <3>1, <3>7, <3>9, <3>11, <4>1
      <3> QED BY <3>1, <3>5, <3>7, <3>9, <3>11, <3>12
    <2> QED BY <2>1, <2>2
  <1> HIDE DEF T
  <1>12. Nat \subseteq T
    BY <1>11, Induction
  <1>13. loop[11].digits = Found(h, 11)
    BY <1>12 DEF T
  <1> QED BY <1>7, <1>13 DEF Found

\* The console unpacks the codes a name was packed from.
LEMMA DecodeValue ==
  ASSUME NEW n, NEW e \in Codes, Coded(n, e)
  PROVE  Decode(n) = [i \in 0..11 |-> IF i = 11 THEN Terminal ELSE DecodeCharacter(e[10 - i])]
  <1>1. PICK h \in [Places -> 0..6], l \in [Places -> 0..7] : h = High(e) /\ l = Low(e)
    BY HighLow
  <1>2. PICK u \in Nat : u = Septal(h) /\ u < 128 * 256 * Word
    BY SeptalBound
  <1>3. n = Number(u, l)
    BY <1>1, <1>2, CodedNumber
  <1>4. LowBits(n) = [i \in 1..11 |-> l[11 - i]]
    BY <1>2, <1>3, LowBitsValue
  <1>5. Multiplier(n) \in Quads /\ Stands(Multiplier(n)) = Septal(h)
    BY <1>2, <1>3, MultiplierValue
  <1>6. Digits(n) = [i \in 1..11 |-> h[11 - i]]
    BY <1>5, DigitsValue
  <1>7. Decode(n) = [i \in 0..11 |-> IF i = 11 THEN Terminal
                       ELSE DecodeCharacter(8 * Digits(n)[i + 1] + LowBits(n)[i + 1])]
    BY DEF Decode, Once, Characters
  <1>8. ASSUME NEW i \in 0..10
        PROVE  8 * Digits(n)[i + 1] + LowBits(n)[i + 1] = e[10 - i]
    <2>1. i + 1 \in 1..11 /\ 11 - (i + 1) = 10 - i /\ 10 - i \in Places
      BY DEF Places
    <2>2. Digits(n)[i + 1] = h[10 - i] /\ LowBits(n)[i + 1] = l[10 - i]
      BY <1>4, <1>6, <2>1
    <2>3. h[10 - i] = e[10 - i] \div 8 /\ l[10 - i] = e[10 - i] % 8
      BY <1>1, <2>1 DEF High, Low
    <2>4. e[10 - i] \in 0..55
      BY <2>1 DEF Codes
    <2>5. 8 * (e[10 - i] \div 8) + (e[10 - i] % 8) = e[10 - i]
      BY <2>4
    <2> QED BY <2>2, <2>3, <2>5
  <1>9. \A i \in 0..11 : (IF i = 11 THEN Terminal
                          ELSE DecodeCharacter(8 * Digits(n)[i + 1] + LowBits(n)[i + 1]))
                       = IF i = 11 THEN Terminal ELSE DecodeCharacter(e[10 - i])
    <2> SUFFICES ASSUME NEW i \in 0..11, i # 11
                 PROVE  DecodeCharacter(8 * Digits(n)[i + 1] + LowBits(n)[i + 1])
                          = DecodeCharacter(e[10 - i])
      OBVIOUS
    <2>1. i \in 0..10
      OBVIOUS
    <2> QED BY <1>8, <2>1
  <1> QED BY <1>7, <1>9

\* Names are packed in one way.
LEMMA CodedUnique ==
  ASSUME NEW m, NEW n, NEW e \in Codes, Coded(m, e), Coded(n, e)
  PROVE  m = n
  BY CodedNumber

-----------------------------------------------------------------------------
(* Texts. *)

\* Names as they are read, and on the name screen.
Texts == {text \in Seq(Alphabet) : Len(text) <= Characters}
Padded(text) == [i \in 0..Characters |-> IF i < Len(text) THEN text[i + 1] ELSE Terminal]

\* The tool and the console have the same code for a letter, and it is decoded.
LEMMA LetterCode ==
  ASSUME NEW c \in Alphabet
  PROVE  /\ ToolCode(c) \in 0..54 /\ EncodeCharacter(c) = ToolCode(c)
         /\ DecodeCharacter(ToolCode(c)) = c /\ c \in 0..254 /\ c # Terminal
  <1>1. CASE c = Space
    BY <1>1 DEF ToolCode, EncodeCharacter, DecodeCharacter, ToFont, ToText,
              Space, Dash, Dot, Terminal
  <1>2. CASE c = Dash
    BY <1>2 DEF ToolCode, EncodeCharacter, DecodeCharacter, ToFont, ToText,
              Space, Dash, Dot, Terminal
  <1>3. CASE c = Dot
    BY <1>3 DEF ToolCode, EncodeCharacter, DecodeCharacter, ToFont, ToText,
              Space, Dash, Dot, Terminal
  <1>4. CASE c \in 185..210
    <2>1. ToolCode(c) = c - 184 /\ EncodeCharacter(c) = c - 184
      BY <1>4 DEF ToolCode, EncodeCharacter, ToFont, Space, Dash, Dot, Terminal
    <2>2. c - 184 \in 1..26 /\ (c - 184) + 184 = c
      BY <1>4
    <2>3. DecodeCharacter(c - 184) = (c - 184) + 184
      BY <2>2 DEF DecodeCharacter, ToText
    <2> QED BY <1>4, <2>1, <2>2, <2>3 DEF Terminal
  <1>5. CASE c \in 116..141
    <2>1. ToolCode(c) = c - 89 /\ EncodeCharacter(c) = c - 89
      BY <1>5 DEF ToolCode, EncodeCharacter, ToFont, Space, Dash, Dot, Terminal
    <2>2. c - 89 \in 27..52 /\ (c - 89) + 89 = c
      BY <1>5
    <2>3. DecodeCharacter(c - 89) = (c - 89) + 89
      BY <2>2 DEF DecodeCharacter, ToText
    <2> QED BY <1>5, <2>1, <2>2, <2>3 DEF Terminal
  <1> QED BY <1>1, <1>2, <1>3, <1>4, <1>5 DEF Alphabet

\* So has the terminator.
LEMMA TerminalCode ==
  EncodeCharacter(Terminal) = 55 /\ DecodeCharacter(55) = Terminal
  BY DEF EncodeCharacter, DecodeCharacter, Terminal, Dash, Dot

\* A text and its letters.
LEMMA TextFacts ==
  ASSUME NEW text \in Texts
  PROVE  /\ text \in Seq(Alphabet) /\ Len(text) \in 0..11
         /\ \A i \in 1..Len(text) : text[i] \in Alphabet
         /\ text = [i \in 1..Len(text) |-> text[i]]
  <1>1. text \in Seq(Alphabet) /\ Len(text) <= 11
    BY DEF Texts, Characters
  <1>2. Len(text) \in 0..11
    <2>1. PICK n : n = Len(text)
      OBVIOUS
    <2>2. n \in Nat /\ n <= 11
      BY <1>1, <2>1
    <2>3. n \in 0..11
      BY <2>2
    <2> QED BY <2>1, <2>3, Zenon
  <1>3. \A i \in 1..Len(text) : text[i] \in Alphabet
    BY <1>1
  <1>4. text = [i \in 1..Len(text) |-> text[i]]
    BY <1>1
  <1> QED BY <1>1, <1>2, <1>3, <1>4

\* What a reader sees ends at the terminator.
LEMMA TextPadded ==
  ASSUME NEW text \in Texts
  PROVE  TextOf(Padded(text)) = text
  <1>1. PICK n \in 0..11 : n = Len(text)
    BY TextFacts
  <1>2. PICK chars : chars = Padded(text)
    OBVIOUS
  <1>3. DOMAIN chars = 0..11 /\ \A i \in 0..11 : chars[i] = IF i < n THEN text[i + 1] ELSE Terminal
    BY <1>1, <1>2 DEF Padded, Characters
  <1>4. \A i \in 0..n - 1 : chars[i] # Terminal
    <2> SUFFICES ASSUME NEW i \in 0..n - 1
                 PROVE  chars[i] # Terminal
      OBVIOUS
    <2>1. i + 1 \in 1..n /\ i \in 0..11 /\ i < n
      OBVIOUS
    <2>2. text[i + 1] \in Alphabet
      BY <1>1, <2>1, TextFacts
    <2>3. text[i + 1] # Terminal
      BY <2>2, LetterCode
    <2> QED BY <1>3, <2>1, <2>3
  <1>5. chars[n] = Terminal
    BY <1>3
  <1>6. PICK end : end = CHOOSE i \in DOMAIN chars :
                           chars[i] = Terminal /\ \A j \in 0..i - 1 : chars[j] # Terminal
    OBVIOUS
  <1>7. end \in 0..11 /\ chars[end] = Terminal /\ \A j \in 0..end - 1 : chars[j] # Terminal
    BY <1>3, <1>4, <1>5, <1>6
  <1>8. end = n
    <2>1. ~(end < n)
      <3> SUFFICES ASSUME end < n
                   PROVE  FALSE
        OBVIOUS
      <3>1. end \in 0..n - 1
        BY <1>7
      <3> QED BY <1>4, <1>7, <3>1
    <2>2. ~(n < end)
      <3> SUFFICES ASSUME n < end
                   PROVE  FALSE
        OBVIOUS
      <3>1. n \in 0..end - 1
        BY <1>7
      <3> QED BY <1>5, <1>7, <3>1
    <2> QED BY <1>7, <2>1, <2>2
  <1>9. TextOf(chars) = SubSeq([i \in 1..12 |-> chars[i - 1]], 1, n)
    <2>1. TextOf(chars) = SubSeq([i \in 1..Characters + 1 |-> chars[i - 1]], 1,
               (CHOOSE i \in DOMAIN chars :
                  chars[i] = Terminal /\ \A j \in 0..i - 1 : chars[j] # Terminal))
      BY DEF TextOf, Once
    <2>2. Characters + 1 = 12
      BY DEF Characters
    <2> QED BY <1>6, <1>8, <2>1, <2>2
  <1>10. PICK row : row = [i \in 1..12 |-> chars[i - 1]]
    OBVIOUS
  <1>11. SubSeq(row, 1, n) = [i \in 1..n |-> row[i]]
    BY <1>10
  <1>12. \A i \in 1..n : row[i] = text[i]
    <2> SUFFICES ASSUME NEW i \in 1..n
                 PROVE  row[i] = text[i]
      OBVIOUS
    <2>1. i - 1 \in 0..11 /\ i - 1 < n /\ (i - 1) + 1 = i /\ i \in 1..12
      OBVIOUS
    <2> QED BY <1>3, <1>10, <2>1
  <1>13. text = [i \in 1..n |-> text[i]]
    BY <1>1, TextFacts
  <1> QED BY <1>2, <1>9, <1>10, <1>11, <1>12, <1>13

\* A name survives being packed by the tool, and by the console, in the same words.
LEMMA Packed ==
  ASSUME NEW text \in Texts
  PROVE  /\ ToolEncode(text) \in Words
         /\ Decode(ToolEncode(text)) = Padded(text)
         /\ Encode(Padded(text)) = ToolEncode(text)
         /\ TextOf(Decode(ToolEncode(text))) = text
  <1>1. PICK n \in 0..11 : n = Len(text)
    BY TextFacts
  <1>2. \A i \in 1..n : text[i] \in Alphabet
    BY <1>1, TextFacts
  <1>3. ToolCodes(text) \in Codes
    <2>1. \A i \in 1..Len(text) : ToolCode(text[i]) \in 0..55
      <3> SUFFICES ASSUME NEW i \in 1..Len(text)
                   PROVE  ToolCode(text[i]) \in 0..55
        OBVIOUS
      <3>1. text[i] \in Alphabet
        BY <1>1, <1>2
      <3>2. ToolCode(text[i]) \in 0..54
        BY <3>1, LetterCode
      <3> QED BY <3>2
    <2>2. Len(text) \in Nat
      BY <1>1
    <2> QED BY <2>1, <2>2, ToolCodesType
  <1>4. PICK e \in Codes : e = ToolCodes(text)
    BY <1>3
  <1>5. Coded(ToolEncode(text), e)
    BY <1>4, ToolValue
  <1>6. \A i \in 0..10 : e[10 - i] = IF i < n THEN ToolCode(text[i + 1]) ELSE 55
    <2> SUFFICES ASSUME NEW i \in 0..10
                 PROVE  e[10 - i] = IF i < n THEN ToolCode(text[i + 1]) ELSE 55
      OBVIOUS
    <2>1. 10 - i \in Places /\ 10 - (10 - i) = i
      BY DEF Places
    <2> QED BY <1>1, <1>4, <2>1 DEF ToolCodes
  <1>7. Padded(text) = [i \in 0..11 |-> IF i < n THEN text[i + 1] ELSE Terminal]
    BY <1>1 DEF Padded, Characters
  <1>8. Decode(ToolEncode(text)) = Padded(text)
    <2>1. Decode(ToolEncode(text))
            = [i \in 0..11 |-> IF i = 11 THEN Terminal ELSE DecodeCharacter(e[10 - i])]
      BY <1>5, DecodeValue
    <2>2. \A i \in 0..11 : (IF i = 11 THEN Terminal ELSE DecodeCharacter(e[10 - i]))
                             = IF i < n THEN text[i + 1] ELSE Terminal
      <3> SUFFICES ASSUME NEW i \in 0..11
                   PROVE  (IF i = 11 THEN Terminal ELSE DecodeCharacter(e[10 - i]))
                             = IF i < n THEN text[i + 1] ELSE Terminal
        OBVIOUS
      <3>1. CASE i < n
        <4>1. i \in 0..10 /\ i + 1 \in 1..n /\ i # 11
          BY <3>1
        <4>2. DecodeCharacter(ToolCode(text[i + 1])) = text[i + 1]
          BY <1>2, <4>1, LetterCode
        <4> QED BY <1>6, <3>1, <4>1, <4>2
      <3>2. CASE ~(i < n) /\ i # 11
        <4>1. i \in 0..10
          BY <3>2
        <4>2. e[10 - i] = 55
          BY <1>6, <3>2, <4>1
        <4> QED BY <3>2, <4>2, TerminalCode
      <3>3. CASE i = 11
        BY <3>3
      <3> QED BY <3>1, <3>2, <3>3
    <2> QED BY <1>7, <2>1, <2>2
  <1>9. Encode(Padded(text)) = ToolEncode(text)
    <2>1. PICK input : input = Padded(text)
      OBVIOUS
    <2>2. \A p \in Places : EncodeCharacter(input[10 - p]) = e[p]
      <3> SUFFICES ASSUME NEW p \in Places
                   PROVE  EncodeCharacter(input[10 - p]) = e[p]
        OBVIOUS
      <3>1. PICK i \in 0..10 : i = 10 - p /\ p = 10 - i
        <4>1. 10 - p \in 0..10 /\ p = 10 - (10 - p)
          BY DEF Places
        <4> QED BY <4>1
      <3>2. input[i] = IF i < n THEN text[i + 1] ELSE Terminal
        BY <1>7, <2>1
      <3>3. e[p] = IF i < n THEN ToolCode(text[i + 1]) ELSE 55
        BY <1>6, <3>1
      <3>4. CASE i < n
        <4>1. i + 1 \in 1..n
          BY <3>4
        <4>2. EncodeCharacter(text[i + 1]) = ToolCode(text[i + 1])
          BY <1>2, <4>1, LetterCode
        <4> QED BY <3>1, <3>2, <3>3, <3>4, <4>2
      <3>5. CASE ~(i < n)
        BY <3>1, <3>2, <3>3, <3>5, TerminalCode
      <3> QED BY <3>4, <3>5
    <2>3. Coded(Encode(input), e)
      BY <2>2, EncodeValue
    <2> QED BY <1>5, <2>1, <2>3, CodedUnique
  <1>10. ToolEncode(text) \in Words
    BY <1>5 DEF Coded
  <1> QED BY <1>8, <1>9, <1>10, TextPadded

-----------------------------------------------------------------------------
(* Widths, tiles and bytes. *)

\* A text has a width, in either font.
LEMMA PixelsType ==
  ASSUME NEW font \in {"small", "large"}, NEW text \in Texts
  PROVE  Pixels(font, text) \in Int
  <1>1. PICK n \in 0..11 : n = Len(text)
    BY TextFacts
  <1> DEFINE Before(k) == IF k = 1 THEN Space ELSE text[k - 1]
             Body(f) == [k \in 0..Len(text) |->
                           IF k = 0 THEN 0
                           ELSE f[k - 1]
                                - Kerning(font, IF k = 1 THEN Space ELSE text[k - 1], text[k])
                                + Width(font, text[k])]
  <1>2. \A k \in 1..n : Kerning(font, Before(k), text[k]) \in Int /\ Width(font, text[k]) \in Int
    <2> SUFFICES ASSUME NEW k \in 1..n
                 PROVE  Kerning(font, Before(k), text[k]) \in Int /\ Width(font, text[k]) \in Int
      OBVIOUS
    <2>1. text[k] \in Alphabet
      BY <1>1, TextFacts
    <2>2. Before(k) \in Alphabet
      <3>1. CASE k = 1
        BY <3>1 DEF Alphabet
      <3>2. CASE k # 1
        <4>1. k - 1 \in 1..n
          BY <3>2
        <4>2. text[k - 1] \in Alphabet
          BY <1>1, <4>1, TextFacts
        <4> QED BY <3>2, <4>2
      <3> QED BY <3>1, <3>2
    <2>3. PICK b \in Alphabet, c \in Alphabet : b = Before(k) /\ c = text[k]
      BY <2>1, <2>2
    <2>4. Width(font, c) \in Int /\ Kerning(font, b, c) \in Int
      BY LetterAssumption
    <2> QED BY <2>3, <2>4, Zenon
  <1>3. PICK kern, width : /\ kern = [k \in 1..n |-> Kerning(font, Before(k), text[k])]
                           /\ width = [k \in 1..n |-> Width(font, text[k])]
    OBVIOUS
  <1>4. \A k \in 1..n : kern[k] \in Int /\ width[k] \in Int
    BY <1>2, <1>3
  <1>5. \A f : Body(f) = [k \in 0..n |-> IF k = 0 THEN 0 ELSE f[k - 1] - kern[k] + width[k]]
    <2> SUFFICES ASSUME NEW f
                 PROVE  Body(f)
                          = [k \in 0..n |-> IF k = 0 THEN 0 ELSE f[k - 1] - kern[k] + width[k]]
      OBVIOUS
    <2>1. \A k \in 0..n : k # 0 => /\ kern[k] = Kerning(font, Before(k), text[k])
                                    /\ width[k] = Width(font, text[k])
      <3> SUFFICES ASSUME NEW k \in 0..n, k # 0
                   PROVE  /\ kern[k] = Kerning(font, Before(k), text[k])
                          /\ width[k] = Width(font, text[k])
        OBVIOUS
      <3>1. k \in 1..n
        OBVIOUS
      <3> QED BY <1>3, <3>1
    <2>2. Body(f) = [k \in 0..n |-> IF k = 0 THEN 0
                       ELSE f[k - 1] - Kerning(font, Before(k), text[k]) + Width(font, text[k])]
      BY <1>1
    <2> HIDE DEF Body, Before
    <2> QED BY <2>1, <2>2
  <1> HIDE DEF Before
  <1>6. PICK g : Loops(g, n, Int, 0, [k \in 1..n |-> [v \in Int |-> v - kern[k] + width[k]]])
    <2>1. PICK step : step = [k \in 1..n |-> [v \in Int |-> v - kern[k] + width[k]]]
      OBVIOUS
    <2>2. PICK D : D = Int
      OBVIOUS
    <2>3. n \in Nat /\ 0 \in D /\ \A k \in 1..n : step[k] \in [D -> D]
      <3>1. ASSUME NEW k \in 1..n, NEW v \in Int
            PROVE  v - kern[k] + width[k] \in Int
        BY <1>4
      <3>2. \A k \in 1..n : step[k] \in [Int -> Int]
        BY <2>1, <3>1
      <3> QED BY <2>2, <3>2
    <2>4. \E g : Loops(g, n, D, 0, step)
      BY <2>3, Looped
    <2> QED BY <2>1, <2>2, <2>4
  <1>7. g \in [0..n -> Int] /\ g[0] = 0 /\ \A k \in 1..n : g[k] = g[k - 1] - kern[k] + width[k]
    <2>1. g \in [0..n -> Int] /\ g[0] = 0
      BY <1>6 DEF Loops
    <2>2. ASSUME NEW k \in 1..n
          PROVE  g[k] = g[k - 1] - kern[k] + width[k]
      <3>1. k - 1 \in 0..n
        OBVIOUS
      <3>2. g[k - 1] \in Int
        BY <2>1, <3>1
      <3>3. g[k] = [j \in 1..n |-> [v \in Int |-> v - kern[j] + width[j]]][k][g[k - 1]]
        BY <1>6 DEF Loops
      <3> QED BY <3>2, <3>3
    <2> QED BY <2>1, <2>2
  <1>8. g = [k \in 0..n |-> IF k = 0 THEN 0 ELSE g[k - 1] - kern[k] + width[k]]
    <2>1. g = [k \in 0..n |-> g[k]]
      BY <1>7
    <2>2. \A k \in 0..n : g[k] = IF k = 0 THEN 0 ELSE g[k - 1] - kern[k] + width[k]
      <3> SUFFICES ASSUME NEW k \in 0..n
                   PROVE  g[k] = IF k = 0 THEN 0 ELSE g[k - 1] - kern[k] + width[k]
        OBVIOUS
      <3>1. k = 0 \/ k \in 1..n
        OBVIOUS
      <3> QED BY <1>7, <3>1
    <2> QED BY <2>1, <2>2, Zenon
  <1>9. PICK pixel : pixel = CHOOSE f : f = Body(f)
    OBVIOUS
  <1>10. pixel = Body(pixel)
    <2>1. g = Body(g)
      <3> HIDE DEF Body
      <3> QED BY <1>5, <1>8
    <2> HIDE DEF Body
    <2> QED BY <1>9, <2>1
  <1>11. Pixels(font, text) = pixel[n]
    BY <1>1, <1>9 DEF Pixels
  <1>12. pixel[0] = 0 /\ \A k \in 1..n : pixel[k] = pixel[k - 1] - kern[k] + width[k]
    <2> HIDE DEF Body
    <2>1. pixel = [k \in 0..n |-> IF k = 0 THEN 0 ELSE pixel[k - 1] - kern[k] + width[k]]
      BY <1>5, <1>10
    <2>2. ASSUME NEW k \in 0..n
          PROVE  pixel[k] = IF k = 0 THEN 0 ELSE pixel[k - 1] - kern[k] + width[k]
      BY <2>1
    <2>3. 0 \in 0..n /\ \A k \in 1..n : k \in 0..n /\ k # 0
      OBVIOUS
    <2> QED BY <2>2, <2>3
  <1> HIDE DEF Body
  <1> DEFINE T == {k \in Nat : k <= n => pixel[k] \in Int}
  <1>13. ASSUME NEW k \in Nat, \A j \in Nat : j < k => j \in T
         PROVE  k \in T
    <2>1. CASE k = 0
      BY <1>12, <2>1
    <2>2. CASE k # 0 /\ k <= n
      <3>1. k - 1 \in Nat /\ k - 1 < k /\ k - 1 <= n /\ k \in 1..n
        BY <2>2
      <3>2. pixel[k - 1] \in Int
        BY <1>13, <3>1
      <3> QED BY <1>4, <1>12, <3>1, <3>2
    <2> QED BY <2>1, <2>2
  <1> HIDE DEF T
  <1>14. Nat \subseteq T
    BY <1>13, Induction
  <1> QED BY <1>11, <1>14 DEF T

\* A text whose every beginning ends in the tiles is drawn whole.
LEMMA WholeDrawn ==
  ASSUME NEW text \in Texts, NEW tiles, Fits(text, tiles)
  PROVE  Drawn(text, tiles) = text
  <1>1. PICK n \in 0..11 : n = Len(text)
    BY TextFacts
  <1> DEFINE fits(m) == \A k \in 1..m : SmallPixels(SubSeq(text, 1, k)) <= 8 * tiles
  <1>2. \A m \in 0..n : fits(m)
    <2> SUFFICES ASSUME NEW m \in 0..n, NEW k \in 1..m
                 PROVE  SmallPixels(SubSeq(text, 1, k)) <= 8 * tiles
      OBVIOUS
    <2>1. k \in 1..n
      OBVIOUS
    <2> QED BY <1>1, <2>1, Zenon DEF Fits
  <1>3. PICK last : last = CHOOSE m \in 0..Len(text) : fits(m) /\ (m < Len(text) => ~fits(m + 1))
    OBVIOUS
  <1>4. Drawn(text, tiles) = SubSeq(text, 1, last)
    BY <1>3 DEF Drawn
  <1> HIDE DEF fits
  <1>5. last = n
    <2>1. fits(n) /\ (n < n => ~fits(n + 1))
      BY <1>2
    <2>2. last = CHOOSE m \in 0..n : fits(m) /\ (m < n => ~fits(m + 1))
      BY <1>1, <1>3
    <2>3. \E m \in 0..n : fits(m) /\ (m < n => ~fits(m + 1))
      <3>1. n \in 0..n
        OBVIOUS
      <3> QED BY <2>1, <3>1
    <2>4. last \in 0..n /\ (last < n => ~fits(last + 1))
      BY <2>2, <2>3
    <2>5. last < n => fits(last + 1)
      <3>1. last < n => last + 1 \in 0..n
        BY <2>4
      <3> QED BY <1>2, <3>1
    <2> QED BY <2>4, <2>5
  <1>6. SubSeq(text, 1, n) = text
    <2>1. text \in Seq(Alphabet)
      BY TextFacts
    <2> QED BY <1>1, <2>1
  <1> QED BY <1>4, <1>5, <1>6

\* Replacing a byte keeps the others.
Replaces(m, n, b, value) ==
  m \in Words /\ \A c \in 0..7 : Byte(m, c) = IF c = b THEN value ELSE Byte(n, c)

\* One byte is stored.
LEMMA StoreByteFacts ==
  ASSUME NEW n \in Words, NEW b \in 0..7, NEW value \in 0..255
  PROVE  Replaces(StoreByte(n, b, value), n, b, value)
  <1>1. PICK k \in 1..4 : k = b \div 2 + 1
    <2>1. b \div 2 + 1 \in 1..4
      OBVIOUS
    <2> QED BY <2>1
  <1>2. PICK w : w = n[k]
    OBVIOUS
  <1>3. w \in Nat /\ w < 256 * 256
    <2>1. w \in 0..Word - 1
      BY <1>2 DEF Words
    <2>2. w \in Nat /\ w < Word
      BY <2>1, WordFacts
    <2> QED BY <2>2 DEF Word
  <1>4. PICK low, high : low = w % 256 /\ high = w \div 256
    OBVIOUS
  <1>5. low \in 0..255 /\ high \in 0..255 /\ w = low + 256 * high
    BY <1>3, <1>4
  <1>6. PICK x : x = IF b % 2 = 0 THEN 256 * high + value ELSE 256 * value + low
    OBVIOUS
  <1>7. StoreByte(n, b, value) = [n EXCEPT ![k] = x]
    BY <1>1, <1>2, <1>4, <1>6 DEF StoreByte
  <1>8. x \in Nat /\ x < 256 * 256
    BY <1>5, <1>6
  <1>9. x \in 0..Word - 1
    <2>1. x < Word
      BY <1>8 DEF Word
    <2> QED BY <1>8, <2>1, WordFacts
  <1>10. StoreByte(n, b, value) \in Words
    BY <1>7, <1>9 DEF Words
  <1>11. ASSUME NEW c \in 0..7
         PROVE  Byte(StoreByte(n, b, value), c) = IF c = b THEN value ELSE Byte(n, c)
    <2>1. PICK j \in 1..4, r \in 0..1 : j = c \div 2 + 1 /\ r = c % 2 /\ c = 2 * (j - 1) + r
      <3>1. c \div 2 + 1 \in 1..4 /\ c % 2 \in 0..1 /\ c = 2 * ((c \div 2 + 1) - 1) + (c % 2)
        OBVIOUS
      <3> QED BY <3>1
    <2>2. Byte(n, c) = (n[j] \div (IF r = 0 THEN 1 ELSE 256)) % 256
      BY <2>1 DEF Byte
    <2>3. Byte([n EXCEPT ![k] = x], c)
            = ([n EXCEPT ![k] = x][j] \div (IF r = 0 THEN 1 ELSE 256)) % 256
      BY <2>1 DEF Byte
    <2>4. CASE j # k
      <3>1. c # b
        BY <1>1, <2>1, <2>4
      <3>2. [n EXCEPT ![k] = x][j] = n[j]
        BY <2>4 DEF Words
      <3> QED BY <1>7, <2>2, <2>3, <3>1, <3>2
    <2>5. CASE j = k
      <3>1. [n EXCEPT ![k] = x][j] = x /\ n[j] = w
        BY <1>2, <2>5 DEF Words
      <3>2. b = 2 * (k - 1) + (b % 2) /\ b % 2 \in 0..1
        BY <1>1
      <3>3. c = b <=> r = b % 2
        BY <2>1, <2>5, <3>2
      <3>4. CASE r = 0
        <4>1. (x \div 1) % 256 = (IF b % 2 = 0 THEN value ELSE low) /\ (w \div 1) % 256 = low
          <5>1. x \div 1 = x /\ w \div 1 = w
            BY <1>3, <1>8
          <5>2. b % 2 = 0 => x % 256 = value
            BY <1>5, <1>6
          <5>3. b % 2 # 0 => x % 256 = low
            BY <1>5, <1>6
          <5> QED BY <1>4, <5>1, <5>2, <5>3
        <4> QED BY <1>7, <2>2, <2>3, <3>1, <3>3, <3>4, <4>1
      <3>5. CASE r = 1
        <4>1. (x \div 256) % 256 = (IF b % 2 = 0 THEN high ELSE value) /\ (w \div 256) % 256 = high
          <5>1. b % 2 = 0 => (x \div 256) % 256 = high
            BY <1>5, <1>6
          <5>2. b % 2 # 0 => (x \div 256) % 256 = value
            BY <1>5, <1>6
          <5>3. (w \div 256) % 256 = high
            BY <1>4, <1>5
          <5> QED BY <5>1, <5>2, <5>3
        <4>2. r # 0
          BY <3>5
        <4> QED BY <1>7, <2>2, <2>3, <3>1, <3>2, <3>3, <3>5, <4>1, <4>2
      <3> QED BY <3>4, <3>5
    <2> QED BY <2>4, <2>5
  <1> QED BY <1>10, <1>11 DEF Replaces

\* A byte is a byte.
LEMMA ByteType ==
  ASSUME NEW n \in Words, NEW b \in 0..7
  PROVE  Byte(n, b) \in 0..255
  BY Bytes

\* Words are their bytes.
LEMMA BytesUnique ==
  ASSUME NEW m \in Words, NEW n \in Words, \A b \in 0..7 : Byte(m, b) = Byte(n, b)
  PROVE  m = n
  <1>1. PICK c \in [0..7 -> 0..255] :
          /\ \A k \in 0..7 : Byte(m, k) = c[k]
          /\ m[1] = c[0] + 256 * c[1] /\ m[2] = c[2] + 256 * c[3]
          /\ m[3] = c[4] + 256 * c[5] /\ m[4] = c[6] + 256 * c[7]
    BY Bytes
  <1>2. PICK d \in [0..7 -> 0..255] :
          /\ \A k \in 0..7 : Byte(n, k) = d[k]
          /\ n[1] = d[0] + 256 * d[1] /\ n[2] = d[2] + 256 * d[3]
          /\ n[3] = d[4] + 256 * d[5] /\ n[4] = d[6] + 256 * d[7]
    BY Bytes
  <1>3. \A k \in 0..7 : c[k] = d[k]
    BY <1>1, <1>2
  <1>4. m[1] = n[1] /\ m[2] = n[2] /\ m[3] = n[3] /\ m[4] = n[4]
    BY <1>1, <1>2, <1>3
  <1>5. m = [k \in 1..4 |-> m[k]] /\ n = [k \in 1..4 |-> n[k]]
    BY DEF Words
  <1>6. \A k \in 1..4 : m[k] = n[k]
    BY <1>4
  <1> QED BY <1>5, <1>6

\* A name at an index is drawn whole wherever it is drawn.
Fitting(i, text) == (i < CachedNames => Fits(text, 8)) /\ (i < Players => Fits(text, 7))

\* Packed at an index is a name, as the tool would have packed it.
NameAt(i, packed) == \E text \in Texts : packed = ToolEncode(text) /\ Fitting(i, text)

\* What is packed at an index is read as it was packed.
LEMMA NameFacts ==
  ASSUME NEW i, NEW packed, NameAt(i, packed)
  PROVE  /\ packed \in Words
         /\ TextOf(Decode(packed)) \in Texts /\ Fitting(i, TextOf(Decode(packed)))
         /\ Decode(packed) = Padded(TextOf(Decode(packed)))
         /\ ToolEncode(TextOf(Decode(packed))) = packed
  <1>1. PICK text \in Texts : packed = ToolEncode(text) /\ Fitting(i, text)
    BY DEF NameAt
  <1>2. /\ ToolEncode(text) \in Words
        /\ Decode(ToolEncode(text)) = Padded(text)
        /\ TextOf(Decode(ToolEncode(text))) = text
    BY Packed
  <1>3. TextOf(Decode(packed)) = text
    BY <1>1, <1>2, Zenon
  <1> QED BY <1>1, <1>2, <1>3, Zenon

\* The name screen holds bytes.
LEMMA PaddedFacts ==
  ASSUME NEW text \in Texts
  PROVE  \A i \in 0..11 : Padded(text)[i] \in 0..255
  <1> SUFFICES ASSUME NEW i \in 0..11
               PROVE  Padded(text)[i] \in 0..255
    OBVIOUS
  <1>1. PICK n \in 0..11 : n = Len(text)
    BY TextFacts
  <1>2. Padded(text)[i] = IF i < n THEN text[i + 1] ELSE Terminal
    BY <1>1 DEF Padded, Characters
  <1>3. CASE i < n
    <2>1. i + 1 \in 1..n
      BY <1>3
    <2>2. text[i + 1] \in Alphabet
      BY <1>1, <2>1, TextFacts
    <2>3. text[i + 1] \in 0..254
      BY <2>2, LetterCode
    <2> QED BY <1>2, <1>3, <2>3
  <1>4. CASE ~(i < n)
    BY <1>2, <1>4 DEF Terminal
  <1> QED BY <1>3, <1>4

\* The empty name.
LEMMA EmptyFacts ==
  /\ << >> \in Texts /\ Len(<< >>) = 0 /\ \A i : Fitting(i, << >>)
  /\ [i \in 0..Characters |-> Terminal] = Padded(<< >>)
  <1>1. << >> \in Texts
    BY DEF Texts, Characters
  <1>2. \A i : Fitting(i, << >>)
    BY DEF Fitting, Fits
  <1>3. [i \in 0..Characters |-> Terminal] = Padded(<< >>)
    BY DEF Padded, Characters
  <1> QED BY <1>1, <1>2, <1>3

\* A letter more.
LEMMA AppendFacts ==
  ASSUME NEW text \in Texts, Len(text) \in 0..10, NEW c \in Alphabet
  PROVE  /\ Append(text, c) \in Texts /\ Len(Append(text, c)) = Len(text) + 1
         /\ [Padded(text) EXCEPT ![Len(text)] = c, ![Len(text) + 1] = Terminal]
              = Padded(Append(text, c))
         /\ \A k \in 1..Len(text) : SubSeq(Append(text, c), 1, k) = SubSeq(text, 1, k)
         /\ SubSeq(Append(text, c), 1, Len(text) + 1) = Append(text, c)
  <1>1. PICK n \in 0..10 : n = Len(text)
    OBVIOUS
  <1>2. text \in Seq(Alphabet)
    BY TextFacts
  <1>3. PICK name : name = Append(text, c)
    OBVIOUS
  <1>4. /\ name \in Seq(Alphabet) /\ Len(name) = n + 1 /\ name[n + 1] = c
        /\ \A i \in 1..n : name[i] = text[i]
    BY <1>1, <1>2, <1>3
  <1>5. name \in Texts
    BY <1>4 DEF Texts, Characters
  <1>6. PICK p, q : p = Padded(text) /\ q = Padded(name)
    OBVIOUS
  <1>7. /\ p = [i \in 0..11 |-> IF i < n THEN text[i + 1] ELSE Terminal]
        /\ q = [i \in 0..11 |-> IF i < n + 1 THEN name[i + 1] ELSE Terminal]
    BY <1>1, <1>4, <1>6 DEF Padded, Characters
  <1>8. [p EXCEPT ![n] = c, ![n + 1] = Terminal] = q
    <2>1. PICK r : r = [p EXCEPT ![n] = c, ![n + 1] = Terminal]
      OBVIOUS
    <2>2. r = [i \in 0..11 |-> r[i]] /\ q = [i \in 0..11 |-> q[i]]
      BY <1>7, <2>1
    <2>3. ASSUME NEW i \in 0..11
          PROVE  r[i] = q[i]
      <3>1. r[i] = IF i = n + 1 THEN Terminal ELSE IF i = n THEN c ELSE p[i]
        BY <1>7, <2>1
      <3>2. CASE i < n
        <4>1. i + 1 \in 1..n /\ i < n + 1 /\ i # n /\ i # n + 1
          BY <3>2
        <4>2. q[i] = name[i + 1] /\ p[i] = text[i + 1]
          BY <1>7, <3>2, <4>1
        <4> QED BY <1>4, <3>1, <4>1, <4>2
      <3>3. CASE i = n
        <4>1. q[i] = name[n + 1] /\ n # n + 1
          BY <1>7, <3>3
        <4> QED BY <1>4, <3>1, <3>3, <4>1
      <3>4. CASE i > n
        <4>1. q[i] = Terminal /\ p[i] = Terminal
          BY <1>7, <3>4
        <4> QED BY <3>1, <3>4, <4>1
      <3> QED BY <3>2, <3>3, <3>4
    <2> QED BY <2>1, <2>2, <2>3
  <1>9. ASSUME NEW k \in 1..n
        PROVE  SubSeq(name, 1, k) = SubSeq(text, 1, k)
    <2>1. k \in Nat /\ k <= n /\ \A i \in 1..k : i \in 1..n
      OBVIOUS
    <2>2. /\ SubSeq(name, 1, k) = [i \in 1..k |-> name[i]]
          /\ SubSeq(text, 1, k) = [i \in 1..k |-> text[i]]
      BY <1>1, <1>2, <1>4, <2>1
    <2> QED BY <1>4, <2>1, <2>2
  <1>10. SubSeq(name, 1, n + 1) = name
    BY <1>4
  <1>11. Len(name) = Len(text) + 1
    BY <1>1, <1>4
  <1> QED BY <1>1, <1>3, <1>5, <1>6, <1>8, <1>9, <1>10, <1>11

\* A letter less.
LEMMA FrontFacts ==
  ASSUME NEW text \in Texts, Len(text) \in 1..11
  PROVE  /\ SubSeq(text, 1, Len(text) - 1) \in Texts
         /\ Len(SubSeq(text, 1, Len(text) - 1)) = Len(text) - 1
         /\ [Padded(text) EXCEPT ![Len(text) - 1] = Terminal]
              = Padded(SubSeq(text, 1, Len(text) - 1))
         /\ \A i : Fitting(i, text) => Fitting(i, SubSeq(text, 1, Len(text) - 1))
  <1>1. PICK n \in 1..11 : n = Len(text)
    OBVIOUS
  <1>2. text \in Seq(Alphabet)
    BY TextFacts
  <1>3. PICK m \in 0..10 : m = n - 1 /\ n = m + 1
    <2>1. n - 1 \in 0..10 /\ n = (n - 1) + 1
      OBVIOUS
    <2> QED BY <2>1
  <1>4. PICK front : front = SubSeq(text, 1, m)
    OBVIOUS
  <1>5. front = [i \in 1..m |-> text[i]] /\ front \in Seq(Alphabet) /\ Len(front) = m
    <2>1. SubSeq(text, 1, m) = [i \in 1..m |-> text[i]]
      BY <1>1, <1>2, <1>3
    <2>2. \A i \in 1..m : text[i] \in Alphabet
      <3>1. \A i \in 1..m : i \in 1..n
        BY <1>3
      <3> QED BY <1>1, <3>1, TextFacts
    <2> QED BY <1>4, <2>1, <2>2
  <1>6. front \in Texts
    BY <1>5 DEF Texts, Characters
  <1>7. PICK p, q : p = Padded(text) /\ q = Padded(front)
    OBVIOUS
  <1>8. /\ p = [i \in 0..11 |-> IF i < n THEN text[i + 1] ELSE Terminal]
        /\ q = [i \in 0..11 |-> IF i < m THEN front[i + 1] ELSE Terminal]
    BY <1>1, <1>5, <1>7 DEF Padded, Characters
  <1>9. [p EXCEPT ![m] = Terminal] = q
    <2>1. PICK r : r = [p EXCEPT ![m] = Terminal]
      OBVIOUS
    <2>2. r = [i \in 0..11 |-> r[i]] /\ q = [i \in 0..11 |-> q[i]]
      BY <1>8, <2>1
    <2>3. ASSUME NEW i \in 0..11
          PROVE  r[i] = q[i]
      <3>1. r[i] = IF i = m THEN Terminal ELSE p[i]
        BY <1>8, <2>1
      <3>2. CASE i < m
        <4>1. i + 1 \in 1..m /\ i < n /\ i # m
          BY <1>3, <3>2
        <4>2. q[i] = front[i + 1] /\ p[i] = text[i + 1]
          BY <1>8, <3>2, <4>1
        <4> QED BY <1>5, <3>1, <4>1, <4>2
      <3>3. CASE ~(i < m)
        <4>1. q[i] = Terminal
          BY <1>8, <3>3
        <4>2. i # m => ~(i < n)
          BY <1>3, <3>3
        <4>3. i # m => p[i] = Terminal
          BY <1>8, <4>2
        <4> QED BY <3>1, <4>1, <4>3
      <3> QED BY <3>2, <3>3
    <2> QED BY <2>1, <2>2, <2>3
  <1>10. ASSUME NEW tiles, Fits(text, tiles)
         PROVE  Fits(front, tiles)
    <2> SUFFICES ASSUME NEW k \in 1..m
                 PROVE  SmallPixels(SubSeq(front, 1, k)) <= 8 * tiles
      BY <1>5, Zenon DEF Fits
    <2>1. k \in 1..n /\ k <= m /\ k \in Nat
      BY <1>3
    <2>2. /\ SubSeq(front, 1, k) = [i \in 1..k |-> front[i]]
          /\ SubSeq(text, 1, k) = [i \in 1..k |-> text[i]]
      BY <1>1, <1>2, <1>5, <2>1
    <2>3. \A i \in 1..k : i \in 1..m
      OBVIOUS
    <2>4. SubSeq(front, 1, k) = SubSeq(text, 1, k)
      BY <1>5, <2>2, <2>3
    <2>5. SmallPixels(SubSeq(text, 1, k)) <= 8 * tiles
      BY <1>1, <1>10, <2>1, Zenon DEF Fits
    <2> QED BY <2>4, <2>5, Zenon
  <1>11. \A i : Fitting(i, text) => Fitting(i, front)
    BY <1>10 DEF Fitting
  <1>12. front = SubSeq(text, 1, Len(text) - 1) /\ Len(front) = Len(text) - 1 /\ m = Len(text) - 1
    BY <1>1, <1>3, <1>4, <1>5
  <1> QED BY <1>6, <1>7, <1>9, <1>11, <1>12

\* A name the screen lets grow is still drawn whole.
LEMMA AppendFits ==
  ASSUME NEW text \in Texts, Len(text) \in 0..10, NEW c \in Alphabet,
         NEW i \in Nat, Fitting(i, text),
         SmallPixels(Append(text, c)) < SmallLimit(i)
  PROVE  Fitting(i, Append(text, c))
  <1>1. PICK n \in 0..10 : n = Len(text)
    OBVIOUS
  <1>2. PICK name : name = Append(text, c) /\ n = Len(text)
    BY <1>1
  <1>3. n \in Nat /\ Len(name) = n + 1 /\ name \in Texts
    <2>1. Append(text, c) \in Texts /\ Len(Append(text, c)) = Len(text) + 1
      BY AppendFacts
    <2> QED BY <1>2, <2>1
  <1>4. PICK wide \in Int : wide = SmallPixels(name)
    BY <1>3, PixelsType DEF SmallPixels
  <1>5. wide <= 8 * 8 /\ (i < Players => wide <= 8 * 7)
    <2>1. SmallLimit(i) = IF i < Players THEN 53 ELSE 61
      BY DEF SmallLimit
    <2> QED BY <1>2, <1>4, <2>1
  <1>6. ASSUME NEW tiles, Fits(text, tiles), wide <= 8 * tiles
        PROVE  Fits(name, tiles)
    <2> SUFFICES ASSUME NEW k \in 1..n + 1
                 PROVE  SmallPixels(SubSeq(name, 1, k)) <= 8 * tiles
      BY <1>3, Zenon DEF Fits
    <2>1. CASE k = n + 1
      <3>1. SubSeq(name, 1, k) = name
        BY <1>2, <2>1, AppendFacts
      <3> QED BY <1>4, <1>6, <3>1, Zenon
    <2>2. CASE k \in 1..n
      <3>1. SubSeq(name, 1, k) = SubSeq(text, 1, k)
        BY <1>2, <2>2, AppendFacts
      <3>2. SmallPixels(SubSeq(text, 1, k)) <= 8 * tiles
        BY <1>2, <1>6, <2>2, Zenon DEF Fits
      <3> QED BY <3>1, <3>2, Zenon
    <2>3. k = n + 1 \/ k \in 1..n
      BY <1>3
    <2> QED BY <2>1, <2>2, <2>3
  <1>7. (i < CachedNames => Fits(name, 8)) /\ (i < Players => Fits(name, 7))
    BY <1>5, <1>6 DEF Fitting
  <1> QED BY <1>2, <1>7 DEF Fitting

-----------------------------------------------------------------------------
(* The names in their places. *)

Bounded ==
  /\ mode \in {"title", "loading", "play", "entry"}
  /\ at \in 0..8 * NameCount /\ which \in Indices /\ keys \in 0..MaxKeys
Tables ==
  /\ table = [i \in Indices |-> table[i]] /\ saved = [i \in Indices |-> saved[i]]
  /\ \A i \in Indices : table[i] \in Words /\ NameAt(i, saved[i])
Agree(n) == \A i \in Indices, b \in 0..7 : 8 * i + b < n => Byte(table[i], b) = Byte(saved[i], b)
Loaded == mode = "loading" => at < 8 * NameCount /\ Agree(at)
Named == Playing => \A i \in Indices : NameAt(i, table[i])
Entered == \E text \in Texts : /\ entry = Padded(text) /\ length = Len(text)
                               /\ mode = "entry" => Fitting(which, text)
Right == Bounded /\ Tables /\ Loaded /\ Named /\ Entered

\* Reset fills the table with words.
LEMMA FilledType == Filled \in Words
  <1>1. Word - 1 \in 0..Word - 1
    BY WordFacts
  <1> QED BY <1>1 DEF Filled, Words

\* There is a first name.
LEMMA IndexFacts ==
  0 \in Indices /\ NameCount \in Nat \ {0} /\ MaxKeys \in Nat /\ Indices \subseteq Nat
  BY CountAssumption DEF Indices

\* The screen forgets its text when it closes.
LEMMA Cleared ==
  ASSUME ClearEntry, mode' # "entry"
  PROVE  Entered' /\ which' \in Indices
  <1>1. entry' = Padded(<< >>) /\ length' = 0 /\ which' = 0
    BY EmptyFacts DEF ClearEntry
  <1>2. Entered'
    BY <1>1, EmptyFacts DEF Entered
  <1> QED BY <1>1, <1>2, IndexFacts

\* A new game starts with the names of the tool.
LEMMA RightInit ==
  ASSUME Init
  PROVE  Right
  <1>1. Bounded
    BY IndexFacts DEF Init, Bounded
  <1>2. PICK texts \in Defaults : saved = [i \in Indices |-> ToolEncode(texts[i])]
    BY DEF Init
  <1>3. ASSUME NEW i \in Indices
        PROVE  NameAt(i, saved[i])
    <2>1. /\ texts[i] \in Seq(Alphabet) /\ Len(texts[i]) <= Characters
          /\ i < CachedNames => Fits(texts[i], 8)
          /\ i < Players => Fits(texts[i], 7)
      BY DefaultsAssumption
    <2>2. texts[i] \in Texts /\ Fitting(i, texts[i])
      BY <2>1, Zenon DEF Texts, Fitting
    <2>3. saved[i] = ToolEncode(texts[i])
      BY <1>2
    <2> QED BY <2>2, <2>3 DEF NameAt
  <1>4. Tables
    BY <1>2, <1>3, FilledType DEF Init, Tables
  <1>5. entry = Padded(<< >>) /\ length = 0 /\ mode = "title"
    BY EmptyFacts DEF Init
  <1>6. Entered
    BY <1>5, EmptyFacts DEF Entered
  <1>7. Loaded /\ Named
    BY <1>5 DEF Loaded, Named, Playing
  <1> QED BY <1>1, <1>4, <1>6, <1>7 DEF Right

\* The screen opens with a name.
LEMMA RightOpen ==
  ASSUME Right, OpenEntry
  PROVE  Right'
  <1>1. PICK i \in Indices : /\ which' = i /\ entry' = Decode(table[i])
                             /\ length' = Len(TextOf(Decode(table[i])))
    BY DEF OpenEntry
  <1>2. mode = "play" /\ mode' = "entry" /\ UNCHANGED <<table, at, saved, keys>>
    BY DEF OpenEntry
  <1>3. NameAt(i, table[i])
    BY <1>2 DEF Right, Named, Playing
  <1>4. PICK text : text = TextOf(Decode(table[i]))
    OBVIOUS
  <1>5. text \in Texts /\ Fitting(i, text) /\ Decode(table[i]) = Padded(text)
    BY <1>3, <1>4, NameFacts
  <1>6. Entered'
    <2>1. entry' = Padded(text) /\ length' = Len(text) /\ Fitting(which', text)
      BY <1>1, <1>4, <1>5
    <2> QED BY <1>5, <2>1 DEF Entered
  <1>7. Bounded'
    BY <1>1, <1>2 DEF Right, Bounded
  <1>8. Tables' /\ Named' /\ Loaded'
    BY <1>2 DEF Right, Tables, Named, Loaded, Playing
  <1> QED BY <1>6, <1>7, <1>8 DEF Right

\* The text on the name screen.
LEMMA EnteredText ==
  ASSUME Right
  PROVE  \E text \in Texts : /\ entry = Padded(text) /\ length = Len(text) /\ TextOf(entry) = text
                             /\ length \in 0..11
                             /\ mode = "entry" => Fitting(which, text)
  <1>1. PICK text \in Texts : /\ entry = Padded(text) /\ length = Len(text)
                              /\ mode = "entry" => Fitting(which, text)
    BY DEF Right, Entered
  <1>2. TextOf(entry) = text
    BY <1>1, TextPadded
  <1>3. length \in 0..11
    BY <1>1, TextFacts
  <1> QED BY <1>1, <1>2, <1>3

\* The bound on keys.
LEMMA KeyNext ==
  ASSUME Right, keys < MaxKeys
  PROVE  keys + 1 \in 0..MaxKeys
  BY CountAssumption DEF Right, Bounded

\* A letter more leaves a name on the screen.
LEMMA RightAppend ==
  ASSUME Right, AppendEntry
  PROVE  Right'
  <1>1. /\ mode = "entry" /\ mode' = "entry" /\ keys < MaxKeys /\ keys' = keys + 1
        /\ length < Characters /\ UNCHANGED <<table, at, which, saved>>
    BY DEF AppendEntry
  <1>2. PICK text \in Texts : /\ entry = Padded(text) /\ length = Len(text) /\ TextOf(entry) = text
                              /\ length \in 0..11 /\ Fitting(which, text)
    BY <1>1, EnteredText
  <1>3. PICK c \in Keys :
          LET name == Append(text, c) IN
          IF LargePixels(name) < 66 + 1 /\ SmallPixels(name) < SmallLimit(which)
          THEN /\ entry' = [entry EXCEPT ![length] = c, ![length + 1] = Terminal]
               /\ length' = length + 1
          ELSE UNCHANGED <<entry, length>>
    BY <1>2 DEF AppendEntry
  <1>4. c \in Alphabet
    BY LetterAssumption
  <1>5. which \in Indices /\ which \in Nat
    BY IndexFacts DEF Right, Bounded
  <1>6. ASSUME SmallPixels(Append(text, c)) < SmallLimit(which),
               entry' = [entry EXCEPT ![length] = c, ![length + 1] = Terminal],
               length' = length + 1
        PROVE  Entered'
    <2>1. length \in 0..10
      <3>1. length \in 0..11 /\ length < 11
        BY <1>1, <1>2, Zenon DEF Characters
      <3> QED BY <3>1
    <2>2. Len(text) \in 0..10
      BY <1>2, <2>1
    <2>3. /\ Append(text, c) \in Texts /\ Len(Append(text, c)) = Len(text) + 1
          /\ [Padded(text) EXCEPT ![Len(text)] = c, ![Len(text) + 1] = Terminal]
               = Padded(Append(text, c))
      BY <1>4, <2>2, AppendFacts
    <2>4. Fitting(which, Append(text, c))
      BY <1>2, <1>4, <1>5, <1>6, <2>2, AppendFits
    <2>5. entry' = Padded(Append(text, c)) /\ length' = Len(Append(text, c))
      BY <1>2, <1>6, <2>3, Zenon
    <2>6. PICK name \in Texts : entry' = Padded(name) /\ length' = Len(name) /\ Fitting(which, name)
      BY <2>3, <2>4, <2>5, Zenon
    <2> QED BY <1>1, <2>6, Zenon DEF Entered
  <1>7. ASSUME UNCHANGED <<entry, length>>
        PROVE  Entered'
    <2>1. entry' = Padded(text) /\ length' = Len(text) /\ Fitting(which, text)
      BY <1>2, <1>7, Zenon
    <2> QED BY <1>1, <2>1, Zenon DEF Entered
  <1>8. Entered'
    <2>1. \/ /\ SmallPixels(Append(text, c)) < SmallLimit(which)
             /\ entry' = [entry EXCEPT ![length] = c, ![length + 1] = Terminal]
             /\ length' = length + 1
          \/ UNCHANGED <<entry, length>>
      BY <1>3, Zenon
    <2> QED BY <1>6, <1>7, <2>1, Zenon
  <1>9. Bounded'
    BY <1>1, KeyNext DEF Right, Bounded
  <1>10. Tables' /\ Named' /\ Loaded'
    BY <1>1 DEF Right, Tables, Named, Loaded, Playing
  <1> QED BY <1>8, <1>9, <1>10 DEF Right

\* So does a letter less.
LEMMA RightErase ==
  ASSUME Right, EraseEntry
  PROVE  Right'
  <1>1. /\ mode = "entry" /\ mode' = "entry" /\ keys < MaxKeys /\ keys' = keys + 1
        /\ length > 0 /\ UNCHANGED <<table, at, which, saved>>
        /\ entry' = [entry EXCEPT ![length - 1] = Terminal] /\ length' = length - 1
    BY DEF EraseEntry
  <1>2. PICK text \in Texts : /\ entry = Padded(text) /\ length = Len(text) /\ TextOf(entry) = text
                              /\ length \in 0..11 /\ Fitting(which, text)
    BY <1>1, EnteredText
  <1>3. length \in 1..11
    <2>1. length \in 0..11 /\ length > 0
      BY <1>1, <1>2, Zenon
    <2> QED BY <2>1
  <1>4. Len(text) \in 1..11
    BY <1>2, <1>3
  <1>5. PICK front : front = SubSeq(text, 1, Len(text) - 1)
    OBVIOUS
  <1>6. /\ front \in Texts /\ Len(front) = Len(text) - 1
        /\ [Padded(text) EXCEPT ![Len(text) - 1] = Terminal] = Padded(front)
        /\ Fitting(which, front)
    BY <1>2, <1>4, <1>5, FrontFacts
  <1>7. entry' = Padded(front) /\ length' = Len(front)
    BY <1>1, <1>2, <1>6, Zenon
  <1>8. Entered'
    BY <1>1, <1>6, <1>7, Zenon DEF Entered
  <1>9. Bounded'
    BY <1>1, KeyNext DEF Right, Bounded
  <1>10. Tables' /\ Named' /\ Loaded'
    BY <1>1 DEF Right, Tables, Named, Loaded, Playing
  <1> QED BY <1>8, <1>9, <1>10 DEF Right

\* What is confirmed is a name, packed as the tool packs it.
LEMMA RightConfirm ==
  ASSUME Right, ConfirmEntry
  PROVE  Right'
  <1>1. /\ mode = "entry" /\ mode' = "play" /\ ClearEntry /\ UNCHANGED <<at, saved, keys>>
        /\ table' = [table EXCEPT ![which] = Encode(entry)]
    BY DEF ConfirmEntry
  <1>2. PICK text \in Texts : entry = Padded(text) /\ Fitting(which, text)
    BY <1>1, EnteredText
  <1>3. PICK packed : packed = ToolEncode(text)
    OBVIOUS
  <1>4. Encode(entry) = packed /\ packed \in Words /\ NameAt(which, packed)
    BY <1>2, <1>3, Packed DEF NameAt
  <1>5. which \in Indices /\ table = [i \in Indices |-> table[i]]
    BY DEF Right, Bounded, Tables
  <1>6. /\ table' = [i \in Indices |-> table'[i]]
        /\ \A i \in Indices : table'[i] = IF i = which THEN packed ELSE table[i]
    BY <1>1, <1>4, <1>5
  <1>7. ASSUME NEW i \in Indices
        PROVE  NameAt(i, table'[i]) /\ table'[i] \in Words
    <2>1. NameAt(i, table[i]) /\ table[i] \in Words
      BY <1>1 DEF Right, Named, Playing, Tables
    <2> QED BY <1>4, <1>6, <2>1
  <1>8. Entered' /\ which' \in Indices
    BY <1>1, Cleared
  <1>9. Bounded'
    BY <1>1, <1>8 DEF Right, Bounded
  <1>10. Tables'
    BY <1>1, <1>6, <1>7 DEF Right, Tables
  <1>11. Named' /\ Loaded'
    BY <1>1, <1>7 DEF Named, Loaded
  <1> QED BY <1>8, <1>9, <1>10, <1>11 DEF Right

\* Nothing is loaded yet.
LEMMA RightStart ==
  ASSUME Right, StartLoading
  PROVE  Right'
  <1>1. /\ mode = "title" /\ mode' = "loading" /\ at' = 0
        /\ UNCHANGED <<table, entry, which, length, saved, keys>>
    BY DEF StartLoading
  <1>2. 0 < 8 * NameCount /\ 0 \in 0..8 * NameCount
    BY IndexFacts
  <1>3. \A i \in Indices, b \in 0..7 : ~(8 * i + b < 0)
    BY IndexFacts
  <1>4. Agree(at)'
    BY <1>1, <1>3 DEF Agree
  <1>5. Loaded' /\ Named'
    BY <1>1, <1>2, <1>4 DEF Loaded, Named, Playing
  <1>6. Bounded'
    BY <1>1, <1>2 DEF Right, Bounded
  <1>7. Tables'
    BY <1>1 DEF Right, Tables
  <1>8. PICK text \in Texts : entry = Padded(text) /\ length = Len(text)
    BY EnteredText
  <1>9. Entered'
    BY <1>1, <1>8 DEF Entered
  <1> QED BY <1>5, <1>6, <1>7, <1>9 DEF Right

\* The names that are saved are names.
LEMMA RightSave ==
  ASSUME Right, SaveGame
  PROVE  Right'
  <1>1. mode = "play" /\ saved' = table /\ UNCHANGED <<mode, table, at, entry, which, length, keys>>
    BY DEF SaveGame
  <1>2. Bounded' /\ Named' /\ Entered' /\ Loaded'
    BY <1>1 DEF Right, Bounded, Named, Entered, Playing, Loaded
  <1>3. Tables'
    BY <1>1 DEF Right, Tables, Named, Playing
  <1> QED BY <1>2, <1>3 DEF Right

\* Work RAM is left alone on the title screen.
LEMMA RightTitle ==
  ASSUME Right, Title
  PROVE  Right'
  <1>1. mode' = "title" /\ UNCHANGED <<table, at, entry, which, length, saved, keys>>
    BY DEF Title
  <1>2. Bounded' /\ Named' /\ Loaded' /\ Tables'
    BY <1>1 DEF Right, Bounded, Named, Playing, Loaded, Tables
  <1>3. PICK text \in Texts : entry = Padded(text) /\ length = Len(text)
    BY EnteredText
  <1>4. Entered'
    BY <1>1, <1>3 DEF Entered
  <1> QED BY <1>2, <1>4 DEF Right

\* After a reset nothing is expected of the table.
LEMMA RightReset ==
  ASSUME Right, Reset
  PROVE  Right'
  <1>1. /\ mode' = "title" /\ at' = 0 /\ ClearEntry /\ UNCHANGED <<saved, keys>>
        /\ table' = [i \in Indices |-> Filled]
    BY DEF Reset
  <1>2. Entered' /\ which' \in Indices
    BY <1>1, Cleared
  <1>3. 0 \in 0..8 * NameCount
    BY IndexFacts
  <1>4. Bounded' /\ Named' /\ Loaded'
    BY <1>1, <1>2, <1>3 DEF Right, Bounded, Named, Playing, Loaded
  <1>5. Tables'
    BY <1>1, FilledType DEF Right, Tables
  <1> QED BY <1>2, <1>4, <1>5 DEF Right

\* Every byte loaded is the one that was saved, and the others stay.
LEMMA RightLoad ==
  ASSUME Right, Load
  PROVE  /\ Right'
         /\ mode' = "play" => table' = saved
         /\ mode' \in {"play", "loading"}
  <1>1. /\ mode = "loading" /\ at' = at + 1 /\ UNCHANGED <<entry, which, length, saved, keys>>
        /\ mode' = IF at + 1 = 8 * NameCount THEN "play" ELSE "loading"
    BY DEF Load
  <1>2. PICK j, r : j = at \div 8 /\ r = at % 8
    OBVIOUS
  <1>3. PICK stored : stored = StoreByte(table[j], r, Byte(saved[j], r))
    OBVIOUS
  <1>4. table' = [table EXCEPT ![j] = stored]
    BY <1>2, <1>3 DEF Load
  <1>5. at \in Nat /\ at < 8 * NameCount /\ Agree(at)
    BY <1>1, IndexFacts DEF Right, Loaded, Bounded
  <1>6. NameCount \in Nat
    BY IndexFacts
  <1>7. j \in Nat /\ r \in 0..7 /\ at = 8 * j + r
    BY <1>2, <1>5
  <1>8. j \in Indices
    BY <1>5, <1>6, <1>7 DEF Indices
  <1>9. \A i \in Indices : table[i] \in Words /\ saved[i] \in Words
    BY NameFacts DEF Right, Tables
  <1>10. /\ stored \in Words
         /\ \A c \in 0..7 : Byte(stored, c) = IF c = r THEN Byte(saved[j], r) ELSE Byte(table[j], c)
    <2>1. Byte(saved[j], r) \in 0..255
      BY <1>7, <1>8, <1>9, ByteType
    <2>2. PICK m, v : m = table[j] /\ v = Byte(saved[j], r)
      OBVIOUS
    <2>3. m \in Words /\ v \in 0..255
      BY <1>8, <1>9, <2>1, <2>2
    <2>4. r \in 0..7
      BY <1>7
    <2>5. Replaces(StoreByte(m, r, v), m, r, v)
      BY <2>3, <2>4, StoreByteFacts
    <2> QED BY <1>3, <2>2, <2>5 DEF Replaces
  <1>11. table = [i \in Indices |-> table[i]]
    BY DEF Right, Tables
  <1>12. /\ table' = [i \in Indices |-> table'[i]]
         /\ \A i \in Indices : table'[i] = IF i = j THEN stored ELSE table[i]
    BY <1>4, <1>8, <1>11
  <1>13. Tables'
    BY <1>1, <1>9, <1>10, <1>12 DEF Right, Tables
  <1>14. ASSUME NEW i \in Indices, NEW b \in 0..7, 8 * i + b < at + 1
         PROVE  Byte(table'[i], b) = Byte(saved[i], b)
    <2>1. i \in Nat
      BY IndexFacts
    <2>2. CASE i = j /\ b = r
      BY <1>10, <1>12, <2>2
    <2>3. CASE ~(i = j /\ b = r)
      <3>1. 8 * i + b < at
        BY <1>7, <1>14, <2>1, <2>3
      <3>2. Byte(table[i], b) = Byte(saved[i], b)
        BY <1>5, <3>1 DEF Agree
      <3> QED BY <1>10, <1>12, <2>3, <3>2
    <2> QED BY <2>2, <2>3
  <1>15. Agree(at)'
    BY <1>1, <1>14 DEF Agree
  <1>16. at + 1 \in 0..8 * NameCount
    BY <1>5, <1>6
  <1>17. Bounded'
    BY <1>1, <1>16 DEF Right, Bounded
  <1>18. Loaded'
    <2>1. at + 1 # 8 * NameCount => at + 1 < 8 * NameCount
      BY <1>5, <1>6
    <2> QED BY <1>1, <1>15, <2>1 DEF Loaded
  <1>19. ASSUME mode' = "play"
         PROVE  table' = saved
    <2>1. at + 1 = 8 * NameCount
      BY <1>1, <1>19
    <2>2. ASSUME NEW i \in Indices
          PROVE  table'[i] = saved[i]
      <3>1. \A b \in 0..7 : Byte(table'[i], b) = Byte(saved[i], b)
        <4> SUFFICES ASSUME NEW b \in 0..7
                     PROVE  Byte(table'[i], b) = Byte(saved[i], b)
          OBVIOUS
        <4>1. i \in Nat /\ i < NameCount
          BY <1>6 DEF Indices
        <4>2. 8 * i + b < at + 1
          BY <1>6, <2>1, <4>1
        <4> QED BY <1>14, <4>2
      <3>2. table'[i] \in Words /\ saved[i] \in Words
        BY <1>9, <1>10, <1>12
      <3> QED BY <3>1, <3>2, BytesUnique
    <2>3. saved = [i \in Indices |-> saved[i]]
      BY DEF Right, Tables
    <2> QED BY <1>12, <2>2, <2>3
  <1>20. Named'
    <2>1. Playing' => mode' = "play"
      BY <1>1 DEF Playing
    <2> QED BY <1>1, <1>19, <2>1 DEF Named, Right, Tables
  <1>21. PICK text \in Texts : entry = Padded(text) /\ length = Len(text)
    BY EnteredText
  <1>22. Entered'
    BY <1>1, <1>21 DEF Entered
  <1> QED BY <1>1, <1>13, <1>17, <1>18, <1>19, <1>20, <1>22 DEF Right

\* Every step keeps the names in their places.
LEMMA RightNext ==
  ASSUME Right, [Next]_vars
  PROVE  Right'
  <1>1. CASE UNCHANGED vars
    BY <1>1 DEF vars, Right, Bounded, Tables, Loaded, Agree, Named, Playing, Entered
  <1> QED BY <1>1, RightOpen, RightAppend, RightErase, RightConfirm, RightStart, RightLoad,
             RightSave, RightTitle, RightReset DEF Next

-----------------------------------------------------------------------------
(* What the tiles show. *)

Cached == 0..CachedNames - 1

\* What the tiles of a packed name show.
Tiles(packed) == Drawn(TextOf(Decode(packed)), 8)

\* Names are loaded in their order, and the screen is open for one that exists.
Shape ==
  /\ table = [i \in Indices |-> table[i]]
  /\ cache = [i \in Cached |-> cache[i]]
  /\ mode \in {"title", "loading", "play", "entry"}
  /\ mode = "loading" => at \in Nat
  /\ mode = "entry" => which \in Indices

IInv == Shape /\ CacheFresh

\* Rendering a name draws it, and no other.
LEMMA RenderFacts ==
  ASSUME NEW i, NEW packed, cache = [j \in Cached |-> cache[j]], i \in Nat
  PROVE  /\ Render(i, packed) = [j \in Cached |-> Render(i, packed)[j]]
         /\ \A j \in Cached : Render(i, packed)[j] = IF j = i THEN Tiles(packed) ELSE cache[j]
  <1>1. PICK shown : shown = Tiles(packed)
    OBVIOUS
  <1>2. Render(i, packed) = IF i >= CachedNames THEN cache ELSE [cache EXCEPT ![i] = shown]
    BY <1>1 DEF Render, Tiles
  <1>3. i \in Cached \/ (i >= CachedNames /\ i \notin Cached)
    BY CountAssumption DEF Cached
  <1>4. CASE i \in Cached
    <2>1. ~(i >= CachedNames)
      BY <1>4, CountAssumption DEF Cached
    <2>2. Render(i, packed) = [cache EXCEPT ![i] = shown]
      BY <1>2, <2>1
    <2> QED BY <1>1, <1>4, <2>2
  <1>5. CASE i >= CachedNames /\ i \notin Cached
    BY <1>2, <1>5
  <1> QED BY <1>3, <1>4, <1>5

\* Before anything is loaded nothing is expected of the tiles.
LEMMA Initially ==
  ASSUME Init
  PROVE  IInv
  BY DEF Init, IInv, Shape, CacheFresh, Playing, Cached

\* A name is drawn when the last of its bytes has arrived, and not touched again.
LEMMA LoadStep ==
  ASSUME IInv, Load
  PROVE  IInv'
  <1>1. mode = "loading" /\ at \in Nat /\ at' = at + 1 /\ UNCHANGED which
    BY DEF IInv, Shape, Load
  <1>2. PICK i, stored :
          /\ i = at \div 8
          /\ table' = [table EXCEPT ![i] = stored]
          /\ cache' = IF at % 8 = 7 THEN Render(i, stored) ELSE cache
    BY DEF Load
  <1>3. i \in Nat /\ at % 8 \in 0..7 /\ at = 8 * i + (at % 8)
    BY <1>1, <1>2
  <1>4. mode' = IF at + 1 = 8 * NameCount THEN "play" ELSE "loading"
    BY <1>1 DEF Load
  <1>5. Shape'
    BY <1>1, <1>2, <1>3, <1>4, RenderFacts DEF IInv, Shape
  <1>6. ASSUME NEW j \in Cached, at + 1 >= 8 * (j + 1)
        PROVE  cache'[j] = Tiles(table'[j])
    <2>1. j \in Indices /\ j \in Nat
      BY CountAssumption DEF Cached, Indices
    <2>2. CASE at >= 8 * (j + 1)
      <3>1. j # i
        BY <1>3, <2>1, <2>2
      <3>2. table'[j] = table[j] /\ cache'[j] = cache[j]
        BY <1>2, <1>3, <3>1, RenderFacts DEF IInv, Shape
      <3>3. cache[j] = Tiles(table[j])
        BY <1>1, <2>2 DEF IInv, CacheFresh, Cached, Tiles
      <3> QED BY <3>2, <3>3
    <2>3. CASE at + 1 = 8 * (j + 1)
      <3>1. at % 8 = 7 /\ i = j
        BY <1>1, <1>3, <2>1, <2>3
      <3>2. table'[j] = stored
        BY <1>2, <2>1, <3>1 DEF IInv, Shape
      <3>3. cache'[j] = Tiles(stored)
        BY <1>2, <1>3, <3>1, RenderFacts DEF IInv, Shape
      <3> QED BY <3>2, <3>3
    <2> QED BY <1>1, <1>6, <2>1, <2>2, <2>3
  <1>7. ASSUME NEW j \in Cached, Playing' \/ (mode' = "loading" /\ at' >= 8 * (j + 1))
        PROVE  at + 1 >= 8 * (j + 1)
    BY <1>1, <1>4, <1>7, CountAssumption DEF Playing, Cached
  <1>8. CacheFresh'
    BY <1>6, <1>7 DEF CacheFresh, Cached, Tiles
  <1> QED BY <1>5, <1>8 DEF IInv

\* Every step keeps the tiles in step with the table.
LEMMA Inductive ==
  ASSUME IInv, [Next]_vars
  PROVE  IInv'
  <1>1. CASE OpenEntry
    BY <1>1 DEF OpenEntry, IInv, Shape, CacheFresh, Playing
  <1>2. CASE AppendEntry
    BY <1>2 DEF AppendEntry, IInv, Shape, CacheFresh, Playing
  <1>3. CASE EraseEntry
    BY <1>3 DEF EraseEntry, IInv, Shape, CacheFresh, Playing
  <1>4. CASE ConfirmEntry
    <2>1. PICK packed : /\ table' = [table EXCEPT ![which] = packed]
                        /\ cache' = Render(which, packed)
      BY <1>4, Zenon DEF ConfirmEntry
    <2>2. mode = "entry" /\ mode' = "play" /\ which \in Indices /\ which \in Nat
      BY <1>4, CountAssumption DEF ConfirmEntry, IInv, Shape, Indices
    <2>3. Shape'
      BY <2>1, <2>2, RenderFacts DEF IInv, Shape
    <2>4. ASSUME NEW j \in Cached
          PROVE  cache'[j] = Tiles(table'[j])
      <3>1. j \in Indices
        BY CountAssumption DEF Cached, Indices
      <3>2. cache[j] = Tiles(table[j])
        BY <2>2 DEF IInv, CacheFresh, Playing, Cached, Tiles
      <3>3. /\ cache'[j] = IF j = which THEN Tiles(packed) ELSE cache[j]
            /\ table'[j] = IF j = which THEN packed ELSE table[j]
        BY <2>1, <2>2, <3>1, RenderFacts DEF IInv, Shape
      <3> QED BY <3>2, <3>3
    <2>5. CacheFresh'
      BY <2>4 DEF CacheFresh, Cached, Tiles
    <2> QED BY <2>3, <2>5 DEF IInv
  <1>5. CASE StartLoading
    BY <1>5, CountAssumption DEF StartLoading, IInv, Shape, CacheFresh, Playing
  <1>6. CASE Load
    BY <1>6, LoadStep
  <1>7. CASE SaveGame
    BY <1>7 DEF SaveGame, IInv, Shape, CacheFresh, Playing
  <1>8. CASE Title
    BY <1>8 DEF Title, IInv, Shape, CacheFresh, Playing
  <1>9. CASE Reset
    BY <1>9 DEF Reset, IInv, Shape, CacheFresh, Playing
  <1>10. CASE UNCHANGED vars
    BY <1>10 DEF vars, IInv, Shape, CacheFresh, Playing
  <1> QED BY <1>1, <1>2, <1>3, <1>4, <1>5, <1>6, <1>7, <1>8, <1>9, <1>10 DEF Next

\* What the menus copy from the cache is the name dialogue spells from the table,
\* from the moment its last byte was loaded, for any names and fonts.
THEOREM CacheCorrect == Spec => []CacheFresh
  <1>1. IInv => CacheFresh
    BY DEF IInv
  <1> QED BY <1>1, Initially, Inductive, PTL DEF Spec
\* Names in their places have their types.
LEMMA RightType ==
  ASSUME Right, IInv
  PROVE  TypeOK
  <1>1. PICK text \in Texts : /\ entry = Padded(text) /\ length = Len(text) /\ TextOf(entry) = text
                              /\ length \in 0..11
    BY EnteredText
  <1>2. \A i \in 0..Characters : entry[i] \in 0..255
    <2>1. \A i \in 0..11 : Padded(text)[i] \in 0..255
      BY PaddedFacts
    <2> QED BY <1>1, <2>1, Zenon DEF Characters
  <1>3. \A i \in Indices : /\ table[i] \in [1..4 -> 0..Word - 1]
                           /\ saved[i] \in [1..4 -> 0..Word - 1]
    <2>1. \A i \in Indices : table[i] \in Words /\ saved[i] \in Words
      BY NameFacts DEF Right, Tables
    <2> QED BY <2>1 DEF Words
  <1>4. DOMAIN cache = 0..CachedNames - 1
    BY DEF IInv, Shape, Cached
  <1>5. length \in 0..Characters
    BY <1>1, Zenon DEF Characters
  <1>6. mode = "entry" => length = Len(TextOf(entry))
    BY <1>1, Zenon
  <1>7. Bounded
    BY DEF Right
  <1> QED BY <1>2, <1>3, <1>4, <1>5, <1>6, <1>7, Zenon DEF TypeOK, Bounded

\* Every variable has its type, and the name screen's text ends at its length.
THEOREM TypeCorrect == Spec => []TypeOK
  <1>1. Right /\ IInv => TypeOK
    BY RightType
  <1> QED BY <1>1, Initially, Inductive, RightInit, RightNext, PTL DEF Spec

\* The tool and the console pack every name alike, through any loads, keys and
\* resets: what is in the table is what base56.cpp makes of what it spells.
THEOREM SameCorrect == Spec => []SameEncoding
  <1>1. Right => SameEncoding
    BY NameFacts DEF Right, Named, SameEncoding
  <1> QED BY <1>1, RightInit, RightNext, PTL DEF Spec

\* The tiles show every name whole, those of people also the first seven of them.
THEOREM WholeCorrect == Spec => []DrawnWhole
  <1>1. Right /\ CacheFresh => DrawnWhole
    <2> SUFFICES ASSUME Right, CacheFresh, Playing, NEW i \in 0..CachedNames - 1
                 PROVE  /\ cache[i] = TextOf(Decode(table[i]))
                        /\ i < Players => Drawn(TextOf(Decode(table[i])), 7)
                                           = TextOf(Decode(table[i]))
      BY DEF DrawnWhole
    <2>1. i \in Indices /\ i < CachedNames
      BY CountAssumption DEF Indices
    <2>2. PICK name : name = TextOf(Decode(table[i]))
      OBVIOUS
    <2>3. NameAt(i, table[i])
      BY <2>1 DEF Right, Named
    <2>4. name \in Texts /\ Fitting(i, name)
      BY <2>2, <2>3, NameFacts
    <2>5. Drawn(name, 8) = name /\ (i < Players => Drawn(name, 7) = name)
      BY <2>1, <2>4, WholeDrawn DEF Fitting
    <2>6. cache[i] = Drawn(name, 8)
      BY <2>2 DEF CacheFresh
    <2> QED BY <2>2, <2>5, <2>6
  <1> QED BY <1>1, CacheCorrect, RightInit, RightNext, PTL DEF Spec

-----------------------------------------------------------------------------
(* The book of names. *)

\* What the book of names sees.
Used == [i \in Indices |-> IF Playing THEN TextOf(Decode(table[i])) ELSE << >>]
Typed == IF mode = "entry" THEN <<which, TextOf(entry)>> ELSE << >>
Kept == [i \in Indices |-> TextOf(Decode(saved[i]))]
Spelled == Keys \union UNION {UNION {Range(texts[i]) : i \in Indices} : texts \in Defaults}

\* The saved game is a book of names.
LEMMA BookInit ==
  ASSUME Init
  PROVE  Book!Init
  <1>1. mode = "title"
    BY DEF Init
  <1>2. Playing = FALSE /\ Used = [i \in Indices |-> << >>] /\ Typed = << >>
    BY <1>1 DEF Playing, Used, Typed
  <1>3. PICK texts \in Defaults : saved = [i \in Indices |-> ToolEncode(texts[i])]
    BY DEF Init
  <1>4. ASSUME NEW i \in Indices
        PROVE  TextOf(Decode(saved[i])) \in Seq(Spelled)
    <2>1. texts[i] \in Seq(Alphabet) /\ Len(texts[i]) <= Characters
      BY DefaultsAssumption
    <2>2. texts[i] \in Texts
      BY <2>1, Zenon DEF Texts
    <2>3. TextOf(Decode(saved[i])) = texts[i]
      BY <1>3, <2>2, Packed
    <2>4. PICK text : text = texts[i]
      OBVIOUS
    <2>5. \A k \in DOMAIN text : text[k] \in Spelled
      <3> SUFFICES ASSUME NEW k \in DOMAIN text
                   PROVE  text[k] \in Spelled
        OBVIOUS
      <3>1. text[k] \in Range(texts[i])
        BY <2>4 DEF Range
      <3>2. text[k] \in UNION {Range(texts[j]) : j \in Indices}
        BY <3>1
      <3> QED BY <3>2 DEF Spelled
    <2>6. text \in Seq(Spelled)
      <3>1. text \in Seq(Alphabet)
        BY <2>1, <2>4
      <3>2. PICK n \in Nat : n = Len(text)
        BY <3>1
      <3>3. text = [k \in 1..n |-> text[k]] /\ DOMAIN text = 1..n
        BY <3>1, <3>2
      <3> QED BY <2>5, <3>2, <3>3
    <2> QED BY <2>3, <2>4, <2>6
  <1>5. Kept \in [Indices -> Seq(Spelled)]
    BY <1>4 DEF Kept
  <1> QED BY <1>2, <1>5, Zenon DEF Book!Init, Book!Nameless, Used, Typed, Kept, Spelled

\* A step of the names that changes nothing a player sees.
LEMMA BookStutter ==
  ASSUME Playing' <=> Playing, Used' = Used, Typed' = Typed, Kept' = Kept
  PROVE  [Book!Next]_(Book!vars)
  <1>1. Playing' = Playing
    BY DEF Playing
  <1> QED BY <1>1 DEF Book!vars, Used, Typed, Kept

\* The last byte loaded begins the game, the others change nothing.
LEMMA BookBegin ==
  ASSUME Right, Load
  PROVE  [Book!Next]_(Book!vars)
  <1>1. mode = "loading" /\ saved' = saved /\ mode' \in {"play", "loading"}
        /\ (mode' = "play" => table' = saved)
    BY RightLoad DEF Load
  <1>2. Typed' = << >> /\ Typed = << >> /\ Kept' = Kept /\ ~Playing
    BY <1>1 DEF Typed, Kept, Playing
  <1>3. CASE mode' = "loading"
    <2>1. ~Playing'
      BY <1>3 DEF Playing
    <2>2. Used' = Used
      BY <1>2, <2>1 DEF Used
    <2> QED BY <1>2, <2>1, <2>2, BookStutter
  <1>4. CASE mode' = "play"
    <2>1. Playing' = TRUE
      BY <1>4 DEF Playing
    <2>2. Used' = Kept
      BY <1>1, <1>4, <2>1 DEF Used, Kept
    <2> QED BY <1>2, <2>1, <2>2 DEF Book!Next, Book!Begin, Used, Typed, Kept
  <1> QED BY <1>1, <1>3, <1>4

\* The screen opens with the present name.
LEMMA BookOpen ==
  ASSUME Right, OpenEntry
  PROVE  [Book!Next]_(Book!vars)
  <1>1. PICK i \in Indices : which' = i /\ entry' = Decode(table[i])
    BY DEF OpenEntry
  <1>2. mode = "play" /\ mode' = "entry" /\ table' = table /\ saved' = saved
    BY DEF OpenEntry
  <1>3. Playing /\ Playing' = Playing /\ Used' = Used /\ Kept' = Kept /\ Typed = << >>
    BY <1>2 DEF Playing, Used, Kept, Typed
  <1>4. Typed' = <<i, Used[i]>>
    BY <1>1, <1>2, <1>3 DEF Typed, Used
  <1> QED BY <1>3, <1>4 DEF Book!Next, Book!Open, Used, Typed, Kept

\* A key is a letter more, or refused.
LEMMA BookAppend ==
  ASSUME Right, AppendEntry
  PROVE  [Book!Next]_(Book!vars)
  <1>1. /\ mode = "entry" /\ mode' = "entry" /\ length < Characters
        /\ table' = table /\ which' = which /\ saved' = saved
    BY DEF AppendEntry
  <1>2. PICK text \in Texts : /\ entry = Padded(text) /\ length = Len(text) /\ TextOf(entry) = text
                              /\ length \in 0..11
    BY EnteredText
  <1>3. PICK c \in Keys :
          \/ /\ entry' = [entry EXCEPT ![length] = c, ![length + 1] = Terminal]
             /\ length' = length + 1
          \/ UNCHANGED <<entry, length>>
    <2>1. PICK c \in Keys :
            LET name == Append(TextOf(entry), c) IN
            IF LargePixels(name) < 66 + 1 /\ SmallPixels(name) < SmallLimit(which)
            THEN /\ entry' = [entry EXCEPT ![length] = c, ![length + 1] = Terminal]
                 /\ length' = length + 1
            ELSE UNCHANGED <<entry, length>>
      BY Zenon DEF AppendEntry
    <2> QED BY <2>1, Zenon
  <1>4. Playing' = Playing /\ Used' = Used /\ Kept' = Kept
    BY <1>1 DEF Playing, Used, Kept
  <1>5. ASSUME entry' = [entry EXCEPT ![length] = c, ![length + 1] = Terminal]
        PROVE  [Book!Next]_(Book!vars)
    <2>1. length \in 0..10
      <3>1. length \in 0..11 /\ length < 11
        BY <1>1, <1>2, Zenon DEF Characters
      <3> QED BY <3>1
    <2>2. Len(text) \in 0..10
      BY <1>2, <2>1, Zenon
    <2>3. c \in Alphabet
      BY LetterAssumption
    <2>4. PICK name : name = Append(text, c)
      OBVIOUS
    <2>5. /\ name \in Texts
          /\ [Padded(text) EXCEPT ![Len(text)] = c, ![Len(text) + 1] = Terminal] = Padded(name)
      BY <2>2, <2>3, <2>4, AppendFacts
    <2>6. entry' = Padded(name)
      BY <1>2, <1>5, <2>5, Zenon
    <2>7. TextOf(entry') = name
      BY <2>5, <2>6, TextPadded
    <2>8. Typed = <<which, text>> /\ Typed' = <<which, name>>
      BY <1>1, <1>2, <2>7 DEF Typed
    <2>9. Typed # << >> /\ Typed' = <<Typed[1], Append(Typed[2], c)>> /\ c \in Spelled
      BY <2>4, <2>8 DEF Spelled
    <2>10. Book!Key
      BY <1>4, <2>9 DEF Book!Key, Used, Typed, Kept, Spelled
    <2> QED BY <2>10 DEF Book!Next
  <1>6. ASSUME UNCHANGED <<entry, length>>
        PROVE  [Book!Next]_(Book!vars)
    <2>1. Typed' = Typed
      BY <1>1, <1>6 DEF Typed
    <2> QED BY <1>4, <2>1, BookStutter
  <1> QED BY <1>3, <1>5, <1>6, Zenon

\* A letter less.
LEMMA BookErase ==
  ASSUME Right, EraseEntry
  PROVE  [Book!Next]_(Book!vars)
  <1>1. /\ mode = "entry" /\ mode' = "entry" /\ length > 0
        /\ table' = table /\ which' = which /\ saved' = saved
        /\ entry' = [entry EXCEPT ![length - 1] = Terminal]
    BY DEF EraseEntry
  <1>2. PICK text \in Texts : /\ entry = Padded(text) /\ length = Len(text) /\ TextOf(entry) = text
                              /\ length \in 0..11
    BY EnteredText
  <1>3. Len(text) \in 1..11
    <2>1. length \in 0..11 /\ length > 0
      BY <1>1, <1>2, Zenon
    <2>2. length \in 1..11
      BY <2>1
    <2> QED BY <1>2, <2>2, Zenon
  <1>4. PICK front : front = SubSeq(text, 1, Len(text) - 1)
    OBVIOUS
  <1>5. front \in Texts /\ [Padded(text) EXCEPT ![Len(text) - 1] = Terminal] = Padded(front)
    BY <1>3, <1>4, FrontFacts
  <1>6. TextOf(entry') = front
    <2>1. entry' = Padded(front)
      BY <1>1, <1>2, <1>5, Zenon
    <2> QED BY <1>5, <2>1, TextPadded
  <1>7. Playing' = Playing /\ Used' = Used /\ Kept' = Kept
    BY <1>1 DEF Playing, Used, Kept
  <1>8. Typed = <<which, text>> /\ Typed' = <<which, front>>
    BY <1>1, <1>2, <1>6 DEF Typed
  <1>9. text # << >>
    <2>1. PICK n \in 1..11 : n = Len(text)
      BY <1>3
    <2>2. n # 0
      OBVIOUS
    <2>3. Len(<< >>) = 0
      OBVIOUS
    <2> QED BY <2>1, <2>2, <2>3, Zenon
  <1>10. /\ Typed # << >> /\ Typed[2] # << >>
         /\ Typed' = <<Typed[1], SubSeq(Typed[2], 1, Len(Typed[2]) - 1)>>
    BY <1>4, <1>8, <1>9
  <1>11. Book!Rub
    BY <1>7, <1>10 DEF Book!Rub, Used, Typed, Kept
  <1> QED BY <1>11 DEF Book!Next

\* What is confirmed is what was typed.
LEMMA BookConfirm ==
  ASSUME Right, ConfirmEntry
  PROVE  [Book!Next]_(Book!vars)
  <1>1. /\ mode = "entry" /\ mode' = "play" /\ saved' = saved
        /\ table' = [table EXCEPT ![which] = Encode(entry)]
    BY DEF ConfirmEntry
  <1>2. PICK text \in Texts : entry = Padded(text) /\ TextOf(entry) = text
    BY EnteredText
  <1>3. PICK packed : packed = Encode(entry)
    OBVIOUS
  <1>4. TextOf(Decode(packed)) = text
    <2>1. packed = ToolEncode(text)
      BY <1>2, <1>3, Packed
    <2> QED BY <2>1, Packed
  <1>5. which \in Indices /\ table = [i \in Indices |-> table[i]]
    BY DEF Right, Bounded, Tables
  <1>6. Playing /\ Playing' = Playing /\ Kept' = Kept /\ Typed' = << >> /\ Typed = <<which, text>>
    BY <1>1, <1>2 DEF Playing, Kept, Typed
  <1>7. \A i \in Indices : table'[i] = IF i = which THEN packed ELSE table[i]
    BY <1>1, <1>3, <1>5
  <1>8. Used' = [i \in Indices |-> IF i = which THEN text ELSE Used[i]]
    <2>1. Used' = [i \in Indices |-> TextOf(Decode(table'[i]))]
      BY <1>6 DEF Used
    <2>2. \A i \in Indices : TextOf(Decode(table'[i])) = IF i = which THEN text ELSE Used[i]
      <3> SUFFICES ASSUME NEW i \in Indices
                   PROVE  TextOf(Decode(table'[i])) = IF i = which THEN text ELSE Used[i]
        OBVIOUS
      <3>1. Used[i] = TextOf(Decode(table[i]))
        BY <1>6 DEF Used
      <3> QED BY <1>4, <1>7, <3>1
    <2> QED BY <2>1, <2>2
  <1>9. Used' = [Used EXCEPT ![Typed[1]] = Typed[2]] /\ Typed # << >>
    <2>1. Used = [i \in Indices |-> Used[i]]
      BY DEF Used
    <2>2. [Used EXCEPT ![which] = text] = [i \in Indices |-> IF i = which THEN text ELSE Used[i]]
      BY <2>1
    <2> QED BY <1>6, <1>8, <2>2
  <1>10. Book!Accept
    BY <1>6, <1>9 DEF Book!Accept, Used, Typed, Kept
  <1> QED BY <1>10 DEF Book!Next

\* On the title screen no name is used.
LEMMA BookQuit ==
  ASSUME mode' = "title", saved' = saved
  PROVE  [Book!Next]_(Book!vars)
  <1>1. Playing' = FALSE /\ Used' = [i \in Indices |-> << >>] /\ Typed' = << >> /\ Kept' = Kept
    BY DEF Playing, Used, Typed, Kept
  <1>2. Book!Quit
    BY <1>1 DEF Book!Quit, Book!Nameless, Used, Typed, Kept
  <1> QED BY <1>2 DEF Book!Next

\* Every step is one of the book, or changes nothing a player sees.
LEMMA BookStep ==
  ASSUME Right, [Next]_vars
  PROVE  [Book!Next]_(Book!vars)
  <1>1. CASE StartLoading
    <2>1. mode = "title" /\ mode' = "loading" /\ saved' = saved
      BY <1>1 DEF StartLoading
    <2>2. ~Playing /\ ~Playing'
      BY <2>1 DEF Playing
    <2>3. Used' = Used /\ Typed' = Typed /\ Kept' = Kept
      BY <2>1, <2>2 DEF Used, Typed, Kept
    <2> QED BY <2>2, <2>3, BookStutter
  <1>2. CASE SaveGame
    <2>1. mode = "play" /\ mode' = "play" /\ table' = table /\ saved' = table
      BY <1>2 DEF SaveGame
    <2>2. Playing /\ Playing' = Playing /\ Used' = Used /\ Typed' = Typed
      BY <2>1 DEF Playing, Used, Typed
    <2>3. Kept' = Used
      BY <2>1, <2>2 DEF Kept, Used
    <2>4. Book!SaveGame
      BY <2>2, <2>3 DEF Book!SaveGame, Used, Typed, Kept
    <2> QED BY <2>4 DEF Book!Next
  <1>3. CASE Title
    BY <1>3, BookQuit DEF Title
  <1>4. CASE Reset
    BY <1>4, BookQuit DEF Reset
  <1>5. CASE UNCHANGED vars
    <2>1. /\ mode' = mode /\ table' = table /\ saved' = saved /\ which' = which /\ entry' = entry
      BY <1>5 DEF vars
    <2>2. Playing' = Playing /\ Used' = Used /\ Typed' = Typed /\ Kept' = Kept
      BY <2>1 DEF Playing, Used, Typed, Kept
    <2> QED BY <2>2, BookStutter
  <1> QED BY <1>1, <1>2, <1>3, <1>4, <1>5, BookBegin, BookOpen, BookAppend, BookErase,
             BookConfirm DEF Next

\* The packed tables, the screen and the saved game are the book of names.
THEOREM Refinement == Spec => ImplementsNameBook
  <1>1. Init => Book!Init
    BY BookInit
  <1>2. Right /\ [Next]_vars => [Book!Next]_(Book!vars)
    BY BookStep
  <1>3. Init => Right
    BY RightInit
  <1>4. Right /\ [Next]_vars => Right'
    BY RightNext
  <1> QED BY <1>1, <1>2, <1>3, <1>4, PTL DEF Spec, Book!Spec, ImplementsNameBook
=============================================================================
