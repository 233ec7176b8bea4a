------------------------------- MODULE Base56 -------------------------------
(***************************************************************************)
(* Names of up to eleven characters in eight bytes (base56.asm), and the   *)
(* tables and default names the tool makes for it (base56.cpp).            *)
(*                                                                         *)
(* A character has a code below 56; its low three bits are kept as they    *)
(* are, in the low 33 bits of the number, and the rest is a digit of base  *)
(* 7 in the upper 31.  The game has neither multiplication nor division of *)
(* that size: it adds products from a table word by word, and divides by 7 *)
(* byte by byte with tables of quotients and remainders.                   *)
(***************************************************************************)
EXTENDS Integers, SequencesExt

Characters == 11

\* Text codes of the character map with a case of their own.
Dash == 174
Dot == 142
Space == 239
Terminal == 255

\* What names are made of.
Alphabet == {Space, Dash, Dot} \union (185..210) \union (116..141)

\* Op(arg), with arg evaluated once however often Op looks at it.
Once(Op(_), arg) == CHOOSE result \in {Op(value) : value \in {arg}} : TRUE

-----------------------------------------------------------------------------
(* Characters.  Capitals, small letters, dash with the digits, and the     *)
(* punctuation from the dot on are four runs of codes.                     *)

\* character.decode: from text to font.
ToFont(c) ==
  IF c \in 185..210 THEN c - 184 ELSE
  IF c \in 116..141 THEN c - 89 ELSE
  IF c \in 174..184 THEN c - 121 ELSE
  IF c \in 142..173 THEN c - 78 ELSE 0

\* character.encode: from font to text.
ToText(f) ==
  IF f \in 1..26 THEN f + 184 ELSE
  IF f \in 27..52 THEN f + 89 ELSE
  IF f \in 53..63 THEN f + 121 ELSE
  IF f \in 64..95 THEN f + 78 ELSE Space

\* In the font 54 is a zero; in base 56 it is the dot.
EncodeCharacter(c) ==
  CASE c = Dash -> 53 [] c = Dot -> 54 [] c = Terminal -> 55
    [] OTHER -> ToFont(c)

DecodeCharacter(f) ==
  CASE f = 53 -> Dash [] f = 54 -> Dot [] f = 55 -> Terminal
    [] OTHER -> ToText(f)

-----------------------------------------------------------------------------
(* Numbers of 64 bits, as four words, the lowest first. *)

Word == 256 * 256
Zero == <<0, 0, 0, 0>>

\* upper << 33 | lower, for the octal digits of lower.
Number(upper, lower) ==
  <<lower[0] + 8 * (lower[1] + 8 * (lower[2] + 8 * (lower[3] + 8 * (lower[4]
      + 8 * (lower[5] % 2))))),
    (lower[5] \div 2) + 4 * (lower[6] + 8 * (lower[7] + 8 * (lower[8] + 8 * (lower[9]
      + 8 * (lower[10] % 4))))),
    (lower[10] \div 4) + 2 * (upper % (Word \div 2)),
    (upper \div (Word \div 2)) % Word>>

\* The table the game multiplies with.
Products(index, value) ==
  LET encoded[multiplier \in 0..index] ==
        IF multiplier = 0 THEN value \div 8 ELSE 7 * encoded[multiplier - 1]
  IN  Number(encoded[index],
             [p \in 0..Characters - 1 |-> IF p = index THEN value % 8 ELSE 0])

\* A mutant: add, adc, adc, add.
AddWithoutCarry(m, n) ==
  LET sum1 == m[1] + n[1]
      sum2 == m[2] + n[2] + sum1 \div Word
      sum3 == m[3] + n[3] + sum2 \div Word
      sum4 == m[4] + n[4]
  IN  <<sum1 % Word, sum2 % Word, sum3 % Word, sum4 % Word>>

\* add, adc, adc, adc: what is carried out of the last word is lost.
Add(m, n) ==
  LET sum1 == m[1] + n[1]
      sum2 == m[2] + n[2] + sum1 \div Word
      sum3 == m[3] + n[3] + sum2 \div Word
      sum4 == m[4] + n[4] + sum3 \div Word
  IN  <<sum1 % Word, sum2 % Word, sum3 % Word, sum4 % Word>>

\* The last character is the least significant.
Encode(input) ==
  LET output[y \in 0..Characters] ==
        IF y = 0 THEN Zero
        ELSE LET add(sum) == Add(sum, Products(y - 1, EncodeCharacter(input[Characters - y])))
             IN  Once(add, output[y - 1])
  IN  output[Characters]

-----------------------------------------------------------------------------
(* Decoding. *)

Byte(n, b) == (n[b \div 2 + 1] \div (IF b % 2 = 0 THEN 1 ELSE 256)) % 256

\* The eleven groups of three bits, in the order of the characters.  Three of
\* them lie in two bytes and are read from a word that is shifted left.
LowBits(n) ==
  LET low(b, unit) == (Byte(n, b) \div unit) % 8
      across(b, unit) == ((Byte(n, b) + 256 * Byte(n, b + 1)) \div unit) % 8
  IN  <<across(3, 64), low(3, 8), low(3, 1), low(2, 32), low(2, 4),
        across(1, 128), low(1, 16), low(1, 2), across(0, 64), low(0, 8), low(0, 1)>>

\* The upper half, shifted right through the carry.
Multiplier(n) ==
  LET ror(b) == Byte(n, b) \div 2 + (IF b = 7 THEN 0 ELSE 128 * (Byte(n, b + 1) % 2))
  IN  <<ror(4), ror(5), ror(6), ror(7)>>

\* One division by 7 from the highest byte down: the remainder of a byte is the
\* high byte of the next index into the tables.
Divide(m) ==
  LET index4 == m[4]
      index3 == 256 * (index4 % 7) + m[3]
      index2 == 256 * (index3 % 7) + m[2]
      index1 == 256 * (index2 % 7) + m[1]
  IN  [quotient |-> <<index1 \div 7, index2 \div 7, index3 \div 7, index4 \div 7>>,
       remainder |-> index1 % 7]

\* Eleven divisions give the digits from the last character to the first.
Digits(n) ==
  LET divide(s) == LET d == Divide(s.rest)
                   IN  [rest |-> d.quotient, digits |-> <<d.remainder>> \o s.digits]
      loop[y \in 0..Characters] ==
        IF y = 0 THEN [rest |-> Multiplier(n), digits |-> << >>] ELSE Once(divide, loop[y - 1])
  IN  loop[Characters].digits

\* The text with its terminator.
Decode(n) ==
  LET chars(parts) ==
        [i \in 0..Characters |->
           IF i = Characters THEN Terminal
           ELSE DecodeCharacter(8 * parts[1][i + 1] + parts[2][i + 1])]
  IN  Once(chars, <<Digits(n), LowBits(n)>>)

\* What a reader sees of a terminated text.
TextOf(chars) ==
  LET text(value) ==
        SubSeq([i \in 1..Characters + 1 |-> value[i - 1]], 1,
               (CHOOSE i \in DOMAIN value :
                  value[i] = Terminal /\ \A j \in 0..i - 1 : value[j] # Terminal))
  IN  Once(text, chars)

-----------------------------------------------------------------------------
(* The tool's own encoder, for the names a new game starts with. *)

\* A mutant: the tool does not know the dot.
ToolCodeWithoutDot(c) ==
  CASE c = Space -> 0 [] c \in 185..210 -> c - 184 [] c \in 116..141 -> c - 89
    [] c = Dash -> 53 [] OTHER -> 55

ToolCode(c) ==
  CASE c = Space -> 0 [] c \in 185..210 -> c - 184 [] c \in 116..141 -> c - 89
    [] c = Dash -> 53 [] c = Dot -> 54 [] OTHER -> 55

ToolEncode(text) ==
  LET code(offset) == IF offset < Len(text) THEN ToolCode(text[offset + 1]) ELSE 55
      mul[offset \in 0..Characters - 1] ==
        code(offset) \div 8 + (IF offset = 0 THEN 0 ELSE 7 * mul[offset - 1])
  IN  Number(mul[Characters - 1],
             [p \in 0..Characters - 1 |-> code(Characters - 1 - p) % 8])
=============================================================================
