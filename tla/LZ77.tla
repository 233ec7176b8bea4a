-------------------------------- MODULE LZ77 --------------------------------
(***************************************************************************)
(* The compression of the fonts' tiles and tilemaps (compressLZ77,         *)
(* compressor.hpp; decompressLZ77, decompressor.hpp).  Both are functions  *)
(* of bytes to bytes.  An escape byte begins three bytes that are a        *)
(* literal escape, an entry of the dictionary or the end; the code's       *)
(* escapes are 1a and 1b, its length has 6 bits and its offset 1 + 2 + 8,  *)
(* one in the escape and two in the byte of the length.                    *)
(***************************************************************************)
EXTENDS Integers, Sequences

CONSTANTS
    Escape,   \* the even one of the two: 0x1a
    Lengths,  \* how many lengths there are: 2^6
    Middles,  \* how many values of an offset's bits beside the length: 2^2
    Lows      \* and in the last byte: 2^8

ASSUME EscapeAssumption == Escape \in Nat /\ Escape % 2 = 0
ASSUME FieldsAssumption == {Lengths, Middles, Lows} \subseteq Nat \ {0}

Escapes == {Escape, Escape + 1}

MinLength == 4
\* A mutant: a length of one bit more.
LongestLengthWide == Lengths
LongestLength == Lengths - 1

Offsets == 1 .. 2 * Middles * Lows - 1

End == <<Escape + 1, 0, 1>>

-----------------------------------------------------------------------------
(* compressBlockLZ77, decompressBlockLZ77 *)

\* What repeats at most LongestLength bytes of the input, source of which are
\* done, and is worth an entry.
Entries(data, source) ==
    {e \in (Offsets \cap (1 .. source)) \X (MinLength .. LongestLength) :
        /\ source + e[2] <= Len(data)
        /\ \A i \in source + 1 .. source + e[2] : data[i] = data[i - e[1]]}

\* The longest, and of those the one furthest away.
LongestEntry(data, source) ==
    CHOOSE e \in Entries(data, source) :
       \A f \in Entries(data, source) : e[2] > f[2] \/ (e[2] = f[2] /\ e[1] >= f[1])

EntryBytes(offset, length) ==
    <<Escape + (((offset \div Lows) \div Middles) % 2),
      (length % Lengths) + Lengths * ((offset \div Lows) % Middles),
      offset % Lows>>

LiteralBytes(byte) == IF byte \in Escapes THEN <<byte, 0, 0>> ELSE <<byte>>

compressBlockLZ77(data) ==
    LET from[source \in Nat] ==
          IF source >= Len(data) THEN End
          ELSE IF Entries(data, source) = {}
               THEN LiteralBytes(data[source + 1]) \o from[source + 1]
               ELSE LET e == LongestEntry(data, source)
                    IN  EntryBytes(e[1], e[2]) \o from[source + e[2]]
    IN  from[0]

\* length bytes more, each that offset bytes before it; output is cleared first.
Repeated(data, offset, length) ==
    LET byte[i \in Nat \ {0}] == IF i <= Len(data) THEN data[i]
                                 ELSE IF offset = 0 THEN 0 ELSE byte[i - offset]
    IN  [i \in 1 .. Len(data) + length |-> byte[i]]

EntryOffset(lo, hi) ==
    hi[2] + Lows * (hi[1] \div Lengths + Middles * (lo % 2))

\* What the block at the start of packed stands for, and where it ends; a bad
\* block is an empty one, and leaves the input where it was.
BadBlock == [data |-> <<>>, source |-> 0]

\* A state is what was read and what was written.  A block that does not end is
\* read on beyond the data, which the code leaves undefined: a bad one here.
decompressBlockLZ77(packed) ==
    LET from[state \in Nat \X Seq(Nat)] ==
          LET source == state[1]
              output == state[2]
              lo == packed[source + 1]
              hi == <<packed[source + 2], packed[source + 3]>>
          IN  IF source + 3 > Len(packed) THEN BadBlock
              ELSE IF lo \notin Escapes THEN from[<<source + 1, Append(output, lo)>>]
              ELSE IF hi = <<0, 1>> THEN [data |-> output, source |-> source + 3]
              ELSE IF hi = <<0, 0>> THEN from[<<source + 3, Append(output, lo)>>]
              ELSE IF EntryOffset(lo, hi) > Len(output) THEN BadBlock
              ELSE from[<<source + 3, Repeated(output, EntryOffset(lo, hi),
                                               hi[1] % Lengths)>>]
    IN  from[<<0, <<>>>>]

-----------------------------------------------------------------------------
(* compressLZ77, decompressLZ77: the bytes as they are (0), the tilemap of    *)
(* which only two bits of every second byte are kept (3), and the bytes at    *)
(* even and odd addresses in two blocks (6)                                   *)

Even(data) == [i \in 1 .. Len(data) \div 2 |-> data[2 * i - 1]]
Odd(data)  == [i \in 1 .. Len(data) \div 2 |-> data[2 * i]]

\* The upper block of a tilemap: a mode, the number of field bytes and these,
\* two bits of four upper bytes in each.  It is sized by data, what is compressed
\* so far, and the field bytes are stored behind its end, where they stay behind.
FieldBlock(data) ==
    LET fields == Len(data) \div 8
    IN  <<4, fields % 256, fields \div 256>>

TwoBlocks(mode, lower, upper) ==
    <<mode>> \o compressBlockLZ77(lower) \o <<0, mode>> \o compressBlockLZ77(upper)

compressLZ77(mode, data) ==
    CASE mode = 0 -> <<0>> \o compressBlockLZ77(data)
      [] mode = 3 -> TwoBlocks(3, Even(data), FieldBlock(<<>>))
      [] mode = 6 -> TwoBlocks(6, Even(data), Odd(data))

\* No bytes: error() ends the program when the sizes of the blocks differ.
Mismatch == <<-1>>

\* Every byte of one and then one of the other.
Interleaved(lower, upper) ==
    [i \in 1 .. 2 * Len(lower) |-> IF i % 2 = 1 THEN lower[(i + 1) \div 2] ELSE upper[i \div 2]]

\* What the game's code sets before: the bits a tilemap does not keep.
Base == 32

\* Two bits of the i-th upper byte, four of which are in one field byte.
Field(upper, i) == (upper[3 + (i + 3) \div 4] \div 4 ^ ((i - 1) % 4)) % 4

decompressLZ77(packed) ==
    LET mode  == Head(packed)
        first == decompressBlockLZ77(Tail(packed))
        lower == first.data
        upper == decompressBlockLZ77(SubSeq(packed, first.source + 4, Len(packed))).data
    IN  CASE mode = 0 -> lower
          [] mode = 3 ->
               IF upper[2] + 256 * upper[3] # Len(lower) \div 4 THEN Mismatch
               ELSE Interleaved(lower, [i \in 1 .. Len(lower) |-> Base + 64 * Field(upper, i)])
          [] mode = 6 ->
               IF Len(lower) # Len(upper) THEN Mismatch ELSE Interleaved(lower, upper)

\* The data a mode is for: pairs of bytes; for a tilemap four words at a time,
\* whose upper bytes are the base but for two bits.
Suits(mode, data) ==
    CASE mode = 0 -> TRUE
      [] mode = 3 -> /\ Len(data) > 0 /\ Len(data) % 8 = 0
                     /\ \A i \in DOMAIN Odd(data) : Odd(data)[i] % 64 = Base
      [] mode = 6 -> Len(data) % 2 = 0
=============================================================================
