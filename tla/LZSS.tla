-------------------------------- MODULE LZSS --------------------------------
(***************************************************************************)
(* The compressor of the scripts (compressLZSS, compressor.hpp) and the    *)
(* decompressor that reads them back (decompressLZSS, decompressor.hpp),   *)
(* one after the other on one input.                                       *)
(*                                                                         *)
(* The packed data is a sequence of cells: a word of two bytes is a cell   *)
(* with its value and a hole behind it, so that positions are those of the *)
(* code.  A cell has a kind, written by the compressor; a decompressor     *)
(* that reads another kind than the one it expects is lost.                *)
(***************************************************************************)
EXTENDS Integers, Sequences, FiniteSets

CONSTANTS
    Inputs,      \* what is compressed: sequences of bytes
    Window,      \* offsets are below this: 4096
    MaxMatch,    \* the longest match: 18
    FlagBits,    \* codepoints to a byte of flags: 8
    SizeModulus  \* sizes are kept modulo this: 2^16

MinMatch == 3

ASSUME InputAssumption  == \A input \in Inputs : input \in Seq(Nat)
ASSUME WindowAssumption == Window \in Nat \ {0} /\ MaxMatch \in Nat /\ MaxMatch >= MinMatch
ASSUME FlagAssumption   == FlagBits \in Nat \ {0} /\ SizeModulus \in Nat \ {0}

VARIABLES
    phase,       \* search, pack, size, flags, codes, done or lost
    input,
    codepoints,  \* found and not yet packed: [offset, length, byte]
    covered,     \* how much of the input they and the packed ones stand for
    padding,     \* codepoints added to fill the first flags
    packed,      \* the cells, from position 0 of the code
    origin,      \* where the size of the block under way goes
    source,      \* the position the decompressor reads next
    size,        \* where the decompressor expects the block to end
    flags,       \* the flags still to be used
    remaining,   \* codepoints to read with the next or current flags
    output       \* what the decompressor has written

vars == <<phase, input, codepoints, covered, padding, packed, origin,
          source, size, flags, remaining, output>>

packing == <<codepoints, covered, padding, packed, origin>>
reading == <<source, size, flags, remaining, output>>

Cell(kind, value) == [kind |-> kind, value |-> value]
Hole == Cell("hole", 0)
\* A size that is not known yet.
Blank == <<Cell("size", 0), Hole>>

Literal(byte) == [offset |-> 0, length |-> 1, byte |-> byte]

Init == /\ phase = "search"
        /\ input \in Inputs
        /\ codepoints = <<>> /\ covered = 0 /\ padding = 0
        /\ packed = Blank /\ origin = 0
        /\ source = 0 /\ size = 0 /\ flags = <<>> /\ remaining = 0
        /\ output = <<>>

-----------------------------------------------------------------------------
(* compressLZSS *)

\* The next length bytes repeat those window before them; they may overlap.
Match(window, length) ==
    /\ window <= covered
    /\ \A i \in 1 .. length : input[covered + i] = input[covered + i - window]

\* A mutant: a match may be one byte longer than its nibble can tell.
MatchesLonger == {m \in (1 .. Window - 1) \X (MinMatch .. MaxMatch + 1) :
                    covered + m[2] <= Len(input) /\ Match(m[1], m[2])}

Matches == {m \in (1 .. Window - 1) \X (MinMatch .. MaxMatch) :
              covered + m[2] <= Len(input) /\ Match(m[1], m[2])}

\* The longest match, and of those the one furthest away: the search goes on to
\* replace it by one as long.
Best == CHOOSE m \in Matches :
          \A n \in Matches : m[2] > n[2] \/ (m[2] = n[2] /\ m[1] >= n[1])

Search ==
    /\ phase = "search" /\ covered < Len(input)
    /\ LET c == IF Matches = {} THEN Literal(input[covered + 1])
                ELSE [offset |-> Best[1], length |-> Best[2], byte |-> input[covered + 1]]
       IN  /\ codepoints' = Append(codepoints, c)
           /\ covered' = covered + c.length
    /\ UNCHANGED <<phase, input, padding, packed, origin, reading>>

\* The first byte of flags is always read as a whole, so it is filled up.
Pad ==
    /\ phase = "search" /\ covered = Len(input)
    /\ LET missing == IF Len(codepoints) < FlagBits THEN FlagBits - Len(codepoints) ELSE 0
       IN  /\ codepoints' = codepoints \o [i \in 1 .. missing |-> Literal(0)]
           /\ padding' = missing
    /\ phase' = "pack"
    /\ UNCHANGED <<input, covered, packed, origin, reading>>

CellsOf(c) == IF c.length < MinMatch THEN <<Cell("byte", c.byte)>>
              ELSE <<Cell("pair", <<c.offset, c.length>>), Hole>>

\* The cells of the first n codepoints.
Cells[n \in Nat] == IF n = 0 THEN <<>> ELSE Cells[n - 1] \o CellsOf(codepoints[n])

Smaller(m, n) == IF m < n THEN m ELSE n

Rest(n) == SubSeq(codepoints, n + 1, Len(codepoints))

\* One byte of flags, its codepoints behind it; unused flags stay set.
PackFlags ==
    LET n == Smaller(Len(codepoints), FlagBits)
    IN  Append(packed, Cell("flags", [b \in 1 .. FlagBits |->
                 b > n \/ codepoints[b].length >= MinMatch])) \o Cells[n]

\* A mutant: every block counts its size in, as the first does.
EndSizeAlike(target) == (target - 2) % SizeModulus

\* The first size leaves its own two bytes out, later ones are positions.
EndSize(target) == (target - (IF origin = 0 THEN 2 ELSE 0)) % SizeModulus

\* The block ends in front of its last codepoints, fewer than a byte of flags:
\* its size is known, and their number announces the next block.
CloseBlock(cells, left) ==
    [cells EXCEPT ![origin + 1].value = EndSize(Len(cells))] \o <<Cell("count", left)>>

Pack ==
    /\ phase = "pack" /\ codepoints # <<>>
    /\ LET left == Len(Rest(Smaller(Len(codepoints), FlagBits)))
           closed == CloseBlock(PackFlags, left)
       IN  /\ codepoints' = Rest(Smaller(Len(codepoints), FlagBits))
           /\ IF left >= FlagBits THEN packed' = PackFlags /\ origin' = origin
              ELSE origin' = Len(closed) /\ packed' = closed \o Blank
    /\ UNCHANGED <<phase, input, covered, padding, reading>>

\* The size field of a block that does not come is cut off.
Finish ==
    /\ phase = "pack" /\ codepoints = <<>>
    /\ packed' = SubSeq(packed, 1, Len(packed) - 2)
    /\ phase' = "size"
    /\ UNCHANGED <<input, codepoints, covered, padding, origin, reading>>

-----------------------------------------------------------------------------
(* decompressLZSS *)

\* What the decompressor takes the next cell for.
Wanted == IF phase = "codes" THEN IF Head(flags) THEN "pair" ELSE "byte"
          ELSE IF phase = "size" THEN "size"
          ELSE IF source < size THEN "flags" ELSE "count"

Read == packed[source + 1].value

\* It is that, and a pair does not reach in front of the output.
Readable == /\ source < Len(packed)
            /\ packed[source + 1].kind = Wanted
            /\ Wanted = "pair" => Read[1] <= Len(output)

ReadSize ==
    /\ phase = "size" /\ Readable
    /\ size' = (Read + (IF source = 0 THEN 2 ELSE 0)) % SizeModulus
    /\ source' = source + 2
    /\ remaining' = IF source = 0 THEN FlagBits ELSE remaining
    /\ phase' = "flags"
    /\ UNCHANGED <<input, packing, flags, output>>

ReadFlags ==
    /\ phase = "flags" /\ source < size /\ Readable
    /\ flags' = Read
    /\ source' = source + 1
    /\ phase' = "codes"
    /\ UNCHANGED <<input, packing, size, remaining, output>>

\* A mutant: the whole match is taken from what was there before it.
CopiedAtOnce(offset, length) ==
    output \o [i \in 1 .. length |->
                  IF i <= offset THEN output[Len(output) - offset + i] ELSE 0]

\* The copy of a pair may read what it has itself written.
Copied(offset, length) ==
    LET copy[i \in Nat] ==
          IF i <= Len(output) THEN output[i] ELSE copy[i - offset]
    IN  [i \in 1 .. Len(output) + length |-> copy[i]]

ReadCode ==
    /\ phase = "codes" /\ remaining > 0 /\ Readable
    /\ IF Head(flags)
       THEN output' = Copied(Read[1], Read[2]) /\ source' = source + 2
       ELSE output' = Append(output, Read) /\ source' = source + 1
    /\ flags' = Tail(flags) /\ remaining' = remaining - 1
    /\ UNCHANGED <<phase, input, packing, size>>

NextFlags ==
    /\ phase = "codes" /\ remaining = 0
    /\ remaining' = FlagBits
    /\ phase' = "flags"
    /\ UNCHANGED <<input, packing, source, size, flags, output>>

\* Behind a block: how many codepoints the next one has; none ends the data.
ReadCount ==
    /\ phase = "flags" /\ source >= size /\ Readable
    /\ remaining' = Read
    /\ source' = source + 1
    /\ phase' = IF Read = 0 THEN "done" ELSE "size"
    /\ UNCHANGED <<input, packing, size, flags, output>>

\* What is read is not what was written there: a pair that reaches in front of
\* the output makes the code give up, anything else it takes for what it is not.
Lost ==
    /\ phase \in {"size", "flags", "codes"}
    /\ phase = "codes" => remaining > 0
    /\ ~Readable
    /\ phase' = "lost"
    /\ UNCHANGED <<input, packing, reading>>

-----------------------------------------------------------------------------
Next == \/ Search \/ Pad \/ Pack \/ Finish
        \/ ReadSize \/ ReadFlags \/ ReadCode \/ NextFlags \/ ReadCount
        \/ Lost

Spec == Init /\ [][Next]_vars

-----------------------------------------------------------------------------
(* Correctness *)

\* Codepoints fit their fields: an offset its twelve bits, a length its four
\* and the nibble it is stored in; positions stay inside the data.
TypeOK ==
    /\ phase \in {"search", "pack", "size", "flags", "codes", "done", "lost"}
    /\ input \in Inputs
    /\ \A i \in DOMAIN codepoints :
          /\ codepoints[i].offset \in 0 .. Window - 1
          /\ codepoints[i].length \in 1 .. MaxMatch
    /\ covered \in 0 .. Len(input)
    /\ padding \in 0 .. FlagBits
    /\ {origin, source} \subseteq 0 .. Len(packed)
    /\ size \in 0 .. SizeModulus - 1
    /\ flags \in Seq(BOOLEAN) /\ Len(flags) <= FlagBits
    /\ remaining \in 0 .. FlagBits

\* The sizes and the returned compressedSize, all u16, can hold the data's.
Fits == Len(packed) < SizeModulus

\* The input, with the zeros that fill up the first byte of flags.
Padded == input \o [i \in 1 .. padding |-> 0]

\* What the decompressor has written is at every step what was compressed so
\* far, and at its end all of it: matches that overlap themselves, full and
\* partial flags, and a first block that is filled up with zeros included.
RoundTrip ==
    /\ Fits /\ phase # "lost" => output = SubSeq(Padded, 1, Len(output))
    /\ Fits /\ phase = "done" => output = Padded

\* The decompressor takes every cell the compressor wrote for what it is, and no
\* pair reaches in front of the output (decompressor.hpp:124): flags, sizes and
\* counts of the two agree over blocks of any number.  It ends exactly at the end
\* of the data, so the compressedSize it returns is its length: by it
\* script-encoder.cpp:195 judges whether a new script still has the room of the
\* old one.
WholeRead == Fits => /\ phase # "lost"
                     /\ phase = "done" => source % SizeModulus = Len(packed)
=============================================================================
