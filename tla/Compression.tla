---------------------------- MODULE Compression ----------------------------
(* Both compressions of one input: before the first step of LZSS, what LZ77  *)
(* makes of it.                                                              *)
EXTENDS LZSS, LZ77

Untouched == phase = "search" /\ codepoints = <<>>

\* What the fonts' encoder compresses (font-encoder.cpp:63, :286, :326) comes
\* back from the decompressor as it was: literals that look like escapes,
\* entries of every length and offset whose bits are spread over three bytes
\* and that must not look like a literal or like the end, and both halves of
\* interleaved tiles.
TilesReturn ==
    Untouched => \A mode \in {0, 6} :
        Suits(mode, input) => decompressLZ77(compressLZ77(mode, input)) = input

\* So does the tilemap of the conclusion (font-encoder.cpp:348), as the test of
\* the compressor expects of what it decompresses (compressor.cpp:14): it does
\* not, compressLZ77 takes the size of its second block from an empty vector.
TilemapReturns ==
    Untouched /\ Suits(3, input) => decompressLZ77(compressLZ77(3, input)) = input
=============================================================================
