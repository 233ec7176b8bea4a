------------------------------- MODULE MCLZSS -------------------------------
(* All short inputs of two bytes, the second of which is an escape of LZ77,  *)
(* and shorter ones with both escapes.                                       *)
EXTENDS Compression

MaxLength == 11
MaxMixed == 6

ShortInputs == UNION {[1 .. n -> {1, Escape}] : n \in 0 .. MaxLength}
               \cup UNION {[1 .. n -> {1} \cup Escapes] : n \in 0 .. MaxMixed}

\* Four words, the flips of which are set or not.
Tilemaps == {<<a, x, b, y, a, y, b, x>> : a \in {1, 2}, b \in {1, 2},
                                          x \in {32, 224}, y \in {32, 96}}
=============================================================================
