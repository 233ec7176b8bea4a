----------------------------- MODULE InducedSort -----------------------------
(***************************************************************************)
(* The order of the suffixes of a text, by induced_sort of                 *)
(* nall/induced-sort.hpp.                                                  *)
(*                                                                         *)
(* A suffix greater than the one behind it is an L-suffix, another an      *)
(* S-suffix, and an S-suffix behind an L-suffix an LMS-suffix.  Once the   *)
(* LMS-suffixes are in their order, one walk up the array puts the others  *)
(* of type L into theirs and one walk down those of type S.  The LMS-      *)
(* suffixes themselves are ordered by a shorter text, of names for the     *)
(* pieces between them, which are found by the same walks.                 *)
(*                                                                         *)
(* Positions and the indices of an order count from 0, as in the code;     *)
(* position p holds data[p + 1].                                           *)
(***************************************************************************)
EXTENDS Integers, Sequences, SequencesExt, FiniteSets

Unknown == -1

\* types: which suffixes are L-suffixes.
Types(data) ==
    LET size == Len(data)
        types[p \in 0 .. size] ==
            IF p >= size - 1 THEN p = size - 1
            ELSE IF data[p + 1] # data[p + 2] THEN data[p + 1] > data[p + 2]
            ELSE types[p + 1]
    IN  types

isLMS(types, p) == p > 0 /\ ~types[p] /\ types[p - 1]

\* A mutant: that only one of the pieces ends here is not noticed.
isEqualLonger(data, types, lhs, rhs) ==
    \E n \in 1 .. Len(data) - (IF lhs < rhs THEN rhs ELSE lhs) :
        /\ isLMS(types, lhs + n) \/ isLMS(types, rhs + n)
        /\ \A m \in 0 .. n - 1 : data[lhs + m + 1] = data[rhs + m + 1]

\* Two pieces, each from an LMS-suffix up to the next, are the same.
isEqual(data, types, lhs, rhs) ==
    \E n \in 1 .. Len(data) - (IF lhs < rhs THEN rhs ELSE lhs) :
        /\ isLMS(types, lhs + n) /\ isLMS(types, rhs + n)
        /\ \A m \in 0 .. n - 1 : /\ isLMS(types, lhs + m) = isLMS(types, rhs + m)
                                 /\ data[lhs + m + 1] = data[rhs + m + 1]

\* Where the suffixes with each first character begin and end.
Heads(data) == [c \in Range(data) |-> 1 + Cardinality({i \in DOMAIN data : data[i] < c})]
Tails(data) == [c \in Range(data) |-> Cardinality({i \in DOMAIN data : data[i] <= c})]

\* suffixes[free[data[p]]] = p, and on to the next place.
Put(data, buckets, p, step) ==
    LET c == data[p + 1]
    IN  [suffixes |-> [buckets.suffixes EXCEPT ![buckets.free[c]] = p],
         free     |-> [buckets.free EXCEPT ![c] = @ + step]]

Upwards(data) == [n \in 1 .. Len(data) + 1 |-> n - 1]

\* Some LMS-suffixes at the ends of their buckets, the first of them last.
Bucketed(data, offsets) ==
    LET empty == [suffixes |-> [n \in 0 .. Len(data) |-> Unknown], free |-> Tails(data)]
        full  == FoldLeft(LAMBDA buckets, p : Put(data, buckets, p, -1), empty, offsets)
    IN  [full.suffixes EXCEPT ![0] = Len(data)]

SortL(data, types, suffixes) ==
    LET induce(buckets, n) ==
            LET l == buckets.suffixes[n] - 1
            IN  IF buckets.suffixes[n] # Unknown /\ l >= 0 /\ types[l]
                THEN Put(data, buckets, l, 1) ELSE buckets
    IN  FoldLeft(induce, [suffixes |-> suffixes, free |-> Heads(data)], Upwards(data)).suffixes

SortS(data, types, suffixes) ==
    LET induce(buckets, n) ==
            LET l == buckets.suffixes[n] - 1
            IN  IF l >= 0 /\ ~types[l] THEN Put(data, buckets, l, -1) ELSE buckets
    IN  FoldLeft(induce, [suffixes |-> suffixes, free |-> Tails(data)],
                 Reverse(Upwards(data))).suffixes

Induced(data, types, offsets) ==
    SortS(data, types, SortL(data, types, Bucketed(data, offsets)))

\* The names of the LMS-suffixes: their pieces, numbered in their order.
NamesOf(data, types, suffixes) ==
    LET sorted == SelectSeq([n \in 1 .. Len(data) + 1 |-> suffixes[n - 1]], LAMBDA p : isLMS(types, p))
        index(p) == CHOOSE k \in DOMAIN sorted : sorted[k] = p
    IN  [p \in Range(sorted) |->
           Cardinality({k \in 2 .. index(p) : ~isEqual(data, types, sorted[k - 1], sorted[k])})]

\* The order of a text of which every character occurs once.
BucketSort(data) ==
    [n \in 0 .. Len(data) |->
        IF n = 0 THEN Len(data) ELSE (CHOOSE i \in DOMAIN data : data[i] = n - 1) - 1]

induced_sort[data \in Seq(Nat)] ==
    IF Len(data) <= 1 THEN [n \in 0 .. Len(data) |-> Len(data) - n]
    ELSE LET types     == Types(data)
             offsets   == SelectSeq(Upwards(data), LAMBDA p : isLMS(types, p))
             names     == NamesOf(data, types, Induced(data, types, Front(offsets)))
             summary   == [k \in DOMAIN offsets |-> names[offsets[k]]]
             summaries == IF Cardinality(Range(summary)) = Len(summary)
                          THEN BucketSort(summary) ELSE induced_sort[summary]
             \* The first two are the empty suffixes of the summary and of data.
             ordered   == [k \in 1 .. Len(summary) - 1 |-> offsets[summaries[k + 1] + 1]]
         IN  Induced(data, types, Reverse(ordered))
=============================================================================
