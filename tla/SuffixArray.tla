----------------------------- MODULE SuffixArray -----------------------------
(***************************************************************************)
(* What the patch creator asks of nall::SuffixArray (suffix-array.hpp):    *)
(* find(), the longest match in another file, and previous(), the longest  *)
(* factor that begins earlier in the same file.  The first is a binary     *)
(* search in the order induced_sort gives, the second a table filled by    *)
(* the recursion of suffix_array_lpf, which is modelled call by call.      *)
(* Positions count from 0, as in the code.                                 *)
(***************************************************************************)
EXTENDS InducedSort

CONSTANT NoCall  \* no call of the recursion is under way

ASSUME CallAssumption == NoCall \notin [i : Nat, j : Nat, k : Nat]

VARIABLES
    sa,       \* the order of the suffixes of both files: [input, text]
    lengths,  \* longest previous factor of each position, -1 if not known
    offsets,  \* where it begins
    suffix,   \* the position the loop is at
    common,   \* the prefix its suffix is known to share with its neighbour
    call      \* the arguments of recurse: [i, j, k]

lpf == <<sa, lengths, offsets, suffix, common, call>>

Positions(text) == 0 .. Len(text)

\* Position p of s and q of t hold the same byte.
Alike(s, p, t, q) == p < Len(s) /\ q < Len(t) /\ s[p + 1] = t[q + 1]

\* How far s from p and t from q agree, when they are known to do so up to k.
Common(s, p, t, q, k) ==
    CHOOSE n \in k .. k + Len(s) :
        /\ \A m \in k .. n - 1 : Alike(s, p + m, t, q + m)
        /\ ~Alike(s, p + n, t, q + n)

\* The suffix in front of the one at i.
Phi(i) == LET n == CHOOSE n \in DOMAIN sa.text : sa.text[n] = i
          IN  IF n = 0 THEN 0 ELSE sa.text[n - 1]

\* A mutant: of two that are alike as far as both go, the one to find is the
\* smaller.
GoesLeftAlike(input, s, text, at, k) ==
    LET last == IF at + k = Len(text) \/ s + k = Len(input) THEN k - 1 ELSE k
    IN  text[at + last + 1] <= input[s + last + 1]

\* What is looked for is smaller than the suffix it shares k bytes with.
GoesLeft(input, s, text, at, k) ==
    LET last == IF at + k = Len(text) \/ s + k = Len(input) THEN k - 1 ELSE k
    IN  text[at + last + 1] < input[s + last + 1]

Window == [l : Nat, r : Nat, length : Nat, offset : Nat]

\* One round of the search: of the suffixes between places l and r of the order
\* the middle one is looked at.  The search ends when all bytes are found.
Narrowed(input, text, at) ==
    [w \in Window |->
        LET m == (w.l + w.r) \div 2
            s == sa.input[m]
            k == Common(input, s, text, at, 0)
            best == IF k > w.length THEN [w EXCEPT !.length = k, !.offset = s] ELSE w
        IN  IF w.l >= w.r - 1 THEN w
            ELSE IF k > w.length /\ at + k = Len(text) THEN [best EXCEPT !.l = w.r]
            ELSE IF GoesLeft(input, s, text, at, k) THEN [best EXCEPT !.r = m]
            ELSE [best EXCEPT !.l = m]]

Rounds(input, text, at) ==
    LET round[n \in Nat] ==
            IF n = 0 THEN [l |-> 0, r |-> Len(input), length |-> 0, offset |-> 0]
            ELSE Narrowed(input, text, at)[round[n - 1]]
    IN  round

\* find() for the bytes of text from position at on.  It never looks at the last
\* suffix of the order.
Find(input, text, at) == Rounds(input, text, at)[Len(input)]

-----------------------------------------------------------------------------
(* suffix_array_lpf *)

NoTable == /\ sa = <<>> /\ lengths = <<>> /\ offsets = <<>>
           /\ suffix = 0 /\ common = 0 /\ call = NoCall

NewTable(input, text) ==
    /\ sa' = [input |-> induced_sort[input], text |-> induced_sort[text]]
    /\ lengths' = [p \in Positions(text) |-> -1]
    /\ offsets' = [p \in Positions(text) |-> -1]
    /\ suffix' = 0 /\ common' = 0 /\ call' = NoCall

DropTable == /\ sa' = <<>> /\ lengths' = <<>> /\ offsets' = <<>>
             /\ suffix' = 0 /\ common' = 0 /\ call' = NoCall

Call(p, q, k) == IF p > q THEN [i |-> p, j |-> q, k |-> k] ELSE [i |-> q, j |-> p, k |-> k]

\* A mutant: the next suffix is taken to share as much with its neighbour.
NextSuffixWhole(text) ==
    /\ call = NoCall /\ suffix < Len(text)
    /\ LET j == Phi(suffix)
           k == Common(text, suffix, text, j, common)
       IN  /\ call' = Call(suffix, j, k)
           /\ common' = k
    /\ suffix' = suffix + 1
    /\ UNCHANGED <<sa, lengths, offsets>>

\* The suffix at i and the one in front of it are neighbours.  What they share
\* the next suffix shares with a neighbour of its own, but for the first byte.
NextSuffix(text) ==
    /\ call = NoCall /\ suffix < Len(text)
    /\ LET j == Phi(suffix)
           k == Common(text, suffix, text, j, common)
       IN  /\ call' = Call(suffix, j, k)
           /\ common' = IF k > 0 THEN k - 1 ELSE 0
    /\ suffix' = suffix + 1
    /\ UNCHANGED <<sa, lengths, offsets>>

\* A mutant: the factor passed on is the longer one.
RecurseLonger ==
    /\ call # NoCall
    /\ LET i == call.i  known == lengths[i] >= 0  better == lengths[i] < call.k
       IN  /\ lengths' = IF better THEN [lengths EXCEPT ![i] = call.k] ELSE lengths
           /\ offsets' = IF better THEN [offsets EXCEPT ![i] = call.j] ELSE offsets
           /\ call' = IF known THEN Call(offsets[i], call.j, call.k) ELSE NoCall
    /\ UNCHANGED <<sa, suffix, common>>

\* A mutant: it is the same position again that learns of it.
RecurseAgain ==
    /\ call # NoCall
    /\ LET i == call.i  known == lengths[i] >= 0  better == lengths[i] < call.k
       IN  /\ lengths' = IF better THEN [lengths EXCEPT ![i] = call.k] ELSE lengths
           /\ offsets' = IF better THEN [offsets EXCEPT ![i] = call.j] ELSE offsets
           /\ call' = IF ~known THEN NoCall ELSE call
    /\ UNCHANGED <<sa, suffix, common>>

\* recurse(i, j, k): the longer factor stays at i; the two sources share the
\* shorter one, and the later of them is the next to learn of it.
Recurse ==
    /\ call # NoCall
    /\ LET i == call.i  known == lengths[i] >= 0  better == lengths[i] < call.k
       IN  /\ lengths' = IF better THEN [lengths EXCEPT ![i] = call.k] ELSE lengths
           /\ offsets' = IF better THEN [offsets EXCEPT ![i] = call.j] ELSE offsets
           /\ call' = IF ~known THEN NoCall
                      ELSE Call(offsets[i], call.j, IF better THEN lengths[i] ELSE call.k)
    /\ UNCHANGED <<sa, suffix, common>>

\* The first position has no previous factor, whatever the recursion left there.
Finished(text) == call = NoCall /\ suffix = Len(text)
FinishTable ==
    /\ lengths' = [lengths EXCEPT ![0] = 0]
    /\ offsets' = [offsets EXCEPT ![0] = 0]
    /\ UNCHANGED <<sa, suffix, common, call>>

-----------------------------------------------------------------------------
(* What is expected of these. *)

\* The order of the suffixes by definition; the empty one comes first.
Before(text, p, q) ==
    LET n == Common(text, p, text, q, 0)
    IN  p # q /\ \/ p + n = Len(text)
                 \/ q + n < Len(text) /\ text[p + n + 1] < text[q + n + 1]

Ordered(text, order) ==
    /\ order \in [Positions(text) -> Positions(text)]
    /\ \A n \in 1 .. Len(text) : Before(text, order[n - 1], order[n])

\* A match is one, and no position but the last of the order has a longer one.
LongestMatch(input, text, at) ==
    LET found == Find(input, text, at)
    IN  /\ found.length <= Common(input, found.offset, text, at, 0)
        /\ \A n \in 0 .. Len(input) - 1 :
             Common(input, sa.input[n], text, at, 0) <= found.length

\* At every position the table holds a factor that begins earlier and is as long
\* as any that does.
LongestPrevious(text) ==
    \A p \in 0 .. Len(text) - 1 :
        LET before == 0 .. p - 1
        IN  /\ \A q \in before : Common(text, q, text, p, 0) <= lengths[p]
            /\ lengths[p] > 0 => /\ offsets[p] \in before
                                 /\ Common(text, offsets[p], text, p, 0) >= lengths[p]
            /\ lengths[p] >= 0
=============================================================================
