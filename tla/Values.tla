------------------------------- MODULE Values -------------------------------
(***************************************************************************)
(* How the game writes points into a text: the emit functions hpValue,     *)
(* mpValue, spValue, hpRange, mpRange and spRange of                       *)
(* bahamut/source/text.asm.  Each appends piece after piece to its output; *)
(* a range is two values with a slash between, and the code that writes    *)
(* the second is a copy of the code that writes the first.                 *)
(*                                                                         *)
(* A text is a sequence of characters: "_" is a space as wide as a digit,  *)
(* "^" a question mark and "~" a dash.                                     *)
(***************************************************************************)
EXTENDS Integers, Sequences, SequencesExt

CONSTANT Points      \* the numbers that are written, words of 16 bits

Magic == {"MP", "SP"}
Types == {"HP"} \cup Magic
Forms == {"value", "range"}

VARIABLES
    form, type,           \* the function called
    current, maximum,     \* its arguments, in A and Y
    output,
    pc                    \* the piece to be appended next

vars == <<form, type, current, maximum, output, pc>>

Init == /\ form \in Forms /\ type \in Types
        /\ current \in Points /\ maximum \in Points
        /\ output = <<>>
        /\ pc = "label"

AppendPieces(pieces, next) == /\ output' = output \o pieces
                         /\ pc' = next
                         /\ UNCHANGED <<form, type, current, maximum>>

Digit(n) == <<"0", "1", "2", "3", "4", "5", "6", "7", "8", "9">>[n + 1]

\* emit.integer_4: the ten thousands are discarded, leading zeros are spaces.
Integer_4(number) ==
    LET n == number % 10000
    IN  [i \in 1 .. 4 |->
           LET unit == <<1000, 100, 10, 1>>[i]
           IN  IF n < unit /\ i < 4 THEN "_" ELSE Digit((n \div unit) % 10)]

\* The label, and the command that aligns what follows to the right.
Label == pc = "label" /\ AppendPieces(<<type, "{right}">>, "current")

AfterCurrent == IF form = "value" THEN "done" ELSE "slash"

CurrentHP ==
    /\ pc = "current" /\ type = "HP"
    /\ \/ current >= 10000 /\ AppendPieces(<<"^", "^", "^", "^">>, AfterCurrent)
       \/ current < 10000 /\ AppendPieces(Integer_4(current), AfterCurrent)

CurrentMagic ==
    /\ pc = "current" /\ type \in Magic
    /\ \/ current = 65535 /\ AppendPieces(<<"_", "~", "~", "~">>, AfterCurrent)
       \/ current \in 1000 .. 65534 /\ AppendPieces(<<"_", "^", "^", "^">>, AfterCurrent)
       \/ current < 1000 /\ AppendPieces(Integer_4(current), AfterCurrent)

Slash == pc = "slash" /\ AppendPieces(<<"/">>, "maximum")

MaximumHP ==
    /\ pc = "maximum" /\ type = "HP"
    /\ \/ maximum >= 10000 /\ AppendPieces(<<"^", "^", "^", "^">>, "done")
       \/ maximum < 10000 /\ AppendPieces(Integer_4(maximum), "done")

\* The branch behind the question marks leads to the number, not past it.
MaximumMagic ==
    /\ pc = "maximum" /\ type \in Magic
    /\ \/ maximum = 65535 /\ AppendPieces(<<"_", "~", "~", "~">>, "done")
       \/ maximum \in 1000 .. 65534 /\ AppendPieces(<<"_", "^", "^", "^">>, "number")
       \/ maximum < 1000 /\ AppendPieces(<<>>, "number")

MaximumNumber == pc = "number" /\ AppendPieces(Integer_4(maximum), "done")

Next == \/ Label \/ CurrentHP \/ CurrentMagic \/ Slash
        \/ MaximumHP \/ MaximumMagic \/ MaximumNumber

Spec == Init /\ [][Next]_vars

-----------------------------------------------------------------------------
(* What the comments promise *)

Numeral[n \in 0 .. 65535] ==
    IF n < 10 THEN <<Digit(n)>> ELSE Append(Numeral[n \div 10], Digit(n % 10))

\* A field is four characters wide, and what it says stands at its right.
Field(text) == [i \in 1 .. 4 - Len(text) |-> "_"] \o text

PointsText(n) ==
    CASE type = "HP" /\ n > 9999 -> <<"^", "^", "^", "^">>
      [] type \in Magic /\ n = 65535 -> <<"~", "~", "~">>
      [] type \in Magic /\ n \in 1000 .. 65534 -> <<"^", "^", "^">>
      [] OTHER -> Numeral[n]

\* The functions write what the comments above them say (text.asm:658-659,
\* 681-683, 688-690, 695-697, 728-731, 736-739): the number, "---" for a unit
\* without magic, and "???" alone for a number that is too large.
WrittenAsCommented ==
    pc = "done" =>
      output = <<type, "{right}">> \o Field(PointsText(current))
                 \o (IF form = "range" THEN <<"/">> \o Field(PointsText(maximum)) ELSE <<>>)
=============================================================================
