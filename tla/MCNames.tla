------------------------------ MODULE MCNames -------------------------------
(* Three names, of a person, a dragon and one without tiles.  The first has up
   to eleven characters, drawn from the ends of the code's range.  Wide and
   narrow keys make a name reach the limits of either font. *)
EXTENDS Names

MCKeys == {185, Dot}                       \* A and the dot

\* Codes 0, 8, 52, 53 and 54: each at both ends of a name.
Pairs == {<<Space, Dash>>, <<192, 141>>, <<141, Dot>>, <<Dot, Space>>, <<Dash, 192>>, <<Dot, Dot>>}
Long == {[i \in 1..11 |-> IF i <= 5 THEN p[1] ELSE p[2]] : p \in Pairs}
Short == {<< >>, <<192, Dot, 141>>}
MCDefaults == {[i \in 0..2 |-> CASE i = 0 -> text [] i = 1 -> <<185, 140>> [] i = 2 -> <<Dot, Dot>>]
                 : text \in Long \union Short}

MCWidth(font, c) ==
  CASE c = 185 -> IF font = "small" THEN 24 ELSE 20
    [] c = 140 -> IF font = "small" THEN 18 ELSE 25
    [] OTHER   -> IF font = "small" THEN 4 ELSE 6

MCKerning(font, a, b) ==
  CASE font = "small" /\ a = 185 /\ b = 140 -> 1
    [] font = "large" /\ a = 140 /\ b = 140 -> 2
    [] OTHER                                -> 0
=============================================================================
