--------------------------- MODULE MCScriptBinary ---------------------------
(* Chapters of four texts and a field of two for the runs of ScriptBinary.     *)
EXTENDS ScriptBinary

\* A text of the original: bytes before it, its length, its end, and the pointers
\* to it, by their kind and the byte they point at.
Japanese == {
    [lead |-> <<>>, length |-> 5, end |-> Wait, pointers |-> <<<<"37", 0>>>>],
    [lead |-> <<>>, length |-> 3, end |-> Terminal, pointers |-> <<<<"37", 0>>>>],
    [lead |-> <<>>, length |-> 2, end |-> Wait, pointers |-> <<<<"38 08", 0>>>>],
    [lead |-> <<>>, length |-> 6, end |-> Wait, pointers |-> <<<<"37", 0>>, <<"37", 4>>>>],
    [lead |-> <<LineFeed>>, length |-> 5, end |-> Terminal, pointers |-> <<>>],
    [lead |-> <<>>, length |-> 4, end |-> Wait, pointers |-> <<>>],
    [lead |-> <<Space, LineFeed>>, length |-> 6, end |-> Wait, pointers |-> <<<<"08", 2>>>>],
    [lead |-> <<LineFeed>>, length |-> 5, end |-> Wait, pointers |-> <<<<"38 08", 0>>>>],
    [lead |-> <<>>, length |-> 0, end |-> Wait, pointers |-> <<<<"37", 0>>>>]}

FirstText == [lead |-> <<>>, length |-> 4, end |-> Wait, pointers |-> <<<<"37", 0>>>>]

Bytes(block) == block.lead \o [i \in 1 .. block.length |-> 7] \o <<block.end>>

\* A script of these texts.
ScriptOf(mode, blocks) ==
    LET start(i) == Len(FlattenSeq([j \in 1 .. i - 1 |-> Bytes(blocks[j])])) + Len(blocks[i].lead)
        toText(i) == [k \in DOMAIN blocks[i].pointers |->
                          [kind |-> blocks[i].pointers[k][1], target |-> start(i) + blocks[i].pointers[k][2]]]
    IN  [mode |-> mode, overlapped |-> <<>>,
         image |-> FlattenSeq([i \in DOMAIN blocks |-> Bytes(blocks[i])]),
         pointers |-> FlattenSeq([i \in DOMAIN blocks |-> toText(i)])]

Field == ScriptOf("field", <<
    [lead |-> <<>>, length |-> 4, end |-> Terminal, pointers |-> <<<<"26", 0>>>>],
    [lead |-> <<1, Wait>>, length |-> 3, end |-> Terminal, pointers |-> <<>>]>>)

\* The one text that lies in another and that is added by hand.
Overlapping ==
    [ScriptOf("chapter", <<FirstText,
        [lead |-> <<>>, length |-> 9, end |-> Wait, pointers |-> <<<<"37", 0>>>>], FirstText>>)
     EXCEPT !.overlapped = <<[target |-> 10, terminal |-> Wait]>>]

\* A chapter without a text that follows another.
NoText == ScriptOf("chapter", <<FirstText>>)

GameScripts ==
    {<<ScriptOf("chapter", <<FirstText, a, b, FirstText>>), Field>> :
       a \in Japanese, b \in {b \in Japanese : b.length \in {4, 5} /\ b.end = Wait}}
      \cup {<<Overlapping, Field>>, <<NoText, Field>>}

A == 1
Wide == 5
WidthOf == [c \in 0 .. 239 |-> CASE c = 3 -> 1 [] c = 5 -> 4 [] OTHER -> 2]

item(op, arg) == [op |-> op, arg |-> arg]
char(c) == item("char", c)

ItemsOfLine ==
    ("" :> <<>>) @@
    ("hi" :> <<char(A), item("format", 241), char(Wide), item("pause", 128)>>) @@
    ("name's" :> <<item("name", 0), char(3), char(4), item("skip", 1), char(A)>>) @@
    ("fixed's" :> <<char(A), item("name", 1), char(3), char(A)>>) @@
    ("middle" :> <<item("center", 0), char(Wide), item("name", 0), char(A)>>) @@
    ("right" :> <<char(A), item("left", 0), item("right", 0), item("skip", 2), item("name", 0), char(A)>>) @@
    ("names" :> <<item("name", 0), item("name", 0)>>) @@
    ("option" :> <<item("option", 0), char(Wide), char(Wide), char(A), char(A)>>) @@
    ("wait" :> <<item("center", 0), char(A), item("wait", 0), char(Wide), char(A)>>) @@
    ("long" :> (<<item("name", 0)>> \o [i \in 1 .. 12 |-> item("format", 240)])) @@
    ("too wide" :> <<item("name", 0), char(Wide), char(Wide)>>)

Texts == <<<<"hi">>, <<"name's", "fixed's">>, <<"">>, <<"middle", "right">>, <<"option">>, <<"names", "hi", "">>>>

\* The texts in a different order for each translation; the last two hold one
\* the encoder refuses.
TextFor(k, s, a) ==
    LET t == 1 + ((a + 5 * s + k) % Len(Texts))
    IN  IF s = 2 /\ a < 5 /\ k = 1 THEN <<"wait">>
        ELSE IF s = 1 /\ a > 10 /\ k = 3 THEN <<"long">>
        ELSE IF s = 2 /\ a > 4 /\ k = 2 THEN <<"too wide">>
        ELSE Texts[t]

FourTranslations == [k \in 0 .. 3 |-> [sa \in (1 .. 2) \X (0 .. 40) |-> TextFor(k, sa[1], sa[2])]]

TwoTables == {0 :> <<A, A, 4>> @@ 1 :> <<4, 4>>, 0 :> <<3>> @@ 1 :> <<4, 4>>}
=============================================================================
