------------------------------ MODULE MCEditor ------------------------------
(* The script editor with two scripts, of two blocks and of one, and the list *)
(* editor with a list of two entries; the texts of the run.                   *)
EXTENDS Editor

S == INSTANCE ScriptFile
L == INSTANCE ListFile

TwoPrograms == {<<1, 2>>, <<3>>}
TheTags == <<<<"{0c0b}", "{0c17}">>, <<"{0a20}">>, <<1, 2>>>>

IsList(f) == f[1] = 3

\* Of lists, an entry of one line, as the box has one, and notes of two lines,
\* one of them with a mark typed by hand.  Of scripts, a text that ends with
\* {end} and a newline, which the files hold, and one that ends its block too
\* early and then poses as another block.
TypedOf(f) ==
    CASE IsList(f)        -> IF f[2] = "english" THEN {<<"sword">>}
                             ELSE {<<"a", "\n", "b", "\n">>, <<"c", "{line}">>}
      [] f[2] = "english" -> {<<"hello", "{end}", "">>, <<"bye", "{end}", "", "{0c17}">>}
      [] OTHER            -> {<<"bye", "{end}", "", "{0c17}">>}

BlankOf(f) == IF IsList(f) THEN <<>> ELSE S!Blank

LoadOf(f, file) == IF IsList(f) THEN L!LoadLines(f[2], file, Len(TheTags[f[1]]))
                   ELSE S!Load(file, TheTags[f[1]])

FormatOf(f, page) == IF IsList(f) THEN L!FormatLines(f[2], page)
                     ELSE S!Format(TheTags[f[1]], page)

KeptOf(f, text) == IF IsList(f) THEN L!KeptLine(f[2], text) ELSE S!Trim(text)

\* A newline and its mark say the same in the notes of a list.
PlainOf(f, text) ==
    CASE ~IsList(f)       -> S!Trim(text)
      [] f[2] = "english" -> text
      [] OTHER            -> L!Trim(L!Replace(text, L!Mark, L!NewLine))

\* Every list file holds what its boxes can.
SplitsOf(f, text) == ~IsList(f) /\ S!Splits(text)

\* The texts that come of those typed, and of files a crash cut short.
ScriptTexts ==
    {<<"">>, <<"bye">>, <<"bye", "{end}", "", "{0c17}">>,
     <<"hello", "{end}">>, <<"hello", "{end}", "">>}
CutScriptTexts ==
    ScriptTexts \cup
    {<<"{end}">>, <<"{end}", "">>, <<"bye", "{end}">>, <<"bye", "{end}", "">>,
     <<"hello">>, <<"hello", "{end}", "{end}">>, <<"hello", "{end}", "{end}", "">>}

Entries == {<<>>, <<"sword">>}
Notes == {<<>>, <<"c">>, <<"c", "\n">>, <<"c", "{line}">>,
          <<"a", "\n", "b">>, <<"a", "{line}", "b">>, <<"a", "\n", "b", "\n">>}
CutNotes == Notes \cup {<<"a">>, <<"a", "\n">>}

TheTexts ==
    [f \in (DOMAIN TheTags) \X {"english", "notes"} |->
       [n \in 0 .. 1 |->
          CASE ~IsList(f)       -> IF n = 0 THEN ScriptTexts ELSE CutScriptTexts
            [] f[2] = "english" -> Entries
            [] OTHER            -> IF n = 0 THEN Notes ELSE CutNotes]]
=============================================================================
