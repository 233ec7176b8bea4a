----------------------------- MODULE ScriptFile -----------------------------
(***************************************************************************)
(* The files that hold the translated scripts, as script-editor.cpp writes *)
(* and reads them.                                                         *)
(*                                                                         *)
(* A text, and a file, is the sequence of its lines: what "\n" separates.  *)
(* So no text is the empty sequence, and the empty string is Blank.  A     *)
(* line is a tag such as "{0c0b}", "{end}", the empty line or any other    *)
(* word; a word's first letters are never read as the address of a block.  *)
(***************************************************************************)
EXTENDS Integers, Sequences, FiniteSetsExt, SequencesExt

EmptyLine == ""
EndLine == "{end}"

Blank == <<EmptyLine>>

\* trimRight("\n")
Trim(text) ==
    LET written == {i \in DOMAIN text : text[i] # EmptyLine}
    IN  IF written = {} THEN Blank ELSE SubSeq(text, 1, Max(written))

\* A mutant: an empty text is not closed.
BlockLinesOpen(tag, text) ==
    <<tag>> \o (IF Trim(text) = Blank THEN <<EmptyLine>> ELSE Trim(text) \o <<EndLine, EmptyLine>>)

\* What save() appends for one block; every line of it ends with "\n".
BlockLines(tag, text) ==
    <<tag>> \o (IF Trim(text) = Blank THEN <<>> ELSE Trim(text)) \o <<EndLine, EmptyLine>>

\* The whole file: its last line, after the last "\n", is empty.
Format(tags, texts) ==
    FlattenSeq([i \in DOMAIN tags |-> BlockLines(tags[i], texts[i])]) \o Blank

\* The lines at which string::split finds the "{end}" of a "\n{end}\n\n".
\* Matches do not overlap: after one, the search goes on behind its last "\n",
\* which starts line i + 2.
Separators(file) ==
    LET at[i \in DOMAIN file] ==
          /\ file[i] = EndLine
          /\ i \in 2 .. Len(file) - 2
          /\ file[i + 1] = EmptyLine
          /\ i > 2 => ~at[i - 2]
    IN  {i \in DOMAIN file : at[i]}

\* The text behind the tag at line p, up to the next separator or the end of
\* the file: slice(text, 7).
TextAt(file, separators, p) ==
    LET ends == {i - 1 : i \in {i \in separators : i > p}} \cup {Len(file)}
    IN  IF Min(ends) = p THEN Blank ELSE SubSeq(file, p + 1, Min(ends))

\* load(): the text of a block is the last of the pieces that carry its tag.
Load(file, tags) ==
    LET separators == Separators(file)
        starts == {1} \cup {i + 2 : i \in separators}
        text(tag) == LET mine == {p \in starts : file[p] = tag}
                     IN  IF mine = {} THEN Blank ELSE TextAt(file, separators, Max(mine))
    IN  [i \in DOMAIN tags |-> text(tags[i])]

\* The texts a file cannot hold: a line {end} inside, before an empty line.
Splits(text) ==
    LET t == Trim(text) IN \E i \in 1 .. Len(t) - 1 : t[i] = EndLine /\ t[i + 1] = EmptyLine
=============================================================================
