------------------------------ MODULE ListFile ------------------------------
(***************************************************************************)
(* The files that hold the translated lists, as list-editor.cpp writes and *)
(* reads them: one entry per line.  An entry has no tag, so what follows a *)
(* line too many belongs to the wrong entry.  Notes may have several       *)
(* lines; in the file, and after a save in memory too, {line} stands for   *)
(* their newlines.                                                         *)
(*                                                                         *)
(* A text, and a file, is a sequence of pieces: a newline, the mark {line} *)
(* or any other word.                                                      *)
(***************************************************************************)
EXTENDS Integers, Sequences, FiniteSetsExt, SequencesExt

NewLine == "\n"
Mark == "{line}"

\* trimRight("\n")
Trim(text) == SubSeq(text, 1, Max({0} \cup {i \in DOMAIN text : text[i] # NewLine}))

\* replace(from, to)
Replace(text, from, to) == [i \in DOMAIN text |-> IF text[i] = from THEN to ELSE text[i]]

\* trimRight("\n", 1L)
Body(file) == IF file # <<>> /\ Last(file) = NewLine THEN Front(file) ELSE file

\* Where a line ends that starts behind position p: at a newline or the end.
LineEnd(body, p) ==
    Min({i \in DOMAIN body : i > p /\ body[i] = NewLine} \cup {Len(body) + 1})

\* split("\n"), the first lines; behind the end of the file a line is empty.
Lines(body, count) ==
    LET end[n \in 0 .. count] == IF n = 0 THEN 0 ELSE LineEnd(body, end[n - 1])
    IN  [n \in 1 .. count |-> SubSeq(body, end[n - 1] + 1, end[n] - 1)]

\* load(): as many lines as the list has entries.
LoadLines(kind, file, count) ==
    LET lines == Lines(Body(file), count)
    IN  [n \in 1 .. count |->
           IF kind = "notes" THEN Replace(lines[n], Mark, NewLine) ELSE lines[n]]

\* A mutant: newlines at the end are cut, those inside forgotten.
KeptUnfolded(kind, text) == IF kind = "notes" THEN Trim(text) ELSE text

\* The line save() writes for a text; trimRight and replace change the text in
\* memory as well.
KeptLine(kind, text) ==
    IF kind = "notes" THEN Replace(Trim(text), NewLine, Mark) ELSE text

\* save(): every line ends with a newline.
FormatLines(kind, texts) ==
    FlattenSeq([i \in DOMAIN texts |-> KeptLine(kind, texts[i]) \o <<NewLine>>])
=============================================================================
