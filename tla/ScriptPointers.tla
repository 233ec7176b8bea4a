--------------------------- MODULE ScriptPointers ---------------------------
(***************************************************************************)
(* How script-extractor.hpp finds the texts in a script of the game.       *)
(*                                                                         *)
(* A script is commands followed by text.  The commands are kept as the    *)
(* pointers among them, in the order of their addresses; a pointer has the *)
(* address it points at and the kind of its prefix:                        *)
(*     "37"     text that ends with Wait or Terminal (chapters)            *)
(*     "38 08"  text that ends with Wait (chapters; 09 is the same)        *)
(*     "08"     may be a pointer or two other bytes (chapters)             *)
(*     "26"     text that ends with Terminal (fields)                      *)
(* image[a + 1] is the byte at address a behind the commands.              *)
(***************************************************************************)
EXTENDS Integers, Sequences, FiniteSets, FiniteSetsExt, SequencesExt

CONSTANT MaxGap      \* 16: bytes between two texts of a chapter

\* namespace Command
Name == 244
Redirect == 245
Left == 246
Center == 247
Right == 248
Skip == 249
Pause == 252
Wait == 253
LineFeed == 254
Terminal == 255

Space == 239       \* 0xef in the Japanese text

Addresses(script) == 0 .. Len(script.image) - 1
At(script, a) == script.image[a + 1]

\* The bytes that end a text.
Ends(mode) == IF mode = "chapter" THEN {Wait, Terminal} ELSE {Terminal}

\* findTerminal(): the first end from offset on.
Terminals(script, offset) ==
    {a \in Addresses(script) : a >= offset /\ At(script, a) \in Ends(script.mode)}

EndOf(script, offset) == Min(Terminals(script, offset))

-----------------------------------------------------------------------------
(* loadChapter() and loadField(): the origin, where the text starts *)

\* The byte behind the text of a pointer, whatever the mode.
TextEnd(script, a) ==
    Min({Len(script.image)} \cup {b \in Addresses(script) : b >= a /\ At(script, b) \in {Wait, Terminal}})

Targets(script, kinds) ==
    {script.pointers[i].target : i \in {i \in DOMAIN script.pointers : script.pointers[i].kind \in kinds}}

Candidates(script) ==
    IF script.mode = "field" THEN Targets(script, {"26"})
    ELSE Targets(script, {"37"}) \cup
         {a \in Targets(script, {"38 08", "08"}) :
            LET e == TextEnd(script, a) IN e < Len(script.image) /\ At(script, e) = Wait}

\* The candidates that a text of two bytes or more follows, and soon after it
\* the next one; the last candidate has none.
Plausible(script) ==
    {c \in Candidates(script) :
       LET length == TextEnd(script, c) - c
           later == {d \in Candidates(script) : d > c}
       IN  /\ later # {}
           /\ length > 1
           /\ Min(later) - (c + length) \in 0 .. MaxGap - 1}

Starts(script) == IF script.mode = "field" THEN Candidates(script) ELSE Plausible(script)

HasText(script) == Starts(script) # {}
Origin(script) == Min(Starts(script))

-----------------------------------------------------------------------------
(* analyze() *)

\* findPointer(): the first pointer of a known kind.
PointersTo(script, target) ==
    {i \in DOMAIN script.pointers :
       /\ script.pointers[i].target = target
       /\ script.pointers[i].kind \in IF script.mode = "field" THEN {"26"} ELSE {"37", "38 08", "08"}}

\* findTarget(): back to the start of the text that offset lies in, behind line
\* feeds; offset itself when no end precedes it.
TargetOf(script, offset) ==
    LET ends == {a \in Origin(script) .. offset : At(script, a) \in Ends(script.mode)}
        e == Max(ends)
    IN  IF ends = {} THEN offset
        ELSE IF At(script, e + 1) = LineFeed THEN e + 2
        ELSE IF At(script, e + 1) = Space /\ At(script, e + 2) = LineFeed THEN e + 3
        ELSE e + 1

\* A pointer that is only suspected stands for the start of its text.
TextTarget(script, offset) ==
    IF script.pointers[Min(PointersTo(script, offset))].kind = "08"
      THEN TargetOf(script, offset) ELSE offset

\* The scan from offset on: from a pointer's text it goes on behind the end of
\* the text.  A text of no bytes is passed over.
Scan(script) ==
    LET scan[offset \in Nat] ==
          IF offset >= Len(script.image) THEN <<>>
          ELSE IF PointersTo(script, offset) = {} \/ Terminals(script, offset) = {}
            THEN scan[offset + 1]
          ELSE LET e == EndOf(script, offset)
               IN  (IF e = offset THEN <<>>
                    ELSE <<[target |-> TextTarget(script, offset),
                            terminal |-> At(script, e)]>>)
                   \o scan[e + 1]
    IN  scan[Origin(script)]

\* findOrphaned(), skipTerminal: past ends and line feeds.
SkipTerminal(script, offset) ==
    LET skip[a \in Nat] ==
          IF a >= Len(script.image) THEN a
          ELSE IF At(script, a) \in Ends(script.mode) \cup {LineFeed} THEN skip[a + 1]
          ELSE IF At(script, a) = Space /\ a + 1 < Len(script.image) /\ At(script, a + 1) = LineFeed
            THEN skip[a + 2]
          ELSE a
    IN  skip[offset]

\* findOrphaned(), orphan: five bytes or more that no pointer covers.
Orphan(script, offset, target) ==
    IF target - offset <= 4 \/ Terminals(script, offset) = {} THEN <<>>
    ELSE <<[target |-> offset, terminal |-> At(script, EndOf(script, offset))]>>

\* findOrphaned() over the pointers found by Scan, and behind the last of them.
\* (The loop runs over the vector it appends to; here over the old elements.)
Orphans(script) ==
    LET found == Scan(script)
        behind(i) == IF i = 0 THEN Origin(script)
                     ELSE IF Terminals(script, found[i].target) = {} THEN found[i].target
                     ELSE EndOf(script, found[i].target)
        from(i) == SkipTerminal(script, behind(i))
        limit(i) == IF i = Len(found) THEN Len(script.image) ELSE found[i + 1].target
    IN  FlattenSeq([i \in 1 .. Len(found) + 1 |-> Orphan(script, from(i - 1), limit(i - 1))])

\* A mutant: texts without a pointer are left out.
AnalyzePointed(script) ==
    SortSeq(Scan(script), LAMBDA p, q : p.target < q.target)

\* The texts of a script in the order of their addresses; script.overlapped are
\* the texts insertOverlapped() adds by hand.
Analyze(script) ==
    SortSeq(Scan(script) \o Orphans(script) \o script.overlapped,
            LAMBDA p, q : p.target < q.target)

-----------------------------------------------------------------------------
\* A legal game script: what a pointer points at ends with a byte that ends it.
IsScript(script) ==
    /\ script.mode \in {"chapter", "field"}
    /\ script.image \in Seq(0 .. 255)
    /\ \A i \in DOMAIN script.pointers : script.pointers[i].target \in Addresses(script)
=============================================================================
