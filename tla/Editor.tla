------------------------------- MODULE Editor -------------------------------
(***************************************************************************)
(* The windows in which scripts and lists are translated,                  *)
(* bahamut/tools/script-editor.cpp and list-editor.cpp.  Their handlers    *)
(* are the same line by line: what one calls script, block, loadBlock and  *)
(* saveBlock, the other calls list, entry, loadEntry and saveEntry.  They  *)
(* differ in the format of their files, which the modules ScriptFile and   *)
(* ListFile define.  The names here are those of the script editor.        *)
(*                                                                         *)
(* The texts of every block are held in memory and, for the block shown,   *)
(* in two text boxes besides; leaving a block copies the boxes back.       *)
(* Saving rewrites the two files of every script, each truncated first and *)
(* filled afterwards.  One editor runs at a time, on files of its own.     *)
(***************************************************************************)
EXTENDS Integers, Sequences, Functions

CONSTANTS
    Programs,       \* the editors, each the sequence of its scripts (or lists)
    Tags,           \* the tags of the blocks of each script: a sequence per script
    None,           \* no script is shown; no file is written
    MaxEdits, MaxCrashes,
    Text,               \* the texts a file may hold after so many crashes
    Typed(_),           \* what may be typed into a text of a file
    Nothing(_),         \* the contents of a file of a text, and of a file, with nothing in it
    TextsIn(_, _),      \* the texts of a file with the given contents
    ContentsOf(_, _),   \* the contents of a file with the given texts
    Kept(_, _),         \* what a save leaves of a text of a file in memory
    Plain(_, _),        \* what a text of a file says, however it is held
    Unfit(_, _)         \* whether a text is one the file cannot hold

Scripts == DOMAIN Tags
Kinds == {"english", "notes"}
Files == Scripts \X Kinds
Blocks == UNION {{<<s, b>> : b \in DOMAIN Tags[s]} : s \in Scripts}

Pages(f) == DOMAIN Tags[f[1]]

\* An editor has scripts, and a script has blocks.
ASSUME TagsAssumption ==
    /\ \A s \in Scripts : Tags[s] \in Seq(Range(Tags[s])) \ {<<>>}
    /\ Programs \subseteq Seq(Scripts) \ {<<>>}
    /\ None \notin Files \cup Blocks
    /\ MaxEdits \in Nat /\ MaxCrashes \in Nat

Filled(f, n) == [Pages(f) -> Text[f][n]]

VARIABLES
    program,     \* the scripts of the editor that runs, none when none runs
    mode,        \* "closed", "editing", or "saving"
    texts,       \* the texts in memory: of a file, one per block
    shown,       \* the script and block shown, or None
    box,         \* the contents of the two text boxes
    files,       \* the files on disk, each as the texts load() finds in it
    todo,        \* the files save() has yet to write, in order
    writing,     \* the file being written, or None
    quitting,    \* the editor closes after the save
    edits, crashes

vars == <<program, mode, texts, shown, box, files, todo, writing, quitting, edits, crashes>>

disk == <<files, todo, writing, quitting, crashes>>

Mine(f) == f[1] \in Range(program)

Empty == [k \in Kinds |-> None]
NoTexts == [f \in Files |-> [b \in Pages(f) |-> Nothing(f)]]

\* A translation that has not begun: no file exists, and reads as empty.
Init == /\ program = <<>> /\ mode = "closed"
        /\ texts = NoTexts
        /\ shown = None
        /\ box = Empty
        /\ files = [f \in Files |-> TextsIn(f, Nothing(f))]
        /\ todo = <<>> /\ writing = None /\ quitting = FALSE
        /\ edits = 0 /\ crashes = 0

-----------------------------------------------------------------------------
(* loadBlock and saveBlock *)

BoxOf(t, s, b) == [k \in Kinds |-> t[<<s, k>>][b]]

\* saveBlock(): the boxes go back to the block shown.
SaveBlock ==
    [f \in Files |-> IF shown # None /\ f[1] = shown[1]
                       THEN [texts[f] EXCEPT ![shown[2]] = box[f[2]]]
                       ELSE texts[f]]

\* saveBlock(), then loadBlock() of block b of script s.
MoveTo(s, b) == /\ texts' = SaveBlock
                /\ shown' = <<s, b>>
                /\ box' = BoxOf(texts', s, b)
                /\ UNCHANGED <<program, mode, edits, disk>>

Count == Len(Tags[shown[1]])

-----------------------------------------------------------------------------
(* The handlers of the window *)

\* The constructor: load(), then the first script is selected.
Start ==
    /\ mode = "closed"
    /\ mode' = "editing"
    /\ program' \in Programs
    /\ texts' = [f \in Files |-> IF Mine(f)' THEN files[f] ELSE NoTexts[f]]
    /\ shown' = <<program'[1], 1>>
    /\ box' = BoxOf(texts', program'[1], 1)
    /\ UNCHANGED <<edits, disk>>

Editing == mode = "editing"

Type ==
    /\ Editing /\ shown # None
    /\ edits < MaxEdits
    /\ \E k \in Kinds : \E t \in Typed(<<shown[1], k>>) :
         t # box[k] /\ box' = [box EXCEPT ![k] = t]
    /\ edits' = edits + 1
    /\ UNCHANGED <<program, mode, texts, shown, disk>>

\* scriptList.onChange: another row, or none.
SelectScript ==
    /\ Editing
    /\ \E s \in Range(program) : /\ shown # None => s # shown[1]
                                 /\ MoveTo(s, 1)

Deselect ==
    /\ Editing /\ shown # None
    /\ texts' = SaveBlock
    /\ shown' = None
    /\ box' = Empty
    /\ UNCHANGED <<program, mode, edits, disk>>

FirstBlock == /\ Editing /\ shown # None
              /\ shown[2] # 1
              /\ MoveTo(shown[1], 1)

BackBlock == /\ Editing /\ shown # None
             /\ shown[2] > 1
             /\ MoveTo(shown[1], shown[2] - 1)

NextBlock == /\ Editing /\ shown # None
             /\ shown[2] < Count
             /\ MoveTo(shown[1], shown[2] + 1)

\* A mutant: count in place of count - 1.
LastBlockBehind == /\ Editing /\ shown # None
                   /\ shown[2] # Count
                   /\ texts' = SaveBlock
                   /\ shown' = <<shown[1], Count + 1>>
                   /\ box' = Empty
                   /\ UNCHANGED <<program, mode, edits, disk>>

LastBlock == /\ Editing /\ shown # None
             /\ shown[2] # Count
             /\ MoveTo(shown[1], Count)

\* blockList.onChange
SelectBlock ==
    /\ Editing /\ shown # None
    /\ \E b \in 1 .. Count : b # shown[2] /\ MoveTo(shown[1], b)

\* SearchWindow::seek: any block may be a hit, the one shown too.
Seek == /\ Editing
        /\ \E h \in Blocks : h[1] \in Range(program) /\ MoveTo(h[1], h[2])

-----------------------------------------------------------------------------
(* save() *)

\* The files of some scripts in the order they are written.
InOrder(scripts) ==
    [i \in 1 .. 2 * Len(scripts) |->
       <<scripts[(i + 1) \div 2], IF i % 2 = 1 THEN "english" ELSE "notes">>]

\* saveBlock(), then save(): composing a file, the texts are brought into its
\* form in memory as well, a script at a time; nothing sees the others until
\* save() returns.
Save(quit) ==
    /\ Editing
    /\ mode' = "saving"
    /\ texts' = [f \in Files |-> IF Mine(f) THEN [b \in Pages(f) |-> Kept(f, SaveBlock[f][b])]
                                           ELSE texts[f]]
    /\ todo' = InOrder(program)
    /\ quitting' = quit
    /\ UNCHANGED <<program, shown, box, files, writing, edits, crashes>>

\* file::write opens the file, which empties it, ...
OpenFile ==
    /\ mode = "saving" /\ writing = None /\ todo # <<>>
    /\ writing' = Head(todo)
    /\ todo' = Tail(todo)
    /\ files' = [files EXCEPT ![writing'] = TextsIn(writing', Nothing(writing'))]
    /\ UNCHANGED <<program, mode, texts, shown, box, quitting, edits, crashes>>

Contents == ContentsOf(writing, texts[writing])

\* ... and writes it.
WriteFile ==
    /\ writing # None
    /\ files' = [files EXCEPT ![writing] = TextsIn(writing, Contents)]
    /\ writing' = None
    /\ UNCHANGED <<program, mode, texts, shown, box, todo, quitting, edits, crashes>>

Closed ==
    /\ program' = <<>> /\ mode' = "closed"
    /\ texts' = NoTexts /\ shown' = None /\ box' = Empty
    /\ todo' = <<>> /\ writing' = None /\ quitting' = FALSE

Saved ==
    /\ mode = "saving" /\ writing = None /\ todo = <<>>
    /\ UNCHANGED <<files, edits, crashes>>
    /\ IF quitting
         THEN Closed
         ELSE mode' = "editing"
              /\ UNCHANGED <<program, texts, shown, box, todo, writing, quitting>>

\* "Quit Without Saving", confirmed.
Quit == /\ Editing
        /\ Closed
        /\ UNCHANGED <<files, edits, crashes>>

\* The editor dies; of the file it was writing the first pieces are there (where
\* in a piece the file ends is left out).
Crash ==
    /\ mode # "closed" /\ crashes < MaxCrashes
    /\ IF writing = None THEN files' = files
       ELSE \E n \in 1 .. Len(Contents) :
              files' = [files EXCEPT ![writing] = TextsIn(writing, SubSeq(Contents, 1, n))]
    /\ Closed
    /\ crashes' = crashes + 1
    /\ edits' = edits

Next == \/ Start \/ Type \/ SelectScript \/ Deselect
        \/ FirstBlock \/ BackBlock \/ NextBlock \/ LastBlock \/ SelectBlock \/ Seek
        \/ Save(FALSE)      \* Save
        \/ Save(TRUE)       \* Save and Quit, or closing the window
        \/ OpenFile \/ WriteFile \/ Saved
        \/ Quit \/ Crash

Spec == Init /\ [][Next]_vars

-----------------------------------------------------------------------------
(* What the editors promise *)

\* Of the files of scripts p those in t are to do, after w if that is a file.
Remains(p, t, w) ==
    \E n \in 0 .. Len(InOrder(p)) :
      /\ t = SubSeq(InOrder(p), n + 1, Len(InOrder(p)))
      /\ w = None \/ (n > 0 /\ w = InOrder(p)[n])

\* The variables have their types; an editor shows and holds its own scripts
\* only; while a save runs, the file being written comes before those still to
\* do, and nothing is left to do otherwise.
TypeOK ==
    /\ program \in Programs \cup {<<>>}
    /\ mode \in {"closed", "editing", "saving"}
    /\ mode = "closed" <=> program = <<>>
    /\ shown \in {h \in Blocks : h[1] \in Range(program)} \cup {None}
    /\ DOMAIN box = Kinds
    /\ \A k \in Kinds : IF shown = None THEN box[k] = None ELSE box[k] \in Text[<<shown[1], k>>][crashes]
    /\ DOMAIN texts = Files /\ DOMAIN files = Files
    /\ \A f \in Files : /\ texts[f] \in Filled(f, crashes) /\ files[f] \in Filled(f, crashes)
                        /\ ~Mine(f) => texts[f] = NoTexts[f]
    /\ Remains(program, todo, writing)
    /\ mode # "saving" => writing = None /\ todo = <<>> /\ ~quitting
    /\ quitting \in BOOLEAN
    /\ edits \in 0 .. MaxEdits /\ crashes \in 0 .. MaxCrashes

Says(f, page) == [b \in Pages(f) |-> Plain(f, page[b])]

Fits(f, page) == \A b \in Pages(f) : ~Unfit(f, Plain(f, page[b]))

\* Nothing but texts comes of typing, saving and reading a file; a file that a
\* crash cut short may give others.
TextsClosed ==
    \A f \in Files, n \in 0 .. MaxCrashes :
      /\ Nothing(f) \in Text[f][n] /\ Typed(f) \subseteq Text[f][n]
      /\ TextsIn(f, Nothing(f)) \in Filled(f, n)
      /\ \A t \in Text[f][n] : Kept(f, t) \in Text[f][n]
      /\ \A page \in Filled(f, n) : TextsIn(f, ContentsOf(f, page)) \in Filled(f, n)
      /\ n < MaxCrashes =>
           /\ Text[f][n] \subseteq Text[f][n + 1]
           /\ \A page \in Filled(f, n) : \A k \in 1 .. Len(ContentsOf(f, page)) :
                TextsIn(f, SubSeq(ContentsOf(f, page), 1, k)) \in Filled(f, n + 1)

\* A file without contents says nothing, what a save leaves in memory says what
\* was there before, and texts a file can hold are read as they were written.
FormatHolds ==
    \A f \in Files, n \in 0 .. MaxCrashes :
      /\ Says(f, TextsIn(f, Nothing(f))) = [b \in Pages(f) |-> Nothing(f)]
      /\ \A t \in Text[f][n] : Plain(f, Kept(f, t)) = Plain(f, t)
      /\ \A page \in Filled(f, n) :
           Fits(f, page) => Says(f, TextsIn(f, ContentsOf(f, page))) = Says(f, page)

\* The formats of the files keep their texts (looked at once, before the first
\* edit).  And opening an editor and saving at once changes nothing a file says,
\* whatever state the files are in: after any save, a text that closed a block too
\* early or posed as the mark of a newline, or a crash in the middle of a file
\* (load against save).
ResaveKeepsTexts ==
    /\ mode = "closed" /\ edits = 0 /\ crashes = 0 => TextsClosed /\ FormatHolds
    /\ mode = "closed" =>
         \A f \in Files : TextsIn(f, ContentsOf(f, files[f])) = Says(f, files[f])

OnDisk == [f \in Files |-> Says(f, files[f])]

\* The texts as the translator sees them.
AsSeen == [f \in Files |-> IF Mine(f) THEN Says(f, SaveBlock[f]) ELSE OnDisk[f]]

Book == INSTANCE Notebook WITH
    Blank <- Nothing,
    Splits <- Unfit,
    NoFile <- None,
    open <- mode # "closed",
    saving <- mode = "saving",
    doc <- AsSeen,
    disk <- OnDisk

\* Each editor is a notebook: walking through scripts, blocks and search hits
\* changes no text, an edit changes the one text shown, a save stores every
\* text of the editor and leaves what they say, in memory too, and a crash
\* damages no file but the one being written.
ImplementsNotebook == Book!Spec
=============================================================================
