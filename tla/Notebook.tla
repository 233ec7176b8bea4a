------------------------------ MODULE Notebook ------------------------------
(***************************************************************************)
(* What the script and the list editor promise a translator: a notebook of *)
(* texts, kept in files.                                                   *)
(*                                                                         *)
(* Only an edit changes a text, and only one; moving about changes none.   *)
(* A save stores every text; a crash damages at most the file it is        *)
(* writing.  The one exception is a file with a text the file format       *)
(* cannot hold, of which nothing is promised.                              *)
(***************************************************************************)
CONSTANTS
    Files,       \* the files of the notebook
    Pages(_),    \* the pages of a file, each with its text
    Blank(_),    \* the text of an empty file
    NoFile,      \* no file
    Splits(_, _) \* the texts the format of a file cannot hold

VARIABLES
    open,        \* an editor runs
    saving,      \* and is saving
    writing,     \* the file it is writing, or NoFile
    doc,         \* the texts as the translator sees them
    disk         \* the texts the files hold

vars == <<open, saving, writing, doc, disk>>

Clean(f) == \A p \in Pages(f) : ~Splits(f, doc[f][p])

Init == /\ ~open /\ ~saving
        /\ writing = NoFile
        /\ disk = [f \in Files |-> [p \in Pages(f) |-> Blank(f)]]
        /\ doc = disk

Open == /\ ~open
        /\ open'
        /\ UNCHANGED <<saving, writing, doc, disk>>

\* One text is replaced.
Edit == /\ open /\ ~saving
        /\ \E f \in Files : \E p \in Pages(f) :
             doc' = [doc EXCEPT ![f][p] = doc'[f][p]]
        /\ UNCHANGED <<open, saving, writing, disk>>

Save == /\ open /\ ~saving
        /\ saving'
        /\ UNCHANGED <<open, writing, doc, disk>>

OnlyIn(f) == \A g \in Files \ {f} : disk'[g] = disk[g]

BeginFile(f) == /\ saving /\ writing = NoFile
                /\ writing' = f
                /\ OnlyIn(f)
                /\ UNCHANGED <<open, saving, doc>>

EndFile(f) == /\ writing = f
              /\ writing' = NoFile
              /\ OnlyIn(f)
              /\ Clean(f) => disk'[f] = doc[f]
              /\ UNCHANGED <<open, saving, doc>>

\* A save is over when every file holds its texts; the editor may close as well.
Saved == /\ saving /\ writing = NoFile
         /\ \A f \in Files : Clean(f) => disk[f] = doc[f]
         /\ ~saving'
         /\ writing' = writing /\ disk' = disk
         /\ \/ open' /\ doc' = doc
            \/ ~open' /\ doc' = disk

\* Quitting without saving, or a crash: only the files are left.
Forget == /\ open
          /\ ~open' /\ ~saving'
          /\ writing' = NoFile
          /\ OnlyIn(writing)
          /\ doc' = disk'

Next == \/ Open \/ Edit \/ Save \/ Saved \/ Forget
        \/ \E f \in Files : BeginFile(f) \/ EndFile(f)

Spec == Init /\ [][Next]_vars
=============================================================================
