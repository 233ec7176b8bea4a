---------------------------- MODULE ScriptBinary ----------------------------
(***************************************************************************)
(* The way of a translated text into the game.  script-encoder.cpp takes   *)
(* the scripts of the original game and the files script-editor.cpp saved, *)
(* and replaces each text in a script by a redirect, three digits that     *)
(* address the translated text in script.bin.  insert.asm puts both into   *)
(* the game, which follows the redirect when it shows the text.            *)
(***************************************************************************)
EXTENDS ScriptText, TLC

CONSTANTS
    Originals,     \* the scripts of the game: a set of sequences of scripts
    Translations,  \* what the translator may have written, by edition: for a
                   \* script and an address, a text (a sequence of lines)
    Items,         \* the items of a line
    NameTables,    \* the names, those of the player among them, by index
    MaxBlock,      \* 1000 bytes
    Buffer,        \* 1024: variable(1024, text)
    MaxRuns, None

\* The tables agree on the names that are fixed, and none is empty; the widths
\* are what the encoder takes for granted of the names the player enters.
ASSUME NamesAssumption ==
    \A t, u \in NameTables : \A n \in DOMAIN t :
        /\ n \in DOMAIN u /\ t[n] # <<>>
        /\ n \notin Dynamic => t[n] = u[n]
        /\ n \in Dynamic => StringWidth(t[n]) <= NameWidth

ASSUME OriginalsAssumption ==
    \A o \in Originals : \A s \in DOMAIN o : IsScript(o[s])

VARIABLES
    originals,   \* the scripts of the game
    pointers,    \* the texts analyze() finds in each of them
    edition,     \* the edition in the script files
    encoding,    \* an encoder runs
    script,      \* its place: the script, ...
    pointer,     \* ... the texts of it encoded so far, ...
    english,     \* ... the translation of the script,
    data,        \* ... the script with redirects in it,
    context,     \* and the translated texts of all scripts so far
    chapters,    \* the files binaries/chapters, binaries/fields, once written
    scriptBin,   \* the file binaries/script/script.bin
    built,       \* the edition the last encoder took, None if it failed
    rom,         \* the game assembled last, None before
    shown,       \* the text the game shows, None when it is put away
    runs

game == <<originals, pointers>>

encoder == <<encoding, script, pointer, english, data, context>>

vars == <<game, edition, encoder, chapters, scriptBin, built, rom, shown, runs>>

\* The texts of a script; a script without text is passed over.
Found(original) == IF HasText(original) THEN Analyze(original) ELSE <<>>

\* The tag of a block: its address.
Tag(target) == "{" \o ToString(target) \o "}"

File == INSTANCE ScriptFile

TagsOf(s) == [i \in DOMAIN pointers[s] |-> Tag(pointers[s][i].target)]

\* The file as the editor saves it.
Saved(s) ==
    File!Format(TagsOf(s), [i \in DOMAIN pointers[s] |-> Translations[edition][<<s, pointers[s][i].target>>]])

\* loadScript(): a block goes to the first pointer to its address.
LoadScript(s) ==
    LET read == File!Load(Saved(s), TagsOf(s))
    IN  [i \in DOMAIN read |->
           IF \E j \in 1 .. i - 1 : TagsOf(s)[j] = TagsOf(s)[i] THEN File!Blank ELSE read[i]]

\* The items of a text: those of its lines, with a line feed between two lines.
ItemsOf(text) ==
    FlattenSeq([i \in DOMAIN text |->
        Items[text[i]] \o IF i < Len(text) THEN <<[op |-> "linefeed", arg |-> 0]>> ELSE <<>>])

Init == /\ originals \in Originals
        /\ pointers = [s \in DOMAIN originals |-> Found(originals[s])]
        /\ edition \in DOMAIN Translations
        /\ encoding = FALSE
        /\ script = 0 /\ pointer = 0 /\ english = <<>> /\ data = <<>> /\ context = <<>>
        /\ chapters = [s \in DOMAIN originals |-> originals[s].image]
        /\ scriptBin = <<>>
        /\ built = None /\ rom = None /\ shown = None
        /\ runs = 0

-----------------------------------------------------------------------------
(* The encoder *)

\* main(): an encoder with an empty context.
StartEncoder ==
    /\ ~encoding /\ runs < MaxRuns
    /\ encoding' = TRUE
    /\ script' = 0 /\ pointer' = 0 /\ english' = <<>> /\ data' = <<>> /\ context' = <<>>
    /\ runs' = runs + 1
    /\ built' = None /\ shown' = None
    /\ UNCHANGED <<game, edition, chapters, scriptBin, rom>>

\* encodeScript(): the Japanese text is erased.
Erased(s) ==
    LET origin == Origin(originals[s])
    IN  [i \in DOMAIN originals[s].image |->
           IF i - 1 >= origin THEN Terminal ELSE originals[s].image[i]]

Later == {s \in DOMAIN originals : s > script /\ HasText(originals[s])}

\* The next script that has text; the others are left as they are.
NextScript ==
    /\ encoding /\ data = <<>> /\ Later # {}
    /\ script' = Min(Later)
    /\ pointer' = 0
    /\ english' = LoadScript(Min(Later))
    /\ data' = Erased(Min(Later))
    /\ UNCHANGED <<game, edition, encoding, context, chapters, scriptBin, built, rom, shown, runs>>

\* A mutant: the middle digit is taken from bit 8 on.
RedirectToShifted(source) ==
    <<Redirect, source % Digit, (source \div (2 * Digit)) % Digit, (source \div (Digit * Digit)) % Digit>>

RedirectTo(source) ==
    <<Redirect, source % Digit, (source \div Digit) % Digit, (source \div (Digit * Digit)) % Digit>>

\* write8() of each byte; it ignores what lies behind the image.
Overwrite(image, target, bytes) ==
    [i \in DOMAIN image |->
       IF i - 1 - target \in 0 .. Len(bytes) - 1 THEN bytes[i - target] ELSE image[i]]

\* The table of the encoder, of which it uses the fixed names only.
FixedNames == CHOOSE t \in NameTables : TRUE

NextText == ItemsOf(english[pointer + 1])
NextEncoded == EncodedText(NextText, pointers[script][pointer + 1].terminal)

\* A mutant: a block may be one byte longer.
RefusedLate ==
    \/ Overflows(FixedNames, NextText)
    \/ Len(NextEncoded) > MaxBlock

\* What the encoder stops for: a {wait} in a chapter, a line too wide, a block
\* too long.
Refused ==
    \/ originals[script].mode = "chapter" /\ \E i \in DOMAIN NextText : NextText[i].op = "wait"
    \/ Overflows(FixedNames, NextText)
    \/ Len(NextEncoded) >= MaxBlock

TextLeft == encoding /\ data # <<>> /\ pointer < Len(pointers[script])

\* A text goes to the end of the script binary, a redirect to its old place.
EncodeText ==
    /\ TextLeft /\ ~Refused
    /\ data' = Overwrite(data, pointers[script][pointer + 1].target, RedirectTo(Len(context)))
    /\ context' = context \o NextEncoded
    /\ pointer' = pointer + 1
    /\ UNCHANGED <<game, edition, encoding, script, english, chapters, scriptBin, built, rom, shown, runs>>

\* A mutant: the next run goes on where this one ended.
StopInPlace == encoding' = FALSE /\ UNCHANGED <<script, pointer, english, data, context>>

Stop == /\ encoding' = FALSE
        /\ script' = 0 /\ pointer' = 0 /\ english' = <<>> /\ data' = <<>> /\ context' = <<>>

ScriptEncoded == encoding /\ data # <<>> /\ pointer = Len(pointers[script])

\* The compressed script fits where the original was, ...
WriteScript ==
    /\ ScriptEncoded
    /\ chapters' = [chapters EXCEPT ![script] = data]
    /\ data' = <<>>
    /\ UNCHANGED <<game, edition, encoding, script, pointer, english, context, scriptBin, built, rom, shown, runs>>

\* ... or error(): the encoder ends; the files it wrote stay, and script.bin is
\* still that of an earlier run.
Fail ==
    /\ ScriptEncoded \/ (TextLeft /\ Refused)
    /\ Stop
    /\ UNCHANGED <<game, edition, chapters, scriptBin, built, rom, shown, runs>>

Finish ==
    /\ encoding /\ data = <<>> /\ Later = {}
    /\ scriptBin' = context
    /\ built' = edition
    /\ Stop
    /\ UNCHANGED <<game, edition, chapters, rom, shown, runs>>

-----------------------------------------------------------------------------
(* The translator and the game *)

Translate ==
    /\ ~encoding /\ runs < MaxRuns
    /\ \E e \in DOMAIN Translations : e # edition /\ edition' = e
    /\ shown' = None
    /\ UNCHANGED <<game, chapters, scriptBin, built, rom, runs, encoder>>

\* insert.asm
Assemble ==
    /\ ~encoding
    /\ rom' = [chapters |-> chapters, script |-> scriptBin, of |-> built]
    /\ shown' = None
    /\ UNCHANGED <<game, edition, chapters, scriptBin, built, runs, encoder>>

\* The memory the game reads while it runs script s, script.bin behind a script
\* that is padded to Region bytes.
Memory(s) ==
    [a \in (0 .. Len(rom.chapters[s]) - 1) \cup (Region .. Region + Len(rom.script) - 1) |->
       IF a < Region THEN rom.chapters[s][a + 1] ELSE rom.script[a - Region + 1]]

\* A text that lies inside another: the pointer into it, but not insertOverlapped().
Inside(s, target) ==
    \E i \in DOMAIN originals[s].pointers :
      LET p == originals[s].pointers[i]
      IN  /\ p.kind # "08" /\ p.target < target
          /\ p.target >= Origin(originals[s])
          /\ EndOf(originals[s], p.target) >= target

\* The game shows the text at a pointer of a script.
Show ==
    /\ rom # None /\ shown = None
    /\ \E s \in DOMAIN originals, names \in NameTables : \E i \in DOMAIN pointers[s] :
         LET target == pointers[s][i].target
             memory == Memory(s)
         IN  shown' = [script |-> s, target |-> target, names |-> names,
                       text |-> Decode(names, originals[s].mode, memory, target)]
    /\ UNCHANGED <<game, edition, chapters, scriptBin, built, rom, runs, encoder>>

Next == \/ StartEncoder \/ NextScript \/ EncodeText \/ WriteScript \/ Fail \/ Finish
        \/ Translate \/ Assemble \/ Show

Spec == Init /\ [][Next]_vars

-----------------------------------------------------------------------------
(* What the translator may count on *)

\* The state is what script-encoder.cpp keeps: within a script it has a text in
\* memory for each pointer and none is encoded twice; between two runs it keeps
\* nothing; a script written to disk has the size of the original, so that
\* insert.asm can put it where that was.
TypeOK ==
    /\ originals \in Originals /\ edition \in DOMAIN Translations
    /\ encoding \in BOOLEAN
    /\ script \in 0 .. Len(originals) /\ runs \in 0 .. MaxRuns
    /\ script = 0 => pointer = 0 /\ english = <<>> /\ data = <<>> /\ context = <<>>
    /\ script # 0 => pointer \in 0 .. Len(pointers[script]) /\ Len(english) = Len(pointers[script])
    /\ ~encoding => script = 0
    /\ \A s \in DOMAIN originals : Len(chapters[s]) = Len(originals[s].image)
    /\ built \in DOMAIN Translations \cup {None}

\* Five bytes of text from address a on.
LongText(o, a) == \A b \in a .. a + 4 : At(o, b) \notin {Wait, LineFeed, Terminal}

Covered(o, targets, a) == \E t \in targets : t <= a /\ EndOf(o, t) >= a

\* The texts of the original are found: each that a sure pointer points at and
\* no other text holds, and any other of five bytes and more that comes first
\* behind a text with a pointer; no text is found twice, and each starts with
\* text.
\* (The scripts of the game do not change.)
TextsFound ==
    runs = 0 => \A s \in DOMAIN originals : HasText(originals[s]) =>
      LET o == originals[s]
          targets == {pointers[s][i].target : i \in DOMAIN pointers[s]}
          pointed == {t \in targets : \E i \in DOMAIN o.pointers :
                                       o.pointers[i].target \in t .. EndOf(o, t)}
          first(a) == \E b \in Origin(o) .. a :
                        /\ b = Origin(o) \/ Covered(o, pointed, b - 1)
                        /\ \A c \in b .. a - 1 : At(o, c) \in Ends(o.mode) \cup {LineFeed}
      IN  /\ Cardinality(targets) = Len(pointers[s])
          /\ \A i \in DOMAIN o.pointers :
               LET p == o.pointers[i]
               IN  (/\ p.kind # "08" /\ p.target >= Origin(o)
                    /\ EndOf(o, p.target) > p.target
                    /\ ~Inside(s, p.target)) => p.target \in targets
          /\ \A a \in Origin(o) .. Len(o.image) - 5 :
               LongText(o, a) /\ first(a) => Covered(o, targets, a)
          /\ \A t \in targets : t >= Origin(o) /\ At(o, t) \notin Ends(o.mode)

\* A text of the original of which the bytes and its end do not hold a redirect.
TooShort(s) ==
    \E i \in DOMAIN pointers[s] :
      EndOf(originals[s], pointers[s][i].target) - pointers[s][i].target < 3

\* What the player should read for the items of a text: a name in place of its
\* command, and no second s where one follows its apostrophe.
Spoken(names, text, terminal) ==
    LET is(i, c) == i \in DOMAIN text /\ text[i].op = "char" /\ text[i].arg = c
        dropped(i) ==
          /\ i > 2 /\ is(i, S) /\ is(i - 1, Apostrophe)
          /\ text[i - 2].op = "name" /\ Last(names[text[i - 2].arg]) = S
        spoken(i) == IF text[i].op = "name" THEN names[text[i].arg]
                     ELSE IF dropped(i) THEN <<>> ELSE ItemBytes(text[i])
    IN  FlattenSeq([i \in DOMAIN text |-> spoken(i)]) \o <<terminal>>

ShownItems == ItemsOf(File!Trim(Translations[rom.of][<<shown.script, shown.target>>]))

TerminalOf(s, target) == At(originals[s], EndOf(originals[s], target))

\* The game was assembled after a run that did not fail, and no text of the
\* script shown was too short.
ShownWell == shown # None /\ rom.of # None /\ ~TooShort(shown.script)

\* What the game shows at a pointer is what the translator wrote for it when the
\* encoder last ran to its end, whatever runs failed before or were made since.
PlayedAsWritten ==
    ShownWell =>
      shown.text = Spoken(shown.names, ShownItems, TerminalOf(shown.script, shown.target))

\* Dynamic names longer than their command make a text longer than its block.
Growth(names, text) ==
    Sum(LAMBDA item : IF item.op = "name" THEN Len(names[item.arg]) - 2 ELSE 0, text)

\* The game decodes a text into its buffer, unless names take more room than the
\* encoder left for them.
DecodedFits ==
    ShownWell =>
      \/ Len(shown.text) <= Buffer
      \/ Growth(shown.names, ShownItems) > Buffer - MaxBlock + 1

\* The lines whose width both sides measure alike: no option, and no wait behind
\* an alignment.
Plain(text) ==
    /\ \A i \in DOMAIN text : text[i].op # "option"
    /\ \A i \in DOMAIN text : text[i].op \in {"center", "right"} =>
         \A j \in DOMAIN LineFrom(text, i) : LineFrom(text, i)[j].op # "wait"

\* "overflow detected": a text the encoder accepts is not cut off at the right.
EveryLineFits ==
    ShownWell => ~Clipped(shown.text)

\* A text it accepts fits when it is made of what both sides measure alike.
PlainLinesFit ==
    ShownWell /\ Plain(ShownItems) => ~Clipped(shown.text)
=============================================================================
