# A verification project for the Bahamut Lagoon translation kit

The kit turns a Japanese Super Famicom ROM into a translated one. Extractors
take texts and fonts out of the ROM; two editors hold the translation; encoders
put texts and fonts into binaries; the assembler **bass** assembles the new game
code and the binaries over the ROM; **beat** makes a patch of the difference.

This directory holds TLA+ models of the parts where order matters, the TLC runs
that check them, and TLAPS proofs. `PROJECT.json` maps every definition to the
lines it was translated from, gives each property a mutant of the code that it
rejects, and lists the hazards of the code with the properties about them.

## Inventory

| component | state | operations | what is hard | modelled in |
|---|---|---|---|---|
| bass, passes and layout (`bass/core`) | phase, program, ip, origin, base, pc queue, relative label counters, variables, constants, target file and offset, overwrite tracker | source, two executions (Query, Write), labels, constants, variables, origin, base, enqueue, dequeue, ds, d, fill, copy, output, tracker | the Query pass guesses names that are not declared yet; the Write pass must repeat its layout; much state survives between the passes | BassPhases |
| bass, control flow (`analyze.cpp`, `execute.cpp`, `utility.cpp`) | blocks, jump targets stored in statements, frames with macros and variables, conditionals, scope | pairing of `{`, `}`, else; if, while, macro, inline, namespace, function, variables with frame prefixes, calls with arguments, returns | three stacks with nothing that links them; arguments evaluated in the frame they are passed to; uninitialised jump targets | BassControl |
| bass, architectures | instruction tables | one lookup per statement | nothing across statements | - |
| script editor (`script-editor.cpp`), list editor (`list-editor.cpp`) | texts of every block in memory, two text boxes, what is shown, two files per script or list | start, typing, the ways to move, search and seek, save, quit | the text shown exists twice; a save truncates and rewrites every file; a crash meanwhile; formats that cannot hold every text | Editor, ScriptFile, ListFile, Notebook |
| script extractor | pointers found in a decompressed script | search, orphans, overlaps | heuristics over ROM data; a vector grown while it is walked | ScriptPointers |
| script encoder, redirection in the game | the script binary, redirects in the original text | load, measure, encode, write; in the game: follow a redirect, expand names, align and cut off lines | blocks of 1000 bytes against a buffer of 1024; a width computed twice; runs that fail half-way | ScriptText, ScriptBinary |
| LZSS, LZ77 | window, flags, lengths | compress, decompress | off-by-ones between the two sides; fields spread over bytes | LZSS, LZ77 |
| list encoder, fonts | tables and tiles | one conversion per call | limits of tables | - |
| base 56 names (`base56.asm`, `base56.cpp`), name screen, name cache (`menu-names.asm`, `names.asm`) | packed names, text being typed, drawn tiles in save RAM, saved names | pack, unpack, open, append, erase, confirm, load, reset | carries between words; three copies of a name; tiles that outlive a reset | Base56, Names, NameBook |
| text in the game (`text.asm`, `render.asm`, `strings.asm`) | output, pen, alignment | append, measure, ranges | boundaries of digits and of widths | Values, ScriptText, Names |
| display (`vsync.asm`, `macros.asm`, `menu-small.asm`, `menu-large.asm`) | beam, ring of tiles, two tilemaps, transfer flag | wait, transfer, write the map, interrupt | transfers racing the screen; tiles reused before the map that names them is copied | Display |
| game screens (`menu-*.asm`, `field-*.asm`, `combat-*.asm`) | hooks in the original game | many | the code around the hooks is not in the repository | - |
| beat (`beat.cpp`, `apply.hpp`, `create.hpp`, `suffix-array.hpp`, `induced-sort.hpp`) | files being read, patch, order of suffixes, table of factors | create, apply, decide what a warning means | an order built from names of pieces; numbers that overflow; warnings that come with a result; results written over the original | InducedSort, SuffixArray, Beat |
| build pipeline | files | tools in order, checksum | stale intermediate files | - |
| nall, hiro | - | - | general libraries, used and not modelled | - |

How they interact: the tools share nothing but files. An editor writes
`scripts/` and `notes/`, the encoder reads `scripts/` and the ROM and writes
`binaries/`, bass reads `binaries/` and writes the ROM, the game reads what bass
wrote. `ScriptBinary` composes that chain: the files of `ScriptFile`, the
pointers of `ScriptPointers`, the encoder and the game over one model of a text
(`ScriptText`). `Names` composes packing, name screen and cache; `Editor` runs
both editors over one disk. Inside a tool everything is one thread; the editors'
handlers are callbacks of the window system, run one at a time.

## What makes each part correct

- bass: both passes meet every statement in the same state; constants have one
  value while bytes are written; bytes go to the file offset that belongs to
  origin; stacks match the text; an argument means in a macro what it meant at
  the call; programs that cannot recur end.
- Editors: moving about changes no text; an edit changes the text shown and no
  other; a save stores all of them; a crash damages one file at most.
- Encoder and game: the text the translator typed is the text the game shows, in
  its buffer and within its line.
- Codecs, base 56: decoding inverts encoding.
- Names: the name typed is the name used, saved and drawn.
- Display: no transfer into the picture; a place shows its own text, in the end.
- beat: an intact patch gives its target back, anything else is noticed.

## Modules

### BassPhases — two passes over one program

State: that of class `Bass` (`core.hpp:179-201`) without strings and macros.
A program is chosen statement by statement (`Source`), so a run covers *every*
program up to `MaxLength` over its alphabet. `StartQuery` and `StartWrite` are
the two calls of `execute()` in `assemble()`; each statement is one action
(`SetConstant`, `SetVariable`, `SetOrigin`, `SetBase`, `Enqueue`, `Emit`,
`Overwrite`, `Output`, `Tracker`, `IgnoreError`, `Error`), and `SkipBlock` is an
`if` whose condition is false. A line is one statement wrapped in an `if`; that
is enough for a condition to decide the layout.

Names resolve as in `evaluateLiteral`: variables hide constants; a name unknown
in the Query pass reads as `pc()` (`MayGuess`), also in strict conditions when
it stands in the body of an expression. Integers have `Modulus` values.

Four variables are history: `trace` is the layout before each statement of the
Query pass, `soft` the constants computed from a guess, `guessed` whether the
layout itself depended on one, `astray` whether a copy or output moved the file
away from origin. No action of the code reads them.

### BassControl — blocks, branches, calls and frames

The analysis pairs blocks and stores jump targets in the statements (`OpenBlock`,
`CloseBlock`, `Branch`); the execution walks through them with its three stacks
(`DefineMacro`, `If`, `ElseIf`, `Else`, `EndIf`, `While`, `EndWhile`, `Call`,
`Return`, `OpenScope`, `CloseScope`). Conditions are free choices. A target that
no statement set is `Unset`: the field is uninitialised in the code, so a jump
through it may end anywhere.

Macros and variables live in frames under scoped names. `Declare` is the loop of
`setMacro()` and `setVariable()` that picks the frame (`Receivers`: none that is
inlined, and for `parent` not the last of the others), `Nearest` the loops of
`findMacro()` and `findVariable()`. `Arguments` binds the parameters one after
the other in the new frame and, for a macro, the new scope, as `execute()` does.
A value is the statement that gave it: whether two names mean the same variable
can be told, and nothing else of a number is needed. The model has parameters of
the kind `variable` only; labels and constants, which `evaluateLiteral` tries
next, are those of BassPhases. What statements do to the layout is left to that
module; the two share the phases and `ip`.

### ScriptFile, ListFile, Editor, Notebook — the two editors

`ScriptFile` is the format of a script: `Format` is what `save()` writes,
`Separators` and `Load` what `string::split` and `load()` make of it, line by
line. `ListFile` is the format of a list, one entry per line, in which `{line}`
stands for the newlines of a note.

The handlers of the two windows are the same line by line, so `Editor` has them
once and takes the format as constants (`TextsIn`, `ContentsOf`, `Unfit`):
`Start` (constructor), `Type`, the script list (`SelectScript`, `Deselect`), the
four buttons, the block list, `Seek` (a search hit), and `Save`, which starts a
sequence of `OpenFile` (the file is truncated) and `WriteFile`, two files per
script. `Crash` may fall between any two steps and leaves a prefix of the file
being written. A file is kept as the texts that are read from it.

`Notebook` is what a translator expects: texts, files, `Edit`, `Save`, `Forget`.
The property `ImplementsNotebook` is its specification under the mapping in which
a text is what is in the box if its block is shown, what is in memory otherwise,
and what is on disk when no editor runs. A save of the list editor replaces the
newlines of the notes in memory by their mark; the mapping takes both for the
same. A text the format of scripts cannot hold (`{end}` before an empty line)
breaks its file; the notebook promises nothing of a file that holds one, but
still everything of the others. A list holds whatever its boxes can.

### ScriptPointers, ScriptText, ScriptBinary — a text's way into the game

`ScriptPointers` is `analyze()` of the extractor as operators: where texts begin
(`Origin`), which pointers are taken (`Plausible`, `Starts`), the orphans between
them, and which are dropped because another text holds them. The script is bytes
behind its commands; of the commands only the pointers are kept.

`ScriptText` is one text on both sides. For the encoder: the bytes of an item
(`ItemBytes`), the width of a line with the longest names (`Measured`,
`XAfter`), and `Overflows`. For the game: `Decode` follows a redirect, expands
names and drops an s behind an apostrophe; `Align`, `PixelAfter` and `Clipped`
are the pen on the screen.

`ScriptBinary` runs them: `StartEncoder` reads the scripts, `NextScript` erases
the original texts, `EncodeText` appends a text and puts its redirect over the
original one, `Stop` and `Fail` are the ends of `error()`, `WriteScript` and
`Finish` write the files. `Assemble` is insert.asm, at any time, so that a ROM
may hold the files of two runs; `Show` is the game at one pointer. `Translate`
lets the translator go on between the runs.

### LZSS — what the scripts are packed with

One machine compresses an input and then decompresses the result: `Search`
finds one codepoint, `Pad` fills the first byte of flags, `Pack` writes one byte
of flags with its codepoints (and closes the block when fewer than a byte of
flags are left), `Finish` cuts the data; `ReadSize`, `ReadFlags`, `ReadCode`,
`NextFlags` and `ReadCount` read it. The packed data is a sequence of cells, one
per byte position; a cell has the kind it was written as, so that the machine
notices (`Lost`) where the code would take a count for flags or a byte for half
of a pair. Giving up on a pair that reaches in front of the output is `Lost` too.

`RoundTrip` speaks of the input *with its padding*: up to seven zeros follow a
script that packs into fewer than eight codepoints, as a comment in the
compressor says.

### LZ77 — what fonts and tilemaps are packed with

`compressLZ77` and `decompressLZ77` are functions of bytes, so they are operators:
a block (`compressBlockLZ77`, `decompressBlockLZ77`) is a recursive function of the
position, a mode puts one or two blocks together. How many values each field of an
entry has is a constant, so that a run reaches the longest length and the furthest
offset. A block that does not end is read beyond the data, which is undefined; the
model calls it a bad block, and no packed block is one. `Suits` says which data a
mode can hold. `Compression` gives the inputs of LZSS to LZ77, too, and states the
properties.

### Base56, Names, NameBook — names

`Base56` packs eleven characters into four words as base56.asm does, products
added word by word (`Add` keeps the carry), and unpacks them byte by byte with
tables of quotients and remainders (`Divide`); `ToolEncode` is the arithmetic of
the tool. These are pure operators on real widths. `Alphabet` is what names are
made of.

`Names` has the state around them: the packed table, the saved game, the name
screen (`OpenEntry`, `AppendEntry`, `EraseEntry`, `ClearEntry`, `ConfirmEntry`),
a load byte by byte (`Load`, with the hook that draws a name when its last byte
arrives) and `Reset` at any moment. The cache is in save RAM and survives it.

`NameBook` is what a player expects: names that are used, typed and saved. It has
neither bytes nor limits nor tiles; `ImplementsNameBook` is the refinement.

### Display — drawing behind the picture

The beam counts the lines behind the picture; the picture is one line of any
length. `Latch` is vsync's look at the line, `PictureBegun` and `PictureOver` its
loops, `StartTransfer` and `FinishTransfer` a DMA, `WriteMap` the entry in the
tilemap in work RAM. `Tick` moves the beam, and in the first line behind the
picture runs the interrupt, which takes any time up to `NmiLines` and copies the
tilemap if it is marked. `Redraw`, `PageEnds`, `WriteText` and
`WriteDescription` are the screens of the original game, which may ask for
anything at any line. `TileIndex` is the ring's counter, whose first value is
whatever the memory held. `TimingAssumption` says what the code takes for
granted: a transfer begun in the last line vsync lets pass ends in time.

### InducedSort, SuffixArray, Beat — patches

`InducedSort` is the algorithm of that name as a recursive function: the walks
`SortL` and `SortS` over buckets, the names of pieces, and the order of their
summary. `SuffixArray` searches in the order (`Find`, round by round) and fills the table of
previous factors with the loop (`NextSuffix`) and the recursion (`Recurse`) of
`suffix_array_lpf`, one action per call. `Before` and `Common` are the
definitions the results are compared with.

`Beat` writes a patch (`StartCreate`, `Create`, one command at a time,
`FinishCreate`) and replays it (`ReadHeader`, `ReadCommand`, `Check`); `Decide`
and `Write` are `main()`: a warning becomes a result only if somebody insisted.
The faults are a byte `Damage`d in the patch, a patch cut short, another file
taken for the original (`Exchange`), and a `Crash` in the middle of a write. A
CRC32 is the data it was taken of: different files have different ones. A read
outside a file gives any of `Junk`. Numbers are real variable-length numbers,
with digits of `Half` values and overflow at `Limit`.

### Values — points in a text

The emit functions of HP, MP and SP, values and ranges, piece by piece; `pc` is
the label they branch to, so that a branch to the wrong one is what it is in the
code.

## Runs

| run | question | bounds | states |
|---|---|---|---|
| `bass_phases` | does the Write pass repeat the Query pass; do constants settle; do bytes go where origin says | every program of up to 4 statements over either of two alphabets of 14; 16 words, 2 names, 2 files | 768 502 |
| `bass_previous` | does the Write pass use previously computed values, as the manual says | one of the alphabets | violated |
| `bass_control` | stacks, branches, arguments, frames, termination | all well-formed programs of up to 6 statements, all others of up to 3, 1920 programs of nested macros; stacks of up to 3 | 213 689 |
| `editors` | are the editors a notebook | 2 scripts (2 blocks and 1) and a list, 2 edits, 1 crash, any number of moves and saves | 433 091 |
| `lzss` | does decompression return what was compressed, reading all of it | every input of up to 11 bytes over 2 values, one an escape of LZ77, and of up to 6 over 3; LZSS: window 4, matches 3 to 5, 3 flags to a byte, sizes below 16; LZ77: lengths 4 to 7, offsets 1 to 7 in three fields | 131 181 |
| `lz77_tilemap` | does mode 3 return a tilemap | the field widths of the code, 16 tilemaps of 4 words | violated |
| `script_binary` | does the game show what was written | 29 chapters, in which each of 9 kinds of Japanese text comes before each of 3; 4 translations, 2 encoder runs; blocks and buffer of 15 bytes, lines of 12 pixels, digits of 4 values | 116 382 |
| `script_width` | does what the encoder accepts fit into a line | the same | violated |
| `values` | are ranges written as their comments say | six functions, numbers at both sides of each boundary | violated |
| `names` | are names what was typed, and their tiles up to date | 3 names, 2 of them drawn, 1 person; names of 11 characters from the ends of the code's range; 2 keys pressed | 36 660 |
| `display` | does a transfer ever meet the picture; does the picture follow | 2 places, ring of 2 passes, lines 225 to 230, 229 too late | 520 712 |
| `beat` | are the longest matches found; does an intact patch, and no other, give its target | 355 pairs of files of up to 7 bytes, 1 fault, 2 applications; digits of 4, overflow at 4 | 830 980 |

Why the bounds are enough. Four statements hold a forward reference, the
statement it moves, its declaration and one more that observes the result; two
names are a referring and a referred one; 16 words make origin and base wrap.
Six statements nest an if with an else inside a macro, and the call of it; the
further programs declare a variable before a macro, in it, or in an inline it
calls, under each prefix, and pass it on, swapped or not. Two edits let one text
be saved and another not, or two texts meet in one box; two scripts, one with two
blocks, are what a misdirected save needs; with one crash the files are read
after a save that did not finish. With 11 bytes there are inputs of one, several
and partly used flags, of one block and of two, matches at and beyond the window
and of the longest length, matches that overlap themselves, and packed data whose
size wraps. LZ77 meets both escapes as literals, its longest length and, with
offsets up to 7, every combination of the offset's three fields. The nine kinds of text include one without a pointer, one with two
pointers, one shorter than a redirect and one inside another, and each
comes before one found by its pointer and one found without; of two runs of the encoder one may fail after
a script was written, and a ROM may mix their files. Three names are one of each
treatment in the code (person, dragon, not drawn); characters at both ends of the
range make every word of the sum carry. Two places in a ring of two passes
meet before a third redraw; a transfer that begins as late as vsync lets it ends in
the last line of the frame.
Files of seven bytes hold a factor that is handed to the later of two neighbours,
pieces whose names repeat, so that the sort recurses, and lengths and distances on both sides of the scaled limit.

Deadlock is checked in `display`, where nothing may ever stop. Everywhere else
the system does: bass ends, an assembly with an error stops where it is met, and
the bounds on edits, keys, runs and faults run out.

The four violations, each a finding in `PROJECT.json`:

- `PreviousValuesUsed`: the manual says the Write phase uses the previously
  computed values of constants; `setConstant()` stores them again. A constant
  whose Query value rested on a guess changes during the Write pass, and the
  statements before its declaration have already used the old value.
  `ConstantsSettle` states what does hold.
- `TilemapReturns`: mode 3 of compressLZ77 takes the size of its second block
  from its output, which is empty, instead of its input; the block has no field
  bytes, and the decompressor of the same kit ends with an error. The stores
  behind the end of the block's vector are undefined behaviour; they cannot put
  anything into the block, so the model leaves them out. `TilesReturn` states
  that the two other modes are right.
- `EveryLineFits`: the encoder stops at lines that are too wide, but does not
  count an option's 12 pixels and, behind an alignment, measures past a wait at
  which the game stops. Lines it accepts are cut off on the screen.
  `PlainLinesFit` states what holds of all others.
- `WrittenAsCommented`: a range of MP or SP with a maximum above 999 is written
  as question marks and then as a number; the branch behind the question marks
  leads to the digits.

Exceptions stated in properties are real too: `ArgumentsMeant` names the two
ways an argument is captured (a parameter bound before it; a variable the macro
left under its own name), `CallerReads` excludes inlines between macro and caller
that have a parameter of the name (reading looks into their frames, `parent` skips
them), `Together` excludes a screen redrawn as often as the
ring has room for between two interrupts, `ReplaysTarget` stops at the sizes
where 32 bits overflow, `DecodedFits` at names longer than the encoder expected.
Without any of them TLC finds the property violated.

**Fairness.** `BassControl`: weak fairness of `Assemble`; bass is one thread
that waits for nothing. `Terminates` speaks of programs without while loops and
without calls inside macros; of the others the manual says that breaking the
recursion is the program's business. `Display`: weak fairness of `Tick`, for the
beam never stops, and of `Work`, the processor's own steps outside an interrupt;
none of the screens' requests. `Beat`: weak fairness of `Works`, the steps of a
program that runs; none of its being started, nor of any fault. The editors,
names and encoder wait for people and promise nothing that must happen.

## Proofs

Every theorem holds for all values of the constants that satisfy the assumptions
named with it; TLC evaluates those assumptions in the runs. Each proof follows one
line: an inductive invariant `IInv`, one lemma per action that shows `IInv'`, and the
property from `IInv`. The table says why the property alone is not inductive.

| module | theorem | states | from | what the invariant adds |
|---|---|---|---|---|
| BassPhases_proofs | `TypeCorrect`, `ReplayCorrect`, `SettleCorrect`, `FileCorrect` | `TypeOK`, `WriteReplaysQuery`, `ConstantsSettle`, `FileFollowsOrigin` | `ModulusAssumption`, `LengthAssumption`, `FileAssumption`, `StatementAssumption` | every queried line leads from its recorded layout to the next |
| BassControl_proofs | `TypeCorrect`, `StacksCorrect`, `BranchCorrect`, `CallerCorrect`, `MeaningCorrect` | `TypeOK`, `StacksMatchText`, `OneBranch`, `CallerReads`, `ArgumentsMeant` | `ProgramsAssumption`, `DepthAssumption` | what analysis knows of the blocks so far; which text each frame stands in |
| Editor_proofs | `TypeCorrect`, `Refinement` | `TypeOK`, `ImplementsNotebook` | `TagsAssumption`; `TextsClosed`, and for the refinement `FormatHolds` | which files a save in progress has stored |
| | `ResaveCorrect`, `EditorsRefine` | `ResaveKeepsTexts`, `ImplementsNotebook` | `TagsAssumption`; `Formats(W)`: the files are those of scripts and lists | that what is on disk has been read from some file |
| LZSS_proofs | `TypeCorrect`, `RoundTripCorrect`, `WholeReadCorrect` | `TypeOK`, `RoundTrip`, `WholeRead` | `InputAssumption`, `WindowAssumption`, `FlagAssumption` | one plan of the packed data that both sides follow |
| | `TilesCorrect` | `TilesReturn` | these, `EscapeAssumption`, `FieldsAssumption` | nothing: LZ77 is two functions of the input |
| Names_proofs | `CacheCorrect` | `CacheFresh` | `CountAssumption` | which index is loaded or open |
| | `TypeCorrect`, `SameCorrect`, `WholeCorrect`, `Refinement` | `TypeOK`, `SameEncoding`, `DrawnWhole`, `ImplementsNameBook` | this, `LetterAssumption`, `DefaultsAssumption` | which names the packed words are, and which of their bytes a load has replaced |
| Display_proofs | `TypeCorrect`, `TornCorrect`, `TogetherCorrect` | `TypeOK`, `NoTornFrame`, `Together` | `PlacesAssumption`, `TimingAssumption`, `CounterAssumption` | how late each step of a wait can be; the age of each part of the ring |
| Beat_proofs | `DamageCorrect`, `FilesCorrect` | `DamageNoticed`, `FilesWhole` | none | what damage can make of the sums |
| | `FactorsCorrect` | `FactorsLongest` | `SizeAssumption`, `LimitAssumption`, `CallAssumption`; `[]SuffixesOrdered` | which positions the pairs seen so far link |
| | `TypeCorrect`, `MatchesCorrect` | `TypeOK`, `MatchesLongest` | these, `ByteAssumption`, `OthersAssumption`, `NoneAssumption`; `[]SuffixesOrdered` | what is in memory and in the table while a patch is made |
| | `ReplaysCorrect` | `ReplaysTarget` | the same | the route of commands from the header to what is queued |

**BassPhases.** All four rest on `Invariance`, `Spec => []IInv`, with
`IInv == TypeOK /\ Shape /\ Replay`. That the Write pass stands where the Query pass
stood says nothing of the next line, unless the line also sees the same values.
`Shape` bounds the counters of relative labels by the lines passed, gives the
recording its length, and starts it from a fresh layout. `Replay` says of every line
the Query pass has executed that it is firm (its condition and what decides the
layout rest on no guess), that executed again with the constants *as they are now*
it leads from its recorded layout to the next (`Leads`), and that what it declared
has the value it would be given again (`Settled`). `LineDeclares` shows that a line
changes the constants only in a way called `Stable` (nothing is taken back, a firm
value stays); `FirmStable` and `LineStable` that firm expressions and whole lines
mean the same after such a change; `NewLine` records the line just queried;
`LineReplay` puts these together for both passes, `NextReplay` for every step.

**BassControl.** `StacksMatchText` compares the stacks with `ContextIn`, a recursive
reading of the text, and with sums over the frames. The proof is in two parts. While
the program is analysed, `Annotated` says what is known before statement i: the
pending blocks are the openers the text has open, innermost last, and every other
statement has the target the text asks for. At its end that gives `Parsed`. While it
is executed, every frame but the root stands in the body of a macro or inline
(`Standing`), scope and conditionals are the sums of the contexts the frames stand
in (`Stacked`), a macro that can be called has a body behind its definition
(`MacrosKnown`), and a conditional is undecided only where a branch is next
(`Undecided`). `BranchCorrect` adds `EnteredOK`, that the branches counted agree with
the conditionals. `TypeCorrect` holds of unclosed programs, too.

`CallerCorrect` and `MeaningCorrect` are about two states, before and after one
step, and about lookup: the innermost frame that has the name, and in it the
innermost scope (`Lookup`, `SameValue`). For the first, `RootPlain` says that the
outermost frame is never an inline's, so that `parent` always finds a frame;
`ScopeBegins` takes from `StacksMatchText` that the scope of that frame is where
the scope of its caller ends; `HandedBack` puts the frame that was written and the
frame that is read together. For the second, arguments are bound one after the other
and each is read in a frame that holds those before it: `Binds` follows that order,
`OwnOnly` says what the new frame can hold, `ArgumentMeans` that a name that was
not captured is looked up as at the call.

**Editor.** What the editors need of a format are `TextsClosed` (a text that is
loaded, typed or kept is a text) and `FormatHolds` (a file that can hold its texts
returns them). Both are constant formulas and conjuncts of `ResaveKeepsTexts`, so
that the run `editors` evaluates them for the formats of scripts and lists. Under
them every step is one of the notebook or a stutter, step by step: the invariant
adds that during a save the boxes agree with the text shown (`Agreed`) and that a
file already written says what the texts say (`Stored`).

**ScriptFile and ListFile.** That the program's formats are such is proved too, for
any set `W` of lines or words (`FormatsHold`). `Formats(W)` says only that each file
is one of a script or one of a list: it is read by `Load` or `LoadLines` and written
by `Format` or `FormatLines`, its texts are all that can be made of `W`, a block's
tag is in no other block and is no `{end}`, and an entry of a list, typed into a box
of one line, has no newline. (`Text` is all texts here, where the run lists the few
that come up.) From this `ResaveCorrect` and `EditorsRefine` follow with nothing
assumed about splitting, trimming or joining.

A script is laid out in blocks (`FormatLaid`), block k behind line `pos[k - 1]`, so
the positions rise (`Climbs`). `string::split` goes through the file from the front
and skips what overlaps the match before; `SeparatorFacts` says what any such
choice has to obey, and `LaidSeparators` that for a file of texts it can hold these
are the ends of the blocks: nothing else in the file looks like one. Then what is
behind a tag is its text (`NextEnds`, `LaidReturns`). Conversely whatever is read
of any file, also one that a crash has cut or that a text has broken, is a text the
file can hold (`BehindFacts`, `ReadFits`): a piece ends in front of the first
separator. This is why a second save changes nothing. A list is laid out in lines (`Lined`,
`LinedReturns`); notes lose newlines at their end, and that a newline and its mark
say the same is `NotesFacts`. `Readable` is the invariant: what is on disk is what
is read of some file of lines, whole or cut.

**LZSS.** Compressor and decompressor agree because they follow one plan, which
exists from the end of the search to the last cell (`Plan`): the codepoints `C`, the
bytes of input each stands for up to `cov[i]`, the position `nxt[i]` each ends at,
and `K`, how many are in full groups and thus in the first block. `Packing` says how
much of the plan is in the cells, `Packed` that all of it is, `Reading` that the
decompressor stands at a codepoint of the plan, with as many bytes of output as
that one covers. Overlapping matches are the crux of `ReadCodeStep`: a match copied
byte by byte gives the bytes it stands for though it reads some it has just
written. All of it under `Fits`, as the properties say; beyond, the decompressor may
lose its way, and `IInv` says only that it is not lost otherwise. `TypeCorrect`
holds there, too, and needs no plan: a cell holds what its kind says, and neither
the first half of a pair nor that of a size is ever the last cell (`Types`).

**LZ77.** A packed block is a row of chunks, a literal or an entry, and its end
(`Packs77`); `BlockFacts` shows that the recursive definition is one. Three fields
over three bytes give the offset back (`EntryFacts`, by `TwoDigits` for each place),
and the byte of the length is never zero, so that an entry is no literal escape and
no end. `ChunkRead` says that the decompressor, at the start of a chunk and with the
bytes so far as output, goes on behind it with the bytes it stands for added; an entry
longer than its distance again reads what it has just written (`RepeatedFacts`).
`BlockReturns` goes from the last chunk to the first: any data, whatever stands
behind the block, comes back with the block's end, which is where the second block
of mode 6 is then looked for. Of the search only this is used, that what it finds
matches and is at least as long as the smallest entry.

**Names.** A name is drawn when its last byte arrives and when it is confirmed.
Nothing is asked of packing, so `CacheFresh` holds with any `Encode` and `Decode`.

The other four theorems need that packing loses nothing, on the real 64 bits and
eleven characters. A name is a number in two halves: a digit of 7 for each letter
above, one of 8 below. `ToolValue` says that the tool computes that number.
`EncodeValue` says it of the console, addition by addition: `AddValue` is the sum of
four words with carries, `PartNext` that a product never makes the sum overflow,
since the digits left out are zero. `DivideValue` and `DigitsValue` are the divisions
by 7 byte after byte with a remainder handed down, `LowBitsValue` and
`MultiplierValue` the shifts and masks of the lower half. Digits determine a number
and the number its digits (`BaseUnique`, `CodedUnique`), so that decoding finds the
letters (`DecodeValue`), and `Packed` puts it together: `Decode(ToolEncode(text))`
is the text, padded with terminators.

`Right` is the invariant. Every packed name in the saved game, and in the table while
a game is played, is one `ToolEncode` makes of a text that fits its tiles (`NameAt`).
During a load the table is a mixture; `Agree` says that its first `at` bytes are
those of the saved game, and `BytesUnique` that all eight make the words. The name
screen holds a text padded as a decoded one is (`Entered`), so that letters can be
added and taken back in place. `AppendFits` shows that the limits in pixels of the
name screen imply the tiles in which the cache and the menus draw. `BookStep` maps
each action to one of `NameBook`.

`LetterAssumption` restricts keys to the letters base56.asm names in its first
lines, and asks of widths and overlaps only that they are integers.
`DefaultsAssumption` says that the names a new game starts with are at most eleven
such letters and fit their tiles. That is so of the ten lines of
en/scripts/lists/names.txt that base56.cpp reads: the widest in the small font is
Thunderhawk, eleven letters in 56 of 64 pixels. Nothing in the code enforces it;
the tool cuts and replaces what does not fit without a word.

**Display.** `TornCorrect` is an account of time: `Early` and `Ends` bound the beam,
what is left of the interrupt and what is left of the transfer, in each state of a
wait. `TogetherCorrect` counts how many parts of the ring were given away since the
one a tilemap names (`Age`); what is named stays unchanged while that is below the
length of the ring.

**Beat.** The sums of a patch are those it was made with or lost (`Traced`). Since
the sum over the patch covers the other two, success needs all three, whatever the
commands did. Neither the sort nor the replay is in the argument, nor any bound.

`FactorsCorrect` is a theorem under `[]SuffixesOrdered`, the property that states
what `induced_sort` is for and that the run `beat` checks. At any moment there are
pairs of positions: each position that has a factor with where the factor begins,
the two of the call, and each suffix the loop has not reached with its neighbour in
the order. They form a tree (each pair is a `Bridge`, without which what is on its
two sides falls apart), and for every k those that share k bytes or more link all
positions that share k bytes (`Links`). At first that is what an order of suffixes
means (`NeighboursLink`, `NeighboursCut`). `NextSuffix` makes a pair of the order
the pair of the call, with what both share (`NextShares`: the next suffix shares all
but one byte of it with a neighbour of its own). `Recurse` takes two pairs of one
position and puts back the better one and a pair of the two others; in a tree
neither loses a link, and no position is ever told of itself. When no pair is left
but the factors, a position with too short a factor would be, with all that learned
from it, linked to no position in front of it (`FactorFound`).

`MatchesCorrect` follows the binary search round by round (`Find` applies one step
again and again, `Iterated`): after each, no place of the order outside the two ends
shares more with what is sought than the best match so far (`Searched`,
`RoundKeeps`), and the ends come closer until none is left between them
(`FindFacts`). What the search and the table give is a match (`Matches`), so that
`TypeCorrect` can say of every command that it only names bytes that exist.

`ReplaysCorrect` needs the patch while it grows. A `Stop` is a place in a replay: how
far the patch was read, how far the target is written, and the two relative offsets.
`Leads` says that one command brings a replay from a stop to another and stands for
the bytes of the target between them; `Growing`, that the patch is headed by the two
sizes and has a route of such stops (`Route`) from there to its end. Each command
`create()` writes makes the route longer by one stop (`FlushGrows`, `SourceReadGrows`,
`SourceCopyGrows`, `TargetCopyGrows`), and numbers read back as written
(`ReadsLonger`, `OffsetFacts`) as long as nothing overflows (`Small`). A replay is
always at a stop of the route (`Followed`), and what it has written agrees with the
target. As in LZSS the crux is the overlapping copy: `Repeats` shows by induction
that what equals the bytes in front of it repeats them with the period of the
distance, which is what the loop of apply() writes.

`Recursion` holds what five of the proofs need beyond first-order logic: induction
over the natural numbers as a fact about sets (`Induction`, from the library's
theorem that they are well-founded), that a recursive definition has a value
which its equation determines (`Recursive`), that a step can be repeated
(`Iterated`), taken until it stops (`Looping`), or each of n steps be taken after the
other (`Looped`). Contexts, digits, sums over frames and the
positions of cells are functions of that kind.

## Model-checked only

- Liveness: `Terminates`, `WriteEnds`, `PictureFollows`, `RunsEnd`. The prover does
  not handle fairness and `ENABLED`.
- What a longer recursion computes: `SuffixesOrdered` (`induced_sort`, on which
  four of the theorems about beat depend), and all of `ScriptBinary`, its type
  invariant included. `Recursion` gives the induction these would need; the
  statements about sorting and searching that would have to be proved by it are not
  there, and no backend takes the library's theorems that have an operator for a
  parameter.

No module declares a `RECURSIVE` operator, so that proofs about the rest stay possible.

## Plan

1. **BassPhases** with proofs — done.
2. **BassControl** — done, with arguments and frames.
3. **Editor** against **Notebook**, both editors — done.
4. **LZSS**, **LZ77** — done.
5. **ScriptBinary** — done.
6. **Base56**, **Names** against **NameBook** — done.
7. **Text**: ranges of points done; the other number widths of text.asm are left.
8. **Display** — done for the menus; the field's strings are left.
9. **Beat** — done.
10. Proofs: all safety properties of BassPhases, BassControl, Display, LZSS and LZ77,
    the editors with their formats and refinement, all of names with its refinement,
    and all of beat but its sort — done. Left: ScriptBinary, and the sort, by the
    induction of `Recursion`.

## Not modelled, and why

- bass: text substitution (defines, strings, expressions with parameters, `put`,
  `print`), arrays, charset maps and architecture tables decide the order of
  nothing checked here; include is over before the first pass.
- The screens of the game hook into code that is not in the repository. Where
  they call what is modelled, they are free to call it at any time.
- The field's strings (`field-strings.asm:77`) send 1536 bytes behind `vsync`,
  which vouches for 1 KB. The timing assumption of Display does not cover such a
  transfer; the case is listed as a hazard.
- Fonts, list tables, previews and the pixels of rendered text are pure
  conversions within one call.
- The progress column of the script editor and what its search looks through:
  they change no text. What a search hit does to the editor is `Seek`.
- The Japanese text the extractor writes beside the pointers, and the windows it
  guesses for the previews.
- beat's dialog asks what the command line takes as switches; manifests with
  content; the faster search that `create()` does not ask for; that a failed write of a
  file returns false, which no caller looks at.
- The build pipeline runs tools one after the other that write different files.
- hiro and nall are general libraries; what is used of them is modelled from
  their source: `string::split`, `trimRight`, `slice`, the ends of a vector, and
  that setting a selection from the program does not call `onChange`.
