------------------------------ MODULE Display -------------------------------
(***************************************************************************)
(* Text that is drawn while the screen is drawn (vsync.asm, the writers of *)
(* menu-small.asm and menu-large.asm, getTileIndex of macros.asm).         *)
(*                                                                         *)
(* Video memory accepts data only while the beam is outside the picture.   *)
(* A writer waits for that, copies the tiles of one text to the next tiles *)
(* of its ring, and enters them into the tilemap in work RAM.  The         *)
(* interrupt at the first line behind the picture copies the tilemap to    *)
(* video memory; that handler, and the screens that ask for texts to be    *)
(* drawn, are code of the original game.                                   *)
(*                                                                         *)
(* Time is counted in lines; the picture, 225 of them, counts as one.      *)
(* Everything the processor does outside of the waits is fast: it takes no *)
(* more lines than the assumption says.                                    *)
(***************************************************************************)
EXTENDS Integers, Sequences, FiniteSets

CONSTANTS
  Places,       \* where the screen has a text, in the order they are drawn
  Pages,        \* what a text may be about
  Passes,       \* how many texts the ring holds for each place
  None,         \* no tiles in the tilemap, or nothing to write
  VBlankStart,  \* the first line behind the picture (225)
  LatestStart,  \* the first line that is too late to begin (253)
  FrameLines,   \* lines of a frame (262)
  SetupLines,   \* lines between a wait and the transfer it is for
  SmallLines,   \* lines a transfer of up to 1 KB takes
  LargeLines,   \* lines the transfer of a description, 2 KB, takes
  NmiLines      \* lines the interrupt may take

PlaceSet == {Places[k] : k \in DOMAIN Places}
Limit == Passes * Len(Places)
Buffers == 0..Limit - 1

ASSUME PlacesAssumption ==
  /\ Places \in Seq(STRING) /\ Places # << >>
  /\ Passes \in Nat \ {0}
  /\ \A j, k \in DOMAIN Places : Places[j] = Places[k] => j = k
  /\ None \notin Pages \union {"torn"}

\* A transfer that begins in time ends in time: a small one when the line was
\* checked, a large one when it is the first thing after the interrupt.
ASSUME TimingAssumption ==
  /\ VBlankStart \in Nat \ {0} /\ LatestStart \in Nat /\ FrameLines \in Nat
  /\ SetupLines \in Nat /\ NmiLines \in Nat
  /\ SmallLines \in Nat \ {0} /\ LargeLines \in Nat \ {0} /\ SmallLines <= LargeLines
  /\ VBlankStart < LatestStart
  /\ LatestStart - 1 + SetupLines + SmallLines < FrameLines
  /\ VBlankStart + NmiLines + SetupLines + LargeLines < FrameLines

\* The ring's counter is a word of 16 bits.
LargestWord == 65535

ASSUME CounterAssumption == Limit <= LargestWord

VARIABLES
  beam,         \* the line being drawn; 0 stands for the picture
  handler,      \* lines the interrupt still takes
  pc,           \* where the program is
  left,         \* lines it may still take there
  size,         \* of what it writes: small or large
  place,        \* where the text being written belongs
  buffer,       \* and the part of the ring it is written to
  todo,         \* places the screen has still to draw
  page,         \* what it draws there
  index,        \* the ring's counter: the next part, one too many at the end
  tiles,        \* video memory: the text in each part of the ring
  large,        \* video memory: whether the description is whole
  map,          \* tilemap in work RAM: part of the ring and what was drawn
  shown,        \* tilemap in video memory
  transfer,     \* tilemap.transfer: the interrupt is to copy the tilemap
  redraws       \* history: redraws begun since it did

screen == <<todo, page>>
job == <<size, place, buffer>>
video == <<tiles, large, shown>>
vars == <<beam, handler, pc, left, job, screen, index, video, map, transfer, redraws>>

Picture == 0
Drawing == beam = Picture
Text(p, n) == [place |-> p, page |-> n]
Blank == Text(None, None)
Torn == Text("torn", None)

-----------------------------------------------------------------------------
(* Beam and interrupt. *)

NextLine ==
  IF Drawing THEN VBlankStart ELSE IF beam + 1 = FrameLines THEN Picture ELSE beam + 1

\* A mutant: the second wait looks for the first line, not for the flag.
WaitOverInFirstLine ==
  \/ pc = "waitEnd" /\ Drawing
  \/ pc = "waitBegin" /\ beam = VBlankStart

\* The flag in $4212 the waits look at: one is over when it is clear, the other
\* when it is set.
WaitOver ==
  \/ pc = "waitEnd" /\ Drawing
  \/ pc = "waitBegin" /\ ~Drawing

\* The program has something to do that it has done before the line ends, or,
\* for the picture is long, before the picture does.
Urgent ==
  /\ handler = 0
  /\ \/ pc = "vsync" /\ Drawing
     \/ WaitOver
     \/ pc \in {"setup", "dma"} /\ left = 0
     \/ pc = "map" /\ Drawing

\* The processor stands still during an interrupt.
Tick ==
  /\ ~Urgent
  /\ beam' = NextLine
  /\ left' = IF handler = 0 /\ pc \in {"setup", "dma"} THEN left - 1 ELSE left
  /\ IF beam' = VBlankStart
     THEN /\ handler' \in 0..NmiLines
          /\ shown' = IF transfer THEN map ELSE shown
          /\ transfer' = FALSE
          /\ redraws' = IF transfer THEN 0 ELSE redraws
     ELSE /\ handler' = IF handler > 0 THEN handler - 1 ELSE 0
          /\ UNCHANGED <<shown, transfer, redraws>>
  /\ UNCHANGED <<pc, job, screen, index, tiles, large, map>>

-----------------------------------------------------------------------------
(* The screen. *)

\* A page is drawn: the tilemap is cleared, and the places get a text of the
\* page, one after the other.
Redraw ==
  /\ pc = "idle" /\ handler = 0 /\ todo = << >>
  /\ todo' = Places
  /\ page' \in Pages
  /\ map' = [p \in PlaceSet |-> None]
  /\ transfer' = TRUE
  /\ redraws' = IF redraws < Passes THEN redraws + 1 ELSE redraws
  /\ UNCHANGED <<beam, handler, pc, left, job, index, video>>

\* A short page has nothing for the rest.
PageEnds ==
  /\ pc = "idle" /\ handler = 0 /\ todo # << >>
  /\ todo' = << >>
  /\ UNCHANGED <<beam, handler, pc, left, job, page, index, video, map, transfer, redraws>>

\* A mutant: the counter runs one part too far.
TileIndexBeyond(counter) == IF counter <= Limit THEN counter ELSE 0

\* A mutant: one part of the ring is never used.
TileIndexShort(counter) == IF counter < Limit - 1 THEN counter ELSE 0

\* getTileIndex: the counter needs no initialisation.
TileIndex(counter) == IF counter < Limit THEN counter ELSE 0

\* allocator.index, and the call of write.bpp2 or write.bpp4.
WriteText ==
  /\ pc = "idle" /\ handler = 0 /\ todo # << >>
  /\ todo' = Tail(todo)
  /\ place' = Head(todo)
  /\ buffer' = TileIndex(index)
  /\ index' = TileIndex(index) + 1
  /\ size' = "small"
  /\ pc' = "vsync"
  /\ UNCHANGED <<beam, handler, left, page, video, map, transfer, redraws>>

\* The description of the item under the cursor: no ring, no tilemap.
WriteDescription ==
  /\ pc = "idle" /\ handler = 0
  /\ size' = "large"
  /\ pc' = "waitEnd"
  /\ UNCHANGED <<beam, handler, left, place, buffer, screen, index, video, map,
                 transfer, redraws>>

-----------------------------------------------------------------------------
(* Waiting. *)

\* What a step of a wait leaves alone.
Waits ==
  /\ handler = 0
  /\ UNCHANGED <<beam, handler, job, screen, index, video, map, transfer, redraws>>

Ready ==
  /\ pc' = "setup"
  /\ left' = SetupLines

\* A mutant: time is taken for long enough whenever it is behind the picture.
LatchAnyLine ==
  /\ pc = "vsync"
  /\ IF beam < VBlankStart THEN pc' = "waitBegin" /\ left' = left ELSE Ready
  /\ Waits

\* vsync: the line is latched once and decides what is waited for.
Latch ==
  /\ pc = "vsync"
  /\ \/ beam < VBlankStart /\ pc' = "waitBegin" /\ left' = left
     \/ beam \in VBlankStart..LatestStart - 1 /\ Ready
     \/ beam >= LatestStart /\ pc' = "waitEnd" /\ left' = left
  /\ Waits

\* The first loop of waitForNextVblank and of vwait.
PictureBegun ==
  /\ pc = "waitEnd" /\ WaitOver
  /\ pc' = "waitBegin" /\ left' = left
  /\ Waits

\* The loop of waitForThisVblank, and the second of the others.
PictureOver ==
  /\ pc = "waitBegin" /\ WaitOver
  /\ Ready
  /\ Waits

-----------------------------------------------------------------------------
(* Writing. *)

\* The registers are used for something else.
NoJob == size' = "small" /\ place' = None /\ buffer' = 0

StartTransfer ==
  /\ pc = "setup" /\ handler = 0
  /\ pc' = "dma"
  /\ IF size = "small"
     THEN /\ left' \in 1..SmallLines
          /\ tiles' = [tiles EXCEPT ![buffer] = Torn]
          /\ large' = large
     ELSE /\ left' = LargeLines
          /\ large' = FALSE
          /\ tiles' = tiles
  /\ UNCHANGED <<beam, handler, job, screen, index, shown, map, transfer, redraws>>

\* What is sent into the picture is lost.
FinishTransfer ==
  /\ pc = "dma" /\ left = 0 /\ handler = 0
  /\ IF size = "small"
     THEN /\ tiles' = IF Drawing THEN tiles ELSE [tiles EXCEPT ![buffer] = Text(place, page)]
          /\ pc' = "map"
          /\ UNCHANGED <<large, job>>
     ELSE /\ large' = ~Drawing
          /\ pc' = "idle" /\ NoJob
          /\ UNCHANGED tiles
  /\ UNCHANGED <<beam, handler, left, screen, index, shown, map, transfer, redraws>>

\* A mutant: the tilemap is not marked.
WriteMapOnly ==
  /\ pc = "map" /\ handler = 0
  /\ map' = [map EXCEPT ![place] = [buffer |-> buffer, page |-> page]]
  /\ pc' = "idle" /\ NoJob
  /\ UNCHANGED <<beam, handler, left, screen, index, video, transfer, redraws>>

\* tilemap.write: one entry for each tile.
WriteMap ==
  /\ pc = "map" /\ handler = 0
  /\ map' = [map EXCEPT ![place] = [buffer |-> buffer, page |-> page]]
  /\ transfer' = TRUE
  /\ pc' = "idle" /\ NoJob
  /\ UNCHANGED <<beam, handler, left, screen, index, video, redraws>>

-----------------------------------------------------------------------------
Init ==
  /\ beam = Picture /\ handler = 0
  /\ pc = "idle" /\ left = 0 /\ size = "small" /\ place = None /\ buffer = 0
  /\ todo = << >> /\ page \in Pages
  /\ index \in 0..Limit \union {LargestWord}
  /\ tiles = [b \in Buffers |-> Blank] /\ large = TRUE
  /\ map = [p \in PlaceSet |-> None] /\ shown = map
  /\ transfer = FALSE /\ redraws = 0

\* The program's own progress.
Work == Latch \/ PictureBegun \/ PictureOver \/ StartTransfer \/ FinishTransfer \/ WriteMap

Next == Tick \/ Redraw \/ PageEnds \/ WriteText \/ WriteDescription \/ Work

\* The beam never stops, and neither does the processor: there is no other
\* program.
Fairness == WF_vars(Tick) /\ WF_vars(Work)

Spec == Init /\ [][Next]_vars /\ Fairness

-----------------------------------------------------------------------------
(* Properties. *)

Entries == [buffer : Buffers, page : Pages] \union {None}
Texts == {Text(p, n) : p \in PlaceSet, n \in Pages} \union {Blank, Torn}
Rests == {SubSeq(Places, k, Len(Places)) : k \in 1..Len(Places) + 1}

\* Every variable has its type; whatever the counter held, the part of the ring
\* it gives exists.
TypeOK ==
  /\ beam \in {Picture} \union VBlankStart..FrameLines - 1
  /\ handler \in 0..NmiLines
  /\ pc \in {"idle", "vsync", "waitEnd", "waitBegin", "setup", "dma", "map"}
  /\ left \in 0..SetupLines + LargeLines
  /\ size \in {"small", "large"}
  /\ place \in PlaceSet \union {None}
  /\ buffer \in Buffers
  /\ todo \in Rests
  /\ page \in Pages
  /\ index \in 0..LargestWord
  /\ tiles \in [Buffers -> Texts]
  /\ large \in BOOLEAN
  /\ map \in [PlaceSet -> Entries] /\ shown \in [PlaceSet -> Entries]
  /\ transfer \in BOOLEAN
  /\ redraws \in 0..Passes

\* vsync.asm:3-7: no transfer reaches into the picture, and so no text is ever
\* left half written, however the latch, the interrupt and the beam fall.
NoTornFrame ==
  Drawing => pc # "dma" /\ large /\ \A b \in Buffers : tiles[b] # Torn

\* macros.asm:8-9: what the picture shows at a place is the text that was written
\* for it, with the attributes it was written with, although the ring is written
\* to before the tilemap is copied, unless the page was redrawn as often as the
\* ring has room for, without the tilemap being copied in between.
Together ==
  Drawing /\ redraws < Passes =>
    \A p \in PlaceSet :
      shown[p] # None => tiles[shown[p].buffer] = Text(p, shown[p].page)

\* Every wait ends and every text begun is written.
WriteEnds == pc # "idle" ~> pc = "idle"

\* The picture follows: again and again it shows what the tilemap in work RAM says.
PictureFollows == []<>(shown = map)
=============================================================================
