--------------------------- MODULE Display_proofs ---------------------------
(***************************************************************************)
(* Proofs about drawing behind the picture, for any places and pages, any  *)
(* ring and any lines that fit the assumptions.                            *)
(***************************************************************************)
EXTENDS Display, SequenceTheorems, TLAPS

\* Small texts go through vsync and into the tilemap, descriptions do neither.
Jobs ==
  /\ pc \in {"vsync", "map"} => size = "small"
  /\ pc # "idle" /\ size = "small" => place \in PlaceSet

LinesFor(s) == IF s = "small" THEN SmallLines ELSE LargeLines

\* Behind the picture: the interrupt alone has passed since it.
Early(b, h) == b + h <= VBlankStart + NmiLines

\* Behind the picture: what takes h, then l and n lines ends before the next.
Ends(b, h, l, n) == b # Picture /\ b + h + l + n < FrameLines

\* How much time is left at the end of a wait, and then until the transfer ends.
InTime ==
  /\ pc = "waitBegin" => Drawing \/ Early(beam, handler)
  /\ pc = "setup" => Ends(beam, handler, left, LinesFor(size))
  /\ pc = "dma" => Ends(beam, handler, left, 0)

\* Only what is being sent is torn.
Whole ==
  /\ \A b \in Buffers : tiles[b] = Torn => pc = "dma" /\ size = "small" /\ b = buffer
  /\ ~large => pc = "dma" /\ size = "large"

\* How many parts of the ring were given away after part b, with counter i.
Age(b, i) ==
  IF b < TileIndex(i) THEN TileIndex(i) - 1 - b ELSE TileIndex(i) - 1 - b + Limit

\* A tilemap m names parts of an age from a up to n, and with texts t they hold
\* what it says.
Names(m, a, n, i, t) ==
  \A p \in PlaceSet : m[p] # None =>
    /\ Age(m[p].buffer, i) \in a..n - 1
    /\ t[m[p].buffer] = Text(p, m[p].page)

\* The part given away last is being written, and no tilemap names it yet.
Writing == pc # "idle" /\ size = "small"
Youngest == IF Writing THEN 1 ELSE 0

\* How many texts of the page there have been; and since the tilemap was copied.
Round == Len(Places) - Len(todo)
Since == redraws * Len(Places) + Round

Ring ==
  /\ Writing => Age(buffer, index) = 0 /\ Round > 0
  /\ pc = "map" => tiles[buffer] = Text(place, page)
  /\ Names(map, Youngest, Round, index, tiles)
  /\ redraws < Passes => Names(shown, Youngest, Since, index, tiles)

IInv == TypeOK /\ Jobs /\ InTime /\ Whole /\ Ring

-----------------------------------------------------------------------------
(* The screen's places and the ring. *)

\* The ring has room for every place, as often as there are passes.
LEMMA RingSize ==
  /\ Len(Places) \in Nat \ {0}
  /\ Limit \in Nat \ {0} /\ Len(Places) <= Limit
  /\ \A r \in 0..Passes - 1 :
       /\ r * Len(Places) \in Nat
       /\ (r + 1) * Len(Places) = r * Len(Places) + Len(Places)
       /\ r * Len(Places) + Len(Places) <= Limit
  <1>1. Len(Places) \in Nat \ {0}
    BY PlacesAssumption
  <1>2. \A l \in Nat \ {0}, n \in Nat \ {0} : \A r \in 0..n - 1 :
          /\ r * l \in Nat /\ n * l \in Nat
          /\ (r + 1) * l = r * l + l
          /\ r * l + l <= n * l
    <2> SUFFICES ASSUME NEW l \in Nat \ {0}, NEW n \in Nat \ {0}, NEW r \in 0..n - 1
                 PROVE  /\ r * l \in Nat /\ n * l \in Nat
                        /\ (r + 1) * l = r * l + l
                        /\ r * l + l <= n * l
      OBVIOUS
    <2>1. r * l \in Nat /\ n * l \in Nat /\ (r + 1) * l = r * l + l
      OBVIOUS
    <2>2. PICK d \in Nat : n = (r + 1) + d
      <3>1. n - (r + 1) \in Nat /\ n = (r + 1) + (n - (r + 1))
        OBVIOUS
      <3> QED BY <3>1
    <2>3. n * l = (r + 1) * l + d * l /\ d * l \in Nat
      BY <2>2
    <2> QED BY <2>1, <2>3
  <1>3. Passes \in Nat \ {0} /\ 0 \in 0..Passes - 1
    BY PlacesAssumption
  <1>4. 0 * Len(Places) = 0
    BY <1>1
  <1> QED BY <1>1, <1>2, <1>3, <1>4 DEF Limit

\* What remains of the places is the rest of their list, and so is its tail.
LEMMA Rest ==
  /\ Places \in Rests /\ << >> \in Rests
  /\ \A t \in Rests :
       /\ Len(t) \in 0..Len(Places)
       /\ t = << >> => Len(t) = 0
       /\ t # << >> => /\ Len(t) > 0 /\ Len(Tail(t)) = Len(t) - 1
                       /\ Head(t) \in PlaceSet
                       /\ Tail(t) \in Rests
  <1>1. Places \in Seq(STRING) /\ Len(Places) \in Nat
    BY PlacesAssumption
  <1>2. SubSeq(Places, 1, Len(Places)) = Places
    BY <1>1, SubSeqFull
  <1>3. SubSeq(Places, Len(Places) + 1, Len(Places)) = << >>
    BY <1>1, SubSeqEmpty
  <1>4. Len(<< >>) = 0
    BY <1>1, EmptySeq
  <1>5. ASSUME NEW t \in Rests
        PROVE  /\ Len(t) \in 0..Len(Places)
               /\ t # << >> => /\ Len(t) > 0 /\ Len(Tail(t)) = Len(t) - 1
                               /\ Head(t) \in PlaceSet
                               /\ Tail(t) \in Rests
    <2>1. PICK k \in 1..Len(Places) + 1 : t = SubSeq(Places, k, Len(Places))
      BY DEF Rests
    <2>2. \A i \in k..Len(Places) : Places[i] \in STRING
      BY <1>1
    <2>3. t \in Seq(STRING) /\ Len(t) = Len(Places) + 1 - k
      BY <1>1, <2>1, <2>2, SubSeqProperties
    <2>4. CASE t # << >>
      <3>1. Len(t) \in Nat \ {0} /\ Len(Tail(t)) = Len(t) - 1
        BY <2>3, <2>4, EmptySeq, HeadTailProperties
      <3>2. k \in 1..Len(Places)
        BY <1>1, <2>3, <3>1
      <3>3. Head(t) = Places[k] /\ Tail(t) = SubSeq(Places, k + 1, Len(Places))
        BY <1>1, <2>1, <3>2, HeadTailOfSubSeq
      <3>4. Places[k] \in PlaceSet
        BY <1>1, <3>2 DEF PlaceSet
      <3>5. k + 1 \in 1..Len(Places) + 1
        BY <1>1, <3>2
      <3>6. Tail(t) \in Rests
        BY <3>3, <3>5 DEF Rests
      <3> QED BY <1>1, <2>3, <3>1, <3>3, <3>4, <3>6
    <2> QED BY <1>1, <2>3, <2>4
  <1>6. 1 \in 1..Len(Places) + 1 /\ Len(Places) + 1 \in 1..Len(Places) + 1
    BY <1>1
  <1>7. Places \in Rests /\ << >> \in Rests
    BY <1>2, <1>3, <1>6 DEF Rests
  <1> QED BY <1>4, <1>5, <1>7

\* The counter gives a part of the ring, whatever it held.
LEMMA IndexInRing ==
  /\ LargestWord \in Nat
  /\ \A i \in 0..LargestWord : TileIndex(i) \in Buffers
  <1>1. LargestWord \in Nat
    BY DEF LargestWord
  <1> QED BY <1>1, RingSize DEF TileIndex, Buffers

\* A text of a page is not the mark of a torn one, nor is an unused part.
LEMMA TextWhole ==
  /\ Blank # Torn
  /\ \A p, n : n \in Pages => Text(p, n) # Torn
  BY PlacesAssumption DEF Blank, Torn, Text

\* The part just given away has age 0, and all others are one older.
LEMMA AgeStep ==
  \A i \in 0..LargestWord, b \in Buffers :
    /\ Age(b, i) \in 0..Limit - 1
    /\ Age(TileIndex(i), TileIndex(i) + 1) = 0
    /\ Age(b, i) < Limit - 1 => Age(b, TileIndex(i) + 1) = Age(b, i) + 1
  <1> SUFFICES ASSUME NEW i \in 0..LargestWord, NEW b \in Buffers
               PROVE  /\ Age(b, i) \in 0..Limit - 1
                      /\ Age(TileIndex(i), TileIndex(i) + 1) = 0
                      /\ Age(b, i) < Limit - 1 => Age(b, TileIndex(i) + 1) = Age(b, i) + 1
    OBVIOUS
  <1>1. PICK n \in Buffers : n = TileIndex(i)
    BY IndexInRing
  <1>2. TileIndex(n + 1) = IF n + 1 < Limit THEN n + 1 ELSE 0
    BY DEF TileIndex
  <1>3. Limit \in Nat \ {0} /\ b \in 0..Limit - 1 /\ n \in 0..Limit - 1
    BY RingSize DEF Buffers
  <1>4. Age(b, i) = IF b < n THEN n - 1 - b ELSE n - 1 - b + Limit
    BY <1>1 DEF Age
  <1>5. \A c \in {b, n} :
          Age(c, n + 1) = IF n + 1 < Limit
                          THEN IF c < n + 1 THEN n - c ELSE n - c + Limit
                          ELSE IF c < 0 THEN -1 - c ELSE -1 - c + Limit
    BY <1>2, <1>3 DEF Age
  <1>6. Age(b, i) \in 0..Limit - 1
    BY <1>3, <1>4
  <1>7. Age(n, n + 1) = 0
    BY <1>3, <1>5
  <1>8. Age(b, i) < Limit - 1 => Age(b, n + 1) = Age(b, i) + 1
    BY <1>3, <1>4, <1>5
  <1> QED BY <1>1, <1>6, <1>7, <1>8

\* Bounds may be taken further apart.
LEMMA NamesWiden ==
  ASSUME NEW m, NEW a \in Nat, NEW n \in Nat, NEW i, NEW t,
         NEW c \in 0..a, NEW k \in Nat, n <= k, Names(m, a, n, i, t)
  PROVE  Names(m, c, k, i, t)
  <1>1. a..n - 1 \subseteq c..k - 1
    OBVIOUS
  <1> QED BY <1>1 DEF Names

\* The next part is given away: the tilemap names none so young.
LEMMA NamesNext ==
  ASSUME NEW m \in [PlaceSet -> Entries], NEW n \in 0..Limit - 1,
         NEW i \in 0..LargestWord, NEW t, Names(m, 0, n, i, t)
  PROVE  Names(m, 1, n + 1, TileIndex(i) + 1, t)
  <1> SUFFICES ASSUME NEW p \in PlaceSet, m[p] # None
               PROVE  /\ Age(m[p].buffer, TileIndex(i) + 1) \in 1..n
                      /\ t[m[p].buffer] = Text(p, m[p].page)
    BY RingSize DEF Names
  <1>1. m[p].buffer \in Buffers
    BY DEF Entries
  <1>2. Age(m[p].buffer, i) \in 0..n - 1 /\ t[m[p].buffer] = Text(p, m[p].page)
    BY DEF Names
  <1>3. Age(m[p].buffer, TileIndex(i) + 1) = Age(m[p].buffer, i) + 1
    BY <1>1, <1>2, AgeStep, RingSize
  <1> QED BY <1>2, <1>3

\* What is written to the youngest part reaches no other.
LEMMA NamesWrite ==
  ASSUME NEW m \in [PlaceSet -> Entries], NEW n, NEW i, NEW t, NEW b, NEW x,
         Names(m, 1, n, i, t), Age(b, i) = 0
  PROVE  Names(m, 1, n, i, [t EXCEPT ![b] = x])
  <1> SUFFICES ASSUME NEW p \in PlaceSet, m[p] # None
               PROVE  /\ Age(m[p].buffer, i) \in 1..n - 1
                      /\ [t EXCEPT ![b] = x][m[p].buffer] = Text(p, m[p].page)
    BY DEF Names
  <1>1. Age(m[p].buffer, i) \in 1..n - 1 /\ t[m[p].buffer] = Text(p, m[p].page)
    BY DEF Names
  <1>2. m[p].buffer # b
    BY <1>1
  <1> QED BY <1>1, <1>2

\* The part just written is entered.
LEMMA NamesEnter ==
  ASSUME NEW m \in [PlaceSet -> Entries], NEW n \in Nat \ {0}, NEW i, NEW t,
         NEW b, NEW p \in PlaceSet, NEW q,
         Names(m, 1, n, i, t), Age(b, i) = 0, t[b] = Text(p, q)
  PROVE  Names([m EXCEPT ![p] = [buffer |-> b, page |-> q]], 0, n, i, t)
  <1> DEFINE e == [buffer |-> b, page |-> q]
  <1>1. e.buffer = b /\ e.page = q
    OBVIOUS
  <1>2. Names(m, 0, n, i, t)
    BY DEF Names
  <1>3. [m EXCEPT ![p] = e][p] = e /\ \A o \in PlaceSet : o # p => [m EXCEPT ![p] = e][o] = m[o]
    OBVIOUS
  <1> HIDE DEF e
  <1> QED BY <1>1, <1>2, <1>3 DEF Names

-----------------------------------------------------------------------------
(* The steps of the program, one lemma for each part of the invariant. *)

LEMMA TypeStep == TypeOK /\ Jobs /\ [Next]_vars => TypeOK'
  <1> SUFFICES ASSUME TypeOK, Jobs, [Next]_vars
               PROVE  TypeOK'
    OBVIOUS
  <1> USE TimingAssumption DEF job, screen, video, Picture, Drawing
  <1>1. CASE Tick
    <2>1. beam' \in {Picture} \union VBlankStart..FrameLines - 1
      BY <1>1 DEF Tick, NextLine, TypeOK
    <2>2. left' \in 0..SetupLines + LargeLines
      BY <1>1 DEF Tick, Urgent, TypeOK
    <2>3. /\ handler' \in 0..NmiLines /\ transfer' \in BOOLEAN
          /\ shown' \in [PlaceSet -> Entries] /\ redraws' \in 0..Passes
      <3>1. 0 \in 0..Passes
        BY PlacesAssumption
      <3>2. handler' \in 0..NmiLines /\ redraws' \in 0..Passes
        BY <1>1, <3>1 DEF Tick, TypeOK
      <3>3. transfer' \in BOOLEAN /\ shown' \in [PlaceSet -> Entries]
        <4>1. \/ transfer' = FALSE /\ (shown' = map \/ shown' = shown)
              \/ UNCHANGED <<transfer, shown>>
          BY <1>1 DEF Tick
        <4> QED BY <4>1 DEF TypeOK
      <3> QED BY <3>2, <3>3
    <2> QED BY <1>1, <2>1, <2>2, <2>3 DEF Tick, TypeOK
  <1>2. CASE Redraw
    <2>1. todo' \in Rests
      BY <1>2, Rest DEF Redraw
    <2>2. map' \in [PlaceSet -> Entries]
      BY <1>2 DEF Redraw, Entries
    <2>3. redraws' \in 0..Passes
      BY <1>2, PlacesAssumption DEF Redraw, TypeOK
    <2> QED BY <1>2, <2>1, <2>2, <2>3 DEF Redraw, TypeOK
  <1>3. CASE PageEnds
    BY <1>3, Rest DEF PageEnds, TypeOK
  <1>4. CASE WriteText
    <2>1. todo' \in Rests /\ place' \in PlaceSet
      BY <1>4, Rest DEF WriteText, TypeOK
    <2>2. buffer' \in Buffers
      BY <1>4, IndexInRing DEF WriteText, TypeOK
    <2>3. index' \in 0..LargestWord
      BY <1>4, <2>2, IndexInRing, CounterAssumption, RingSize DEF WriteText, Buffers
    <2> QED BY <1>4, <2>1, <2>2, <2>3 DEF WriteText, TypeOK
  <1>5. CASE WriteDescription
    BY <1>5 DEF WriteDescription, TypeOK
  <1>6. CASE Latch \/ PictureBegun \/ PictureOver
    <2>1. pc' \in {"waitBegin", "waitEnd", "setup"} /\ left' \in 0..SetupLines + LargeLines
      BY <1>6 DEF Latch, PictureBegun, PictureOver, Ready, TypeOK
    <2>2. Waits
      BY <1>6 DEF Latch, PictureBegun, PictureOver
    <2> QED BY <2>1, <2>2 DEF Waits, TypeOK
  <1>7. CASE StartTransfer
    <2>1. left' \in 0..SetupLines + LargeLines
      BY <1>7 DEF StartTransfer
    <2>2. tiles' \in [Buffers -> Texts]
      BY <1>7 DEF StartTransfer, TypeOK, Texts
    <2>3. large' \in BOOLEAN
      BY <1>7 DEF StartTransfer, TypeOK
    <2> QED BY <1>7, <2>1, <2>2, <2>3 DEF StartTransfer, TypeOK
  <1>8. CASE FinishTransfer
    <2>1. CASE size = "small"
      <3>1. Text(place, page) \in Texts
        BY <1>8, <2>1 DEF FinishTransfer, Jobs, TypeOK, Texts
      <3>2. tiles' \in [Buffers -> Texts]
        BY <1>8, <2>1, <3>1 DEF FinishTransfer, TypeOK
      <3> QED BY <1>8, <2>1, <3>2 DEF FinishTransfer, TypeOK
    <2>2. CASE size # "small"
      <3>1. 0 \in Buffers
        BY RingSize DEF Buffers
      <3> QED BY <1>8, <2>2, <3>1 DEF FinishTransfer, NoJob, TypeOK
    <2> QED BY <2>1, <2>2
  <1>9. CASE WriteMap
    <2>1. place \in PlaceSet /\ [buffer |-> buffer, page |-> page] \in Entries
      BY <1>9 DEF WriteMap, Jobs, TypeOK, Entries
    <2>2. map' \in [PlaceSet -> Entries]
      BY <1>9, <2>1 DEF WriteMap, TypeOK
    <2>3. 0 \in Buffers
      BY RingSize DEF Buffers
    <2> QED BY <1>9, <2>2, <2>3 DEF WriteMap, NoJob, TypeOK
  <1>10. CASE UNCHANGED vars
    BY <1>10 DEF vars, TypeOK
  <1> QED BY <1>1, <1>2, <1>3, <1>4, <1>5, <1>6, <1>7, <1>8, <1>9, <1>10 DEF Next, Work

LEMMA JobsStep == TypeOK /\ Jobs /\ [Next]_vars => Jobs'
  <1> SUFFICES ASSUME TypeOK, Jobs, [Next]_vars
               PROVE  Jobs'
    OBVIOUS
  <1>1. CASE UNCHANGED <<pc, size, place>>
    BY <1>1 DEF Jobs
  <1>2. CASE WriteText
    <2>1. place' \in PlaceSet
      BY <1>2, Rest DEF WriteText, TypeOK
    <2> QED BY <1>2, <2>1 DEF WriteText, Jobs
  <1>3. CASE WriteDescription
    BY <1>3 DEF WriteDescription, Jobs
  <1>4. CASE Latch \/ PictureBegun \/ PictureOver
    BY <1>4 DEF Latch, PictureBegun, PictureOver, Waits, Ready, Jobs, job
  <1>5. CASE StartTransfer
    BY <1>5 DEF StartTransfer, Jobs, job
  <1>6. CASE FinishTransfer
    BY <1>6 DEF FinishTransfer, NoJob, Jobs, job
  <1>7. CASE WriteMap
    BY <1>7 DEF WriteMap, NoJob, Jobs
  <1> QED BY <1>1, <1>2, <1>3, <1>4, <1>5, <1>6, <1>7
          DEF Next, Work, Tick, Redraw, PageEnds, vars, job

\* A line passes and one line less is needed; a transfer needs no more than
\* was set aside for it.
LEMMA Lines ==
  \A b, h, l, n \in Nat :
    /\ Early(b, h) /\ h > 0 => Early(b + 1, h - 1)
    /\ Ends(b, h, l, n) =>
         /\ h > 0 => Ends(b + 1, h - 1, l, n)
         /\ h = 0 /\ l > 0 => Ends(b + 1, h, l - 1, n)
         /\ \A m \in 0..n : Ends(b, h, m, 0)
         /\ h > 0 \/ l > 0 => b + 1 < FrameLines
  BY TimingAssumption DEF Early, Ends, Picture

LEMMA LineTypes ==
  ASSUME TypeOK
  PROVE  /\ beam \in Nat /\ (beam = Picture \/ beam \in VBlankStart..FrameLines - 1)
         /\ handler \in 0..NmiLines /\ left \in Nat
         /\ LinesFor(size) \in 1..LargeLines
  BY TimingAssumption DEF TypeOK, LinesFor, Picture

\* The interrupt that begins a pause is short, and what must be done by the
\* end of it is done line by line.
LEMMA TimeStep == TypeOK /\ Jobs /\ InTime /\ [Next]_vars => InTime'
  <1> SUFFICES ASSUME TypeOK, Jobs, InTime, [Next]_vars
               PROVE  InTime'
    OBVIOUS
  <1> USE TimingAssumption, LineTypes
  <1>1. CASE Tick
    <2>1. UNCHANGED <<pc, size>> /\ LinesFor(size)' = LinesFor(size)
      BY <1>1 DEF Tick, job, LinesFor
    <2>2. CASE pc = "waitBegin" /\ Drawing
      <3>1. beam' = VBlankStart /\ handler' \in 0..NmiLines
        BY <1>1, <2>2 DEF Tick, NextLine
      <3>2. \A h \in 0..NmiLines : Early(VBlankStart, h)
        BY DEF Early
      <3>3. Early(beam', handler')
        BY <3>1, <3>2
      <3> QED BY <2>1, <2>2, <3>3 DEF InTime
    <2>3. CASE pc = "waitBegin" /\ ~Drawing
      <3>1. handler > 0 /\ beam # Picture
        BY <1>1, <2>3 DEF Tick, Urgent, WaitOver, Drawing
      <3>2. Early(beam + 1, handler - 1)
        BY <2>3, <3>1, Lines DEF InTime
      <3>3. beam' = Picture \/ (beam' = beam + 1 /\ handler' = handler - 1)
        BY <1>1, <3>1 DEF Tick, NextLine, Drawing, Picture
      <3>4. Drawing' \/ Early(beam', handler')
        BY <3>2, <3>3 DEF Drawing
      <3> QED BY <2>1, <2>3, <3>4 DEF InTime
    <2>4. ASSUME NEW n \in Nat, Ends(beam, handler, left, n), pc \in {"setup", "dma"}
          PROVE  Ends(beam', handler', left', n)
      <3>1. handler > 0 \/ (handler = 0 /\ left > 0)
        BY <1>1, <2>4 DEF Tick, Urgent
      <3>2. beam + 1 < FrameLines /\ beam # Picture
        BY <2>4, <3>1, Lines DEF Ends
      <3>3. beam' = beam + 1 /\ beam' # VBlankStart
        BY <1>1, <3>2 DEF Tick, NextLine, Drawing
      <3>4. \/ handler > 0 /\ handler' = handler - 1 /\ left' = left
            \/ handler = 0 /\ left > 0 /\ handler' = handler /\ left' = left - 1
        BY <1>1, <2>4, <3>1, <3>3 DEF Tick
      <3>5. CASE handler > 0 /\ handler' = handler - 1 /\ left' = left
        BY <2>4, <3>3, <3>5, Lines, SMTT(30)
      <3>6. CASE handler = 0 /\ left > 0 /\ handler' = handler /\ left' = left - 1
        BY <2>4, <3>3, <3>6, Lines
      <3> QED BY <3>4, <3>5, <3>6
    <2>5. CASE pc = "setup"
      BY <2>1, <2>4, <2>5 DEF InTime
    <2>6. CASE pc = "dma"
      BY <2>1, <2>4, <2>6 DEF InTime
    <2> QED BY <2>1, <2>2, <2>3, <2>5, <2>6 DEF InTime
  <1>2. CASE Latch
    <2>1. handler = 0 /\ UNCHANGED <<beam, handler, size>> /\ size = "small"
      BY <1>2 DEF Latch, Waits, job, Jobs
    <2>2. CASE beam < VBlankStart
      <3>1. Drawing /\ pc' = "waitBegin"
        BY <1>2, <2>2 DEF Latch, Ready, Drawing
      <3> QED BY <2>1, <3>1 DEF InTime, Drawing
    <2>3. CASE beam \in VBlankStart..LatestStart - 1
      <3>1. pc' = "setup" /\ left' = SetupLines
        BY <1>2, <2>3 DEF Latch, Ready
      <3>2. Ends(beam, 0, SetupLines, SmallLines)
        BY <2>3 DEF Ends, Picture
      <3> QED BY <2>1, <3>1, <3>2 DEF InTime, LinesFor
    <2>4. CASE beam >= LatestStart
      BY <1>2, <2>4 DEF Latch, Ready, InTime
    <2> QED BY <1>2, <2>2, <2>3, <2>4 DEF Latch
  <1>3. CASE PictureBegun
    BY <1>3 DEF PictureBegun, WaitOver, Waits, InTime, Drawing
  <1>4. CASE PictureOver
    <2>1. beam # Picture /\ handler = 0 /\ Early(beam, handler)
      BY <1>4 DEF PictureOver, WaitOver, Waits, InTime, Drawing
    <2>2. /\ pc' = "setup" /\ left' = SetupLines
          /\ UNCHANGED <<beam, handler, size>> /\ LinesFor(size)' = LinesFor(size)
      BY <1>4 DEF PictureOver, Ready, Waits, job, LinesFor
    <2>3. Ends(beam, handler, SetupLines, LinesFor(size))
      BY <2>1 DEF Early, Ends
    <2> QED BY <2>2, <2>3 DEF InTime
  <1>5. CASE StartTransfer
    <2>1. pc = "setup" /\ pc' = "dma" /\ UNCHANGED <<beam, handler>>
          /\ left' \in 0..LinesFor(size)
      BY <1>5 DEF StartTransfer, LinesFor
    <2>2. Ends(beam, handler, left', 0)
      BY <2>1, Lines DEF InTime
    <2> QED BY <2>1, <2>2 DEF InTime
  <1>6. CASE FinishTransfer
    BY <1>6 DEF FinishTransfer, InTime
  <1>7. CASE WriteText \/ WriteDescription \/ WriteMap
    BY <1>7 DEF WriteText, WriteDescription, WriteMap, InTime
  <1>8. CASE Redraw \/ PageEnds \/ UNCHANGED vars
    BY <1>8 DEF Redraw, PageEnds, vars, job, InTime, LinesFor, Drawing
  <1> QED BY <1>1, <1>2, <1>3, <1>4, <1>5, <1>6, <1>7, <1>8 DEF Next, Work

LEMMA WholeStep == TypeOK /\ Jobs /\ InTime /\ Whole /\ [Next]_vars => Whole'
  <1> SUFFICES ASSUME TypeOK, Jobs, InTime, Whole, [Next]_vars
               PROVE  Whole'
    OBVIOUS
  <1>1. CASE UNCHANGED <<tiles, large>> /\ pc # "dma"
    BY <1>1 DEF Whole
  <1>2. CASE UNCHANGED <<tiles, large, pc, size, buffer>>
    BY <1>2 DEF Whole
  <1>3. CASE StartTransfer
    <2>1. (\A b \in Buffers : tiles[b] # Torn) /\ large
      BY <1>3 DEF StartTransfer, Whole
    <2>2. CASE size = "small"
      BY <1>3, <2>1, <2>2 DEF StartTransfer, Whole, TypeOK, job
    <2>3. CASE size = "large"
      BY <1>3, <2>1, <2>3 DEF StartTransfer, Whole, TypeOK, job
    <2> QED BY <2>2, <2>3 DEF TypeOK
  <1>4. CASE FinishTransfer
    <2>1. ~Drawing /\ Text(place, page) # Torn
      BY <1>4, TextWhole DEF FinishTransfer, InTime, Ends, Drawing, TypeOK
    <2>2. CASE size = "small"
      <3>1. large' /\ tiles' = [tiles EXCEPT ![buffer] = Text(place, page)]
        BY <1>4, <2>1, <2>2 DEF FinishTransfer, Whole
      <3>2. \A b \in Buffers : tiles[b] = Torn => b = buffer
        BY DEF Whole
      <3>3. \A b \in Buffers : tiles'[b] # Torn
        BY <2>1, <3>1, <3>2 DEF TypeOK
      <3> QED BY <3>1, <3>3 DEF Whole
    <2>3. CASE size = "large"
      <3>1. UNCHANGED tiles /\ large' = TRUE
        BY <1>4, <2>1, <2>3 DEF FinishTransfer
      <3>2. \A b \in Buffers : tiles[b] # Torn
        BY <2>3 DEF Whole
      <3> QED BY <3>1, <3>2 DEF Whole
    <2> QED BY <2>2, <2>3 DEF TypeOK
  <1>5. Tick \/ Redraw \/ PageEnds \/ UNCHANGED vars => UNCHANGED <<tiles, large, pc, size, buffer>>
    BY DEF Tick, Redraw, PageEnds, vars, video, job
  <1>6. WriteText \/ WriteDescription => UNCHANGED <<tiles, large>> /\ pc # "dma"
    BY DEF WriteText, WriteDescription, video
  <1>7. Latch \/ PictureBegun \/ PictureOver \/ WriteMap => UNCHANGED <<tiles, large>> /\ pc # "dma"
    BY DEF Latch, PictureBegun, PictureOver, WriteMap, Waits, video
  <1> QED BY <1>1, <1>2, <1>3, <1>4, <1>5, <1>6, <1>7 DEF Next, Work

-----------------------------------------------------------------------------
(* The ring. *)

LEMMA RoundTypes ==
  ASSUME TypeOK
  PROVE  /\ Round \in 0..Len(Places) /\ Len(Places) \in Nat \ {0}
         /\ Len(Places) <= Limit /\ Limit \in Nat
         /\ redraws < Passes => Since \in Nat /\ Since <= Limit /\ redraws * Len(Places) \in Nat
         /\ redraws < Passes /\ todo # << >> => Since < Limit
         /\ todo # << >> => Round < Len(Places)
  <1>1. Len(todo) \in 0..Len(Places) /\ (todo # << >> => Len(todo) > 0)
    BY Rest DEF TypeOK
  <1>2. redraws < Passes => redraws \in 0..Passes - 1
    BY PlacesAssumption DEF TypeOK
  <1> QED BY <1>1, <1>2, RingSize, SMTT(30) DEF Round, Since

\* Between two texts nothing is named that is not whole and young enough, and
\* the ring comes round only when enough pages were drawn.
LEMMA RingStep == TypeOK /\ Jobs /\ InTime /\ Ring /\ [Next]_vars => Ring'
  <1> SUFFICES ASSUME TypeOK, Jobs, InTime, Ring, [Next]_vars
               PROVE  Ring'
    OBVIOUS
  <1>t. /\ map \in [PlaceSet -> Entries] /\ shown \in [PlaceSet -> Entries]
        /\ index \in 0..LargestWord /\ redraws \in 0..Passes /\ buffer \in Buffers
        /\ tiles \in [Buffers -> Texts]
    BY DEF TypeOK
  <1>m. Names(map, Youngest, Round, index, tiles)
    BY DEF Ring
  <1>s. redraws < Passes => Names(shown, Youngest, Since, index, tiles)
    BY DEF Ring
  <1>y. Youngest \in {0, 1}
    BY DEF Youngest
  <1>1. CASE Tick
    <2>1. /\ UNCHANGED <<pc, size, place, buffer, todo, page, index, tiles, map>>
          /\ \/ shown' = map /\ redraws' = 0
             \/ UNCHANGED <<shown, redraws>>
      BY <1>1 DEF Tick, job, screen
    <2>2. Youngest' = Youngest /\ Round' = Round
      BY <2>1 DEF Youngest, Writing, Round
    <2>3. CASE UNCHANGED <<shown, redraws>>
      <3>1. Since' = Since
        BY <2>2, <2>3 DEF Since
      <3> QED BY <2>1, <2>2, <2>3, <3>1 DEF Ring, Writing
    <2>4. CASE shown' = map /\ redraws' = 0
      <3>1. Since' = Round
        <4>1. 0 * Len(Places) = 0 /\ Round \in Int
          BY RoundTypes
        <4> QED BY <2>2, <2>4, <4>1 DEF Since
      <3> QED BY <2>1, <2>2, <2>4, <3>1 DEF Ring, Writing
    <2> QED BY <2>1, <2>3, <2>4
  <1>2. CASE Redraw
    <2>1. /\ pc = "idle" /\ UNCHANGED <<pc, size, place, buffer, index, tiles, shown>>
          /\ todo = << >> /\ todo' = Places
          /\ map' = [p \in PlaceSet |-> None]
          /\ redraws' = IF redraws < Passes THEN redraws + 1 ELSE redraws
      BY <1>2 DEF Redraw, job, video
    <2>2. Youngest' = 0 /\ ~Writing' /\ Youngest = 0
      BY <2>1 DEF Youngest, Writing
    <2>3. Names(map', Youngest', Round', index', tiles')
      BY <2>1 DEF Names
    <2>4. ASSUME redraws' < Passes
          PROVE  Names(shown', Youngest', Since', index', tiles')
      <3>1. redraws < Passes /\ redraws' = redraws + 1
        BY <1>t, <2>1, <2>4, PlacesAssumption
      <3>2. Round = Len(Places) /\ Round' = 0
        BY <2>1, Rest, RingSize DEF Round, TypeOK
      <3>3. (redraws + 1) * Len(Places) = redraws * Len(Places) + Len(Places)
        BY <1>t, <3>1, RingSize, PlacesAssumption
      <3>4. Since' = Since
        BY <3>1, <3>2, <3>3, RingSize, RoundTypes DEF Since
      <3> QED BY <1>s, <2>1, <2>2, <3>1, <3>4
    <2> QED BY <2>1, <2>2, <2>3, <2>4 DEF Ring
  <1>3. CASE PageEnds
    <2>1. /\ UNCHANGED <<pc, size, place, buffer, page, index, tiles, map, shown, redraws>>
          /\ pc = "idle" /\ todo' = << >>
      BY <1>3 DEF PageEnds, job, video
    <2>2. Youngest' = Youngest /\ ~Writing'
      BY <2>1 DEF Youngest, Writing
    <2>3. Round' = Len(Places) /\ Since' = redraws * Len(Places) + Len(Places)
      BY <2>1, Rest, RingSize DEF Round, Since
    <2>4. Names(map, Youngest, Round', index, tiles)
      BY <1>m, <1>y, <2>3, NamesWiden, RoundTypes
    <2>5. redraws < Passes => Names(shown, Youngest, Since', index, tiles)
      <3>1. ASSUME redraws < Passes
            PROVE  Since \in Nat /\ Since' \in Nat /\ Since <= Since'
        BY <2>3, <3>1, RoundTypes DEF Since
      <3> QED BY <1>s, <1>y, <3>1, NamesWiden
    <2> QED BY <2>1, <2>2, <2>4, <2>5 DEF Ring
  <1>4. CASE WriteText
    <2>1. /\ pc = "idle" /\ pc' = "vsync" /\ size' = "small"
          /\ buffer' = TileIndex(index) /\ index' = TileIndex(index) + 1
          /\ todo # << >> /\ todo' = Tail(todo)
          /\ UNCHANGED <<tiles, map, shown, redraws>>
      BY <1>4 DEF WriteText, video
    <2>2. Youngest = 0 /\ Youngest' = 1
      BY <2>1 DEF Youngest, Writing
    <2>3. Age(buffer', index') = 0
      BY <1>t, <2>1, AgeStep
    <2>4. Round' = Round + 1
      BY <2>1, Rest, RingSize DEF Round, TypeOK
    <2>5. Names(map', Youngest', Round', index', tiles')
      BY <1>t, <1>m, <2>1, <2>2, <2>4, NamesNext, RoundTypes
    <2>6. ASSUME redraws' < Passes
          PROVE  Names(shown', Youngest', Since', index', tiles')
      <3>1. redraws < Passes /\ Since \in 0..Limit - 1
        BY <2>1, <2>6, RoundTypes
      <3>2. Since' = Since + 1
        BY <2>1, <2>4, <3>1, RoundTypes DEF Since
      <3> QED BY <1>t, <1>s, <2>1, <2>2, <3>1, <3>2, NamesNext
    <2>7. Round' > 0
      BY <2>4, RoundTypes
    <2> QED BY <2>1, <2>3, <2>5, <2>6, <2>7 DEF Ring
  <1>5. CASE WriteDescription
    <2>1. /\ pc = "idle" /\ pc' = "waitEnd" /\ size' = "large"
          /\ UNCHANGED <<todo, index, tiles, map, shown, redraws>>
      BY <1>5 DEF WriteDescription, screen, video
    <2>2. Youngest' = Youngest /\ ~Writing' /\ Round' = Round /\ Since' = Since
      BY <2>1 DEF Youngest, Writing, Round, Since
    <2> QED BY <2>1, <2>2 DEF Ring
  <1>6. CASE Latch \/ PictureBegun \/ PictureOver
    <2>1. /\ pc # "idle" /\ pc' \in {"waitBegin", "waitEnd", "setup"}
          /\ UNCHANGED <<size, buffer, todo, index, tiles, map, shown, redraws>>
      BY <1>6 DEF Latch, PictureBegun, PictureOver, Waits, Ready, job, screen, video
    <2>2. Youngest' = Youngest /\ (Writing' <=> Writing) /\ Round' = Round /\ Since' = Since
      BY <2>1 DEF Youngest, Writing, Round, Since
    <2> QED BY <2>1, <2>2 DEF Ring
  <1>7. CASE StartTransfer
    <2>1. /\ pc = "setup" /\ pc' = "dma"
          /\ UNCHANGED <<size, buffer, todo, index, map, shown, redraws>>
          /\ IF size = "small" THEN tiles' = [tiles EXCEPT ![buffer] = Torn]
                               ELSE tiles' = tiles
      BY <1>7 DEF StartTransfer, job, screen
    <2>2. Youngest' = Youngest /\ (Writing' <=> Writing) /\ Round' = Round /\ Since' = Since
      BY <2>1 DEF Youngest, Writing, Round, Since
    <2>3. CASE size # "small"
      BY <2>1, <2>2, <2>3 DEF Ring
    <2>4. CASE size = "small"
      <3>1. /\ Youngest = 1 /\ Age(buffer, index) = 0
            /\ tiles' = [tiles EXCEPT ![buffer] = Torn]
        BY <2>1, <2>4 DEF Youngest, Writing, Ring
      <3>2. Names(map, 1, Round, index, tiles')
        BY <1>t, <1>m, <3>1, NamesWrite
      <3>3. redraws < Passes => Names(shown, 1, Since, index, tiles')
        BY <1>t, <1>s, <3>1, NamesWrite
      <3> QED BY <2>1, <2>2, <3>1, <3>2, <3>3 DEF Ring
    <2> QED BY <2>3, <2>4
  <1>8. CASE FinishTransfer
    <2>1. /\ pc = "dma" /\ UNCHANGED <<todo, page, index, map, shown, redraws>>
      BY <1>8 DEF FinishTransfer, screen
    <2>2. Round' = Round /\ Since' = Since /\ ~Drawing
      BY <2>1 DEF Round, Since, InTime, Ends, Drawing
    <2>3. CASE size # "small"
      <3>1. pc' = "idle" /\ UNCHANGED tiles
        BY <1>8, <2>3 DEF FinishTransfer
      <3>2. Youngest' = Youngest /\ ~Writing'
        BY <2>3, <3>1 DEF Youngest, Writing
      <3> QED BY <2>1, <2>2, <3>1, <3>2 DEF Ring
    <2>4. CASE size = "small"
      <3>1. /\ pc' = "map" /\ UNCHANGED <<size, place, buffer>>
            /\ tiles' = [tiles EXCEPT ![buffer] = Text(place, page)]
        BY <1>8, <2>2, <2>4 DEF FinishTransfer, job
      <3>2. Youngest = 1 /\ Youngest' = 1 /\ Writing /\ Age(buffer, index) = 0
        BY <2>1, <2>4, <3>1 DEF Youngest, Writing, Ring
      <3>3. Names(map, 1, Round, index, tiles')
        BY <1>t, <1>m, <3>1, <3>2, NamesWrite
      <3>4. redraws < Passes => Names(shown, 1, Since, index, tiles')
        BY <1>t, <1>s, <3>1, <3>2, NamesWrite
      <3>5. tiles'[buffer] = Text(place, page)
        BY <1>t, <3>1
      <3> QED BY <2>1, <2>2, <3>1, <3>2, <3>3, <3>4, <3>5 DEF Ring
    <2> QED BY <2>3, <2>4
  <1>9. CASE WriteMap
    <2>1. /\ pc = "map" /\ pc' = "idle" /\ size = "small" /\ place \in PlaceSet
          /\ map' = [map EXCEPT ![place] = [buffer |-> buffer, page |-> page]]
          /\ UNCHANGED <<todo, page, index, tiles, shown, redraws>>
      BY <1>9 DEF WriteMap, Jobs, screen, video
    <2>2. Youngest = 1 /\ Youngest' = 0 /\ ~Writing'
      BY <2>1 DEF Youngest, Writing
    <2>3. Round' = Round /\ Since' = Since
      BY <2>1 DEF Round, Since
    <2>4. Age(buffer, index) = 0 /\ Round \in Nat \ {0} /\ tiles[buffer] = Text(place, page)
      BY <2>1, RoundTypes DEF Ring, Writing
    <2>5. Names(map', 0, Round, index, tiles)
      BY <1>t, <1>m, <2>1, <2>2, <2>4, NamesEnter
    <2>6. redraws < Passes => Names(shown, 0, Since, index, tiles)
      BY <1>s, <2>2, NamesWiden, RoundTypes
    <2> QED BY <2>1, <2>2, <2>3, <2>5, <2>6 DEF Ring
  <1>10. CASE UNCHANGED vars
    BY <1>10 DEF vars, job, screen, video, Ring, Names, Age, Youngest, Writing, Round, Since
  <1> QED BY <1>1, <1>2, <1>3, <1>4, <1>5, <1>6, <1>7, <1>8, <1>9, <1>10 DEF Next, Work

-----------------------------------------------------------------------------
LEMMA Invariance == Spec => []IInv
  <1>1. Init => IInv
    <2> SUFFICES ASSUME Init PROVE IInv
      OBVIOUS
    <2> USE TimingAssumption DEF Init, Picture
    <2>1. TypeOK
      <3>1. todo \in Rests /\ buffer \in Buffers /\ index \in 0..LargestWord
        BY Rest, RingSize, IndexInRing, CounterAssumption DEF Buffers
      <3>2. tiles \in [Buffers -> Texts] /\ map \in [PlaceSet -> Entries] /\ shown \in [PlaceSet -> Entries]
        BY DEF Texts, Entries
      <3> QED BY <3>1, <3>2, PlacesAssumption DEF TypeOK
    <2>2. Jobs /\ InTime
      BY DEF Jobs, InTime
    <2>3. Whole
      BY TextWhole DEF Whole
    <2>4. Ring
      BY DEF Ring, Writing, Names
    <2> QED BY <2>1, <2>2, <2>3, <2>4 DEF IInv
  <1>2. IInv /\ [Next]_vars => IInv'
    BY TypeStep, JobsStep, TimeStep, WholeStep, RingStep DEF IInv
  <1> QED BY <1>1, <1>2, PTL DEF Spec

\* Whatever screen, ring and lines: every variable keeps its type, and the
\* counter of the ring always gives a part that exists, whatever it held.
THEOREM TypeCorrect == Spec => []TypeOK
  <1>1. IInv => TypeOK
    BY DEF IInv
  <1> QED BY <1>1, Invariance, PTL

\* vsync.asm:3-7: no transfer reaches into the picture, for any lines that fit
\* the assumption.
THEOREM TornCorrect == Spec => []NoTornFrame
  <1>1. IInv => NoTornFrame
    BY DEF IInv, InTime, Ends, Whole, NoTornFrame, Drawing
  <1> QED BY <1>1, Invariance, PTL

\* macros.asm:8-9: what the picture shows is the text it was entered with, for
\* any places and any ring, until the page was redrawn as often as the ring has
\* room for.
THEOREM TogetherCorrect == Spec => []Together
  <1>1. IInv => Together
    BY DEF IInv, Ring, Names, Together
  <1> QED BY <1>1, Invariance, PTL
=============================================================================
