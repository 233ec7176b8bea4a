------------------------------- MODULE Names --------------------------------
(***************************************************************************)
(* The names the player gives (menu-names.asm) and the tiles they are      *)
(* drawn from (names.asm).                                                 *)
(*                                                                         *)
(* A name lives in three places: packed in work RAM, unpacked on the name  *)
(* screen while it is edited, and drawn in a cache in save RAM that the    *)
(* menus copy their tiles from.  The cache outlives a reset; work RAM does *)
(* not.  Saving, erasing a letter and going back to the title screen are   *)
(* code of the original game.                                              *)
(***************************************************************************)
EXTENDS Base56, TLC

CONSTANTS
  NameCount,            \* names in the table (10 in the game)
  CachedNames,          \* of which the cache holds the first (9)
  Players,              \* of which the first are people, the others dragons (2)
  Keys,                 \* the characters the name screen offers
  Defaults,             \* the names a new game may start with
  Width(_, _),          \* the small and the large font: the width of a character
  Kerning(_, _, _),     \* and what a pair of them overlaps
  MaxKeys               \* bound on the keys pressed

ASSUME CountAssumption ==
  /\ NameCount \in Nat \ {0} /\ CachedNames \in 0..NameCount /\ Players \in 0..CachedNames
  /\ MaxKeys \in Nat

ASSUME LetterAssumption ==
  /\ Keys \subseteq Alphabet
  /\ \A font \in {"small", "large"}, c \in Alphabet :
       Width(font, c) \in Int /\ \A b \in Alphabet : Kerning(font, b, c) \in Int

VARIABLES
  mode,         \* title, loading, play or entry
  table,        \* $7e2b00: the packed names
  at,           \* the next byte to be loaded
  cache,        \* names.buffer: what each name's tiles show
  entry,        \* $7e9e00: the text on the name screen
  which,        \* $ca: whose name it is
  length,       \* $cc: its length
  saved,        \* the packed names in the saved game
  keys          \* keys pressed so far (bound)

vars == <<mode, table, at, cache, entry, which, length, saved, keys>>

Indices == 0..NameCount - 1
Unrendered == <<Terminal>>      \* whatever save RAM held before
Filled == <<Word - 1, Word - 1, Word - 1, Word - 1>>

-----------------------------------------------------------------------------
(* Drawing. *)

\* render.small.width and render.large.width: each character starts where the
\* one before it ended, less what the pair overlaps; the first follows a space.
Pixels(font, text) ==
  LET pixel[n \in 0..Len(text)] ==
        IF n = 0 THEN 0
        ELSE pixel[n - 1] - Kerning(font, IF n = 1 THEN Space ELSE text[n - 1], text[n])
                          + Width(font, text[n])
  IN  pixel[Len(text)]

SmallPixels(text) == Pixels("small", text)
LargePixels(text) == Pixels("large", text)

\* render.small.bpp2: characters are drawn until one would end too far right.
Drawn(text, tiles) ==
  LET fits(n) == \A k \in 1..n : SmallPixels(SubSeq(text, 1, k)) <= 8 * tiles
      last == CHOOSE n \in 0..Len(text) :
                fits(n) /\ (n < Len(text) => ~fits(n + 1))
  IN  SubSeq(text, 1, last)

\* Text ends in the tiles, wherever it ends.
Fits(text, tiles) == \A k \in 1..Len(text) : SmallPixels(SubSeq(text, 1, k)) <= 8 * tiles

\* The names a new game may start with have been written to fit.
ASSUME DefaultsAssumption ==
  \A texts \in Defaults : \A i \in Indices :
    /\ texts[i] \in Seq(Alphabet) /\ Len(texts[i]) <= Characters
    /\ i < CachedNames => Fits(texts[i], 8)
    /\ i < Players => Fits(texts[i], 7)

\* A mutant: the name is drawn before it is stored.
RenderTooEarly(i, packed) ==
  IF i >= CachedNames THEN cache
  ELSE [cache EXCEPT ![i] = Drawn(TextOf(Decode(table[i])), 8)]

\* names.render: the name at index i, in eight tiles.  The last one is left out.
Render(i, packed) ==
  IF i >= CachedNames THEN cache
  ELSE [cache EXCEPT ![i] = Drawn(TextOf(Decode(packed)), 8)]

-----------------------------------------------------------------------------
(* The name screen. *)

\* decodeNameEntry: the name is unpacked when the screen opens.
OpenEntry ==
  /\ mode = "play"
  /\ mode' = "entry"
  /\ \E i \in Indices :
       LET chars == Decode(table[i]) IN
       /\ which' = i
       /\ entry' = chars
       /\ length' = Len(TextOf(chars))
  /\ UNCHANGED <<table, at, cache, saved, keys>>

\* A mutant: people's names may be as wide as dragons'.
SmallLimitOfDragons(i) == 60 + 1

\* Pixels a name may take on screens with the small font, shadow included.
SmallLimit(i) == IF i < Players THEN 52 + 1 ELSE 60 + 1

\* appendNameEntry: the name with the new character must fit in both fonts.
AppendEntry ==
  /\ mode = "entry" /\ keys < MaxKeys
  /\ keys' = keys + 1
  /\ length < Characters
  /\ \E c \in Keys :
       LET name == Append(TextOf(entry), c) IN
       IF LargePixels(name) < 66 + 1 /\ SmallPixels(name) < SmallLimit(which)
       THEN /\ entry' = [entry EXCEPT ![length] = c, ![length + 1] = Terminal]
            /\ length' = length + 1
       ELSE UNCHANGED <<entry, length>>
  /\ UNCHANGED <<mode, table, at, cache, which, saved>>

\* The original game takes back the last character.
EraseEntry ==
  /\ mode = "entry" /\ keys < MaxKeys
  /\ keys' = keys + 1
  /\ length > 0
  /\ entry' = [entry EXCEPT ![length - 1] = Terminal]
  /\ length' = length - 1
  /\ UNCHANGED <<mode, table, at, cache, which, saved>>

\* What is left in the screen's memory is not read again.
ClearEntry ==
  /\ entry' = [i \in 0..Characters |-> Terminal]
  /\ which' = 0
  /\ length' = 0

\* encodeNameEntry: the name is packed and drawn anew when it is confirmed.
ConfirmEntry ==
  /\ mode = "entry"
  /\ mode' = "play"
  /\ LET packed == Encode(entry) IN
       /\ table' = [table EXCEPT ![which] = packed]
       /\ cache' = Render(which, packed)
  /\ ClearEntry
  /\ UNCHANGED <<at, saved, keys>>

-----------------------------------------------------------------------------
(* Loading, and what the original game does around it. *)

StartLoading ==
  /\ mode = "title"
  /\ mode' = "loading"
  /\ at' = 0
  /\ UNCHANGED <<table, cache, entry, which, length, saved, keys>>

\* A mutant: the byte above is not separated from the one replaced.
StoreByteOver(n, b, value) ==
  [n EXCEPT ![b \div 2 + 1] = IF b % 2 = 0 THEN 256 * (@ \div 256) + value ELSE 256 * value + @]

\* Two bytes share a word.
StoreByte(n, b, value) ==
  [n EXCEPT ![b \div 2 + 1] =
     IF b % 2 = 0 THEN 256 * (@ \div 256) + value ELSE 256 * value + (@ % 256)]

\* names.load: every byte that is loaded passes here; a name is drawn when its
\* eighth byte has arrived.
Load ==
  /\ mode = "loading"
  /\ LET i == at \div 8
         stored == StoreByte(table[i], at % 8, Byte(saved[i], at % 8))
     IN  /\ table' = [table EXCEPT ![i] = stored]
         /\ cache' = IF at % 8 = 7 THEN Render(i, stored) ELSE cache
  /\ at' = at + 1
  /\ mode' = IF at' = 8 * NameCount THEN "play" ELSE "loading"
  /\ UNCHANGED <<entry, which, length, saved, keys>>

SaveGame ==
  /\ mode = "play"
  /\ saved' = table
  /\ UNCHANGED <<mode, table, at, cache, entry, which, length, keys>>

Title ==
  /\ mode = "play"
  /\ mode' = "title"
  /\ UNCHANGED <<table, at, cache, entry, which, length, saved, keys>>

\* reset.main: all of work RAM is filled; save RAM, and so the cache, is not.
Reset ==
  /\ mode # "title"
  /\ mode' = "title"
  /\ table' = [i \in Indices |-> Filled]
  /\ at' = 0
  /\ ClearEntry
  /\ UNCHANGED <<cache, saved, keys>>

-----------------------------------------------------------------------------
Init ==
  /\ mode = "title"
  /\ table = [i \in Indices |-> Filled]
  /\ entry = [i \in 0..Characters |-> Terminal]
  /\ cache = [i \in 0..CachedNames - 1 |-> Unrendered]
  /\ at = 0 /\ which = 0 /\ length = 0 /\ keys = 0
  /\ saved \in {[i \in Indices |-> ToolEncode(texts[i])] : texts \in Defaults}

Next ==
  \/ OpenEntry \/ AppendEntry \/ EraseEntry \/ ConfirmEntry
  \/ StartLoading \/ Load \/ SaveGame \/ Title \/ Reset

Spec == Init /\ [][Next]_vars

-----------------------------------------------------------------------------
(* Properties. *)

\* Every variable has its type; the name screen's text is always terminated at
\* its length, which the append routine relies on when it measures a copy that
\* ends at the terminator but stores at the length.
TypeOK ==
  /\ mode \in {"title", "loading", "play", "entry"}
  /\ \A i \in Indices : table[i] \in [1..4 -> 0..Word - 1] /\ saved[i] \in [1..4 -> 0..Word - 1]
  /\ at \in 0..8 * NameCount
  /\ DOMAIN cache = 0..CachedNames - 1
  /\ \A i \in 0..Characters : entry[i] \in 0..255
  /\ which \in Indices
  /\ length \in 0..Characters
  /\ mode = "entry" => length = Len(TextOf(entry))
  /\ keys \in 0..MaxKeys

Playing == mode \in {"play", "entry"}

\* What the menus copy from the cache is the name dialogue spells from the
\* table, from the moment its last byte was loaded and whatever the cache still
\* held of an earlier game, also after a reset between two bytes.
CacheFresh ==
  \A i \in 0..CachedNames - 1 :
    Playing \/ (mode = "loading" /\ at >= 8 * (i + 1))
      => cache[i] = Drawn(TextOf(Decode(table[i])), 8)

\* The names the tool packed and those the console packed are packed alike: the
\* divisions by 7 of one invert the products of the other.
SameEncoding ==
  Playing => \A i \in Indices : ToolEncode(TextOf(Decode(table[i]))) = table[i]

\* A name that was typed is drawn whole: in the eight tiles of the cache, and for
\* people also in the seven tiles most menus have for them.
DrawnWhole ==
  Playing =>
    \A i \in 0..CachedNames - 1 :
      LET name == TextOf(Decode(table[i])) IN
      /\ cache[i] = name
      /\ i < Players => Drawn(name, 7) = name

\* The names are the book of names a player expects: table, name screen and
\* saved game hold the names that were typed, packed and unpacked as they are.
Book == INSTANCE NameBook WITH
  Letters <- Keys \union UNION {UNION {Range(texts[i]) : i \in Indices} : texts \in Defaults},
  running <- Playing,
  name <- [i \in Indices |-> IF Playing THEN TextOf(Decode(table[i])) ELSE << >>],
  typing <- IF mode = "entry" THEN <<which, TextOf(entry)>> ELSE << >>,
  saved <- [i \in Indices |-> TextOf(Decode(saved[i]))]
ImplementsNameBook == Book!Spec
=============================================================================
