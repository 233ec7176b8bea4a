----------------------------- MODULE ScriptText -----------------------------
(***************************************************************************)
(* One block of translated text: how script-encoder.cpp turns it into      *)
(* bytes, and how the game (chapter-large.asm, field-large.asm) turns the  *)
(* bytes into lines on the screen.                                         *)
(*                                                                         *)
(* A text is the sequence of its items, [op, arg]: what TextEncoder::read  *)
(* returns.  Styles and colours are one op, "format"; kerning and the      *)
(* widths of the italic font are left out: a character has one width.      *)
(***************************************************************************)
EXTENDS ScriptPointers

CONSTANTS
    Width,          \* the pixels of a character, by its code
    LineWidth,      \* 240
    Dynamic,        \* the names the player chooses: indices into Names
    NameWidth,      \* 66: "maximum dynamic name length"
    OptionSkip,     \* 12
    Digit,          \* 128: the digits of a redirect stay below the commands
    Apostrophe, S   \* the codes of ' and s

Sum(f(_), s) == FoldLeft(LAMBDA a, x : a + f(x), 0, s)

\* The pixels of a string of characters.
StringWidth(codes) == Sum(LAMBDA c : Width[c], codes)

-----------------------------------------------------------------------------
(* The encoder *)

\* The bytes of an item.
ItemBytes(item) ==
    CASE item.op \in {"char", "format"} -> <<item.arg>>
      [] item.op = "name" -> <<Name, item.arg>>
      [] item.op = "skip" -> <<Skip, item.arg % 256>>
      [] item.op = "option" -> <<Skip, OptionSkip>>
      [] item.op = "pause" -> <<Pause, item.arg>>
      [] item.op = "wait" -> <<Wait>>
      [] item.op = "left" -> <<Left>>
      [] item.op = "center" -> <<Center>>
      [] item.op = "right" -> <<Right>>
      [] item.op = "linefeed" -> <<LineFeed>>

EncodedText(text, terminal) ==
    FlattenSeq([i \in DOMAIN text |-> ItemBytes(text[i])]) \o <<terminal>>

\* The rest of the line from item i on.
LineFrom(text, i) ==
    LET feeds == {j \in i .. Len(text) : text[j].op = "linefeed"}
    IN  SubSeq(text, i, IF feeds = {} THEN Len(text) ELSE Min(feeds) - 1)

\* A mutant: the width of a name is not counted.
ItemWidthUnnamed(names, item) ==
    CASE item.op = "char" -> Width[item.arg]
      [] item.op = "skip" -> item.arg
      [] OTHER -> 0

\* What an item adds to a line; a dynamic name as much as it may.
ItemWidth(names, item) ==
    CASE item.op = "char" -> Width[item.arg]
      [] item.op = "skip" -> item.arg
      [] item.op = "name" -> IF item.arg \in Dynamic THEN NameWidth ELSE StringWidth(names[item.arg])
      [] OTHER -> 0

\* ScriptEncoder::lineWidth(): here, unlike in encodeScript, an option counts.
\* It gives up on a line that is aligned again.
Measured(names, line) ==
    Sum(LAMBDA item : IF item.op = "option" THEN OptionSkip ELSE ItemWidth(names, item), line)

Measurable(line) == \A i \in DOMAIN line : line[i].op \notin {"left", "center", "right"}

\* x is unsigned: what falls below zero is beyond any line.
Beyond == 10 * LineWidth
Unsigned(x) == IF x < 0 THEN Beyond ELSE x

\* x behind item i, an alignment.
Aligned(names, text, i, x) ==
    LET rest == LineFrom(text, i + 1)
        room == LineWidth - Measured(names, rest)
    IN  CASE text[i].op = "left" -> 0
          [] ~Measurable(rest) -> x
          [] text[i].op = "center" -> IF room < 0 THEN Beyond ELSE room \div 2
          [] OTHER -> Unsigned(room)

\* x behind the first i items of a text.
XAfter(names, text) ==
    LET x[i \in 0 .. Len(text)] ==
          IF i = 0 THEN 0
          ELSE CASE text[i].op = "linefeed" -> 0
                 [] text[i].op \in {"left", "center", "right"} -> Aligned(names, text, i, x[i - 1])
                 [] OTHER -> x[i - 1] + ItemWidth(names, text[i])
    IN  x

Unchecked == {"linefeed", "format", "pause", "wait", "left", "center", "right"}

\* "overflow detected": the encoder stops.
Overflows(names, text) ==
    \E i \in DOMAIN text : text[i].op \notin Unchecked /\ XAfter(names, text)[i] > LineWidth

-----------------------------------------------------------------------------
(* The game *)

\* chapter.initialize.name, field.decode.name: the name in place of the two
\* bytes of the command, and after it "'s", or "'" when the name ends with s.
\* The number of bytes taken, and the text put there.
Named(names, bytes, i) ==
    LET name == names[bytes[i + 1]]
        next(k) == IF i + k \in DOMAIN bytes THEN bytes[i + k] ELSE Terminal
    IN  IF next(2) # Apostrophe THEN [taken |-> 2, text |-> name]
        ELSE IF next(3) # S THEN [taken |-> 3, text |-> Append(name, Apostrophe)]
        ELSE [taken |-> 4,
              text |-> name \o IF Last(name) = S THEN <<Apostrophe>> ELSE <<Apostrophe, S>>]

\* The bytes a script takes in memory; the contents of script.bin follow.
Region == 256

\* redirection.enable: the address of the three digits behind the command.
AddressIn(memory, a) ==
    LET digit(i) == IF a + i \in DOMAIN memory THEN memory[a + i] ELSE Terminal
    IN  Region + digit(1) + Digit * digit(2) + Digit * Digit * digit(3)

\* decode / initialize: reads the bytes of the memory from address a on, where
\* the text of a script is and then what it is redirected to, up to an end.
\* The memory of a script and the text at $f2:0000 are one sequence.
Decode(names, mode, memory, start) ==
    LET read[a \in Nat] ==
          IF a \notin DOMAIN memory THEN <<Terminal>>
          ELSE CASE memory[a] = Name /\ a + 1 \in DOMAIN memory ->
                      LET n == Named(names, memory, a) IN n.text \o read[a + n.taken]
                 [] memory[a] = Redirect -> read[AddressIn(memory, a)]
                 [] memory[a] \in Ends(mode) -> <<memory[a]>>
                 [] OTHER -> <<memory[a]>> \o read[a + 1]
    IN  read[start]

\* Which bytes are the argument of the one before.
Arguments(text) ==
    LET arg[i \in 0 .. Len(text)] == i > 1 /\ ~arg[i - 1] /\ text[i - 1] \in {Skip, Pause}
    IN  {i \in DOMAIN text : arg[i]}

Pixels(text, i) ==
    IF i \in Arguments(text) THEN IF text[i - 1] = Skip THEN text[i] ELSE 0
    ELSE IF text[i] < 240 THEN Width[text[i]] ELSE 0

\* render.large.width: the pixels from position i up to the next wait, line feed
\* or terminal.
WidthFrom(text, i) ==
    LET end == Min({j \in i .. Len(text) : text[j] >= Wait /\ j \notin Arguments(text)})
    IN  Sum(LAMBDA j : Pixels(text, j), [k \in 1 .. end - i |-> i + k - 1])

\* align.center and align.right
Align(text, i) ==
    LET width == WidthFrom(text, i + 1)
    IN  CASE width > LineWidth -> 0
          [] text[i] = Center -> (LineWidth + 1 - width) \div 2
          [] OTHER -> LineWidth - width

\* The pixel reached behind each byte of a decoded text; a character that does
\* not fit is drawn no more, and the pixel stays at the end of the line.
PixelAfter(text) ==
    LET pixel[i \in 0 .. Len(text)] ==
          IF i = 0 THEN 0
          ELSE LET p == pixel[i - 1] + Pixels(text, i)
               IN  CASE i \in Arguments(text) -> p
                     [] text[i] \in {LineFeed, Left} -> 0
                     [] text[i] \in {Center, Right} -> Align(text, i)
                     [] OTHER -> IF text[i] < 240 THEN Min({p, LineWidth}) ELSE p
    IN  pixel

\* Some character of the text is cut off.
Clipped(text) ==
    \E i \in DOMAIN text : /\ i \notin Arguments(text) /\ text[i] < 240
                           /\ PixelAfter(text)[i - 1] + Pixels(text, i) > LineWidth
=============================================================================
