---------------------------- MODULE MCBassControl ----------------------------
(* The programs of the run of BassControl. *)
EXTENDS BassControl

CONSTANT MaxLength, MaxStray

On(op, n) == [op |-> op, name |-> n, level |-> "active", list |-> <<>>]
With(list, s) == [s EXCEPT !.list = list]
To(level, s) == [s EXCEPT !.level = level]

Opens == {On("macro", "m"), On("inline", "n"), On("namespace", "s"),
          On("if", "s"), On("while", "s")}
Calls == {On("call", "m"), On("call", "n")}
Close == On("}", "s")

\* The well-formed statements ("item"), else parts ("tail") and bodies of each
\* length.
Text[kind \in {"item", "tail", "body"}, k \in 0 .. MaxLength] ==
    CASE kind = "body" ->
           IF k = 0 THEN {<<>>}
           ELSE UNION {{x \o y : x \in Text["item", i], y \in Text["body", k - i]} : i \in 1 .. k}
      [] kind = "tail" ->
           (IF k = 1 THEN {<<Close>>} ELSE {}) \cup
           UNION {{<<On("else", "s")>> \o x \o <<Close>> : x \in Text["body", i]} :
                    i \in {i \in 0 .. k : i = k - 2}} \cup
           UNION {{<<On("else if", "s")>> \o x \o y :
                     x \in Text["body", i], y \in Text["tail", k - 1 - i]} : i \in 0 .. k - 2}
      [] kind = "item" ->
           (IF k = 1 THEN {<<c>> : c \in Calls} ELSE {}) \cup
           UNION {{<<o>> \o x \o <<Close>> : o \in Opens \ {On("if", "s")}, x \in Text["body", i]} :
                    i \in {i \in 0 .. k : i = k - 2}} \cup
           UNION {{<<On("if", "s")>> \o x \o y :
                     x \in Text["body", i], y \in Text["tail", k - 1 - i]} : i \in 0 .. k - 2}

\* A macro or inline m with parameters, called from another, n: what the names
\* of its arguments mean before, what it declares or assigns, and whom it tells.
Before == {<<>>, <<On("variable", "a")>>, <<On("variable", "a"), On("variable", "b")>>,
           <<On("variable", "a"), On("namespace", "m"), On("variable", "a"), Close>>}
Bodies == {<<>>} \cup {<<s>> : s \in {On("assign", "a"), On("variable", "b"),
                                    To("parent", On("variable", "b")),
                                    To("global", On("variable", "a"))}}
Uses(call) == {<<call>>, <<call, call>>, <<On("variable", "a"), call>>,
               <<On("namespace", "s"), call, Close>>}

MacrosWith(parameters) ==
    {before \o <<With(parameters, On(inner, "m"))>> \o body \o <<Close, On(outer, "n")>>
       \o use \o <<Close, On("call", "n")>> :
       before \in Before, body \in Bodies, inner \in Macros, outer \in Macros,
       use \in UNION {Uses(With(arguments, On("call", "m"))) :
                       arguments \in [DOMAIN parameters -> {"a", "b"}]}}

\* All well-formed programs up to MaxLength, everything else up to MaxStray,
\* and the macros with parameters.
ControlPrograms ==
    UNION {Text["body", k] : k \in 1 .. MaxLength} \cup
    UNION {[1 .. k -> Opens \cup Calls \cup {Close, On("{", "s"), On("other", "s"),
                                         On("else if", "s"), On("else", "s")}] :
             k \in 1 .. MaxStray} \cup
    UNION {MacrosWith(parameters) : parameters \in {<<"b">>, <<"a", "b">>}}
=============================================================================
