---------------------------- MODULE MCBassPhases ----------------------------
(* Statement alphabets for the runs of BassPhases. *)
EXTENDS BassPhases

Number(v) == [kind |-> "number", value |-> v, name |-> "A"]
Name(n)   == [kind |-> "name",   value |-> 0, name |-> n]
Call(n)   == [kind |-> "call",   value |-> 0, name |-> n]
PcCall    == [kind |-> "pc",     value |-> 0, name |-> "A"]
Rel(k)    == [kind |-> k,        value |-> 0, name |-> "A"]

Line(o, n, x) == [op |-> o, name |-> n, e |-> x, at |-> 0, file |-> NoFile,
                  cond |-> Number(1)]
If(x, s)      == [s EXCEPT !.cond = x]
To(f, s)      == [s EXCEPT !.file = f]

\* Forward and backward references where they move the layout, and where they
\* do not.
LayoutStatements ==
    {Line("label", "A", Number(0)), Line("constant", "A", Name("B")),
     Line("constant", "B", Number(2)), Line("variable", "B", PcCall),
     Line("-", "A", Number(0)), Line("+", "A", Number(0)),
     Line("origin", "A", Name("A")), Line("base", "A", Number(1)),
     Line("ds", "A", Rel("-")), Line("d", "A", Rel("+")),
     Line("enqueue pc", "A", Number(0)), Line("dequeue pc", "A", Number(0)),
     If(Name("A"), Line("d", "A", Number(1))),
     If(Call("B"), Line("label", "A", Number(0)))}

\* Files: seeks, copies, several outputs and the tracker.
FileStatements ==
    {Line("d", "A", Number(1)), Line("fill", "A", Number(2)),
     Line("copy", "A", Number(1)), Line("origin", "A", Number(1)),
     Line("enqueue origin", "A", Number(0)), Line("dequeue origin", "A", Number(0)),
     Line("enqueue base", "A", Number(0)), Line("dequeue base", "A", Number(0)),
     To("f", Line("output", "A", Number(0))),
     To("g", Line("output create", "A", Number(0))),
     Line("tracker enable", "A", Number(0)), Line("tracker disable", "A", Number(0)),
     Line("tracker reset", "A", Number(0)), Line("error", "A", Number(0))}

AllStatements == LayoutStatements \cup FileStatements

\* A program is about its layout or about its files: a statement that moves to
\* both alphabets at once adds nothing and most of the programs.
OneAlphabet == \/ \A i \in DOMAIN program : program[i] \in LayoutStatements
               \/ \A i \in DOMAIN program : program[i] \in FileStatements
=============================================================================
