------------------------------- MODULE MCBeat -------------------------------
(* Short files over two bytes, one of which looks like the end of a number,  *)
(* and a few pairs that are long enough for the table to pass factors on, for *)
(* the names of pieces to repeat, or for lengths and distances to overflow.  *)
EXTENDS Beat

FileByte == {1, 6}

Short(n) == UNION {[1 .. k -> FileByte] : k \in 0 .. n}
Exact(n) == [1 .. n -> FileByte]

Long == {<< <<1, 1, 1, 1, 1, 1, 1>>, <<1, 1, 1, 1, 1, 1, 1>> >>,
         << <<6>>, <<1, 1, 1, 1, 1, 1, 1>> >>,
         << <<1, 6, 6, 6, 1, 1>>, <<1, 1, 1, 6>> >>,
         << <<6, 6, 1, 1, 1, 6, 6>>, <<6, 6, 6, 6, 1, 1, 1>> >>,
         << <<1, 6>>, <<6, 6, 1, 1, 1, 6, 6>> >>,
         << <<1, 6, 1, 1, 6>>, <<1, 6, 1>> >>,
         << <<>>, <<1, 1, 6, 1, 1, 6, 6>> >>, << <<>>, <<6, 1, 1, 6, 6, 1, 6>> >>,
         << <<6, 1, 6, 1, 6, 6>>, <<6, 1, 6, 1>> >>, << <<1>>, <<6, 1, 6, 6, 1, 6, 1>> >>}

MCPairs == (Short(2) \X Short(4)) \cup (Exact(3) \X Exact(4)) \cup Long
MCOthers == {<<1>>, <<6, 1>>, <<1, 1, 6>>}
=============================================================================
