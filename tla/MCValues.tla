------------------------------ MODULE MCValues ------------------------------
(* Numbers at both sides of every boundary the code compares with, and one   *)
(* with a zero inside.                                                       *)
EXTENDS Values

Boundaries == {0, 9, 10, 99, 100, 305, 999, 1000, 9999, 10000, 65534, 65535}
=============================================================================
