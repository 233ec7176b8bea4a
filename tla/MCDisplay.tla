----------------------------- MODULE MCDisplay ------------------------------
(* Two places, each with two texts in the ring, and a short pause behind a
   short picture: a transfer that begins in the last line that is not too late
   ends in the last line there is. *)
EXTENDS Display

MCPlaces == <<"name", "level">>

\* The lines of the console, of 1 KB (7) and of 2 KB (13), fit the assumption.
ASSUME LinesOfTheConsole ==
       /\ 253 - 1 + 2 + 7 < 262
       /\ 225 + 20 + 2 + 14 < 262
=============================================================================
