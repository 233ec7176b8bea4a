------------------------------ MODULE NameBook ------------------------------
(***************************************************************************)
(* What a player expects of the names: those of the saved game are there   *)
(* when it is loaded, the one typed on the name screen is the one the game *)
(* uses from then on, and nothing else changes any.  It says nothing of    *)
(* bytes, limits or tiles.                                                 *)
(***************************************************************************)
EXTENDS Integers, Sequences

CONSTANTS
  Indices,      \* the names there are
  Letters       \* what a name is made of

VARIABLES
  running,      \* a game is being played
  name,         \* the names it uses
  typing,       \* << >>, or the index and the text on the name screen
  saved         \* the names of the saved game

vars == <<running, name, typing, saved>>

Nameless == [i \in Indices |-> << >>]

Init ==
  /\ running = FALSE
  /\ name = Nameless
  /\ typing = << >>
  /\ saved \in [Indices -> Seq(Letters)]

\* The saved game is loaded.
Begin ==
  /\ ~running
  /\ running' = TRUE
  /\ name' = saved
  /\ UNCHANGED <<typing, saved>>

\* The console is reset, or the title screen comes back.
Quit ==
  /\ running' = FALSE
  /\ name' = Nameless
  /\ typing' = << >>
  /\ UNCHANGED saved

SaveGame ==
  /\ running
  /\ saved' = name
  /\ UNCHANGED <<running, name, typing>>

\* The name screen opens with the present name.
Open ==
  /\ running /\ typing = << >>
  /\ \E i \in Indices : typing' = <<i, name[i]>>
  /\ UNCHANGED <<running, name, saved>>

\* A letter more.
Key ==
  /\ typing # << >>
  /\ \E c \in Letters : typing' = <<typing[1], Append(typing[2], c)>>
  /\ UNCHANGED <<running, name, saved>>

\* A letter less.
Rub ==
  /\ typing # << >> /\ typing[2] # << >>
  /\ typing' = <<typing[1], SubSeq(typing[2], 1, Len(typing[2]) - 1)>>
  /\ UNCHANGED <<running, name, saved>>

Accept ==
  /\ typing # << >>
  /\ name' = [name EXCEPT ![typing[1]] = typing[2]]
  /\ typing' = << >>
  /\ UNCHANGED <<running, saved>>

Next == Begin \/ Quit \/ SaveGame \/ Open \/ Key \/ Rub \/ Accept

Spec == Init /\ [][Next]_vars
=============================================================================
