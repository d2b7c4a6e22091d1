---------------------------- MODULE SlotService ----------------------------
(* What jigd's slots promise to whoever asks for one: a token at once if one *)
(* is free and nobody waits, else the token of somebody who returns one.     *)
(* Nobody waits while a token is free, and a returned token that somebody    *)
(* waits for is never idle in between.                                       *)
EXTENDS Integers, FiniteSets

CONSTANTS Clients, Limit

VARIABLES
  want,   \* who waits
  has     \* who has a token

Init == want = {} /\ has = {}

Request(c) ==
  /\ c \notin want \cup has
  /\ IF Cardinality(has) < Limit /\ want = {}
     THEN has' = has \cup {c} /\ UNCHANGED want
     ELSE want' = want \cup {c} /\ UNCHANGED has

Free(c) ==
  /\ c \in has
  /\ IF want = {}
     THEN has' = has \ {c} /\ UNCHANGED want
     ELSE \E d \in want : has' = (has \ {c}) \cup {d} /\ want' = want \ {d}

\* A new daemon knows of nobody.
Forget == want' = {} /\ has' = {}

Next == (\E c \in Clients : Request(c) \/ Free(c)) \/ Forget

Spec == Init /\ [][Next]_<<want, has>>
============================================================================
