------------------------------ MODULE MCSlots ------------------------------
(* Builds x and y share two slots.  x runs up to three compilers at once, *)
(* one of which may be started by another; y runs one at a time.          *)
EXTENDS Slots

CONSTANTS x1, x2, xn, y1, x, y

MCClients == {x1, x2, xn, y1}
MCBuilds == {x, y}
MCBuildOf == [c \in MCClients |-> IF c = y1 THEN y ELSE x]
MCNests == {<<x1, xn>>}
============================================================================
