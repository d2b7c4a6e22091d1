---------------------------- MODULE MCSlotsLive ----------------------------
(* One slot, two builds: a compiler of x with a nested one, against y.      *)
EXTENDS Slots

CONSTANTS x1, xn, y1, x, y

MCClients == {x1, xn, y1}
MCBuilds == {x, y}
MCBuildOf == [c \in MCClients |-> IF c = y1 THEN y ELSE x]
MCNests == {<<x1, xn>>}
============================================================================
