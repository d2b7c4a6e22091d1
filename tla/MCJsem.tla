------------------------------- MODULE MCJsem -------------------------------
(* One cabal build with ghcs that compile in parallel, and C compilers.      *)
EXTENDS Jsem

CONSTANTS n1, n2, n3, g1, g2, c1, c2

MCClients == Conns \cup Ccs
MCOwner == [c \in {c1, c2} |-> g1]
=============================================================================
