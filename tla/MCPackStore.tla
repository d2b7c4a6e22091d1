---------------------------- MODULE MCPackStore ----------------------------
(* Two tiers and packs of three units, one key with small and one with large *)
(* records; both budgets are small enough for packs to be demoted and       *)
(* evicted.                                                                  *)
EXTENDS PackStore

CONSTANTS k1, k2

MCKeys == {k1, k2}
MCBytes == [k \in MCKeys |-> IF k = k1 THEN 1 ELSE 2]
MCTiers == 1..2
MCBudget == <<3, 2>>

\* A store that has gone on without a pack it could not load is followed until it
\* stops, and without a loss of power before: the promises are void from there on.
Followed == skipped => main # "down" /\ outages = 0
============================================================================
