--------------------------- MODULE MCCompileCache ---------------------------
(* A source that includes a.h, searched in the build tree and in two store   *)
(* roots; if a.h has the text c2 it includes b.h, which the build generates, *)
(* and b.h with the text c2 is a #error.  To rustc the two local files are   *)
(* a.rs and a/mod.rs, and a module with the text c2 has an env!().  A plain  *)
(* .s has an .include of the first.                                          *)
EXTENDS CompileCache, TLC

CONSTANTS b1, b2, c1, c2, s1, s2, localA, localB, storeA1, storeA2, env

MCPaths == {localA, localB, storeA1, storeA2, env}
MCStorePaths == {storeA1, storeA2}
MCEnvVars == {env}
MCMask == [p \in MCPaths |-> p]

\* The first root lacks a.h in every build; the second has one or the other text.
MCSameListing == {[p \in MCStorePaths |-> IF p = storeA1 THEN Absent ELSE c] : c \in {c1, c2}}
\* A rebuilt first root may have gained one.
MCAnyListing == MCSameListing \cup {[p \in MCStorePaths |-> c1]}

MCSearch == <<localA, storeA1, storeA2>>

MCStepCc(h) ==
  LET n == Len(h)
  IN IF n = 0 THEN localA
     ELSE IF h[n].path = localB
          THEN CASE h[n].id = Absent -> "notfound" [] h[n].id = c1 -> "ok" [] OTHER -> "error"
     ELSE IF h[n].id = Absent THEN IF n < 3 THEN MCSearch[n + 1] ELSE "notfound"
     ELSE IF h[n].id = c1 THEN "ok" ELSE localB

MCStepRustc(h) ==
  LET n == Len(h)
  IN CASE n = 0 -> localA
       [] n = 1 /\ h[1].id = Absent -> localB
       [] n = 2 /\ h[2].path = localB /\ h[2].id = Absent -> "notfound"
       [] n > 0 /\ h[n].id = c2 /\ h[n].path # env -> env
       [] OTHER -> "ok"

MCStepAsm(h) == IF h = <<>> THEN localA ELSE IF h[1].id = Absent THEN "error" ELSE "ok"

MCStep(m, s, h) ==
  CASE m = "rustc" -> MCStepRustc(h) [] m = "asm" -> MCStepAsm(h) [] OTHER -> MCStepCc(h)

\* What is followed: the mode is part of the key, so invocations of different modes
\* have nothing in common; and what a compiler never looks up does not matter to it.
MCLooksUp(m) ==
  CASE m = "asm" -> {localA} [] m = "rustc" -> {localA, localB, env} [] OTHER -> MCPaths \ {env}

Followed ==
  \A b \in Builds : inv[b].mode # "none" =>
    /\ \A c \in Builds : inv[c].mode \in {inv[b].mode, "none"}
    /\ \A r \in cache : r.slot = "m" => r.key.mode = inv[b].mode
    /\ \A p \in MCPaths \ MCLooksUp(inv[b].mode) : view[b][p] = IF p = storeA2 THEN c1 ELSE Absent

MCSymmetry == Permutations(Builds)
=============================================================================
