------------------------------- MODULE Paths -------------------------------
(***************************************************************************)
(* Path algebra of reloc-fixup (pkgs/ji/jig/src/fixup_mode.cc, store.cc).  *)
(* An absolute path is the sequence of its components, already normal: no  *)
(* "." and no ".." (the code calls lexically_normal() before it compares). *)
(* A reference is what a binary holds: an anchor, the number of ".." that  *)
(* follow it, and the components after those.                              *)
(*   "abs"    an absolute path              down = the path, up = the      *)
(*                                          bytes of a "/." behind it, or 0*)
(*   "origin" $ORIGIN or @loader_path       relative to the file's dir     *)
(*   "rpath"  Mach-O @rpath/<down>                                         *)
(*   "pad"    the "/____" RUNPATH element   up = its bytes, down = <<>>    *)
(***************************************************************************)
EXTENDS Integers, Sequences

CONSTANT StoreDir           \* JIG_STORE_DIR, as a path

HasPrefix(p, q) == Len(q) <= Len(p) /\ SubSeq(p, 1, Len(q)) = q
Below(p, q) == SubSeq(p, Len(q) + 1, Len(p))
Dir(p) == SubSeq(p, 1, Len(p) - 1)
Base(p) == p[Len(p)]

Abs(p) == [anchor |-> "abs", up |-> 0, down |-> p]

IsStorePath(p) == Len(p) > Len(StoreDir) /\ HasPrefix(p, StoreDir)

(* How many leading components two paths share. *)
CommonLen(p, q) ==
  CHOOSE n \in 0..Len(p) :
     /\ n <= Len(q) /\ SubSeq(p, 1, n) = SubSeq(q, 1, n)
     /\ n < Len(p) /\ n < Len(q) => p[n + 1] # q[n + 1]

(* RelativeTo(dir, target, anchor): target.lexically_relative(dir).        *)
RelativeToDirty(dir, target) ==
  LET n == CommonLen(dir, target)
  IN  [anchor |-> "origin", up |-> Len(dir) - n - 1,
       down |-> SubSeq(target, n + 1, Len(target))]

RelativeTo(dir, target) ==
  LET n == CommonLen(dir, target)
  IN  [anchor |-> "origin", up |-> Len(dir) - n,
       down |-> SubSeq(target, n + 1, Len(target))]

(* dir / ref, lexically normal: what the kernel opens for a relative path  *)
(* when no component of it is a symbolic link.                             *)
Follow(dir, ref) ==
  IF ref.anchor = "abs" THEN ref.down
  ELSE SubSeq(dir, 1, Len(dir) - ref.up) \o ref.down

(* FixupContext::Final, OnDisk: prefix/x is dest/x once installed.         *)
Final(ctx, p) ==
  IF HasPrefix(p, ctx.prefix) THEN ctx.dest \o Below(p, ctx.prefix) ELSE p
OnDisk(ctx, p) ==
  IF HasPrefix(p, ctx.dest) THEN ctx.prefix \o Below(p, ctx.dest) ELSE p
=============================================================================
