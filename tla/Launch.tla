------------------------------- MODULE Launch -------------------------------
(***************************************************************************)
(* The launcher behind every wrapped program (pkgs/la/launch/src/launch.cc,*)
(* the POSIX half): it finds which bin/<name> it was started as through a  *)
(* chain of symbolic links, reads that program's record and execs it.      *)
(*                                                                         *)
(* A world is [links, dirs, files, recs]: the symbolic links to files      *)
(* (path -> reference), the symbolic links to directories (path -> path),  *)
(* the files, and the records by the path of the program they are for.     *)
(***************************************************************************)
EXTENDS Paths, SequencesExt

CONSTANT MaxHops      \* kMaxHops

Failed == [ok |-> FALSE]      \* Die(): exit 127

(* Canonical(dir) / name: the kernel resolves directory links on the way   *)
Canonical(world, d) ==
  LET via == {l \in DOMAIN world.dirs : HasPrefix(d, l)}
  IN  IF via = {} THEN d ELSE LET l == CHOOSE k \in via : TRUE IN world.dirs[l] \o Below(d, l)
At(world, p) == Canonical(world, Dir(p)) \o <<Base(p)>>

(* external: access(X_OK), which follows links to a file                   *)
RECURSIVE Reaches(_, _, _)
Reaches(world, p, hops) ==
  LET here == At(world, p)
  IN  \/ here \in world.files
      \/ /\ hops > 0 /\ here \in DOMAIN world.links
         /\ Reaches(world, Follow(Dir(here), world.links[here]), hops - 1)

(* Argv0Path: as given, or the first PATH directory that has it            *)
Argv0Path(world, argv0, path) ==
  IF Len(argv0) > 1 THEN argv0
  ELSE LET at == SelectInSeq(path, LAMBDA d : Reaches(world, d \o argv0, MaxHops))
       IN  IF at = 0 THEN <<>> ELSE path[at] \o argv0

(* InvokedPath: hop by hop to the link whose target is named "launch"      *)
RECURSIVE Hop(_, _, _)
Hop(world, cur, hop) ==
  LET here == At(world, cur)
  IN  IF hop = MaxHops \/ here \notin DOMAIN world.links THEN <<>>
      ELSE IF Base(world.links[here].down) = "launch" THEN here
      ELSE Hop(world, Follow(Dir(here), world.links[here]), hop + 1)

InvokedPathDirty(world, argv0, path) ==
  LET start == Argv0Path(world, argv0, path)
  IN  IF start = <<>> \/ Hop(world, start, 0) = <<>> THEN <<>> ELSE start

InvokedPath(world, argv0, path) ==
  LET start == Argv0Path(world, argv0, path)
  IN  IF start = <<>> THEN <<>> ELSE Hop(world, start, 0)

(* Expand: a template is [var, rest], var "" for literal text              *)
ExpandText(t, ctx) ==
  CASE t.var = "root"  -> ctx.root \o t.rest
    [] t.var = "store" -> ctx.store \o t.rest
    [] t.var = "self"  -> ctx.self
    [] t.var = "argv0" -> ctx.argv0
    [] OTHER           -> t.rest
StringList(ts, ctx) == [i \in DOMAIN ts |-> ExpandText(ts[i], ctx)]

(* ApplyEnv: the operations of one variable, in the order of the JSON      *)
(* object's keys. A variable is [set, val], val the list of its parts.     *)
ApplyOp(cur, op, parts) ==
  CASE op = "unset"   -> [set |-> FALSE, val |-> <<>>]
    [] op = "set"     -> [set |-> TRUE, val |-> parts]
    [] op = "default" -> IF cur.set THEN cur ELSE [set |-> TRUE, val |-> parts]
    [] op = "prepend" -> [set |-> TRUE, val |-> parts \o cur.val]
    [] op = "append"  -> [set |-> TRUE, val |-> cur.val \o parts]
ApplyEnv(cur, spec, ctx) ==
  FoldLeft(LAMBDA acc, op : IF op \in DOMAIN spec THEN ApplyOp(acc, op, StringList(spec[op], ctx)) ELSE acc,
           cur, <<"append", "default", "prepend", "set", "unset">>)

(* main: what is exec'd, with which arguments and environment.             *)
Exec(rec, ctx, prog, args, env) ==
  [ok |-> TRUE, program |-> prog,
   argv |-> <<IF rec.argv0 = <<>> THEN prog ELSE ExpandText(rec.argv0[1], ctx)>>
              \o StringList(rec.args, ctx) \o args,
   env |-> [v \in DOMAIN env |->
              IF v \in DOMAIN rec.env THEN ApplyEnv(env[v], rec.env[v], ctx) ELSE env[v]]]
RunRecord(world, rec, ctx, args, env) ==
  IF ~rec.ok \/ ExpandText(rec.program, ctx) \notin world.files THEN Failed
  ELSE Exec(rec, ctx, ExpandText(rec.program, ctx), args, env)
RunAs(world, self, argv0, args, env) ==
  IF self = <<>> \/ self \notin DOMAIN world.recs THEN Failed
  ELSE RunRecord(world, world.recs[self],
         [self |-> self, root |-> Dir(Dir(self)), store |-> Dir(Dir(Dir(self))), argv0 |-> argv0], args, env)
RunLaunch(world, argv0, args, env) ==
  RunAs(world, InvokedPath(world, argv0, env["PATH"].val), argv0, args, env)
=============================================================================
