------------------------------- MODULE Fixup -------------------------------
(***************************************************************************)
(* reloc-fixup (pkgs/ji/jig/src/fixup_mode.cc, elf_fixup.cc,               *)
(* macho_fixup.cc): rewrites every binary of an output tree so that it     *)
(* names other store objects only relative to itself.                      *)
(*                                                                         *)
(* An ELF image is what the code reads of it: NEEDED and vn_file strings,  *)
(* the RUNPATH elements (has_runpath FALSE without DT_RUNPATH), PT_INTERP  *)
(* (its text, the segment's size, its type), whether the entry stub is     *)
(* linked in and is the entry point, and whether a symbol name shares the  *)
(* RUNPATH's bytes. A Mach-O image is its path commands, the room before   *)
(* the first section, and its signature with the commands it was made for. *)
(***************************************************************************)
EXTENDS Driver, FiniteSets, FiniteSetsExt

CONSTANT Bytes(_)        \* the length of a path component

Soname(n) == [anchor |-> "soname", up |-> 0, down |-> <<n>>]

(* The bytes of a reference's text, and of a list joined by ":".           *)
PathLen(p) == FoldLeft(LAMBDA acc, c : acc + 1 + Bytes(c), 0, p)
TextLen(ref) ==
  CASE ref.anchor = "origin" -> 7 + 3 * ref.up + PathLen(ref.down)      \* $ORIGIN/../x
    [] ref.anchor = "rpath"  -> 6 + PathLen(ref.down)                   \* @rpath/x
    [] ref.anchor = "soname" -> PathLen(ref.down) - 1
    [] OTHER                 -> ref.up + PathLen(ref.down)
TextSize(refs) ==
  FoldLeft(LAMBDA acc, r : acc + TextLen(r), 0, refs) + (IF refs = <<>> THEN 0 ELSE Len(refs) - 1)
Mentions(refs, name) == \E i \in DOMAIN refs : Contains(refs[i].down, name)

(* ctx: [prefix, dest, own (the prefix's lib dirs), denied, tree, sdk],    *)
(* sdk <<>> or <<the libraries the SDK has a .tbd for>>                    *)
Exists(ctx, dir, n) == n \in LibsIn(dir) \/ (dir \o <<n>>) \in DOMAIN ctx.tree

---------------------------------------------------------------------------
(* What is read of a file: the dynamic section, whether a symbol's name    *)
(* lies inside the RUNPATH string, the entry stub, the load commands.      *)
ReadDynamic(im) == [has_runpath |-> im.has_runpath, needed |-> im.needed]
SymbolInside(im) == im.symbol
FindRelocStart(im) == im.stub # "none"
ReadLoadCommands(im) == [commands |-> im.cmds, room |-> im.room]

---------------------------------------------------------------------------
(* ELF: RUNPATH and NEEDED.                                                *)

RelativizeRunpathDirty(ctx, old, here) ==
  LET there == Final(ctx, here)
      dirOf(r) == IF r.anchor = "origin" THEN Follow(here, r) ELSE Final(ctx, r.down)
      inStore  == SelectSeq([i \in DOMAIN old |-> dirOf(old[i])], IsStorePath)
  IN  [i \in DOMAIN inStore |-> [entry |-> RelativeTo(there, inStore[i]),
                                 dir |-> OnDisk(ctx, inStore[i]), keep |-> TRUE]]
      \o [i \in DOMAIN ctx.own |-> [entry |-> RelativeTo(there, Final(ctx, ctx.own[i])),
                                    dir |-> ctx.own[i], keep |-> FALSE]]

(* RelativizeRunpath: [entry, dir, keep] for the elements that are in the  *)
(* store once installed, then the tree's own lib dirs.                     *)
RelativizeRunpath(ctx, old, here) ==
  LET there == Final(ctx, here)
      dirOf(r) == IF r.anchor = "origin" THEN Follow(there, r) ELSE Final(ctx, r.down)
      inStore  == SelectSeq([i \in DOMAIN old |-> dirOf(old[i])], IsStorePath)
  IN  [i \in DOMAIN inStore |-> [entry |-> RelativeTo(there, inStore[i]),
                                 dir |-> OnDisk(ctx, inStore[i]), keep |-> TRUE]]
      \o [i \in DOMAIN ctx.own |-> [entry |-> RelativeTo(there, Final(ctx, ctx.own[i])),
                                    dir |-> ctx.own[i], keep |-> FALSE]]

RenderRunpath(rp) ==
  FoldLeft(LAMBDA acc, d : IF d.keep /\ ~Contains(acc, d.entry) THEN Append(acc, d.entry) ELSE acc,
           <<>>, rp)

ServedByLast(ctx, rp, n) ==
  SelectLastInSeq(rp, LAMBDA d : Exists(ctx, d.dir, n))

(* The first RUNPATH directory that has a NEEDED library, 0 if none has.   *)
ServedBy(ctx, rp, n) ==
  SelectInSeq(rp, LAMBDA d : Exists(ctx, d.dir, n))

(* FixRunpath: [im, errors, ok]. A NEEDED a directory other than libc's    *)
(* serves is opened directly, and that directory leaves RUNPATH; when the  *)
(* strings do not fit where RUNPATH was, the names and directories stay.   *)
Wanted(needed) == {i \in DOMAIN needed : needed[i].anchor = "soname" /\ needed[i].down # <<"ld.so">>}
Direct(ctx, rp, by) == {i \in DOMAIN by : by[i] # 0 /\ ~Exists(ctx, rp[by[i]].dir, "libc")}
Target(rp, by, im, i) == [rp[by[i]].entry EXCEPT !.down = @ \o im.needed[i].down]
KeepWhere(rp, Test(_)) == RenderRunpath([j \in DOMAIN rp |-> [rp[j] EXCEPT !.keep = Test(j)]])
Lean(rp, by, direct) == KeepWhere(rp, LAMBDA j : rp[j].keep /\ ~\E i \in direct : by[i] = j)
Wide(rp, by, direct) == KeepWhere(rp, LAMBDA j : rp[j].keep \/ \E i \in direct : by[i] = j)
Fits(im, rp, by, direct) ==
  TextSize(Lean(rp, by, direct)) + MapThenSumSet(LAMBDA i : 1 + TextLen(Target(rp, by, im, i)), direct)
    <= TextSize(im.runpath)
Renamed(im, rp, by, direct) ==
  [im EXCEPT !.runpath = Lean(rp, by, direct),
             !.needed = [i \in DOMAIN @ |-> IF i \in direct THEN Target(rp, by, im, i) ELSE @[i]],
             !.vern = [i \in DOMAIN @ |-> IF i \in direct THEN Target(rp, by, im, i) ELSE @[i]]]
Rewritten(im, new, lost) ==
  IF new # im /\ (SymbolInside(im) \/ TextSize(new.runpath) > TextSize(im.runpath))
  THEN [im |-> im, errors |-> lost + 1, ok |-> FALSE]
  ELSE [im |-> new, errors |-> lost, ok |-> TRUE]
Rerouted(ctx, im, rp, by) ==
  LET direct == Direct(ctx, rp, by)
  IN  Rewritten(im,
        IF Fits(im, rp, by, direct) THEN Renamed(im, rp, by, direct)
        ELSE [im EXCEPT !.runpath = Wide(rp, by, direct)],
        Cardinality({i \in DOMAIN by : by[i] = 0}))
Served(ctx, im, rp) ==
  Rerouted(ctx, im, rp, [i \in Wanted(ReadDynamic(im).needed) |-> ServedBy(ctx, rp, im.needed[i].down[1])])
FixRunpath(ctx, here, im) ==
  IF ~ReadDynamic(im).has_runpath THEN [im |-> im, errors |-> 0, ok |-> TRUE]
  ELSE Served(ctx, im, RelativizeRunpath(ctx, im.runpath, here))

(* FixInterp: with the stub linked in, PT_INTERP becomes relative to the   *)
(* file (its text is without "$ORIGIN/", and a NUL follows it) and PT_NULL,*)
(* and the stub is the entry point.                                        *)
FixInterp(ctx, here, im) ==
  LET old == im.interp[1]
      neu == IF IsStorePath(old.down) THEN RelativeTo(Final(ctx, here), old.down) ELSE old
  IN  IF im.ptype # "interp" \/ ~FindRelocStart(im) THEN [im |-> im, errors |-> 0, ok |-> TRUE]
      ELSE IF neu # old /\ TextLen(neu) - 7 > im.isize THEN [im |-> im, errors |-> 1, ok |-> FALSE]
      ELSE [im |-> [im EXCEPT !.interp = <<neu>>, !.ptype = "null", !.entry = "stub"],
            errors |-> 0, ok |-> TRUE]

WithInterpDirty(ctx, path, im, r) ==
  IF ~r.ok THEN [im |-> im, errors |-> r.errors]
  ELSE LET i == FixInterp(ctx, Dir(path), r.im)
       IN  [im |-> i.im, errors |-> r.errors + i.errors]

(* FixElf: both, and the file is written only when both went well.         *)
WithInterp(ctx, path, im, r) ==
  IF ~r.ok THEN [im |-> im, errors |-> r.errors]
  ELSE LET i == FixInterp(ctx, Dir(path), r.im)
       IN  [im |-> IF i.ok THEN i.im ELSE im, errors |-> r.errors + i.errors]
FixElf(ctx, path, im) ==
  IF im.kind = "object" THEN [im |-> im, errors |-> 0]
  ELSE WithInterp(ctx, path, im, FixRunpath(ctx, Dir(path), im))

---------------------------------------------------------------------------
(* Mach-O: load commands.                                                  *)

IsSystemPath(ref) ==
  ref.anchor = "abs" /\ (HasPrefix(ref.down, <<"usr", "lib">>) \/ HasPrefix(ref.down, <<"System">>))

(* Resolve: where dyld finds the library of a load command once the tree   *)
(* is installed, <<>> when it would not.                                   *)
Resolve(ctx, here, ref) ==
  LET own == SelectSeq(ctx.own, LAMBDA d : Exists(ctx, d, Base(ref.down)))
      target ==
        CASE ref.anchor = "rpath"  -> IF own = <<>> THEN <<>> ELSE Final(ctx, own[1] \o ref.down)
          [] ref.anchor = "origin" -> Follow(here, ref)
          [] OTHER -> IF IsStorePath(Final(ctx, ref.down)) THEN Final(ctx, ref.down) ELSE <<>>
      disk == OnDisk(ctx, target)
  IN  IF IsSystemPath(ref) THEN IF ctx.sdk = <<>> \/ Base(ref.down) \in ctx.sdk[1] THEN ref.down ELSE <<>>
      ELSE IF target # <<>> /\ disk # target /\ ~Exists(ctx, Dir(disk), Base(disk)) THEN <<>>
      ELSE target

(* NewSpelling: [ref, error] for one path command of the file at `self`.   *)
NewSpelling(ctx, self, c) ==
  LET here == Dir(self)
      to   == Resolve(ctx, here, c.ref)
      rp   == Final(ctx, c.ref.down)
  IN  CASE c.cmd = "id" -> [ref |-> Abs(self), error |-> FALSE]
        [] c.cmd = "rpath" ->
             [ref |-> IF c.ref.anchor = "abs" /\ IsStorePath(rp) THEN RelativeTo(here, rp) ELSE c.ref,
              error |-> FALSE]
        [] OTHER ->
             [ref |-> IF to = <<>> \/ IsSystemPath(c.ref) THEN c.ref ELSE RelativeTo(here, to),
              error |-> to = <<>>]

(* Resign: the page hashes follow the bytes; only an embedded SHA-256      *)
(* signature can be kept in step.                                          *)
Resign(im) ==
  IF im.sig = "none" THEN [im |-> im, ok |-> TRUE]
  ELSE [im |-> [im EXCEPT !.hashed = im.cmds], ok |-> im.sig = "sha256"]

(* Command::SetPath: a whole number of 8 bytes, the text from byte 12 of   *)
(* an LC_RPATH and 24 of the others, NUL behind it, @loader_path for $ORIGIN*)
CommandSize(c) ==
  LET text == TextLen(c.ref) + IF c.ref.anchor = "origin" THEN 5 ELSE 0
  IN  8 * (((IF c.cmd = "rpath" THEN 12 ELSE 24) + text + 8) \div 8)
CommandsSize(cmds) == FoldLeft(LAMBDA acc, c : acc + CommandSize(c), 0, cmds)

Respelt(im, signed, errors) ==
  IF signed.im.cmds = im.cmds THEN [im |-> im, errors |-> errors]
  ELSE IF CommandsSize(signed.im.cmds) > ReadLoadCommands(im).room \/ ~signed.ok
  THEN [im |-> im, errors |-> errors + 1]
  ELSE [im |-> signed.im, errors |-> errors]
WithSpelling(im, new) ==
  Respelt(im, Resign([im EXCEPT !.cmds = [i \in DOMAIN @ |-> [@[i] EXCEPT !.ref = new[i].ref]]]),
          Cardinality({i \in DOMAIN new : new[i].error}))
FixMachO(ctx, path, im) ==
  WithSpelling(im, [i \in DOMAIN im.cmds |->
                      NewSpelling(ctx, Final(ctx, path), ReadLoadCommands(im).commands[i])])

---------------------------------------------------------------------------
(* reloc-fixup over a tree.                                                *)

RefsOf(im) ==
  IF im.fmt = "macho" THEN [i \in DOMAIN im.cmds |-> im.cmds[i].ref]
  ELSE IF im.fmt = "elf" THEN im.needed \o im.runpath \o im.interp ELSE im.refs

(* CheckDenied: one error per --deny path named; two files may name them   *)
CheckDenied(ctx, path, im) ==
  IF path \in {ctx.prefix \o <<"etc", "jig.json">>, ctx.prefix \o <<"etc", "roots">>} THEN 0
  ELSE Cardinality({d \in ctx.denied : Mentions(RefsOf(im), d)})

(* FixOne: [im, errors]. disk: the files ReadFile and WriteBack fail for;  *)
(* one that cannot be read is passed over                                  *)
WriteBack(path, im, fixed, disk) ==
  IF fixed.im # im /\ path \in disk.unwritable THEN [im |-> im, errors |-> fixed.errors + 1] ELSE fixed
Fixed(ctx, path, im) ==
  CASE im.fmt = "elf"   -> FixElf(ctx, path, im)
    [] im.fmt = "macho" -> FixMachO(ctx, path, im)
    [] OTHER            -> [im |-> im, errors |-> 0]
FixOne(ctx, path, im, disk) ==
  IF im.fmt = "debug" \/ path \in disk.unreadable THEN [im |-> im, errors |-> 0]
  ELSE LET done == WriteBack(path, im, Fixed(ctx, path, im), disk)
       IN  [done EXCEPT !.errors = @ + CheckDenied(ctx, path, im)]

(* RunFixupMode: [tree, status].                                           *)
ExitCode(done) ==
  [tree |-> [f \in DOMAIN done |-> done[f].im],
   status |-> IF \E f \in DOMAIN done : done[f].errors > 0 THEN 1 ELSE 0]
FixTree(ctx, disk) ==
  ExitCode([f \in DOMAIN ctx.tree |-> FixOne(ctx, f, ctx.tree[f], disk)])
RunFixupMode(prefix, opts, tree, disk) ==
  LET libs == {f \in DOMAIN tree : IsSharedLibName(Base(f))}
  IN  IF ~IsStorePath(opts.dest) THEN [tree |-> tree, status |-> 2]
      ELSE FixTree([prefix |-> prefix, dest |-> opts.dest, own |-> SetToSeq({Dir(f) : f \in libs}),
                    denied |-> opts.denied, sdk |-> opts.sdk, tree |-> tree], disk)
=============================================================================
