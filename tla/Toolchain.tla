------------------------------ MODULE Toolchain ------------------------------
(***************************************************************************)
(* From a build system's compiler line to a running program of a moved     *)
(* package: the jig driver (CcArgs, Driver) calls the linker, reloc-fixup  *)
(* (Fixup) rewrites the output tree, the store is copied to some root, the *)
(* launcher (Launch) and the entry stub (CrtInterp) start the program, and *)
(* the audit module (Dlaudit) watches what it dlopens.                     *)
(* The linker, the dynamic loader and the kernel are external: LinkImage,  *)
(* Opens and LoadedByKernel say what the code relies on.                   *)
(***************************************************************************)
EXTENDS CcArgs, Fixup, Launch, CrtInterp, Dlaudit

CONSTANTS Setups,        \* toolchains and environments the compiler is called in
          Lines,         \* command lines the build system starts from
          Alphabet,      \* words it may add
          Prefix, Dest,  \* the scratch prefix and the output's store path
          Sibling,       \* files of the package besides the one being linked
          Places,        \* where under the prefix the linked file is installed
          Roots,         \* where the store may be copied
          Starts         \* how it is started: [argv0, proc, prot, segs (of ld.so)]

VARIABLES phase,         \* "typing", "built", "fixed", "installed", "running", "done"
          setup, line,
          run,           \* what RunCcMode decided
          out,           \* the linked file, in the prefix
          linked,        \* ghost: the file the linker took for each NEEDED
          built, tree,   \* the output tree before and after reloc-fixup
          status,        \* reloc-fixup's exit status
          root,          \* where the store is now
          proc           \* the started process

tvars == <<phase, setup, line, run, out, linked, built, tree, status, root, proc>>

Conf(s) == LoadDriverConf(s.docs, s.exe, s.jigcc, s.pkgs)
Compile(s, l) == RunCcMode(Conf(s), s.lang, l)

---------------------------------------------------------------------------
(* External: the linker.                                                   *)
LdDirs(conf, cmd) ==
  LET ls == FlagValues(cmd, "-L")
  IN  [k \in DOMAIN ls |-> Real(ls[k])]
      \o IF conf.present THEN <<conf.runtimes, conf.libc \o <<"lib">>>> ELSE <<>>
InBuild(d, n) == n \in LibsIn(d) \/ (d \o <<n>>) \in DOMAIN Sibling
FirstOf(dirs, n) ==
  LET k == SelectInSeq(dirs, LAMBDA d : InBuild(d, n)) IN IF k = 0 THEN <<>> ELSE dirs[k]

(* the libraries of a link: -l in the order given, by path, then implicit  *)
Inputs(conf, lang, cmd) ==
  LET has(o)  == \E i \in DOMAIN cmd : cmd[i].opt = o
      dirs    == LdDirs(conf, cmd)
      names   == LibNames(cmd) \o (IF lang = "cxx" /\ ~has("-nostdlib") THEN <<"c++">> ELSE <<>>)
                           \o (IF has("-nostdlib") \/ ~conf.present THEN <<>> ELSE <<"libc">>)
      byName  == [k \in DOMAIN names |-> [name |-> names[k], dir |-> FirstOf(dirs, names[k])]]
      paths   == SelectSeq(cmd, LAMBDA w : w.opt = "" /\ w.path # <<>> /\ IsSharedLibName(Base(w.path)))
      byPath  == [k \in DOMAIN paths |-> [name |-> Base(paths[k].path), dir |-> Dir(RealFile(paths[k].path))]]
  IN  IF has("-static") THEN <<>>
      ELSE FoldLeft(LAMBDA acc, l : IF \E k \in DOMAIN acc : acc[k].name = l.name THEN acc ELSE Append(acc, l),
                    <<>>, byPath \o byName)

ElfImage(s, conf, cmd, libs) ==
  LET has(o)  == \E i \in DOMAIN cmd : cmd[i].opt = o
      rpaths  == SelectSeq(cmd, LAMBDA w : w.opt = "-Wl,-rpath,")
      ldso    == SelectSeq(cmd, LAMBDA w : w.opt = "-Wl,--dynamic-linker")
      refs    == FoldLeft(LAMBDA acc, w : acc \o w.refs, <<>>, rpaths)
      needed  == [k \in DOMAIN libs |-> Soname(libs[k].name)]
      itext   == IF has("-shared") \/ has("-static") THEN <<>>
                 ELSE IF ldso = <<>> THEN <<Abs(<<"lib64", "ld.so">>)>> ELSE ldso[Len(ldso)].refs
  IN  [fmt |-> "elf", kind |-> IF has("-r") THEN "object" ELSE IF has("-shared") THEN "dyn" ELSE "exec",
       needed |-> needed, vern |-> needed, runpath |-> refs, has_runpath |-> refs # <<>>,
       interp |-> IF itext = <<>> THEN <<>> ELSE <<itext[1]>>,
       isize |-> 1 + FoldLeft(LAMBDA acc, r : acc + TextLen(r), 0, itext),
       ptype |-> IF itext = <<>> THEN "none" ELSE "interp",
       stub |-> IF conf.present /\ conf.crt # <<>> /\ Contains(cmd, Word("", conf.crt)) THEN "linked" ELSE "none",
       entry |-> "_start", symbol |-> s.symbol]

(* a dependency is recorded by its install name: its final path, except a  *)
(* library of the package that reloc-fixup has not seen yet                *)
MachOImage(s, cmd, libs, file) ==
  LET has(o) == \E i \in DOMAIN cmd : cmd[i].opt = o
      name(l) == IF l.dir = Prefix \o <<"lib">> THEN [anchor |-> "rpath", up |-> 0, down |-> <<l.name>>]
                 ELSE IF l.name = "libc" THEN Abs(<<"usr", "lib", "libc">>) ELSE Abs(l.dir \o <<l.name>>)
      loads  == [k \in DOMAIN libs |-> [cmd |-> "load", ref |-> name(libs[k])]]
      rps    == SelectSeq(cmd, LAMBDA w : w.opt = "-Wl,-rpath,")
      rpaths == [k \in DOMAIN rps |-> [cmd |-> "rpath", ref |-> rps[k].refs[1]]]
      cmds   == (IF has("-shared") THEN <<[cmd |-> "id", ref |-> Abs(file)]>> ELSE <<>>) \o loads \o rpaths
  IN  [fmt |-> "macho", cmds |-> cmds, hashed |-> cmds, sig |-> s.sig,
       room |-> CommandsSize(cmds)
                + IF has("-Wl,-headerpad_max_install_names") THEN 1024 * Len(loads) ELSE 0]

LinkImage(s, conf, cmd, libs, file) ==
  CASE conf.binfmt = "elf"   -> ElfImage(s, conf, cmd, libs)
    [] conf.binfmt = "macho" -> MachOImage(s, cmd, libs, file)
    [] OTHER                 -> [fmt |-> "other", refs |-> <<>>]

(* the line links, and the linker finds every library                      *)
Linkable(conf, lang, cmd, libs) ==
  /\ ~\E i \in DOMAIN cmd : IsOutputOnlyMode(cmd[i].opt) \/ IsNoOutputOption(cmd[i].opt)
  /\ \E i \in DOMAIN cmd : IsObjectInput(cmd[i]) \/ IsSourceFile(cmd[i])
  /\ \A k \in DOMAIN libs : libs[k].dir # <<>>

---------------------------------------------------------------------------
(* The build.                                                              *)
Nothing == [f \in {} |-> 0]

TInit ==
  /\ phase = "typing" /\ setup \in Setups /\ line \in Lines
  /\ run = "none" /\ out = <<>> /\ linked = <<>> /\ built = Nothing /\ tree = Nothing
  /\ status = 0 /\ root = StoreDir /\ proc = [ok |-> FALSE]
  /\ AuditInit

AddWord(w) ==
  /\ phase = "typing" /\ Len(line) < setup.words        \* a bound of the instance
  /\ line' = Append(line, w)
  /\ UNCHANGED <<phase, setup, run, out, linked, built, tree, status, root, proc, avars>>

(* jig as cc: the compiler runs with the driver's words; a link leaves a   *)
(* file at its place under the prefix                                      *)
RunCc(place) ==
  \E r \in {Compile(setup, line)}, conf \in {Conf(setup)} :
    /\ phase = "typing" /\ run' = r.how
    /\ LET libs == Inputs(conf, setup.lang, r.cmd)
           file == Prefix \o place
       IN  \/ /\ r.how # "exit" /\ Linkable(conf, setup.lang, r.cmd, libs)
              /\ phase' = "built" /\ out' = file /\ linked' = libs
              /\ built' = [f \in DOMAIN Sibling \cup {file} |->
                             IF f = file THEN LinkImage(setup, conf, r.cmd, libs, file) ELSE Sibling[f]]
              /\ tree' = built'
           \/ /\ ~(r.how # "exit" /\ Linkable(conf, setup.lang, r.cmd, libs))
              /\ phase' = "done" /\ UNCHANGED <<out, linked, built, tree>>
    /\ UNCHANGED <<setup, line, status, root, proc, avars>>

Refixed ==
  RunFixupMode(Prefix, [dest |-> Dest, denied |-> setup.denied, sdk |-> setup.sdk], tree,
               [unreadable |-> IF setup.access = "none" THEN {out} ELSE {},
                unwritable |-> IF setup.access = "rw" THEN {} ELSE {out}])

RelocFixup ==
  /\ phase = "built" /\ phase' = "fixed"
  /\ \E r \in {Refixed} : tree' = r.tree /\ status' = r.status
  /\ UNCHANGED <<setup, line, run, out, linked, built, root, proc, avars>>

(* a package whose fixup failed is not installed                           *)
Install(r) ==
  /\ phase = "fixed" /\ status = 0 /\ phase' = "installed" /\ root' = r
  /\ UNCHANGED <<setup, line, run, out, linked, built, tree, status, proc, avars>>

---------------------------------------------------------------------------
(* The installed package.                                                  *)
AtRoot(r, p) == IF IsStorePath(p) THEN r \o Below(p, StoreDir) ELSE p
Installed(r, f) == AtRoot(r, Dest \o Below(f, Prefix))
InStore(r, d) == IF HasPrefix(d, r) THEN StoreDir \o Below(d, r) ELSE <<"gone">>

(* external: does directory d hold library n, once the store is at r       *)
Holds(r, d, n) ==
  \/ n \in LibsIn(InStore(r, d))
  \/ \E f \in DOMAIN tree : Base(f) = n /\ Installed(r, Dir(f)) = d

(* external: the file ld.so opens for a NEEDED of the file f               *)
Search(r, dirs, n) ==
  LET k == SelectInSeq(dirs, LAMBDA d : Holds(r, d, n)) IN IF k = 0 THEN <<>> ELSE dirs[k] \o <<n>>
Libc(r) == IF Conf(setup).present THEN <<AtRoot(r, Conf(setup).libc \o <<"lib">>)>> ELSE <<>>
Opens(r, f, im, ref) ==
  LET here == Dir(Installed(r, f))
  IN  IF ref.anchor = "soname"
      THEN Search(r, [k \in DOMAIN im.runpath |-> Follow(here, im.runpath[k])] \o Libc(r), ref.down[1])
      ELSE Follow(here, ref)

Programs(r) == {Installed(r, f) : f \in DOMAIN tree}
Tool(r) == Installed(r, Prefix \o <<"bin", "tool">>)
Env == [v \in {"PATH", "HOME"} |-> [set |-> TRUE, val |-> <<<<"home", "bin">>, <<"prof", "bin">>>>]]
(* bin/tool of the package is a launcher link, reached also through a      *)
(* user's link and a profile directory; home/bin has a link to one that is *)
(* gone                                                                    *)
World(r) ==
  [links |-> (Tool(r) :> [anchor |-> "origin", up |-> 2, down |-> <<"launch", "bin", "launch">>])
             @@ (<<"home", "t">> :> Abs(<<"prof", "bin", "tool">>))
             @@ (<<"home", "bin", "tool">> :> Abs(<<"gone", "bin", "tool">>))
             @@ (<<"home", "loop">> :> Abs(<<"home", "loop">>)),
   dirs  |-> <<"prof">> :> Installed(r, Prefix),
   files |-> Programs(r) \cup {r \o <<"launch", "bin", "launch">>},
   recs  |-> Tool(r) :> [ok |-> TRUE, program |-> [var |-> "root", rest |-> Below(out, Prefix)],
                         argv0 |-> <<[var |-> "argv0", rest |-> <<>>]>>, args |-> <<>>,
                         env |-> "PATH" :> ("prepend" :> <<[var |-> "store", rest |-> <<"a", "bin">>]>>)]]

(* exec of the launcher, then of the program it chose                      *)
Stub(im, prot) ==
  [interp |-> im.interp[1], ptype |-> im.ptype, stub |-> im.stub, phdr |-> TRUE, prot |-> prot]
Process(s, l, im) ==
  IF ~l.ok THEN [ok |-> FALSE, start |-> s]
  ELSE [ok |-> TRUE, start |-> s, launch |-> l,
        reloc |-> RelocMain(Stub(im, s.prot),
                            [exe |-> IF s.proc THEN l.program ELSE <<>>, execfn |-> l.program,
                             aux |-> {"PHDR", "BASE", "ENTRY"}],
                            AtRoot(root, Conf(setup).libc \o <<"lib", "ld.so">>) :> s.segs)]
Start(s) ==
  /\ phase = "installed" /\ phase' = "running"
  /\ tree[out].fmt = "elf" /\ tree[out].kind = "exec" /\ tree[out].entry = "stub"
  /\ proc' = Process(s, RunLaunch(World(root), s.argv0, <<>>, Env), tree[out])
  /\ UNCHANGED <<setup, line, run, out, linked, built, tree, status, root, avars>>

(* the build runs the program under the audit module                       *)
Audit == phase = "running" /\ setup.audit /\ AuditNext /\ UNCHANGED tvars

TNext ==
  \/ \E w \in Alphabet : AddWord(w)
  \/ \E p \in Places : RunCc(p)
  \/ RelocFixup
  \/ \E r \in Roots : Install(r)
  \/ \E s \in Starts : Start(s)
  \/ Audit

TSpec == TInit /\ [][TNext]_<<tvars, avars>>

---------------------------------------------------------------------------
(* Correctness.                                                            *)
Elf(im) == im.fmt = "elf" /\ im.kind # "object"
Readable(f) == ~(f = out /\ setup.access = "none")
OwnDirs == SetToSeq({Installed(root, Dir(f)) : f \in {g \in DOMAIN tree : IsSharedLibName(Base(g))}})

(* reloc-fixup changes how a NEEDED is found, never what is found: at      *)
(* every root an installed file opens the library the RUNPATH it was       *)
(* linked with denotes (elf_fixup.cc FixRunpath: direct names, dropped     *)
(* directories, the fallback when the strings do not fit).                 *)
SameSearch ==
  phase = "installed" =>
    \A f \in DOMAIN tree : Elf(tree[f]) /\ Readable(f) /\ tree[f].has_runpath =>
      LET there(r) == IF r.anchor = "origin" THEN Follow(Dir(Installed(root, f)), r)
                      ELSE AtRoot(root, IF HasPrefix(r.down, Prefix) THEN Dest \o Below(r.down, Prefix) ELSE r.down)
          dirs == [k \in DOMAIN built[f].runpath |-> there(built[f].runpath[k])] \o OwnDirs
      IN  \A i \in DOMAIN tree[f].needed :
            Opens(root, f, tree[f], tree[f].needed[i]) = Search(root, dirs, built[f].needed[i].down[1])

(* A program loads the file it was linked with, wherever the store is: the *)
(* RUNPATH driver.cc makes for a line and reloc-fixup's rewriting of it    *)
(* agree on every library only one directory provides.                     *)
Unambiguous(n) ==
  Cardinality({d \in DOMAIN Libs : n \in Libs[d]} \cup {Dir(f) : f \in {g \in DOMAIN Sibling : Base(g) = n}}) = 1
LoadsLinked ==
  phase = "installed" /\ Elf(tree[out]) /\ Readable(out) /\ tree[out].has_runpath =>
    \A k \in DOMAIN linked : Unambiguous(linked[k].name) =>
      Opens(root, out, tree[out], tree[out].needed[k])
        = (IF HasPrefix(linked[k].dir, Prefix) THEN Installed(root, linked[k].dir)
           ELSE AtRoot(root, linked[k].dir)) \o <<linked[k].name>>

(* The driver leaves reloc-fixup what it needs: a file that was linked     *)
(* only against store libraries and the package's own is never refused,    *)
(* whatever the line: the slack of driver.h:29-31 (in bytes), the RUNPATH  *)
(* directories and the header room suffice.  Outside the claim: lines that *)
(* refuse the link policy, a runtime's -l before a -nostdlib, which takes  *)
(* its directory back, and files more than three directories down.         *)
Accepted ==
  phase = "fixed" /\ Conf(setup).present /\ setup.denied = {} /\ setup.access = "rw" /\ ~setup.symbol
    /\ Len(out) <= Len(Prefix) + 4
    /\ (\A i \in DOMAIN line :
          /\ ~RefusesLinkPolicy(line[i].opt)
          /\ line[i].opt = "-l" /\ IsRuntimeLib(line[i].path[1]) =>
               ~\E j \in i..Len(line) : line[j].opt = "-nostdlib")
    /\ setup.sig # "other"
    /\ (\A k \in DOMAIN linked : IsStorePath(linked[k].dir) \/ linked[k].dir = Prefix \o <<"lib">>)
  => status = 0

(* A file is rewritten as a whole or not at all: vn_file follows NEEDED,   *)
(* PT_NULL and the stub entry go together, nothing searched is absolute,   *)
(* a Mach-O signature is of the bytes written and they fit the header; a   *)
(* file reloc-fixup could not fix is as it was and the exit status says so.*)
WholeFile(old, im) ==
  IF im.fmt = "macho"
  THEN /\ im.sig = "none" \/ (im.sig = "sha256" /\ im.hashed = im.cmds)
       /\ CommandsSize(im.cmds) <= im.room
  ELSE /\ im.vern = im.needed
       /\ \A k \in DOMAIN im.runpath : im.runpath[k].anchor = "origin"
       /\ (im.ptype = "null") = (im.entry = "stub")
       /\ old.stub # "none" /\ old.ptype = "interp" =>
            im.ptype = "null" /\ (IsStorePath(old.interp[1].down) => im.interp[1].anchor = "origin")
Whole ==
  phase = "fixed" =>
    \A f \in DOMAIN tree :
      \/ tree[f] # built[f] /\ (f = out => setup.access = "rw") /\ WholeFile(built[f], tree[f])
      \/ tree[f] = built[f]
         /\ (Elf(built[f]) /\ Readable(f) /\ built[f].has_runpath /\ built[f].runpath # <<>>
             /\ built[f].runpath[1].anchor = "abs" => status = 1)

(* Running reloc-fixup again over a tree it accepted changes nothing.      *)
Idempotent ==
  phase = "fixed" /\ status = 0 => Refixed = [tree |-> tree, status |-> 0]

(* Through any chain of links and at any root the launcher runs the        *)
(* package's own program, at its present place and under the name it was   *)
(* called by, and keeps the caller's PATH behind what the record adds; a   *)
(* loop of links ends (launch.cc InvokedPath, ApplyEnv).                   *)
Launches ==
  phase = "running" =>
    IF proc.start.argv0 = <<"home", "loop">> THEN ~proc.ok
    ELSE /\ proc.ok /\ proc.launch.program = Installed(root, out)
         /\ proc.launch.argv = <<proc.start.argv0>>
         /\ proc.launch.env["PATH"].val = <<root \o <<"a", "bin">>>> \o Env["PATH"].val
         /\ proc.launch.env["HOME"] = Env["HOME"]

(* "ld.so then behaves exactly as if the kernel had loaded it as           *)
(* interpreter" (crt_interp.c:13): the stub maps the ld.so of the store    *)
(* the program is in now; every byte of a segment is the file's, and bss   *)
(* is zero to the end of its last page.                                    *)
LoadedByKernel(segs, mem) ==
  \A k \in DOMAIN segs :
    LET s == segs[k]
    IN  /\ \A a \in s.vaddr..(s.vaddr + s.filesz - 1) : mem[a] = s.off + (a - s.vaddr)
        /\ s.memsz > s.filesz => \A a \in (s.vaddr + s.filesz)..(Up(s.vaddr + s.memsz) - 1) : mem[a] = Zero
AsKernel ==
  phase = "running" /\ proc.ok =>
    /\ proc.reloc.ok
    /\ proc.reloc.interp = AtRoot(root, Conf(setup).libc \o <<"lib", "ld.so">>)
    /\ proc.reloc.ptype = "interp" /\ proc.reloc.entry = "_start" /\ proc.reloc.prot = proc.start.prot
    /\ LoadedByKernel(proc.start.segs, proc.reloc.mem)

(* Two lines that differ by a dropped word or by the order of two words    *)
(* and have the same key make the compiler do the same: what RunCcMode     *)
(* hashes leaves out only the names of outputs (cc_mode.h key_args).       *)
(* Lines with -x, or with an option cut off from its value, are outside    *)
(* the claim: where the source stands among the words is not in the key.   *)
WellFormed(l) ==
  \A i \in DOMAIN l :
    /\ l[i].opt = "-Wl,-rpath" => i < Len(l) /\ l[i + 1].opt = "-Wl,"
    /\ l[i].opt \in {"-o", "-MF", "-L"} /\ l[i].path = <<>> =>
         i < Len(l) /\ l[i + 1].opt = "" /\ ~IsSourceFile(l[i + 1])
Outputs(cmd) ==
  LET two == {i \in DOMAIN cmd : cmd[i].opt \in {"-o", "-MF"} /\ cmd[i].path = <<>> /\ i < Len(cmd)}
  IN  two \cup {i + 1 : i \in two} \cup {i \in DOMAIN cmd : cmd[i].opt \in {"-o", "-MD"} /\ i \notin two}
Means(cmd) ==
  LET keep == SelectSeq([i \in DOMAIN cmd |-> i], LAMBDA i : i \notin Outputs(cmd))
      all  == [k \in DOMAIN keep |-> cmd[keep[k]]]
      ws   == IF \E i \in DOMAIN cmd : IsOutputOnlyMode(cmd[i].opt)
              THEN SelectSeq(all, LAMBDA w : ~IsLinkerWord(w.opt)) ELSE all
  IN  [flags |-> SelectSeq(ws, LAMBDA w : ~IsSourceFile(w)), srcs |-> SelectSeq(ws, IsSourceFile)]
Neighbours(l) ==
  {RemoveAt(l, i) : i \in DOMAIN l}
  \cup {[l EXCEPT ![i] = l[i + 1], ![i + 1] = l[i]] : i \in 1..(Len(l) - 1)}
KeyFaithful ==
  phase = "typing" /\ WellFormed(line) =>
    \A r \in {Compile(setup, line)} :
        r.how = "cached" => \A l \in {n \in Neighbours(line) : WellFormed(n)} :
          \A q \in {Compile(setup, l)} :
              q.how = "cached" /\ q.key = r.key => Means(q.cmd) = Means(r.cmd)

(* "Exit status 1 if any file could not be made consistent (unresolvable   *)
(* NEEDED, no slack)" (fixup_mode.h): with status 0 every NEEDED opens.    *)
ExitStatus ==
  phase = "installed" /\ Conf(setup).present =>
    \A f \in DOMAIN tree : Elf(tree[f]) /\ Readable(f) =>
      \A i \in DOMAIN tree[f].needed : Opens(root, f, tree[f], tree[f].needed[i]) # <<>>
=============================================================================
