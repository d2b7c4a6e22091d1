------------------------------- MODULE Driver -------------------------------
(***************************************************************************)
(* The compiler driver of jig (pkgs/ji/jig/src/driver.cc): from etc/jig.json*)
(* and the build system's words to the command line the real compiler gets.*)
(*                                                                         *)
(* A word is [opt, path, refs]: the option's spelling ("" for a word that  *)
(* is no option), the path or name glued to it (<<>> when it is the next   *)
(* word), and for an rpath request the list of its elements.               *)
(***************************************************************************)
EXTENDS Paths, SequencesExt, TLC

CONSTANTS
  Libs,          \* external: file system, directory -> names of its shared libraries
  RealDir,       \* external: canonical(), for the paths that are symlinks
  SharedLibs,    \* the names IsSharedLibName accepts
  LowerCase,     \* name -> its lower-case spelling
  RunpathSlack, NeededSlack, InterpSlack     \* driver.h: bytes, bytes, pairs of bytes

Word(o, p) == [opt |-> o, path |-> p, refs |-> <<>>]
RpathWord(o, rs) == [opt |-> o, path |-> <<>>, refs |-> rs]
Pad(n) == [anchor |-> "pad", up |-> n, down |-> <<>>]

LibsIn(d) == IF d \in DOMAIN Libs THEN Libs[d] ELSE {}
Real(d) == IF d \in DOMAIN RealDir THEN RealDir[d] ELSE d
RealFile(p) == IF p \in DOMAIN RealDir THEN RealDir[p] ELSE Real(Dir(p)) \o <<Base(p)>>
IsSharedLibName(n) == n \in SharedLibs

IsHostDir(ref) ==
  ref.anchor = "abs" /\ ref.down # <<>> /\ ref.down[1] \in {"usr", "lib", "opt"}
IsOutputOnlyMode(o) == o \in {"-c", "-S", "-E", "-M"}
RefusesLinkPolicy(o) == o \in {"-static", "-r", "-nostartfiles"}
IsRuntimeLib(n) == n \in {"c++", "unwind"}
IsFortifyArg(o) == o = "-D_FORTIFY_SOURCE"
IsPicArg(o) == o = "-fPIC"
IsLinkerWord(o) == o \in {"-Wl,", "-Wl,-rpath", "-Wl,-rpath,", "-Wl,--dynamic-linker"}

---------------------------------------------------------------------------
(* etc/jig.json. A doc is [json, binfmt, cc, fc, libc, runtimes, crt,      *)
(* flags, cxxflags, fflags]; a path that starts with "@" means jig's own   *)
(* prefix. "exit" stands for std::exit(2).                                 *)

Expand(root, w) ==
  IF w.path # <<>> /\ Head(w.path) = "@" THEN [w EXCEPT !.path = root \o Tail(@)] ELSE w

ParseDriverConf(doc, root) ==
  IF ~doc.json \/ doc.binfmt \notin {"elf", "macho", "coff"} THEN [load |-> "exit"]
  ELSE LET all(ws) == [i \in DOMAIN ws |-> Expand(root, ws[i])]
       IN  [load |-> "conf", present |-> TRUE, binfmt |-> doc.binfmt,
            cc |-> doc.cc, fc |-> doc.fc, libc |-> doc.libc, runtimes |-> doc.runtimes,
            crt |-> IF doc.crt = <<>> THEN <<>> ELSE Expand(root, Word("", doc.crt)).path,
            flags |-> all(doc.flags), cxxflags |-> all(doc.cxxflags), fflags |-> all(doc.fflags)]

(* $PKGS_CC: the package's flags for this toolchain root, none for another *)
NoPackage == [cflags |-> <<>>, cxxflags |-> <<>>, ldflags |-> <<>>]
PackageFlags(pkgs, root) == IF root \in DOMAIN pkgs THEN pkgs[root] ELSE NoPackage

(* docs: the conf files found next to a binary, by root; jigcc: $JIG_CC    *)
LoadDriverConf(docs, root, jigcc, pkgs) ==
  IF root \in DOMAIN docs
  THEN LET conf == ParseDriverConf(docs[root], root)
       IN  IF conf.load = "exit" THEN conf
           ELSE IF conf.cc = <<>> THEN [load |-> "none"]
           ELSE [package |-> PackageFlags(pkgs, root)] @@ conf
  ELSE IF jigcc = <<>> THEN [load |-> "none"]
  ELSE [load |-> "conf", present |-> FALSE, binfmt |-> "elf", cc |-> jigcc, fc |-> <<>>,
        package |-> NoPackage]

---------------------------------------------------------------------------
(* RunpathList: the build system's elements verbatim, then ours with "/."  *)
(* behind them, then the pad.                                              *)
NoRunpath == [verbatim |-> <<>>, entries |-> <<>>]
Add(rp, dir) ==
  IF IsHostDir(Abs(dir)) \/ Contains(rp.entries, dir) THEN rp
  ELSE [rp EXCEPT !.entries = Append(@, dir)]
AddVerbatim(rp, refs) ==
  [rp EXCEPT !.verbatim = @ \o SelectSeq(refs, LAMBDA r : ~IsHostDir(r))]
Render(rp, libs) ==
  LET stores == Len(rp.entries) + Len(rp.verbatim)
      slack  == (IF stores > 1 THEN stores ELSE 1) * RunpathSlack + libs * NeededSlack
  IN  rp.verbatim \o [i \in DOMAIN rp.entries |-> [Abs(rp.entries[i]) EXCEPT !.up = 2]] \o <<Pad(slack)>>

(* TakeRpathArg: how many words the request at i takes, 0 if it is none,   *)
(* and its elements.                                                       *)
RpathLen(args, i) ==
  CASE /\ args[i].opt = "-Wl,-rpath" /\ i < Len(args)
       /\ IsLinkerWord(args[i + 1].opt)                      -> 2
    [] args[i].opt = "-Wl,-rpath,"                           -> 1
    [] /\ args[i].opt = "-Xlinker" /\ i + 3 <= Len(args)
       /\ args[i + 1].opt = "-rpath" /\ args[i + 2].opt = "-Xlinker" -> 4
    [] OTHER                                                 -> 0
RpathText(n, w) ==
  CASE n = 1 \/ (n = 2 /\ w.opt = "-Wl,") -> w.refs
    [] n = 4 /\ w.opt = ""                -> <<Abs(w.path)>>
    [] OTHER                              -> <<Abs(<<w.opt>>)>>      \* the text of an option

HasFlag(args, i, o) == args[i].opt = o /\ (args[i].path # <<>> \/ i < Len(args))
FlagValue(args, i) == IF args[i].path # <<>> THEN args[i].path ELSE args[i + 1].path
FlagValues(args, o) ==
  LET at == SelectSeq([i \in DOMAIN args |-> i], LAMBDA i : HasFlag(args, i, o))
  IN  [k \in DOMAIN at |-> FlagValue(args, at[k])]

---------------------------------------------------------------------------
(* ScanUserArgs: the words kept, and what they ask for.                    *)
NoUser == [args |-> <<>>, runpath |-> NoRunpath, linking |-> TRUE, have_input |-> FALSE,
           shared |-> FALSE, no_policy |-> FALSE, optimizes |-> TRUE, sets_fortify |-> FALSE]

(* policy.arg: the word as passed on, or none *)
KeptArg(binfmt, w) ==
  CASE binfmt = "elf"  -> IF w.opt = "-Wl,--dynamic-linker" THEN <<>> ELSE <<w>>
    [] binfmt = "coff" -> IF IsPicArg(w.opt) THEN <<>>
                          ELSE IF w.opt = "-std=c++11" THEN <<[w EXCEPT !.opt = "-std=c++14"]>>
                          ELSE <<w>>
    [] OTHER           -> <<w>>

ScanWord(user, binfmt, w) ==
  IF KeptArg(binfmt, w) = <<>> THEN user
  ELSE [user EXCEPT
         !.args = @ \o KeptArg(binfmt, w),
         !.linking = @ /\ ~IsOutputOnlyMode(w.opt),
         !.shared = @ \/ w.opt = "-shared",
         !.no_policy = @ \/ RefusesLinkPolicy(w.opt),
         !.have_input = @ \/ w.opt = "",
         !.sets_fortify = @ \/ IsFortifyArg(w.opt),
         !.optimizes = IF w.opt \in {"-O0", "-O2"} THEN w.opt # "-O0" ELSE @]

RECURSIVE ScanFrom(_, _, _, _)
ScanFrom(raw, binfmt, i, user) ==
  IF i > Len(raw) THEN user
  ELSE LET n == IF binfmt = "elf" THEN RpathLen(raw, i) ELSE 0
       IN  IF n > 0
           THEN ScanFrom(raw, binfmt, i + n,
                  [user EXCEPT !.runpath = AddVerbatim(@, RpathText(n, raw[i + n - 1]))])
           ELSE ScanFrom(raw, binfmt, i + 1, ScanWord(user, binfmt, raw[i]))
ScanUserArgs(raw, binfmt) == ScanFrom(raw, binfmt, 1, NoUser)

---------------------------------------------------------------------------
(* Link policy.                                                            *)
LibNames(args) == LET v == FlagValues(args, "-l") IN [k \in DOMAIN v |-> v[k][1]]

(* links_runtime: C++, or a -l of a runtime no later -nostdlib takes back  *)
LinksRuntime(cxx, args) ==
  FoldLeft(LAMBDA acc, i : /\ args[i].opt # "-nostdlib"
                           /\ \/ acc
                              \/ HasFlag(args, i, "-l") /\ IsRuntimeLib(FlagValue(args, i)[1]),
           cxx, [i \in DOMAIN args |-> i])

(* AddRunpathEntries: libraries given by path, -L dirs with some -l of the *)
(* line, the C++ runtime, libc.                                            *)
AddRunpathEntriesNoLibc(conf, cxx, args, rp) ==
  LET byPath == SelectSeq(args, LAMBDA w : /\ w.opt = "" /\ IsStorePath(w.path)
                                           /\ IsSharedLibName(Base(w.path)))
      dirs   == FlagValues(args, "-L")
      serve  == SelectSeq([k \in DOMAIN dirs |-> Real(dirs[k])],
                  LAMBDA d : IsStorePath(d) /\ \E n \in ToSet(LibNames(args)) : n \in LibsIn(d))
      found  == [k \in DOMAIN byPath |-> Dir(RealFile(byPath[k].path))] \o serve
      run    == IF LinksRuntime(cxx, args) /\ conf.runtimes # <<>> THEN <<conf.runtimes>> ELSE <<>>
  IN  FoldLeft(Add, rp, found \o run)

AddRunpathEntries(conf, cxx, args, rp) ==
  Add(AddRunpathEntriesNoLibc(conf, cxx, args, rp), conf.libc \o <<"lib">>)

(* the interpreter's path, with the "./" pairs fixup may overwrite         *)
ElfLink(conf, cxx, user) ==
  LET args   == user.args \o conf.package.ldflags
      rp     == AddRunpathEntries(conf, cxx, args, user.runpath)
      interp == RpathWord("-Wl,--dynamic-linker",
                  <<Abs(conf.libc \o <<"lib", "ld.so">>)>> \o
                    IF conf.crt = <<>> THEN <<>> ELSE <<Pad(2 * InterpSlack)>>)
  IN  <<RpathWord("-Wl,-rpath,", Render(rp, Len(LibNames(args))))>> \o
      CASE user.shared       -> <<>>
        [] conf.crt = <<>>   -> <<interp>>
        [] OTHER             -> <<Word("-x", <<"none">>), Word("", conf.crt), interp>>

LinkPolicy(conf, cxx, user) ==
  CASE user.no_policy         -> <<>>
    [] conf.binfmt = "elf"    -> ElfLink(conf, cxx, user)
    [] conf.binfmt = "macho"  -> <<Word("-Wl,-headerpad_max_install_names", <<>>)>>
    [] OTHER                  -> <<>>

(* CoffLibs: a -l no -L dir has as spelled is lower-cased                  *)
CoffLibs(conf, args) ==
  LET dirs == ToSet(FlagValues(args, "-L") \o FlagValues(conf.package.ldflags, "-L"))
      low(w) == IF w.opt = "-l" /\ w.path # <<>> /\ ~\E d \in dirs : w.path[1] \in LibsIn(d)
                THEN [w EXCEPT !.path = <<LowerCase[w.path[1]]>>] ELSE w
  IN  [i \in DOMAIN args |-> low(args[i])]

(* BuildDriverArgs: toolchain, then package, then build system, then link  *)
(* policy. The -ffile-prefix-map and build-id words are left out.          *)
BuildDriverArgs(conf, lang, raw) ==
  LET cxx     == lang = "cxx"
      fortran == lang = "fortran"
      user    == ScanUserArgs(raw, conf.binfmt)
      cflags  == IF fortran THEN <<>>
                 ELSE SelectSeq(conf.package.cflags,
                        LAMBDA w : ~(IsFortifyArg(w.opt) /\ (user.sets_fortify \/ ~user.optimizes)))
      links   == user.linking /\ user.have_input
  IN  <<Word(IF fortran THEN "-Qunused-arguments" ELSE "--start-no-unused-arguments", <<>>)>>
      \o (IF fortran THEN conf.fflags ELSE conf.flags) \o cflags
      \o (IF cxx THEN <<Word("--driver-mode=g++", <<>>)>> \o conf.cxxflags \o conf.package.cxxflags
          ELSE <<>>)
      \o (IF fortran THEN <<>> ELSE <<Word("--end-no-unused-arguments", <<>>)>>)
      \o (IF links /\ conf.binfmt = "coff" THEN CoffLibs(conf, user.args) ELSE user.args)
      \o (IF links THEN conf.package.ldflags \o LinkPolicy(conf, cxx, user) ELSE <<>>)
=============================================================================
