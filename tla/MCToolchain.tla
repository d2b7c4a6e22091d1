----------------------------- MODULE MCToolchain -----------------------------
(* A store with two libraries' packages (x in both), the C++ runtime and   *)
(* libc, the package being built with a library of its own, and the lines  *)
(* a build makes.                                                          *)
EXTENDS Toolchain

S(p) == <<"store">> \o p
A == S(<<"a", "lib">>)
B == S(<<"b", "lib">>)

MCLibs == (A :> {"x", "w"}) @@ (B :> {"x", "y"}) @@ (S(<<"rt", "lib">>) :> {"c++", "unwind"})
          @@ (S(<<"glibc", "lib">>) :> {"libc", "ld.so", "m"}) @@ (<<"usr", "lib">> :> {"z"})
\* e/lib is a symlink to a/lib, f/lib/y one to b/lib/y
MCRealDir == S(<<"e", "lib">>) :> A @@ S(<<"f", "lib", "y">>) :> B \o <<"y">>
\* <hash>-<name>, long for b; lib<name>.so.<n>
MCBytes(c) ==
  CASE c \in {"a", "e", "f", "rt", "glibc", "cc", "pkg"} -> 40
    [] c = "b"                                          -> 60
    [] c \in {"x", "w", "y", "z", "m", "own"}           -> 10
    [] c = "ld.so"                                      -> 20
    [] OTHER                                            -> Len(c)
MCShared == {"x", "w", "y", "z", "c++", "unwind", "libc", "m", "own"}
MCLower == [n \in MCShared \cup {"X"} |-> IF n = "X" THEN "x" ELSE n]
MCStoreDir == <<"store">>
MCPrefix == <<"build", "prefix">>
MCDest == S(<<"pkg">>)

Conf1 == [json |-> TRUE, binfmt |-> "elf", cc |-> <<"clang">>, fc |-> <<>>, libc |-> S(<<"glibc">>),
          runtimes |-> S(<<"rt", "lib">>), crt |-> <<"@", "crt_interp.o">>,
          flags |-> <<Word("-B", <<"@", "lib">>)>>, cxxflags |-> <<>>, fflags |-> <<>>]
Pkg == [cflags |-> <<Word("-D_FORTIFY_SOURCE", <<"3">>)>>, cxxflags |-> <<>>,
        ldflags |-> <<Word("-L", B)>>]
Here == S(<<"cc">>)
Base1 == [docs |-> Here :> Conf1, exe |-> Here, jigcc |-> <<>>, pkgs |-> Nothing, lang |-> "c",
          denied |-> {}, access |-> "rw", sdk |-> <<{"libc"}>>, symbol |-> FALSE, sig |-> "none", audit |-> FALSE, words |-> 3]
With(c) == [Base1 EXCEPT !.docs = Here :> c]
More(s) == [s EXCEPT !.words = 4]            \* setups every pair of words is added in
MCSetups ==
  { [Base1 EXCEPT !.audit = TRUE, !.words = 0],
    More(Base1),
    More([Base1 EXCEPT !.lang = "cxx", !.pkgs = Here :> Pkg]),
    [With([Conf1 EXCEPT !.crt = <<>>]) EXCEPT !.access = "ro"],
    [Base1 EXCEPT !.access = "none"],
    [Base1 EXCEPT !.symbol = TRUE],
    [Base1 EXCEPT !.denied = {"b"}],
    [With([Conf1 EXCEPT !.binfmt = "macho"]) EXCEPT !.sig = "sha256"],
    [With([Conf1 EXCEPT !.binfmt = "macho"]) EXCEPT !.sig = "other", !.sdk = <<>>],
    [With([Conf1 EXCEPT !.binfmt = "coff"]) EXCEPT !.pkgs = Here :> Pkg],
    With([Conf1 EXCEPT !.json = FALSE]),
    [Base1 EXCEPT !.lang = "fortran"],
    [With([Conf1 EXCEPT !.fc = <<"flang">>]) EXCEPT !.lang = "fortran"],
    [Base1 EXCEPT !.docs = Nothing, !.jigcc = <<"gcc">>],
    [Base1 EXCEPT !.docs = Nothing] }

src == Word("", <<"src.c">>)
obj == Word("", <<"m.o">>)
MCLines == { <<src, Word("-l", <<"w">>)>>, <<obj, Word("-L", A)>>, <<obj, Word("", S(<<"f", "lib", "y">>))>>,
             <<obj, Word("-L", MCPrefix \o <<"lib">>)>> }
MCAlphabet ==
  { src, obj, Word("-l", <<"x">>), Word("-l", <<"own">>), Word("-L", S(<<"e", "lib">>)), Word("-L", <<>>), Word("", B),
    Word("", B \o <<"x">>), Word("-L", <<"usr", "lib">>),
    Word("-l", <<"w">>), Word("-l", <<"X">>), Word("-l", <<"z">>), Word("-l", <<"unwind">>), Word("-l", <<"y">>),
    RpathWord("-Wl,-rpath,", <<Abs(B), Abs(<<"usr", "lib">>)>>),
    RpathWord("-Wl,-rpath", <<>>), RpathWord("-Wl,", <<Abs(A)>>),
    RpathWord("-Wl,-rpath,", <<[anchor |-> "origin", up |-> 1, down |-> <<"lib">>], Abs(MCPrefix \o <<"lib">>)>>),
    RpathWord("-Wl,--dynamic-linker", <<Abs(<<"lib64", "ld.so">>)>>),
    Word("-shared", <<>>), Word("-c", <<>>), Word("-E", <<>>), Word("-nostartfiles", <<>>), Word("-nostdlib", <<>>),
    Word("-o", <<>>), Word("-o", <<"out">>), Word("-MD", <<>>), Word("-MF", <<>>), Word("-O0", <<>>),
    Word("-fPIC", <<>>), Word("-Wl,-Map", <<>>), Word("-v", <<>>) }
\* the last so deep that the interpreter's relative name does not fit
MCPlaces == {<<"bin", "p">>, <<"libexec", "d", "p">>, [k \in 1..11 |-> IF k < 11 THEN "d" ELSE "p"]}
MCSibling == (MCPrefix \o <<"lib", "own">>) :>
               [fmt |-> "elf", kind |-> "dyn", needed |-> <<Soname("m")>>, vern |-> <<Soname("m")>>,
                runpath |-> <<Abs(S(<<"glibc", "lib">>)), Pad(48)>>, has_runpath |-> TRUE, interp |-> <<>>,
                isize |-> 0, ptype |-> "none", stub |-> "none", entry |-> "_start", symbol |-> FALSE]
             @@ (MCPrefix \o <<"lib", "own.debug">>) :> [fmt |-> "debug", refs |-> <<Abs(B)>>]
             @@ (MCPrefix \o <<"etc", "jig.json">>) :> [fmt |-> "other", refs |-> <<Abs(B)>>]
             @@ (MCPrefix \o <<"etc", "roots">>) :> [fmt |-> "other", refs |-> <<Abs(B)>>]
MCRoots == {<<"store">>, <<"mnt", "s">>}
Seg(v, o, f, m, w) == [vaddr |-> v, off |-> o, filesz |-> f, memsz |-> m, w |-> w]
Segs1 == <<Seg(0, 0, 5, 5, FALSE), Seg(9, 5, 2, 2, TRUE)>>
Segs2 == <<Seg(0, 0, 3, 3, FALSE), Seg(6, 2, 1, 9, TRUE)>>
MCStarts ==
  { [argv0 |-> <<"tool">>, proc |-> TRUE, prot |-> "rx", segs |-> Segs1],
    [argv0 |-> <<"home", "t">>, proc |-> FALSE, prot |-> "r", segs |-> Segs2],
    [argv0 |-> <<"prof", "bin", "tool">>, proc |-> TRUE, prot |-> "r", segs |-> Segs2],
    [argv0 |-> <<"home", "loop">>, proc |-> TRUE, prot |-> "r", segs |-> Segs1] }

MCNames == {"f.so", "g.so", "libnss"}
MCAlias == [n \in MCNames |-> IF n = "f.so" THEN {"f.so", "f.so.1"} ELSE {n}]
=============================================================================
