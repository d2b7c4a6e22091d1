------------------------------- MODULE RustArgs -------------------------------
(***************************************************************************)
(* How rustcwrap reads a rustc command line (rustc_mode.cc): what enters   *)
(* the request key, and when the compilation may be cached at all.  A word *)
(* is [flag, sep, val, text]: "-C" is a bare flag, "--emit=x" has sep "=", *)
(* "-Copt" is glued, and a word that is no option has flag "".             *)
(***************************************************************************)
EXTENDS Naturals, Sequences, FiniteSets, SequencesExt

CONSTANTS RustWords, RustBases, MaxRustWords   \* words to add to a command line of the bases

VARIABLES rline, added

RInit == rline \in RustBases /\ added = 0
AddWord == /\ added < MaxRustWords /\ added' = added + 1
           /\ \E w \in RustWords : rline' = Append(rline, w)
RSpec == RInit /\ [][AddWord]_<<rline, added>>

Named == {"--out-dir", "--sysroot", "--crate-name", "--extern", "--emit", "-L"}
kTwoTokenOptions == {"-C", "--cfg", "--check-cfg", "--cap-lints", "--edition", "--target", "--crate-type", "-Z", "-W",
                     "-A", "-D", "-F", "--error-format", "--json", "--diagnostic-width", "--remap-path-prefix", "-l"}

Blank == [out_dir |-> "", externs |-> <<>>, key_args |-> <<>>, has_dep_info |-> FALSE, links |-> FALSE,
          has_crate_type |-> FALSE, cacheable |-> TRUE, query |-> FALSE, sources |-> 0]
Key(flag, val) == [flag |-> flag, sep |-> "=", val |-> val, text |-> "eq"]
Keyed(inv, k) == [inv EXCEPT !.key_args = Append(@, k)]

\* "--extern name=path": the rlib's contents enter the key; "--extern name" names none
HasPath(val) == val # "proc_macro"

TakeNamedOption(inv, flag, val) ==
  CASE flag = "--out-dir" -> [inv EXCEPT !.out_dir = val]
    [] flag = "-L"        -> inv
    [] flag = "--extern"  -> Keyed([inv EXCEPT !.externs = IF HasPath(val) THEN Append(@, val) ELSE @], Key(flag, val))
    [] flag = "--emit"    -> Keyed([inv EXCEPT !.has_dep_info = @ \/ val = "dep-info"], Key(flag, val))
    [] OTHER              -> Keyed(inv, Key(flag, val))

LinkTypes == {"bin", "proc-macro", "cdylib", "dylib"}

\* an option joined with its value
TakeCodegenOption(inv, k) ==
  CASE k.flag = "-C" /\ k.sep = "=" /\ k.val = "incremental=i" -> [inv EXCEPT !.cacheable = FALSE]
    [] k.flag = "-C" /\ k.sep = "=" /\ k.val \in {"extra-filename=e", "metadata=m"} -> inv
    [] OTHER -> Keyed([inv EXCEPT !.links = @ \/ (k.flag = "--crate-type" /\ k.val \in LinkTypes),
                                  !.has_crate_type = @ \/ (k.flag = "--crate-type" /\ k.sep = "=")], k)

\* mutant: "-C" "opt=x" stay two arguments
JoinedNot(w, next) == IF w.flag = "-C" /\ w.sep = "glued" THEN Key("-C", w.val) ELSE w

\* "-C" "opt=x" and "-Copt=x" both become "-C=opt=x"
Joined(w, next) ==
  CASE w.flag \in kTwoTokenOptions /\ w.sep = "" /\ next # <<>> -> Key(w.flag, next[1].text)
    [] w.flag = "-C" /\ w.sep = "glued" -> Key("-C", w.val)
    [] OTHER -> w

IsQuery(w) == w.flag = "--print" \/ w.text \in {"-", "-vV", "--version"}

RECURSIVE Parse(_, _)
Parse(line, inv) ==
  IF line = <<>> THEN inv
  ELSE LET w == Head(line)
           rest == Tail(line)
           takes == w.sep = "" /\ rest # <<>>
       IN CASE w.flag \in Named /\ takes -> Parse(Tail(rest), TakeNamedOption(inv, w.flag, rest[1].text))
            [] w.flag \in Named /\ w.sep = "=" -> Parse(rest, TakeNamedOption(inv, w.flag, w.val))
            [] IsQuery(w) -> Parse(rest, [inv EXCEPT !.query = TRUE])
            [] w.text = "-o" -> Parse(rest, [inv EXCEPT !.cacheable = FALSE])
            [] w.flag = "" /\ w.val = "source" -> Parse(rest, [inv EXCEPT !.sources = @ + 1])
            [] OTHER -> Parse(IF Joined(w, rest) = w \/ w.sep # "" THEN rest ELSE Tail(rest),
                              TakeCodegenOption(inv, Joined(w, rest)))

ParseRustInvocation(line) ==
  LET inv == Parse(line, Blank)
      links == inv.links \/ ~inv.has_crate_type
  IN [inv EXCEPT !.links = links,
                 !.cacheable = @ /\ ~inv.query /\ ~links /\ inv.sources = 1 /\ inv.out_dir # "" /\ inv.has_dep_info]

-----------------------------------------------------------------------------
(* How rustc itself reads a line (external): its options, getopts and --codegen being -C *)

TakesValue == {"-C", "--codegen", "-L", "-l", "-o", "-Z", "-W", "-A", "-D", "-F", "--cfg", "--check-cfg", "--crate-type",
               "--crate-name", "--edition", "--emit", "--print", "--out-dir", "--target", "--extern", "--sysroot",
               "--cap-lints", "--error-format", "--json", "--color", "--diagnostic-width", "--remap-path-prefix"}
OptionNamed(flag) == IF flag = "--codegen" THEN "-C" ELSE flag

\* positions that are the value of the option before them
RECURSIVE ValuesAfter(_, _)
ValuesAfter(line, i) ==
  IF i > Len(line) THEN {}
  ELSE IF line[i].flag \in TakesValue /\ line[i].sep = "" THEN {i + 1} \cup ValuesAfter(line, i + 2)
  ELSE ValuesAfter(line, i + 1)

\* the options as <<option, value>>, in order, and the input files
RustcReads(line) ==
  LET values == ValuesAfter(line, 1)
      own == SelectSeq([i \in DOMAIN line |-> i], LAMBDA i : i \notin values /\ line[i].flag # "")
  IN [k \in DOMAIN own |-> <<OptionNamed(line[own[k]].flag),
                             IF own[k] + 1 \in values THEN line[own[k] + 1].text ELSE line[own[k]].val>>]
InputFiles(line) == {i \in DOMAIN line : i \notin ValuesAfter(line, 1) /\ line[i].flag = ""}

\* rustc refuses an option without its value, an option as the value of -C, and more or less than one
\* input, which is a source here
WellFormed(line) ==
  /\ Len(line) + 1 \notin ValuesAfter(line, 1)
  /\ \A i \in ValuesAfter(line, 1) : OptionNamed(line[i - 1].flag) = "-C" => line[i].flag = ""
  /\ \E i \in InputFiles(line) : InputFiles(line) = {i} /\ line[i].val = "source"

\* options that name the outputs and where to look for crates
Renames == {<<"-C", "extra-filename=e">>, <<"-C", "metadata=m">>}
Relevant(reads) == SelectSeq(reads, LAMBDA r : r \notin Renames /\ r[1] \notin {"--out-dir", "-L"})

CrateTypes(val) == IF val = "lib,cdylib" THEN {"lib", "cdylib"} ELSE {val}
Linked == {"bin", "dylib", "cdylib", "proc-macro"}

\* readings no entry may be made for: links, queries, incremental state, an output file of its own
Refused(reads) ==
  \/ \E r \in ToSet(reads) : r[1] \in {"-o", "--print"} \/ r = <<"-C", "incremental=i">>
                             \/ (r[1] = "--crate-type" /\ CrateTypes(r[2]) \cap Linked # {})
  \/ ~\E r \in ToSet(reads) : r[1] = "--crate-type"

\* as cargo writes a line: one crate type to an option, -C for --codegen, no -oFILE
CargoSpells(line) ==
  \A i \in DOMAIN line : /\ line[i].val # "lib,cdylib" /\ line[i].flag # "--codegen"
                         /\ ~(line[i].flag = "-o" /\ line[i].sep = "glued")

(***************************************************************************)
(* Of a line rustc accepts and rustcwrap caches, rustc would read from the *)
(* key's arguments the options it reads from the line, in order and in     *)
(* whatever spelling, up to those that only rename outputs or name search  *)
(* directories, and every rlib named is hashed.  If the line is spelled as *)
(* cargo spells it, nothing that links, queries, keeps incremental state   *)
(* or names its own output file is cached (rustc_mode.cc:163, 226).  Words *)
(* in an @file are not seen.                                               *)
(***************************************************************************)
RustKey ==
  WellFormed(rline) =>
    \A inv \in {ParseRustInvocation(rline)}, reads \in {RustcReads(rline)} : inv.cacheable =>
      /\ Relevant(RustcReads(inv.key_args)) = Relevant(reads)
      /\ ToSet(inv.externs) = {r[2] : r \in {q \in ToSet(reads) : q[1] = "--extern" /\ HasPath(q[2])}}
      /\ CargoSpells(rline) => ~Refused(reads)

==============================================================================
