------------------------------- MODULE CcArgs -------------------------------
(***************************************************************************)
(* How jig reads a compiler command line (pkgs/ji/jig/src/cc_mode.cc):     *)
(* ParseInvocation decides whether the run can be cached, which file it    *)
(* writes, and which words its key is made of. Words are those of Driver.  *)
(***************************************************************************)
EXTENDS Driver

CONSTANTS Sources, Objects     \* file names IsSourceFile, IsObjectInput accept

IsSourceFile(w) == w.opt = "" /\ Base(w.path) \in Sources
IsObjectInput(w) == w.opt = "" /\ Base(w.path) \in Objects \cup SharedLibs
IsNoOutputOption(o) == o \in {"-M", "-v"}
HasLinkerSideOutput(o) == o = "-Wl,-Map"

NoInvocation ==
  [key_args |-> <<>>, source |-> <<>>, inputs |-> <<>>, pch |-> <<>>, output |-> <<>>,
   compile_only |-> FALSE, to_stdout |-> FALSE, link_one |-> FALSE, link |-> FALSE,
   cacheable |-> TRUE, query |-> FALSE, wants_depfile |-> FALSE, depfile |-> <<>>,
   sources |-> 0, objects |-> FALSE, stop |-> ""]

(* TakeDepfileOption, TakePchOption: words taken at i, 0 for another word  *)
DepfileLen(args, i) ==
  CASE args[i].opt \in {"-MF", "-MT"} /\ i < Len(args) -> 2
    [] args[i].opt \in {"-MD", "-MMD", "-Wp,-MD,"}     -> 1
    [] OTHER                                           -> 0
PchLen(args, i) ==
  LET xclang == {k \in i..Len(args) : \A j \in (i + 1)..k : args[j].opt = "-Xclang"}
      last   == CHOOSE k \in xclang : \A j \in xclang : j <= k
  IN  IF args[i].opt # "-include-pch" THEN 0
      ELSE IF last < Len(args) THEN last - i + 2 ELSE last - i + 1

(* One turn of ParseInvocation's loop over n words from i.                 *)
TakeDepfileOption(inv, args, i) ==
  [inv EXCEPT !.wants_depfile = TRUE,
              !.depfile = CASE args[i].opt = "-MF"      -> args[i + 1].path
                            [] args[i].opt = "-Wp,-MD," -> args[i].path
                            [] OTHER                    -> @]
TakePchOption(inv, args, i, n) ==
  LET last == args[i + n - 1]
  IN  [inv EXCEPT !.key_args = @ \o SubSeq(args, i, i + n - 1),
                  !.pch = IF n > 1 /\ last.opt # "-Xclang" THEN Append(@, last.path) ELSE @]

TakeWordNoStop(inv, w) ==
  CASE IsOutputOnlyMode(w.opt) /\ w.opt # "-M" -> [inv EXCEPT !.compile_only = TRUE, !.stop = w.opt]
    [] w.opt = "-o" /\ w.path # <<>> -> [inv EXCEPT !.output = w.path]
    [] IsNoOutputOption(w.opt) -> [inv EXCEPT !.cacheable = FALSE, !.query = TRUE]
    [] IsSourceFile(w) -> [inv EXCEPT !.source = w.path, !.sources = @ + 1]
    [] OTHER -> [inv EXCEPT !.objects = @ \/ IsObjectInput(w), !.key_args = Append(@, w)]

TakeWord(inv, w) ==
  CASE IsOutputOnlyMode(w.opt) /\ w.opt # "-M" ->
         [inv EXCEPT !.compile_only = TRUE, !.stop = w.opt, !.key_args = Append(@, w)]
    [] w.opt = "-o" /\ w.path # <<>> -> [inv EXCEPT !.output = w.path]
    [] IsNoOutputOption(w.opt) -> [inv EXCEPT !.cacheable = FALSE, !.query = TRUE]
    [] IsSourceFile(w) -> [inv EXCEPT !.source = w.path, !.sources = @ + 1]
    [] IsObjectInput(w) ->
         [inv EXCEPT !.objects = TRUE, !.inputs = Append(@, w.path), !.key_args = Append(@, w)]
    [] OTHER ->
         [inv EXCEPT !.objects = @ \/ w.opt \in {"-shared", "-r"},
                     !.cacheable = @ /\ w.opt # "@" /\ ~HasLinkerSideOutput(w.opt)
                                     /\ w # Word("-x", <<"c-header">>),
                     !.key_args = Append(@, w)]

RECURSIVE ParseFrom(_, _, _)
ParseFrom(args, i, inv) ==
  IF i > Len(args) THEN inv
  ELSE LET dep == DepfileLen(args, i)
           pch == PchLen(args, i)
       IN  CASE dep > 0 -> ParseFrom(args, i + dep, TakeDepfileOption(inv, args, i))
             [] args[i] = Word("-o", <<>>) /\ i < Len(args) ->
                  ParseFrom(args, i + 2, [inv EXCEPT !.output = args[i + 1].path])
             [] pch > 0 -> ParseFrom(args, i + pch, TakePchOption(inv, args, i, pch))
             [] OTHER -> ParseFrom(args, i + 1, TakeWord(inv, args[i]))

(* An output name without and with another extension; external: getpid()'s *)
(* temporary is the name "jig.i".                                          *)
Stem(p, ext) == <<Base(p), ext>>

OutputOf(inv) ==
  CASE inv.compile_only /\ inv.stop = "-E" /\ inv.output \in {<<>>, <<"-">>} -> <<"tmp", "jig.i">>
    [] inv.compile_only /\ inv.output = <<>> ->
         IF inv.source = <<>> THEN <<"", ".o">>
         ELSE Stem(inv.source, IF inv.stop = "-S" THEN ".s" ELSE ".o")
    [] ~inv.compile_only /\ inv.output = <<>> -> <<"a.out">>
    [] OTHER -> inv.output
Classified(inv, out, one, link) ==
  [inv EXCEPT
    !.output = out, !.link_one = one, !.link = link,
    !.to_stdout = inv.compile_only /\ inv.stop = "-E" /\ inv.output \in {<<>>, <<"-">>},
    !.cacheable = @ /\ IF inv.compile_only THEN inv.sources = 1 ELSE one \/ link,
    !.query = @ \/ (inv.compile_only /\ inv.stop = "-E" /\ inv.sources = 0),
    !.depfile = IF inv.wants_depfile /\ @ = <<>> THEN Stem(out, ".d") ELSE @]
Classify(inv) ==
  Classified(inv, OutputOf(inv), ~inv.compile_only /\ ~inv.objects /\ inv.sources = 1,
             ~inv.compile_only /\ inv.objects /\ inv.sources = 0 /\ inv.inputs # <<>>)

(* a flag probe, or a precompiled header: nothing to replay                *)
Replayable(inv) == [inv EXCEPT !.cacheable = @ /\ inv.output \notin {<<"dev", "null">>, <<"x.pch">>}]
ParseInvocation(args) == Classify(Replayable(ParseFrom(args, 1, NoInvocation)))

(* ComputeRequestKey: the words the key hashes, the driver's own included  *)
ComputeRequestKey(conf, inv, args, cmd) ==
  [src |-> IF inv.link THEN <<>> ELSE inv.source,
   mode |-> IF inv.link THEN "link" ELSE IF inv.link_one THEN "one" ELSE "compile",
   words |-> inv.key_args \o IF conf.present THEN SelectSeq(cmd, LAMBDA w : ~Contains(args, w)) ELSE <<>>,
   pch |-> inv.pch, inputs |-> inv.inputs]

(* RunCcMode up to the lookup: "exit" without a usable conf, "plain" for a *)
(* run the cache does not serve, else "cached".                            *)
Decide(conf, lang, args, inv, cmd) ==
  [how |-> IF /\ inv.cacheable /\ lang # "fortran"
              /\ (inv.link \/ inv.link_one) => conf.binfmt = "elf" THEN "cached" ELSE "plain",
   cmd |-> cmd, key |-> ComputeRequestKey(conf, inv, args, cmd)]
RunCcMode(conf, lang, args) ==
  IF conf.load # "conf" \/ (lang = "fortran" /\ conf.fc = <<>>) THEN [how |-> "exit"]
  ELSE Decide(conf, lang, args, ParseInvocation(args),
              IF conf.present THEN BuildDriverArgs(conf, lang, args) ELSE args)
=============================================================================
