------------------------------- MODULE JigModes -------------------------------
(***************************************************************************)
(* jig is one binary with many modes (main.cc).  A behaviour follows one   *)
(* invocation into one part of the mode it selects: its traffic with jigd, *)
(* the identities jigd answers, the directory cache, the go cache, the     *)
(* nix-store client, the rustc command line, or the conversions it uses.   *)
(***************************************************************************)
EXTENDS CacheClient, Identities, DirMode, GoCache, NixStore, Codec, RustArgs

CONSTANTS Invocations,   \* [name: what argv[0] ends in, args]
          Batch1, Pair, Many   \* keys of a full batch, of a short one, of an unbounded one

VARIABLES invocation, part

jvars == <<invocation, part, cvars, ivars, dvars, gvars, nvars, input, rline, added>>

\* main: the mode is argv[0]'s name, or the first argument of jig itself
Mode(i) ==
  IF i.name # "jig" THEN i.name
  ELSE IF i.args = <<>> \/ Head(i.args) \in {"--help", "-h"} THEN "usage" ELSE Head(i.args)

\* what there is to follow in a mode; any name that is no mode is a compiler
Parts(mode) ==
  CASE mode = "usage"       -> {"none"}
    [] mode = "nix-store"   -> {"nix", "codec"}
    [] mode = "cache"       -> {"wire", "dir"}
    [] mode = "gocacheprog" -> {"wire", "go", "codec"}
    [] mode = "rustcwrap"   -> {"wire", "rust", "codec"}
    [] mode \in {"slot", "reloc-fixup"} -> {"none"}
    [] OTHER -> {"wire", "ids", "codec"}

Op(verb, keys) == [verb |-> verb, keys |-> keys]
One(verb) == Op(verb, <<Batch1[1]>>)

\* what a mode asks of jigd over its connection, one operation after the other: RunCacheMode's
\* get, put, get-dir and put-dir, a go put after a get, a compilation that misses
Traffic(mode) ==
  CASE mode = "cache" -> {<<One("GET")>>, <<One("PUT")>>, <<One("GET"), Op("GET", Pair)>>,
                          <<Op("HAS", Batch1), Op("PUT", Batch1), Op("HAS", Pair), One("PUT")>>}
    [] mode = "gocacheprog" -> {<<One("GET"), One("GET"), One("PUT"), One("PUT")>>}
    [] OTHER -> {<<Op("IDS", Many), One("GET"), One("PUT")>>, <<Op("IDS", Batch1), Op("GET", Pair), One("PUT")>>}

\* the choices of a part that is not followed do not matter
Picks(p, set) == IF part = p THEN set ELSE {CHOOSE x \in set : TRUE}

JInit ==
  /\ invocation \in Invocations
  /\ part \in Parts(Mode(invocation))
  /\ script \in Picks("wire", Traffic(Mode(invocation))) /\ stored \in Picks("wire", SUBSET Keys) /\ CStart
  /\ IInit
  /\ tree \in Picks("dir", Trees) /\ DStart
  /\ session \in Picks("go", [Sessions -> {Fresh(TRUE), Fresh(FALSE)}]) /\ GStart
  /\ command \in Picks("nix", Commands) /\ offline \in Picks("nix", BOOLEAN) /\ NStart
  /\ XInit
  /\ rline \in Picks("rust", RustBases) /\ added = 0

Follow(p) == part = p /\ UNCHANGED <<invocation, part>>

Wire == Follow("wire") /\ CNext /\ UNCHANGED <<ivars, dvars, gvars, nvars, input, rline, added>>
Ids == Follow("ids") /\ INext /\ UNCHANGED <<cvars, dvars, gvars, nvars, input, rline, added>>
Dir == Follow("dir") /\ DNext /\ UNCHANGED <<cvars, ivars, gvars, nvars, input, rline, added>>
Go == Follow("go") /\ GNext /\ UNCHANGED <<cvars, ivars, dvars, nvars, input, rline, added>>
Nix == Follow("nix") /\ NNext /\ UNCHANGED <<cvars, ivars, dvars, gvars, input, rline, added>>
Code == Follow("codec") /\ Convert /\ UNCHANGED <<cvars, ivars, dvars, gvars, nvars, rline, added>>
Rust == Follow("rust") /\ AddWord /\ UNCHANGED <<cvars, ivars, dvars, gvars, nvars, input>>

JNext == Wire \/ Ids \/ Dir \/ Go \/ Nix \/ Code \/ Rust
JSpec == JInit /\ [][JNext]_jvars

==============================================================================
