------------------------------ MODULE MCJigModes ------------------------------
(***************************************************************************)
(* Model values for JigModes: every mode of jig once, small batches over   *)
(* sockets smaller than a batch, a tree of four entries in batches of two, *)
(* and conversions of every length around their boundaries.                *)
(***************************************************************************)
EXTENDS JigModes

Run(name, args) == [name |-> name, args |-> args]
MCInvocations == {Run("jig", <<>>), Run("jig", <<"cache">>), Run("gocacheprog", <<>>), Run("jig", <<"nix-store">>),
                  Run("rustcwrap", <<"rustc">>), Run("jig", <<"--help">>), Run("cc", <<"-c">>)}

MCBatch1 == <<"a", "b", "a", "b">>
MCPair == <<"a", "b">>
MCMany == MCBatch1 \o MCBatch1
MCScripts == UNION {Traffic(Mode(i)) : i \in MCInvocations}

\* handlers, real paths and inodes are told apart by nothing else
Alike == Permutations(Callers) \cup Permutations(RealPaths) \cup Permutations(Inodes)

\* two texts of one size, one of another; store files have one time
MCTexts == {[size |-> 1, v |-> 1], [size |-> 1, v |-> 2], [size |-> 2, v |-> 3]}

\* texts with roots that both builds have ("z", "z-n"), one they lack ("q"), and a binary
MCNames == <<"p", "q", "r", "s">>
Text(t) == [bin |-> FALSE, text |-> t]
Header == Text(<<Pre("h1"), Chr("z"), Chr("/"), Chr("i")>>)
Config == Text(<<Chr("i"), Pre("h2"), Chr("z"), Chr("n"), Chr("quote"), Pre("h9"), Chr("q")>>)
Library == [bin |-> TRUE, text |-> <<Pre("h1"), Chr("z")>>]
MCContents == {Header, Config, Library}
Tree(p, q, r, s) == [n \in {"p", "q", "r", "s"} |-> CASE n = "p" -> p [] n = "q" -> q [] n = "r" -> r [] n = "s" -> s]
MCTrees == {Tree(File(Header), File(Config), Link(<<"p">>), File(Header)),
            Tree(File(Header), File(Config), Link(<<"p">>), File(Library)),
            Tree(File(Library), Unreadable, Link(<<"p", "q">>), File(Config))}
Root(h, n) == [hash |-> h, name |-> n]
MCGetRoots == <<Root("k1", <<"z">>), Root("k2", <<"z", "n">>)>>

Item(name, size) == [name |-> name, refs |-> {"r"}, size |-> size, parses |-> TRUE]
MCCommands == {[verb |-> "add-text", items |-> <<Item("t", 0)>>],
               [verb |-> "add-drv", items |-> <<[Item("d", 3) EXCEPT !.parses = FALSE]>>],
               [verb |-> "fetchurls", items |-> <<Item("a", 3), Item("b", 3)>>],
               [verb |-> "submit", items |-> <<Item("a", 3)>>]}
MCChatter == {<<>>,
              <<Word("next"), Str("m"), Word("start"), Word("id"), Word("level"), Word("type"), Str("s"),
                Num(2), Word("string"), Str("f"), Word("int"), Word("9"), Word("parent")>>,
              <<Word("result"), Word("id"), Word("type"), Num(1), Word("int"), Word("9"), Word("stop"), Word("id")>>}

Upto(S, n) == UNION {[1..k -> S] : k \in 0..n}
In(codec, xs) == {[codec |-> codec, x |-> x] : x \in xs}
Bytes == {0, 1, 127, 128, 255}
HeaderLike == <<Tok("a"), Tok(" "), [c |-> "mode", n |-> 1], Tok(" "), [c |-> "size", n |-> 1], Tok("newline")>>
Output(name, data, readable) == [name |-> name, mode |-> 7, data |-> data, readable |-> readable]
Outs == {Output(n, d, r) : n \in {<<Tok("l"), Tok("S"), Tok("r")>>, <<Tok("d")>>},
                           d \in {<<>>, <<Tok("newline")>>, HeaderLike}, r \in BOOLEAN}
MCInputs ==
  In("base64", Upto(Bytes, 4)) \cup In("nix32", Upto(Bytes, 3) \ {<<>>}) \cup In("sha256", 0..130)
  \cup In("aterm", Upto({"a", "quote", "\\", "newline", "tab", "n", "r"}, 3))
  \cup In("words", {[words |-> w, styles |-> t] : w \in [1..2 -> Upto({"a", " ", "\\", "'", "quote"}, 1)],
                                                  t \in [1..2 -> {"escape", "'", "quote"}]})
  \cup In("words", {[words |-> <<w>>, styles |-> <<t>>] : w \in Upto({"a", " ", "\\", "'", "quote"}, 3), t \in {"escape", "'"}})
  \cup In("pack", {[files |-> f, stem |-> s, other |-> o] : f \in Upto(Outs, 2), s \in {"", "S"}, o \in {"", "T"}})

Bare(f) == [flag |-> f, sep |-> "", val |-> "", text |-> f]
Eq(f, v) == [flag |-> f, sep |-> "=", val |-> v, text |-> "eq"]
Glued(f, v) == [flag |-> f, sep |-> "glued", val |-> v, text |-> "glued"]
Plain(t) == [flag |-> "", sep |-> "", val |-> t, text |-> t]
Source == [flag |-> "", sep |-> "", val |-> "source", text |-> "a.rs"]
MCRustWords ==
  {Bare(f) : f \in {"-C", "-L", "-o", "--print", "-O", "--crate-type", "--extern", "--emit",
                     "--codegen"}}
  \cup {Plain(t) : t \in {"incremental=i", "metadata=m", "opt=3", "bin", "proc_macro", "lib,cdylib", "@f"}} \cup {Source}
  \cup {Glued("-C", "incremental=i"), Glued("-C", "opt=3"), Glued("-L", "d"), Glued("-W", "u"), Glued("-o", "f")}
  \cup {Eq("--crate-type", "bin"), Eq("--crate-type", "lib,cdylib"), Eq("--out-dir", "d"), Eq("--emit", "dep-info")}
MCRustBases == {<<Eq("--out-dir", "d"), Bare("--emit"), Plain("dep-info"), Eq("--crate-type", "lib"), Source>>,
                <<Bare("--out-dir"), Plain("d"), Eq("--emit", "dep-info"), Source>>,
                <<Source>>}

===============================================================================
