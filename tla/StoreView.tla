------------------------------ MODULE StoreView ------------------------------
(***************************************************************************)
(* How jig reads store paths in texts (store.cc).  A text is a sequence of *)
(* tokens: "<store>/<hash>-" is one token, any other character another.    *)
(***************************************************************************)
EXTENDS Naturals, Sequences, SequencesExt, FiniteSets, FiniteSetsExt

Pre(h) == [kind |-> "pre", v |-> h]   \* "<store>/<h>-"
Chr(c) == [kind |-> "chr", v |-> c]

\* 32 characters of nix base32: neither the mask nor the placeholder of $out
IsStoreHash(h) == h \notin {"*", "eeee"}

MaskHashes(text) ==
  [i \in DOMAIN text |-> IF text[i].kind = "pre" /\ IsStoreHash(text[i].v) THEN Pre("*") ELSE text[i]]

\* characters a path cannot go on after: '/' and kPathEnds
PathEnds == {"/", " ", "tab", "newline", "\\", ":", "quote", "'", ";", ",", ")", "]", "}", ">"}
EndsName(text, j) == j > Len(text) \/ text[j].kind = "pre" \/ text[j].v \in PathEnds

\* the name after the prefix at i: up to the first end
NameAt(text, i) ==
  LET end == Min({j \in (i + 1)..(Len(text) + 1) : EndsName(text, j)})
  IN [k \in 1..(end - i - 1) |-> text[i + k].v]

\* Store::Store: <masked name -> hash> of the roots, the first of two roots with one name
MaskedToReal(roots) ==
  [n \in {r.name : r \in Range(roots)} |->
     roots[Min({i \in DOMAIN roots : roots[i].name = n})].hash]

\* whole roots only: "*-zlib" must not eat "*-zlib-ng"
ResolveAll(text, real) ==
  [i \in DOMAIN text |->
     IF MaskHashes(text)[i] = Pre("*") /\ NameAt(text, i) \in DOMAIN real
     THEN Pre(real[NameAt(text, i)]) ELSE MaskHashes(text)[i]]

==============================================================================
