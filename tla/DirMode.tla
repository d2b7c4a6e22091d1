------------------------------- MODULE DirMode -------------------------------
(***************************************************************************)
(* jig cache put-dir and get-dir (dir_mode.cc): a tree as one listing and  *)
(* one blob per file content, deduplicated by the content's hash.  One     *)
(* build snapshots a directory that may still change, another restores it  *)
(* while the daemon evicts blobs and listings on their own.  A content is  *)
(* [bin, text]; its hash is the content as stored.                         *)
(***************************************************************************)
EXTENDS StoreView, TLC

CONSTANTS Names,      \* file names in the iterator's order
          Contents,   \* what a file may hold
          Trees,      \* trees put-dir may meet: name -> node
          GetRoots,   \* JIG_STORE_ROOTS of the restoring build
          Batch,      \* kBatch
          MaxRewrites \* bound: files the build changes under put-dir

VARIABLES tree,     \* the directory put-dir reads
          put,      \* [pc, at, listing, pending, have], seen: what it hashed, by name,
                    \* held: what each file held from then on, rewrites: files changed under it
          blobs,    \* the daemon's blobs, by key
          listing,  \* the daemon's listing: a sequence of entries, or <<>> with listed = FALSE
          listed,
          get,      \* [pc, entries, at, missing, written, status], byContent: by_content_ of its Store,
                    \* unlinked: links it could not make
          dest      \* the directory get-dir fills

dvars == <<tree, put, blobs, listing, listed, get, dest>>

Gone == [kind |-> "gone"]
Unreadable == [kind |-> "unreadable"]   \* or neither a file nor a link
File(c) == [kind |-> "file", content |-> c]
Link(t) == [kind |-> "link", target |-> t]   \* t: the words of the target

DStart ==
  /\ put = [pc |-> "scan", at |-> 1, listing |-> <<>>, pending |-> <<>>, have |-> {},
            seen |-> <<>>, held |-> <<>>, rewrites |-> 0]
  /\ blobs = <<>> /\ listing = <<>> /\ listed = FALSE
  /\ get = [pc |-> "idle", entries |-> <<>>, at |-> 1, missing |-> 0, written |-> {}, status |-> "none",
            byContent |-> FALSE, unlinked |-> {}]
  /\ dest = [n \in Range(Names) |-> Gone]

DInit == tree \in Trees /\ DStart

Stored(c) == IF c.bin THEN c ELSE [c EXCEPT !.text = MaskHashes(@)]
Restored(c, real) == IF c.bin THEN c ELSE [c EXCEPT !.text = ResolveAll(@, real)]

\* Store::Store: no roots are read unless identities go by content, while MaskHashes always masks
RealRoots == IF get.byContent THEN MaskedToReal(GetRoots) ELSE <<>>

-----------------------------------------------------------------------------
(* PutDir *)

\* one directory entry: links and files enter the listing, a full batch is uploaded
Scan ==
  /\ put.pc = "scan" /\ put.at <= Len(Names)
  /\ \E name \in {Names[put.at]}, node \in {tree[Names[put.at]]} :
       put' = [put EXCEPT
         !.at = @ + 1,
         !.pc = IF node.kind = "file" /\ Len(put.pending) + 1 = Batch THEN "has" ELSE @,
         !.listing = CASE node.kind = "link" -> Append(@, [kind |-> "l", ref |-> node.target, rel |-> name])
                       [] node.kind = "file" -> Append(@, [kind |-> "f", ref |-> Stored(node.content), rel |-> name])
                       [] OTHER -> @,
         !.pending = IF node.kind = "file" THEN Append(@, [key |-> Stored(node.content), file |-> name]) ELSE @,
         !.seen = IF node.kind = "file" THEN @ @@ (name :> node.content) ELSE @,
         !.held = IF node.kind = "file" THEN @ @@ (name :> {node.content}) ELSE @]
  /\ UNCHANGED <<tree, blobs, listing, listed, get, dest>>

ScanDone ==
  /\ put.pc = "scan" /\ put.at > Len(Names)
  /\ put' = [put EXCEPT !.pc = "has"]
  /\ UNCHANGED <<tree, blobs, listing, listed, get, dest>>

\* Upload: HasMany
Has ==
  /\ put.pc = "has"
  /\ put' = [put EXCEPT !.pc = "upload", !.have = {p \in Range(put.pending) : p.key \in DOMAIN blobs}]
  /\ UNCHANGED <<tree, blobs, listing, listed, get, dest>>

Lacking == SelectSeq(put.pending, LAMBDA p : p \notin put.have /\ tree[p.file].kind = "file")

\* the blobs after the first n items of a PutMany: what the files hold by now
Uploaded(n) ==
  [k \in DOMAIN blobs \cup {Lacking[i].key : i \in 1..n} |->
     LET mine == {i \in 1..n : Lacking[i].key = k}
     IN IF mine = {} THEN blobs[k] ELSE Stored(tree[Lacking[Max(mine)].file].content)]

\* Upload: ReadFile of the files the daemon lacks, PutMany; the daemon may hang up midway, and
\* then neither the rest nor the listing gets stored
Upload ==
  /\ put.pc = "upload"
  /\ \E n \in 0..Len(Lacking) :
       /\ blobs' = Uploaded(n)
       /\ put' = IF n < Len(Lacking) THEN [put EXCEPT !.pc = "done", !.have = {}]
                 ELSE [put EXCEPT !.pc = IF put.at > Len(Names) THEN "list" ELSE "scan", !.pending = <<>>, !.have = {}]
  /\ UNCHANGED <<tree, listing, listed, get, dest>>

PutListing ==
  /\ put.pc = "list"
  /\ \/ listing' = put.listing /\ listed' = TRUE
     \/ UNCHANGED <<listing, listed>>   \* the daemon is gone: an ignored put
  /\ put' = [put EXCEPT !.pc = "done"]
  /\ UNCHANGED <<tree, blobs, get, dest>>

-----------------------------------------------------------------------------
(* GetDir *)

\* ParseListing: a head of three words; a link target of two words makes it four
ParseListing(l) == SelectSeq(l, LAMBDA e : e.kind = "f" \/ Len(e.ref) = 1)

\* links first; one that cannot be made is not counted as missing
Get ==
  /\ get.pc = "idle" /\ put.pc = "done"
  /\ IF listed
     THEN \E entries \in {ParseListing(listing)}, byContent \in BOOLEAN :
            LET links == {e \in Range(entries) : e.kind = "l"}
            IN \E fails \in SUBSET links :
                 /\ get' = [get EXCEPT !.pc = "files", !.byContent = byContent,
                                       !.written = {e.rel : e \in links}, !.unlinked = {e.rel : e \in fails},
                                       !.entries = SelectSeq(entries, LAMBDA e : e.kind = "f")]
                 /\ dest' = [n \in DOMAIN dest |->
                               IF \E e \in links \ fails : e.rel = n
                               THEN Link((CHOOSE e \in links : e.rel = n).ref) ELSE dest[n]]
     ELSE get' = [get EXCEPT !.pc = "done", !.status = 1] /\ UNCHANGED dest
  /\ UNCHANGED <<tree, put, blobs, listing, listed>>

\* one batch: GetMany, then each file written as it came; blobs the daemon lacks, those after a
\* hang-up and failed writes are missing
GetBatch ==
  /\ get.pc = "files" /\ get.at <= Len(get.entries)
  /\ LET batch == get.at..Min({get.at + Batch - 1, Len(get.entries)})
     IN \E here \in SUBSET {i \in batch : get.entries[i].ref \in DOMAIN blobs} :
          /\ dest' = [n \in DOMAIN dest |->
                        IF \E i \in here : get.entries[i].rel = n
                        THEN File(Restored(blobs[(get.entries[CHOOSE i \in here : get.entries[i].rel = n]).ref],
                                           RealRoots))
                        ELSE dest[n]]
          /\ get' = [get EXCEPT !.at = @ + Batch, !.missing = @ + Cardinality(batch \ here),
                                !.written = @ \cup {get.entries[i].rel : i \in here}]
  /\ UNCHANGED <<tree, put, blobs, listing, listed>>

\* mutant: what was written stays when blobs are missing
GetDoneKeeping ==
  /\ get.pc = "files" /\ get.at > Len(get.entries)
  /\ get' = [get EXCEPT !.pc = "done", !.status = IF get.missing = 0 THEN 0 ELSE 1]
  /\ UNCHANGED <<tree, put, blobs, listing, listed, dest>>

\* a partial tree would pass for a warm one: it is removed
GetDone ==
  /\ get.pc = "files" /\ get.at > Len(get.entries)
  /\ get' = [get EXCEPT !.pc = "done", !.status = IF get.missing = 0 THEN 0 ELSE 1]
  /\ dest' = IF get.missing = 0 THEN dest ELSE [n \in DOMAIN dest |-> IF n \in get.written THEN Gone ELSE dest[n]]
  /\ UNCHANGED <<tree, put, blobs, listing, listed>>

-----------------------------------------------------------------------------
\* the build goes on while put-dir runs: a file is rewritten or removed
Rewrite ==
  /\ put.pc # "done" /\ put.rewrites < MaxRewrites
  /\ \E n \in Range(Names), node \in {Gone} \cup {File(c) : c \in Contents} :
       /\ tree[n].kind = "file" /\ tree[n] # node
       /\ tree' = [tree EXCEPT ![n] = node]
       /\ put' = [put EXCEPT !.rewrites = @ + 1,
                             !.held = [m \in DOMAIN @ |-> IF m = n /\ node.kind = "file" THEN @[m] \cup {node.content}
                                                                                        ELSE @[m]]]
  /\ UNCHANGED <<blobs, listing, listed, get, dest>>

\* the daemon's store: blobs and listings go independently
Evict ==
  /\ get.pc # "done"
  /\ \/ \E k \in DOMAIN blobs : blobs' = [b \in DOMAIN blobs \ {k} |-> blobs[b]] /\ UNCHANGED listed
     \/ listed /\ listed' = FALSE /\ UNCHANGED blobs
  /\ UNCHANGED <<tree, put, listing, get, dest>>

DNext == Scan \/ ScanDone \/ Has \/ Upload \/ PutListing \/ Get \/ GetBatch \/ GetDone \/ Rewrite \/ Evict
DSpec == DInit /\ [][DNext]_dvars

\* a store path that names a root of the restoring build is that root, and any other has lost its hash
Localized(c) ==
  IF c.bin THEN c
  ELSE [c EXCEPT !.text =
          [i \in DOMAIN @ |->
             LET root == {r \in Range(GetRoots) : get.byContent /\ r.name = NameAt(@, i)}
             IN IF @[i].kind = "pre" /\ IsStoreHash(@[i].v)
                THEN (IF root = {} THEN Pre("*") ELSE Pre((CHOOSE r \in root : TRUE).hash)) ELSE @[i]]]

\* what the entry e may come back as: while put-dir runs, a file it hashed to e.ref can be rewritten
\* before it is uploaded under that hash
Whole(e) ==
  IF e.kind = "l" THEN {Link(e.ref)}
  ELSE {File(Localized(c)) : c \in UNION {put.held[m] : m \in {m \in DOMAIN put.seen : Stored(put.seen[m]) = e.ref}}}

(***************************************************************************)
(* get-dir answers 0 only with every file of the listing, holding what one *)
(* of the files that hash alike held when put-dir hashed it or later, its  *)
(* binaries untouched; in its texts a store path is the restoring build's  *)
(* root of that name, or "*" where it has none, or where its               *)
(* JIG_STORE_IDENTITY is not "content".  The links are there too, except   *)
(* those whose making failed and those with a target of two words.         *)
(* Answering 1 it leaves nothing behind (dir_mode.cc:153).                 *)
(***************************************************************************)
TreeWhole ==
  get.pc = "done" =>
    \A n \in Range(Names) :
      IF get.status = 1 THEN dest[n] = Gone
      ELSE \A e \in Range(listing) :
             e.rel = n /\ (e.kind = "l" => Len(e.ref) = 1 /\ n \notin get.unlinked) => dest[n] \in Whole(e)

==============================================================================
