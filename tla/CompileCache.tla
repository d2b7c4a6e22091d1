---------------------------- MODULE CompileCache ----------------------------
(***************************************************************************)
(* jig's compile cache (cc_mode.cc, rustc_mode.cc, manifest.cc, store.cc): *)
(* a request key k1 for what was asked, under it a manifest of the files   *)
(* the compiler read and of those it looked for in vain, and under k2, the *)
(* key of k1 and manifest, the results to replay.                          *)
(*                                                                         *)
(* The compiler is any deterministic program that looks up one path after  *)
(* the other and ends: Step gives the next path, or the verdict, from what *)
(* it has seen.  An output is represented by what it was computed from, so *)
(* two outputs are equal only if they were made from equal input.  Digests *)
(* do not collide.  A path stands for its spelling with the store hash     *)
(* masked where the identity is by content.                                *)
(*                                                                         *)
(* jigd answers a GET with something put under that key before, or MISS:   *)
(* pieces of an entry are evicted one by one, and PUTs get lost.           *)
(***************************************************************************)
EXTENDS Integers, Sequences

CONSTANTS
  Builds,       \* sandboxes, each with its own build tree and store roots
  Modes,        \* of "cc" (one source), "asm" (one plain .s), "rustc", "link"
  Sources,      \* bytes of the primary source
  Paths,        \* everything else a compiler may look up
  EnvVars,      \* those of them that are variables of the environment
  StorePaths,   \* those below the store
  Contents,     \* what a file may hold (its identity)
  StoreViews,   \* what the store paths of one build may hold
  Mask,         \* a path as it is spelt in keys and manifests    (Store::Key)
  ByContent,    \* JIG_STORE_IDENTITY = content
  Racing,       \* whether the build tree changes under a running compiler
  EnvFailures,  \* failures no input explains: "killed", "disk"
  MaxStarts,    \* bound: invocations
  MaxEdits,     \* bound: changes of build trees
  Step(_, _, _),
  Absent, Miss

Verdicts == {"ok", "error", "notfound"}
Identities == Contents \cup {Absent}

ASSUME CompileCacheAssumption ==
  /\ Modes \subseteq {"cc", "asm", "rustc", "link"}
  /\ StorePaths \subseteq Paths
  /\ StoreViews \subseteq [StorePaths -> Identities]
  /\ DOMAIN Mask = Paths
  /\ ByContent \in BOOLEAN /\ Racing \in BOOLEAN
  /\ EnvFailures \subseteq {"killed", "disk"}
  /\ MaxStarts \in Nat /\ MaxEdits \in Nat
  /\ Absent \notin Contents

VARIABLES
  view,    \* per build, what each path holds
  src,     \* per build, the primary source
  cache,   \* everything ever put: [slot, key, val]
  inv,     \* per build, the invocation of jig that runs or has replayed
  starts, edits

vars == <<view, src, cache, inv, starts, edits>>

\* What the compiler sees of a path; what it makes, from what, and whether the
\* files stood still; a line of a manifest; a request key; what is put.
Trees == {"same", "changed"}
Seen == [path : Paths, id : Identities]
Output == [src : Sources, hist : Seq(Seen), status : Verdicts \cup EnvFailures \cup {"none"}, tree : Trees]
Line == [path : {Mask[p] : p \in Paths}, id : Identities]
Request == [mode : Modes, src : Sources, roots : [StorePaths -> Identities] \cup {Miss}]
Piece ==
  [slot : {"m"}, key : Request, val : SUBSET Line]
  \cup [slot : {"o", "d", "r"}, key : [k1 : Request, lines : SUBSET Line], val : Output]

ASSUME MissAssumption == Miss \notin Output

Invocation ==
  [pc : {"idle", "find", "fetch", "run", "store", "replayed"},
   mode : Modes \cup {"none"},
   dep : {"wanted", "none"},
   key : Request \cup {Miss},
   lines : SUBSET Line,
   made : Output \cup {Miss},
   depfile : Output \cup {Miss},
   tree : Trees]   \* since the invocation began

TypeOK ==
  /\ view \in [Builds -> [Paths -> Identities]]
  /\ src \in [Builds -> Sources]
  /\ cache \subseteq Piece
  /\ inv \in [Builds -> Invocation]
  /\ \A b \in Builds : inv[b].pc \in {"run", "store", "replayed"} => inv[b].made # Miss
  /\ starts \in 0..MaxStarts /\ edits \in 0..MaxEdits

NoInv == [pc |-> "idle", mode |-> "none", dep |-> "none", key |-> Miss, lines |-> {},
          made |-> Miss, depfile |-> Miss, tree |-> "changed"]

Init ==
  /\ view \in [Builds -> [Paths -> Identities]]
  /\ \A b \in Builds : [p \in StorePaths |-> view[b][p]] \in StoreViews
  /\ \A b \in Builds, p \in Paths \ StorePaths : view[b][p] = Absent
  /\ src \in [Builds -> Sources]
  /\ cache = {}
  /\ inv = [b \in Builds |-> NoInv]
  /\ starts = 0
  /\ edits = 0

----------------------------------------------------------------------------
(* The compiler, and the world around it *)

Busy(b) == inv[b].pc \notin {"idle", "replayed"}

\* A step of the build writes, changes or removes a file of its tree, or runs jig
\* in another environment.
Edit(b) ==
  /\ Racing \/ ~Busy(b)
  /\ \/ \E p \in Paths \ StorePaths, c \in Identities :
          c # view[b][p] /\ view' = [view EXCEPT ![b][p] = c] /\ UNCHANGED src
     \/ \E s \in Sources : s # src[b] /\ src' = [src EXCEPT ![b] = s] /\ UNCHANGED view
  /\ inv' = [inv EXCEPT ![b].tree = "changed"]
  /\ edits < MaxEdits /\ edits' = edits + 1
  /\ UNCHANGED <<cache, starts>>

\* Another build starts in this place, with other store roots and a new tree.
Rebuild(b) ==
  /\ ~Busy(b)
  /\ \E roots \in StoreViews :
       view' = [view EXCEPT ![b] = [p \in Paths |-> IF p \in StorePaths THEN roots[p] ELSE Absent]]
  /\ inv' = [inv EXCEPT ![b] = NoInv]
  /\ UNCHANGED <<src, cache, starts, edits>>

----------------------------------------------------------------------------
(* Keys and manifests *)

\* k1: mode, arguments and source.  Unmasked store paths in the arguments say
\* what they hold.  Depfile options are not part of it.
RequestKey(m, b) ==
  [mode |-> m, src |-> src[b],
   roots |-> IF ByContent THEN Miss ELSE [p \in StorePaths |-> view[b][p]]]

ResultKey(k1, lines) == [k1 |-> k1, lines |-> lines]

\* Where this build has the path of a manifest line; of several roots with one
\* masked name the first counts.
Resolve(masked) == CHOOSE p \in Paths : Mask[p] = masked

\* ValidateManifest: files have the identity the manifest has for them, and what
\* was absent still is.
ValidateManifest(lines, b) == \A l \in lines : view[b][Resolve(l.path)] = l.id

\* One source is compiled, not linked.
OneSource(m) == m \in {"cc", "asm"}

\* What the compiler's depfile or dep-info lists of what it read: env!() variables
\* are not tracked, and the depfile of a plain .s names the source alone.
Lists(m, p) == m # "asm" /\ p \notin EnvVars

\* Only our clang logs what it looked for in vain; absent store paths get no line.
LogsAbsent(m, p) == m = "cc" /\ p \notin StorePaths \cup EnvVars

\* (BuildManifest as it would be with files read only, for comparison.)
BuildManifestOfRead(b, m, h) ==
  LET read == {h[i].path : i \in {i \in 1..Len(h) : h[i].id # Absent /\ Lists(m, h[i].path)}}
  IN {[path |-> Mask[p], id |-> view[b][p]] : p \in {p \in read : view[b][p] # Absent}}

\* BuildManifest, after the run: one line for each file listed that is still there,
\* and for each path logged as missed that still is.
BuildManifest(b, m, h) ==
  LET read == {h[i].path : i \in {i \in 1..Len(h) : h[i].id # Absent /\ Lists(m, h[i].path)}}
      missed == {h[i].path : i \in {i \in 1..Len(h) : h[i].id = Absent /\ LogsAbsent(m, h[i].path)}}
  IN {[path |-> Mask[p], id |-> view[b][p]] : p \in {p \in read : view[b][p] # Absent}}
     \cup
     {[path |-> Mask[p], id |-> Absent] : p \in {p \in missed : view[b][p] = Absent}}

----------------------------------------------------------------------------
(* One invocation *)

\* RunCcMode, RunRustcMode.  rustc has no depfile apart from its other outputs.
Start(b, m, dep) ==
  /\ ~Busy(b)
  /\ m = "rustc" => dep = "none"
  /\ starts < MaxStarts
  /\ starts' = starts + 1
  /\ inv' = [inv EXCEPT ![b] =
       [NoInv EXCEPT !.pc = "find", !.mode = m, !.dep = dep, !.key = RequestKey(m, b), !.tree = "same"]]
  /\ UNCHANGED <<view, src, cache, edits>>

\* The compiler begins with nothing seen.
Running(b) ==
  [inv[b] EXCEPT !.pc = "run", !.made = [src |-> src[b], hist |-> <<>>, status |-> "none", tree |-> "same"]]

Stored(slot, key) == {r.val : r \in {r \in cache : r.slot = slot /\ r.key = key}}

\* FindResult: get the manifest of k1 and validate it.
FindResult(b) ==
  /\ inv[b].pc = "find"
  /\ \/ inv' = [inv EXCEPT ![b] = Running(b)]
     \/ \E lines \in Stored("m", inv[b].key) :
          inv' = [inv EXCEPT ![b] =
            IF ValidateManifest(lines, b) THEN [@ EXCEPT !.pc = "fetch", !.lines = lines] ELSE Running(b)]
  /\ UNCHANGED <<view, src, cache, starts, edits>>

\* Lookup: all pieces of the entry in one exchange, each there or not.  A status
\* means a failure to replay; else the object must be there, and the depfile if
\* one is asked for.  (First, for comparison, not asking for the depfile, and not
\* for the object.)
LookupNoDepfile(b) ==
  /\ inv[b].pc = "fetch" /\ inv[b].mode # "rustc"
  /\ LET k2 == ResultKey(inv[b].key, inv[b].lines)
     IN \E status \in Stored("r", k2) \cup {Miss},
           object \in Stored("o", k2) \cup {Miss},
           depfile \in Stored("d", k2) \cup {Miss} :
          LET failed == OneSource(inv[b].mode) /\ status # Miss
              usable == failed \/ (object # Miss)
          IN inv' = [inv EXCEPT ![b] =
               IF ~usable THEN Running(b)
               ELSE [@ EXCEPT !.pc = "replayed",
                              !.made = IF failed THEN status ELSE object,
                              !.depfile = IF ~failed /\ inv[b].dep = "wanted" THEN depfile ELSE Miss]]
  /\ UNCHANGED <<view, src, cache, starts, edits>>

Lookup(b) ==
  /\ inv[b].pc = "fetch" /\ inv[b].mode # "rustc"
  /\ LET k2 == ResultKey(inv[b].key, inv[b].lines)
     IN \E status \in Stored("r", k2) \cup {Miss},
           object \in Stored("o", k2) \cup {Miss},
           depfile \in Stored("d", k2) \cup {Miss} :
          LET failed == OneSource(inv[b].mode) /\ status # Miss
              usable == failed \/ (object # Miss /\ (inv[b].dep = "wanted" => depfile # Miss))
          IN inv' = [inv EXCEPT ![b] =
               IF ~usable THEN Running(b)
               ELSE [@ EXCEPT !.pc = "replayed",
                              !.made = IF failed THEN status ELSE object,
                              !.depfile = IF ~failed /\ inv[b].dep = "wanted" THEN depfile ELSE Miss]]
  /\ UNCHANGED <<view, src, cache, starts, edits>>

\* RunRustcMode: one piece, with all files of the crate, which may not unpack.
LookupCrate(b) ==
  /\ inv[b].pc = "fetch" /\ inv[b].mode = "rustc"
  /\ \/ inv' = [inv EXCEPT ![b] = Running(b)]
     \/ \E object \in Stored("o", ResultKey(inv[b].key, inv[b].lines)) :
          inv' = [inv EXCEPT ![b] = [@ EXCEPT !.pc = "replayed", !.made = object, !.depfile = Miss]]
  /\ UNCHANGED <<view, src, cache, starts, edits>>

\* The compiler looks one path up.
Look(b) ==
  /\ inv[b].pc = "run"
  /\ LET p == Step(inv[b].mode, inv[b].made.src, inv[b].made.hist)
     IN /\ p \in Paths
        /\ inv' = [inv EXCEPT ![b].made.hist = Append(@, [path |-> p, id |-> view[b][p]])]
  /\ UNCHANGED <<view, src, cache, starts, edits>>

\* The compiler ends, with its verdict or for reasons of its own.
Exit(b) ==
  /\ inv[b].pc = "run"
  /\ \E v \in EnvFailures \cup {Step(inv[b].mode, inv[b].made.src, inv[b].made.hist)} :
       /\ v \in Verdicts \cup EnvFailures
       /\ inv' = [inv EXCEPT ![b].pc = "store", ![b].made.status = v]
  /\ UNCHANGED <<view, src, cache, starts, edits>>

\* What CompileAndStore keeps: a success, or a failure of one compile that has
\* all its inputs and is no crash.
Replayable(m, status) ==
  status = "ok" \/ (OneSource(m) /\ status \notin {"notfound", "killed"})

\* The entries it puts.
EntryOf(b) ==
  LET i == inv[b]
      lines == BuildManifest(b, i.mode, i.made.hist)
      k2 == ResultKey(i.key, lines)
      made == [i.made EXCEPT !.tree = i.tree]
  IN {[slot |-> "m", key |-> i.key, val |-> lines]}
     \cup (IF i.made.status = "ok"
           THEN {[slot |-> s, key |-> k2, val |-> made] : s \in IF i.dep = "wanted" THEN {"o", "d"} ELSE {"o"}}
           ELSE {[slot |-> "r", key |-> k2, val |-> made]})

\* The rest of CompileAndStore.  The depfile or the output may be unreadable; a
\* plain .s leaves none where one was asked for.
CompileAndStore(b) ==
  /\ inv[b].pc = "store" /\ inv[b].mode # "rustc"
  /\ \/ /\ Replayable(inv[b].mode, inv[b].made.status)
        /\ inv[b].mode = "asm" => inv[b].dep = "none"
        /\ cache' = cache \cup EntryOf(b)
     \/ UNCHANGED cache
  /\ inv' = [inv EXCEPT ![b] = NoInv]
  /\ UNCHANGED <<view, src, starts, edits>>

\* The rest of RunRustcMode keeps successes only, if there is a dep-info.
StoreCrate(b) ==
  /\ inv[b].pc = "store" /\ inv[b].mode = "rustc"
  /\ \/ inv[b].made.status = "ok" /\ cache' = cache \cup EntryOf(b)
     \/ UNCHANGED cache
  /\ inv' = [inv EXCEPT ![b] = NoInv]
  /\ UNCHANGED <<view, src, starts, edits>>

----------------------------------------------------------------------------

Next ==
  \E b \in Builds :
    \/ Edit(b) \/ Rebuild(b)
    \/ \E m \in Modes, dep \in {"wanted", "none"} : Start(b, m, dep)
    \/ FindResult(b) \/ Lookup(b) \/ LookupCrate(b) \/ Look(b) \/ Exit(b)
    \/ CompileAndStore(b) \/ StoreCrate(b)

Spec == Init /\ [][Next]_vars

----------------------------------------------------------------------------
(* Properties *)

\* The output v is what the compiler would make in build b now: each look-up is
\* the one it would do next and finds what is there, and it ends with v's status.
Genuine(v, m, b) ==
  /\ v.src = src[b]
  /\ \A i \in 1..Len(v.hist) :
       /\ v.hist[i].path = Step(m, v.src, SubSeq(v.hist, 1, i - 1))
       /\ v.hist[i].id = view[b][v.hist[i].path]
  /\ v.status = Step(m, v.src, v.hist)

\* Nothing under which v is stored says what the look-up o found: the compiler did
\* not report it, or its masked name stands for another path of a build first; and
\* the store paths in the key do not say it either.
Blind(m, o) ==
  /\ ByContent \/ o.path \notin StorePaths
  /\ \/ ~(IF o.id = Absent THEN LogsAbsent(m, o.path) ELSE Lists(m, o.path))
     \/ Resolve(Mask[o.path]) # o.path

\* What jig cannot know: that v was made while the files changed, or failed for
\* want of disk space, or that build b differs where the manifest is blind.
Excused(v, m, b) ==
  \/ v.tree = "changed"
  \/ v.status = "disk"
  \/ \E i \in 1..Len(v.hist) : Blind(m, v.hist[i]) /\ v.hist[i].id # view[b][v.hist[i].path]

Hit(b) == inv[b].pc = "replayed" /\ inv[b].tree = "same"

\* Faithful (RunCcMode, RunRustcMode, FindResult): what a hit replays, the depfile
\* too, is what the compiler would have made in this build, whatever other builds
\* have stored and while files change under running compilers, but for what jig
\* cannot know.  (If the files do not change while jig is looking.)
Faithful ==
  \A b \in Builds : Hit(b) =>
    /\ Genuine(inv[b].made, inv[b].mode, b) \/ Excused(inv[b].made, inv[b].mode, b)
    /\ inv[b].depfile # Miss =>
         Genuine(inv[b].depfile, inv[b].mode, b) \/ Excused(inv[b].depfile, inv[b].mode, b)

\* Identical (docs/design.md, "outputs are identical either way"): without
\* exceptions.
Identical == \A b \in Builds : Hit(b) => Genuine(inv[b].made, inv[b].mode, b)

\* DepfileWritten (Lookup: "an entry stored by a run without -MD lacks one"): a
\* successful hit writes the depfile ninja or make asked for.
DepfileWritten ==
  \A b \in Builds :
    inv[b].pc = "replayed" /\ inv[b].dep = "wanted" /\ inv[b].made.status = "ok" =>
      inv[b].depfile # Miss

============================================================================
