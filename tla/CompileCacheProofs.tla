------------------------- MODULE CompileCacheProofs -------------------------
(* What is in the cache has its type, hits are faithful, and replays         *)
(* complete, for every compiler, search path, masking and set of builds, and *)
(* while files change under running compilers.                               *)
EXTENDS CompileCache, TLAPS

\* A path that is not there has an identity too.
LEMMA AbsentIdentity == Absent \in Identities
BY DEF Identities

\* The line a manifest has for a path and an identity.
LEMMA LineElt ==
  ASSUME NEW p \in Paths, NEW d \in Identities
  PROVE  [path |-> Mask[p], id |-> d] \in Line
BY DEF Line

LEMMA NoInvType == NoInv \in Invocation
BY DEF NoInv, Invocation, Trees

----------------------------------------------------------------------------
(* Types, and what an invocation asks for *)

\* Only failures were put with a status.
Statuses == \A r \in cache : r.slot = "r" => r.val.status # "ok"

\* Of one invocation: it asks for something; rustc asks for no depfile; a success
\* replayed for somebody who asked for one brings it.
Asked(i) ==
  /\ i.pc \in {"find", "fetch", "run", "store"} => i.key \in Request
  /\ i.mode = "rustc" => i.dep = "none"
  /\ i.pc = "replayed" /\ i.dep = "wanted" /\ i.made.status = "ok" => i.depfile # Miss

TInv == TypeOK /\ Statuses /\ \A b \in Builds : Asked(inv[b])

\* A step of one invocation: what remains to be shown.
LEMMA OneTyped ==
  ASSUME TInv, NEW b \in Builds, NEW x \in Invocation, inv' = [inv EXCEPT ![b] = x],
         x.pc \in {"run", "store", "replayed"} => x.made # Miss,
         Asked(x),
         view' \in [Builds -> [Paths -> Identities]], src' \in [Builds -> Sources],
         starts' \in 0..MaxStarts, edits' \in 0..MaxEdits, (cache \subseteq Piece /\ Statuses)'
  PROVE  TInv'
<1>1. inv \in [Builds -> Invocation]
  BY DEF TInv, TypeOK
<1>2. inv' \in [Builds -> Invocation] /\ inv'[b] = x /\ \A d \in Builds : d # b => inv'[d] = inv[d]
  BY <1>1
<1>3. TypeOK'
  BY <1>2 DEF TInv, TypeOK
<1>4. ASSUME NEW d \in Builds PROVE Asked(inv'[d])
  BY <1>2 DEF TInv
<1>5. (\A d \in Builds : Asked(inv[d]))'
  BY <1>4 DEF Asked
<1> QED BY <1>3, <1>5 DEF TInv

\* What the other variables are when they do not change.
LEMMA SameTyped ==
  ASSUME TInv, UNCHANGED <<view, src, cache, starts, edits>>
  PROVE  /\ view' \in [Builds -> [Paths -> Identities]] /\ src' \in [Builds -> Sources]
         /\ starts' \in 0..MaxStarts /\ edits' \in 0..MaxEdits /\ (cache \subseteq Piece /\ Statuses)'
BY DEF TInv, TypeOK, Statuses

LEMMA InitTyped == Init => TInv
<1> SUFFICES ASSUME Init PROVE TInv
  OBVIOUS
<1>1. TypeOK
  BY NoInvType, CompileCacheAssumption DEF Init, TypeOK, NoInv
<1>2. Statuses
  BY DEF Init, Statuses
<1>3. \A b \in Builds : Asked(inv[b])
  BY DEF Init, Asked, NoInv
<1> QED BY <1>1, <1>2, <1>3 DEF TInv

\* What can be got.
LEMMA StoredTyped ==
  ASSUME TInv
  PROVE  /\ \A k2 : \A s \in {"o", "d", "r"} : Stored(s, k2) \subseteq Output
         /\ \A k1 : Stored("m", k1) \subseteq SUBSET Line
         /\ \A k2 : \A v \in Stored("r", k2) : v.status # "ok"
<1>1. cache \subseteq Piece /\ Statuses
  BY DEF TInv, TypeOK
<1>2. ASSUME NEW r \in cache
      PROVE  /\ r.slot \in {"o", "d", "r"} => r.val \in Output
             /\ r.slot = "m" => r.val \in SUBSET Line
  BY <1>1 DEF Piece
<1> QED BY <1>1, <1>2 DEF Stored, Statuses

\* The compiler starts, from any step that knows the mode.
LEMMA RunTyped ==
  ASSUME TInv, NEW b \in Builds, Busy(b), inv' = [inv EXCEPT ![b] = Running(b)],
         UNCHANGED <<view, src, cache, starts, edits>>
  PROVE  TInv'
<1> DEFINE v == [src |-> src[b], hist |-> <<>>, status |-> "none", tree |-> "same"]
           x == [inv[b] EXCEPT !.pc = "run", !.made = v]
<1>1. inv[b] \in Invocation /\ src[b] \in Sources /\ Asked(inv[b])
  BY DEF TInv, TypeOK
<1>2. v \in Output
  BY <1>1 DEF Output, Trees
<1> HIDE DEF v
<1>6. v # Miss
  BY <1>2, MissAssumption
<1>3. x \in Invocation /\ x.pc = "run" /\ x.made = v /\ x.mode = inv[b].mode /\ x.dep = inv[b].dep
      /\ x.key = inv[b].key
  BY <1>1, <1>2 DEF Invocation
<1>4. inv' = [inv EXCEPT ![b] = x]
  BY DEF Running, v
<1> HIDE DEF x
<1>7. Busy(b) => inv[b].key \in Request
  BY <1>1 DEF Asked, Busy, Invocation
<1>5. Asked(x)
  BY <1>1, <1>3, <1>7 DEF Asked
<1> QED BY <1>3, <1>4, <1>5, <1>6, SameTyped, OneTyped

\* An invocation that replays v, with the depfile d if there is one.
LEMMA ReplayTyped ==
  ASSUME TInv, NEW b \in Builds, NEW v \in Output, NEW d \in Output \cup {Miss},
         inv[b].dep = "wanted" /\ v.status = "ok" => d # Miss,
         inv' = [inv EXCEPT ![b] = [inv[b] EXCEPT !.pc = "replayed", !.made = v, !.depfile = d]],
         UNCHANGED <<view, src, cache, starts, edits>>
  PROVE  TInv'
<1> DEFINE x == [inv[b] EXCEPT !.pc = "replayed", !.made = v, !.depfile = d]
<1>1. inv[b] \in Invocation /\ Asked(inv[b])
  BY DEF TInv, TypeOK
<1>2. x \in Invocation /\ x.made = v /\ x.depfile = d /\ x.mode = inv[b].mode /\ x.dep = inv[b].dep
      /\ x.pc = "replayed"
  BY <1>1 DEF Invocation
<1>3. v # Miss
  BY MissAssumption
<1>4. inv' = [inv EXCEPT ![b] = x]
  OBVIOUS
<1> HIDE DEF x
<1>5. Asked(x)
  BY <1>1, <1>2 DEF Asked
<1> QED BY <1>2, <1>3, <1>4, <1>5, SameTyped, OneTyped

LEMMA LookupTyped == ASSUME TInv, NEW b \in Builds, Lookup(b) PROVE TInv'
<1> DEFINE k2 == ResultKey(inv[b].key, inv[b].lines)
<1>1. UNCHANGED <<view, src, cache, starts, edits>> /\ Busy(b)
  BY DEF Lookup, Busy
<1>2. PICK status \in Stored("r", k2) \cup {Miss},
           object \in Stored("o", k2) \cup {Miss},
           depfile \in Stored("d", k2) \cup {Miss} :
        LET failed == OneSource(inv[b].mode) /\ status # Miss
            usable == failed \/ (object # Miss /\ (inv[b].dep = "wanted" => depfile # Miss))
        IN inv' = [inv EXCEPT ![b] =
             IF ~usable THEN Running(b)
             ELSE [@ EXCEPT !.pc = "replayed",
                            !.made = IF failed THEN status ELSE object,
                            !.depfile = IF ~failed /\ inv[b].dep = "wanted" THEN depfile ELSE Miss]]
  BY DEF Lookup
<1>3. /\ status # Miss => status \in Output /\ status.status # "ok"
      /\ object # Miss => object \in Output
      /\ depfile \in Output \cup {Miss}
  BY StoredTyped
<1> DEFINE failed == OneSource(inv[b].mode) /\ status # Miss
           usable == failed \/ (object # Miss /\ (inv[b].dep = "wanted" => depfile # Miss))
           v == IF failed THEN status ELSE object
           d == IF ~failed /\ inv[b].dep = "wanted" THEN depfile ELSE Miss
<1>4. CASE ~usable
  BY <1>1, <1>2, <1>4, RunTyped
<1>5. CASE usable
  <2>1. v \in Output /\ d \in Output \cup {Miss} /\ (inv[b].dep = "wanted" /\ v.status = "ok" => d # Miss)
    BY <1>3, <1>5
  <2>2. inv' = [inv EXCEPT ![b] = [inv[b] EXCEPT !.pc = "replayed", !.made = v, !.depfile = d]]
    BY <1>2, <1>5
  <2> HIDE DEF v, d
  <2> QED BY <1>1, <2>1, <2>2, ReplayTyped
<1> QED BY <1>4, <1>5

LEMMA LookupCrateTyped == ASSUME TInv, NEW b \in Builds, LookupCrate(b) PROVE TInv'
<1> DEFINE k2 == ResultKey(inv[b].key, inv[b].lines)
<1>1. UNCHANGED <<view, src, cache, starts, edits>> /\ inv[b].dep # "wanted" /\ Busy(b)
  BY DEF LookupCrate, TInv, Asked, Busy
<1>2. CASE inv' = [inv EXCEPT ![b] = Running(b)]
  BY <1>1, <1>2, RunTyped
<1>3. ASSUME NEW v \in Stored("o", k2),
             inv' = [inv EXCEPT ![b] = [@ EXCEPT !.pc = "replayed", !.made = v, !.depfile = Miss]]
      PROVE  TInv'
  <2>1. v \in Output
    BY StoredTyped
  <2>2. inv' = [inv EXCEPT ![b] = [inv[b] EXCEPT !.pc = "replayed", !.made = v, !.depfile = Miss]]
    BY <1>3
  <2> QED BY <1>1, <2>1, <2>2, ReplayTyped
<1> QED BY <1>2, <1>3 DEF LookupCrate

LEMMA EditTyped == ASSUME TInv, NEW b \in Builds, Edit(b) PROVE TInv'
<1> DEFINE x == [inv[b] EXCEPT !.tree = "changed"]
<1>1. inv[b] \in Invocation /\ Asked(inv[b])
      /\ (inv[b].pc \in {"run", "store", "replayed"} => inv[b].made # Miss)
  BY DEF TInv, TypeOK
<1>2. /\ x \in Invocation /\ x.pc = inv[b].pc /\ x.made = inv[b].made /\ x.depfile = inv[b].depfile
      /\ x.mode = inv[b].mode /\ x.dep = inv[b].dep /\ x.key = inv[b].key
  BY <1>1 DEF Invocation, Trees
<1>3. inv' = [inv EXCEPT ![b] = x]
  BY DEF Edit
<1> HIDE DEF x
<1>4. Asked(x)
  BY <1>1, <1>2 DEF Asked
<1>5. view \in [Builds -> [Paths -> Identities]] /\ src \in [Builds -> Sources]
  BY DEF TInv, TypeOK
<1>6. view' \in [Builds -> [Paths -> Identities]] /\ src' \in [Builds -> Sources]
  <2>1. ASSUME NEW p \in Paths \ StorePaths, NEW c \in Identities,
               view' = [view EXCEPT ![b][p] = c], UNCHANGED src
        PROVE  view' \in [Builds -> [Paths -> Identities]] /\ src' \in [Builds -> Sources]
    BY <1>5, <2>1
  <2>2. ASSUME NEW s \in Sources, src' = [src EXCEPT ![b] = s], UNCHANGED view
        PROVE  view' \in [Builds -> [Paths -> Identities]] /\ src' \in [Builds -> Sources]
    BY <1>5, <2>2
  <2> QED BY <2>1, <2>2 DEF Edit
<1>7. starts' \in 0..MaxStarts /\ edits' \in 0..MaxEdits
  BY CompileCacheAssumption DEF TInv, TypeOK, Edit
<1>8. (cache \subseteq Piece /\ Statuses)'
  BY DEF TInv, TypeOK, Statuses, Edit
<1> QED BY <1>1, <1>2, <1>3, <1>4, <1>6, <1>7, <1>8, OneTyped

LEMMA RebuildTyped == ASSUME TInv, NEW b \in Builds, Rebuild(b) PROVE TInv'
<1>1. PICK roots \in StoreViews :
        view' = [view EXCEPT ![b] = [p \in Paths |-> IF p \in StorePaths THEN roots[p] ELSE Absent]]
  BY DEF Rebuild
<1>2. roots \in [StorePaths -> Identities] /\ view \in [Builds -> [Paths -> Identities]]
  BY CompileCacheAssumption DEF TInv, TypeOK
<1>3. view' \in [Builds -> [Paths -> Identities]]
  BY <1>1, <1>2, AbsentIdentity
<1>4. inv' = [inv EXCEPT ![b] = NoInv] /\ UNCHANGED <<src, cache, starts, edits>>
  BY DEF Rebuild
<1>5. src' \in [Builds -> Sources] /\ starts' \in 0..MaxStarts /\ edits' \in 0..MaxEdits /\ (cache \subseteq Piece /\ Statuses)'
  BY <1>4 DEF TInv, TypeOK, Statuses
<1>6. NoInv.pc = "idle" /\ Asked(NoInv)
  BY DEF NoInv, Asked
<1> QED BY <1>3, <1>4, <1>5, <1>6, NoInvType, OneTyped

LEMMA StartTyped ==
  ASSUME TInv, NEW b \in Builds, NEW m \in Modes, NEW dep \in {"wanted", "none"}, Start(b, m, dep)
  PROVE  TInv'
<1> DEFINE x == [NoInv EXCEPT !.pc = "find", !.mode = m, !.dep = dep,
                              !.key = RequestKey(m, b), !.tree = "same"]
<1>1. RequestKey(m, b) \in Request
  <2>1. src[b] \in Sources /\ view[b] \in [Paths -> Identities]
    BY DEF TInv, TypeOK
  <2>2. [p \in StorePaths |-> view[b][p]] \in [StorePaths -> Identities]
    BY <2>1, CompileCacheAssumption
  <2> QED BY <2>1, <2>2 DEF RequestKey, Request
<1>2. x \in Invocation /\ x.pc = "find" /\ x.mode = m /\ x.dep = dep /\ x.key = RequestKey(m, b)
  BY <1>1 DEF NoInv, Invocation, Trees
<1>3. inv' = [inv EXCEPT ![b] = x] /\ (m = "rustc" => dep = "none") /\ UNCHANGED <<view, src, cache, edits>>
  BY DEF Start
<1> HIDE DEF x
<1>4. Asked(x)
  BY <1>1, <1>2, <1>3 DEF Asked
<1>5. starts' \in 0..MaxStarts
  BY CompileCacheAssumption DEF TInv, TypeOK, Start
<1>6. view' \in [Builds -> [Paths -> Identities]] /\ src' \in [Builds -> Sources]
      /\ edits' \in 0..MaxEdits /\ (cache \subseteq Piece /\ Statuses)'
  BY <1>3 DEF TInv, TypeOK, Statuses
<1> QED BY <1>2, <1>3, <1>4, <1>5, <1>6, OneTyped

LEMMA FindResultTyped == ASSUME TInv, NEW b \in Builds, FindResult(b) PROVE TInv'
<1>1. inv[b].pc = "find" /\ Busy(b) /\ UNCHANGED <<view, src, cache, starts, edits>>
  BY DEF FindResult, Busy
<1>2. CASE inv' = [inv EXCEPT ![b] = Running(b)]
  BY <1>1, <1>2, RunTyped
<1>3. ASSUME NEW lines \in Stored("m", inv[b].key),
             inv' = [inv EXCEPT ![b] =
               IF ValidateManifest(lines, b) THEN [@ EXCEPT !.pc = "fetch", !.lines = lines]
               ELSE Running(b)]
      PROVE  TInv'
  <2>1. CASE ~ValidateManifest(lines, b)
    BY <1>1, <1>3, <2>1, RunTyped
  <2>2. CASE ValidateManifest(lines, b)
    <3> DEFINE x == [inv[b] EXCEPT !.pc = "fetch", !.lines = lines]
    <3>1. inv' = [inv EXCEPT ![b] = x]
      BY <1>3, <2>2
    <3>2. inv[b] \in Invocation /\ Asked(inv[b])
      BY DEF TInv, TypeOK
    <3>3. lines \in SUBSET Line
      BY StoredTyped
    <3>4. x \in Invocation /\ x.pc = "fetch" /\ x.mode = inv[b].mode /\ x.dep = inv[b].dep
          /\ x.key = inv[b].key
      BY <3>2, <3>3 DEF Invocation
    <3> HIDE DEF x
    <3>5. Asked(x)
      BY <1>1, <3>2, <3>4 DEF Asked
    <3> QED BY <1>1, <3>1, <3>4, <3>5, SameTyped, OneTyped
  <2> QED BY <2>1, <2>2
<1> QED BY <1>2, <1>3 DEF FindResult

LEMMA LookTyped == ASSUME TInv, NEW b \in Builds, Look(b) PROVE TInv'
<1> DEFINE v == inv[b].made
           p == Step(inv[b].mode, v.src, v.hist)
           o == [path |-> p, id |-> view[b][p]]
           w == [v EXCEPT !.hist = Append(@, o)]
           x == [inv[b] EXCEPT !.made = w]
<1>1. inv[b].pc = "run" /\ p \in Paths /\ UNCHANGED <<view, src, cache, starts, edits>>
  BY DEF Look
<1>2. inv' = [inv EXCEPT ![b] = x]
  BY DEF Look
<1>3. inv[b] \in Invocation /\ v # Miss /\ view[b] \in [Paths -> Identities] /\ Asked(inv[b])
  BY <1>1 DEF TInv, TypeOK
<1>4. v \in Output
  BY <1>3 DEF Invocation
<1>5. o \in Seen
  BY <1>1, <1>3 DEF Seen
<1>6. w \in Output
  <2> HIDE DEF o, v
  <2>1. v.hist \in Seq(Seen)
    BY <1>4 DEF Output
  <2>2. Append(v.hist, o) \in Seq(Seen)
    BY <1>5, <2>1
  <2> QED BY <1>4, <2>2 DEF Output
<1>7. w # Miss
  BY <1>6, MissAssumption
<1> HIDE DEF w
<1>8. x \in Invocation /\ x.pc = "run" /\ x.made = w /\ x.mode = inv[b].mode /\ x.dep = inv[b].dep
      /\ x.key = inv[b].key
  BY <1>1, <1>3, <1>6 DEF Invocation
<1> HIDE DEF x
<1>9. Asked(x)
  BY <1>1, <1>3, <1>8 DEF Asked
<1> QED BY <1>1, <1>2, <1>7, <1>8, <1>9, SameTyped, OneTyped

LEMMA ExitTyped == ASSUME TInv, NEW b \in Builds, Exit(b) PROVE TInv'
<1> DEFINE v == inv[b].made
<1>1. inv[b].pc = "run" /\ UNCHANGED <<view, src, cache, starts, edits>>
  BY DEF Exit
<1>2. PICK s \in Verdicts \cup EnvFailures :
        inv' = [inv EXCEPT ![b].pc = "store", ![b].made.status = s]
  BY DEF Exit
<1> DEFINE w == [v EXCEPT !.status = s]
           x == [inv[b] EXCEPT !.pc = "store", !.made = w]
<1>3. inv[b] \in Invocation /\ v # Miss /\ Asked(inv[b])
  BY <1>1 DEF TInv, TypeOK
<1>4. v \in Output
  BY <1>3 DEF Invocation
<1>5. w \in Output
  BY <1>2, <1>4 DEF Output
<1>6. x \in Invocation /\ x.pc = "store" /\ x.made = w /\ x.mode = inv[b].mode /\ x.dep = inv[b].dep
      /\ x.key = inv[b].key
  BY <1>3, <1>5 DEF Invocation
<1>7. inv' = [inv EXCEPT ![b] = x]
  <2>1. inv \in [Builds -> Invocation]
    BY DEF TInv, TypeOK
  <2> QED BY <1>2, <2>1, <1>3, <1>4 DEF Invocation, Output
<1>8. w # Miss
  BY <1>5, MissAssumption
<1> HIDE DEF x, w
<1>9. Asked(x)
  BY <1>1, <1>3, <1>6 DEF Asked
<1> QED BY <1>1, <1>6, <1>7, <1>8, <1>9, SameTyped, OneTyped

\* The lines of a manifest.
LEMMA ManifestTyped ==
  ASSUME TInv, NEW b \in Builds, NEW m, NEW h \in Seq(Seen)
  PROVE  BuildManifest(b, m, h) \in SUBSET Line
<1>1. view[b] \in [Paths -> Identities]
  BY DEF TInv, TypeOK
<1>2. ASSUME NEW i \in 1..Len(h) PROVE h[i].path \in Paths
  <2>1. h[i] \in Seen
    OBVIOUS
  <2> QED BY <2>1 DEF Seen
<1>3. ASSUME NEW l \in BuildManifest(b, m, h) PROVE l \in Line
  <2>1. PICK i \in 1..Len(h) : l = [path |-> Mask[h[i].path], id |-> view[b][h[i].path]]
                             \/ l = [path |-> Mask[h[i].path], id |-> Absent]
    BY DEF BuildManifest
  <2>2. h[i].path \in Paths /\ view[b][h[i].path] \in Identities /\ Absent \in Identities
    BY <1>1, <1>2, AbsentIdentity
  <2> QED BY <2>1, <2>2, LineElt
<1> QED BY <1>3

\* What a finished run puts: the manifest, and its output with the remark whether
\* the files stood still.
LEMMA EntryTyped ==
  ASSUME TInv, NEW b \in Builds, inv[b].pc = "store", NEW r \in EntryOf(b)
  PROVE  r \in Piece /\ (r.slot = "r" => r.val.status # "ok")
<1> DEFINE v == inv[b].made
           w == [v EXCEPT !.tree = inv[b].tree]
           lines == BuildManifest(b, inv[b].mode, v.hist)
           k2 == ResultKey(inv[b].key, lines)
<1>1. inv[b] \in Invocation /\ v # Miss /\ inv[b].key \in Request
  BY DEF TInv, TypeOK, Asked
<1>2. v \in Output /\ inv[b].tree \in Trees
  BY <1>1 DEF Invocation
<1>3. lines \in SUBSET Line
  <2>1. v.hist \in Seq(Seen)
    BY <1>2 DEF Output
  <2> QED BY <2>1, ManifestTyped
<1>4. w \in Output /\ w.status = v.status
  BY <1>2 DEF Output
<1> HIDE DEF lines
<1>5. k2 \in [k1 : Request, lines : SUBSET Line]
  BY <1>1, <1>3 DEF ResultKey
<1> HIDE DEF k2
<1>6. \/ r = [slot |-> "m", key |-> inv[b].key, val |-> lines]
      \/ \E t \in {"o", "d"} : r = [slot |-> t, key |-> k2, val |-> w]
      \/ v.status # "ok" /\ r = [slot |-> "r", key |-> k2, val |-> w]
  BY DEF EntryOf, k2, lines
<1> HIDE DEF w, v
<1>7. CASE r = [slot |-> "m", key |-> inv[b].key, val |-> lines]
  BY <1>1, <1>3, <1>7 DEF Piece
<1>8. CASE \E t \in {"o", "d"} : r = [slot |-> t, key |-> k2, val |-> w]
  BY <1>4, <1>5, <1>8 DEF Piece
<1>9. CASE v.status # "ok" /\ r = [slot |-> "r", key |-> k2, val |-> w]
  BY <1>4, <1>5, <1>9 DEF Piece
<1> QED BY <1>6, <1>7, <1>8, <1>9

LEMMA StoreTyped ==
  ASSUME TInv, NEW b \in Builds, CompileAndStore(b) \/ StoreCrate(b) PROVE TInv'
<1>1. inv[b].pc = "store" /\ UNCHANGED <<view, src, starts, edits>> /\ inv' = [inv EXCEPT ![b] = NoInv]
  BY DEF CompileAndStore, StoreCrate
<1>2. (cache \subseteq Piece /\ Statuses)'
  <2>1. CASE UNCHANGED cache
    BY <2>1 DEF TInv, TypeOK, Statuses
  <2>2. CASE cache' = cache \cup EntryOf(b)
    BY <1>1, <2>2, EntryTyped DEF TInv, TypeOK, Statuses
  <2> QED BY <2>1, <2>2 DEF CompileAndStore, StoreCrate
<1>3. view' \in [Builds -> [Paths -> Identities]] /\ src' \in [Builds -> Sources]
      /\ starts' \in 0..MaxStarts /\ edits' \in 0..MaxEdits
  BY <1>1 DEF TInv, TypeOK
<1>4. NoInv.pc = "idle" /\ Asked(NoInv)
  BY DEF NoInv, Asked
<1> QED BY <1>1, <1>2, <1>3, <1>4, NoInvType, OneTyped

----------------------------------------------------------------------------

LEMMA NextTyped == ASSUME TInv, [Next]_vars PROVE TInv'
<1>1. CASE UNCHANGED vars
  BY <1>1 DEF vars, TInv, TypeOK, Statuses, Asked
<1>2. CASE Next
  <2>1. PICK b \in Builds :
          \/ Edit(b) \/ Rebuild(b)
          \/ \E m \in Modes, dep \in {"wanted", "none"} : Start(b, m, dep)
          \/ FindResult(b) \/ Lookup(b) \/ LookupCrate(b) \/ Look(b) \/ Exit(b)
          \/ CompileAndStore(b) \/ StoreCrate(b)
    BY <1>2 DEF Next
  <2>2. CASE \E m \in Modes, dep \in {"wanted", "none"} : Start(b, m, dep)
    BY <2>2, StartTyped
  <2> QED BY <2>1, <2>2, EditTyped, RebuildTyped, FindResultTyped, LookupTyped, LookupCrateTyped,
             LookTyped, ExitTyped, StoreTyped
<1> QED BY <1>1, <1>2

\* A successful hit writes the depfile that was asked for (Lookup), whoever stored
\* the entry, and however its pieces were evicted.
THEOREM DepfilesWritten == Spec => []DepfileWritten
<1>1. TInv => DepfileWritten
  BY DEF TInv, Asked, DepfileWritten
<1>2. TInv /\ [Next]_vars => TInv'
  BY NextTyped
<1> QED BY InitTyped, <1>1, <1>2, PTL DEF Spec

\* Every invocation has its type, and one that ended has an output; manifests are
\* stored under request keys, and outputs, never the miss marker, under result keys.
THEOREM CacheTypeCorrect == Spec => []TypeOK
<1>1. TInv => TypeOK
  BY DEF TInv
<1>2. TInv /\ [Next]_vars => TInv'
  BY NextTyped
<1> QED BY InitTyped, <1>1, <1>2, PTL DEF Spec

----------------------------------------------------------------------------
(* Faithful: what a key says of an output stored under it *)

\* v was made by looking up what the compiler asks for, step by step.
Traced(v, m) ==
  \A i \in 1..Len(v.hist) : v.hist[i].path = Step(m, v.src, SubSeq(v.hist, 1, i - 1))

\* v saw what build b holds.
Fits(v, b) == \A i \in 1..Len(v.hist) : v.hist[i].id = view[b][v.hist[i].path]

\* The key tells what was seen: by the store paths in it, by a line of the manifest
\* that stands for this path, or not at all.
Determined(o, k2) ==
  \/ ~ByContent /\ o.path \in StorePaths /\ k2.k1.roots[o.path] = o.id
  \/ [path |-> Mask[o.path], id |-> o.id] \in k2.lines /\ Resolve(Mask[o.path]) = o.path
  \/ Blind(k2.k1.mode, o)

\* An output made while the files stood still, and not for want of disk space, is
\* that of its key.
SoundRecord(k2, v) ==
  v.tree = "same" /\ v.status # "disk" =>
    /\ v.src = k2.k1.src
    /\ Traced(v, k2.k1.mode)
    /\ v.status = Step(k2.k1.mode, v.src, v.hist)
    /\ \A i \in 1..Len(v.hist) : Determined(v.hist[i], k2)

CacheInv == \A r \in cache : r.slot \in {"o", "d", "r"} => SoundRecord(r.key, r.val)

Fair(v, m, b) == Genuine(v, m, b) \/ Excused(v, m, b)

\* While the files of the build stand still.
InvOf(b) ==
  inv[b].tree = "same" =>
    /\ Busy(b) => inv[b].key = RequestKey(inv[b].mode, b)
    /\ inv[b].pc = "fetch" => ValidateManifest(inv[b].lines, b)
    /\ inv[b].pc \in {"run", "store"} =>
         inv[b].made.src = src[b] /\ Traced(inv[b].made, inv[b].mode) /\ Fits(inv[b].made, b)
    /\ inv[b].pc = "store" =>
         \/ inv[b].made.status \in EnvFailures
         \/ inv[b].made.status = Step(inv[b].mode, inv[b].made.src, inv[b].made.hist)
    /\ inv[b].pc = "replayed" =>
         /\ Fair(inv[b].made, inv[b].mode, b)
         /\ inv[b].depfile # Miss => Fair(inv[b].depfile, inv[b].mode, b)

FInv == TInv /\ CacheInv /\ \A b \in Builds : InvOf(b)

\* Being fair is a matter of the build's files.
LEMMA FairFrame ==
  ASSUME NEW v, NEW m, NEW b \in Builds, Fair(v, m, b), view'[b] = view[b], src'[b] = src[b]
  PROVE  Fair(v, m, b)'
BY DEF Fair, Genuine, Excused, Blind, Resolve

\* The same of what an invocation has after a step.
LEMMA FairNow ==
  ASSUME NEW b \in Builds, NEW v, NEW m, inv'[b].mode = m, Fair(v, m, b)'
  PROVE  /\ inv'[b].made = v => Fair(inv[b].made, inv[b].mode, b)'
         /\ inv'[b].depfile = v => Fair(inv[b].depfile, inv[b].mode, b)'
<1>1. CASE Genuine(v, m, b)'
  BY <1>1 DEF Fair, Genuine
<1>2. CASE Excused(v, m, b)'
  BY <1>2 DEF Fair, Excused
<1> QED BY <1>1, <1>2 DEF Fair

\* The invariant of a build whose state does not change.
LEMMA Frame ==
  ASSUME NEW b \in Builds, InvOf(b), view'[b] = view[b], src'[b] = src[b], inv'[b] = inv[b]
  PROVE  InvOf(b)'
<1> SUFFICES ASSUME inv[b].tree = "same" PROVE InvOf(b)'
  BY DEF InvOf
<1>1. (Busy(b) => inv[b].key = RequestKey(inv[b].mode, b))'
  BY DEF InvOf, Busy, RequestKey
<1>2. (inv[b].pc = "fetch" => ValidateManifest(inv[b].lines, b))'
  BY DEF InvOf, ValidateManifest, Resolve
<1>3. (inv[b].pc \in {"run", "store"} =>
         inv[b].made.src = src[b] /\ Traced(inv[b].made, inv[b].mode) /\ Fits(inv[b].made, b))'
  BY DEF InvOf, Traced, Fits
<1>4. (inv[b].pc = "store" =>
         \/ inv[b].made.status \in EnvFailures
         \/ inv[b].made.status = Step(inv[b].mode, inv[b].made.src, inv[b].made.hist))'
  BY DEF InvOf
<1>5. (inv[b].pc = "replayed" =>
         /\ Fair(inv[b].made, inv[b].mode, b)
         /\ inv[b].depfile # Miss => Fair(inv[b].depfile, inv[b].mode, b))'
  <2> SUFFICES ASSUME inv[b].pc = "replayed"
               PROVE  (/\ Fair(inv[b].made, inv[b].mode, b)
                       /\ inv[b].depfile # Miss => Fair(inv[b].depfile, inv[b].mode, b))'
    OBVIOUS
  <2>1. PICK x : x = inv[b]
    OBVIOUS
  <2>2. Fair(x.made, x.mode, b) /\ (x.depfile # Miss => Fair(x.depfile, x.mode, b))
    BY <2>1 DEF InvOf
  <2>3. Fair(x.made, x.mode, b)'
    BY <2>2, FairFrame
  <2>4. x.depfile # Miss => Fair(x.depfile, x.mode, b)'
    BY <2>2, FairFrame
  <2>5. inv'[b] = x
    BY <2>1
  <2>6. Fair(inv[b].made, inv[b].mode, b)'
    BY <2>3, <2>5, FairNow
  <2>7. (inv[b].depfile # Miss => Fair(inv[b].depfile, inv[b].mode, b))'
    BY <2>4, <2>5, FairNow
  <2> QED BY <2>6, <2>7
<1> QED BY <1>1, <1>2, <1>3, <1>4, <1>5 DEF InvOf

\* The invariant of a cache that does not change.
LEMMA SameCache == CacheInv /\ UNCHANGED cache => CacheInv'
BY DEF CacheInv, SoundRecord, Traced, Determined, Blind, Resolve

\* A step of one build: what remains to be shown.
LEMMA OneBuild ==
  ASSUME FInv, TInv', CacheInv', NEW b \in Builds, InvOf(b)',
         \A d \in Builds : d # b => inv'[d] = inv[d] /\ view'[d] = view[d] /\ src'[d] = src[d]
  PROVE  FInv'
<1>1. ASSUME NEW d \in Builds PROVE InvOf(d)'
  <2>1. CASE d = b
    BY <2>1
  <2>2. CASE d # b
    BY <2>2, Frame DEF FInv
  <2> QED BY <2>1, <2>2
<1> QED BY <1>1 DEF FInv

----------------------------------------------------------------------------
(* A valid manifest makes its entry faithful *)

LEMMA HitFair ==
  ASSUME FInv, NEW b \in Builds, inv[b].pc = "fetch", inv[b].tree = "same",
         NEW s \in {"o", "d", "r"},
         NEW v \in Stored(s, ResultKey(inv[b].key, inv[b].lines))
  PROVE  Fair(v, inv[b].mode, b)
<1> DEFINE m == inv[b].mode
           k2 == ResultKey(inv[b].key, inv[b].lines)
<1>1. inv[b].key = RequestKey(m, b) /\ ValidateManifest(inv[b].lines, b)
  BY DEF FInv, InvOf, Busy
<1>2. k2.lines = inv[b].lines /\ k2.k1.mode = m /\ k2.k1.src = src[b]
  BY <1>1 DEF ResultKey, RequestKey
<1>3. ~ByContent => k2.k1.roots = [p \in StorePaths |-> view[b][p]]
  BY <1>1 DEF ResultKey, RequestKey
<1>4. SoundRecord(k2, v) /\ v \in Output
  <2>1. SoundRecord(k2, v)
    BY DEF FInv, CacheInv, Stored
  <2>2. v \in Output
    BY StoredTyped DEF FInv
  <2> QED BY <2>1, <2>2
<1> HIDE DEF k2
<1>5. CASE v.tree # "same" \/ v.status = "disk"
  BY <1>4, <1>5 DEF Fair, Excused, Output, Trees
<1>6. CASE \E i \in 1..Len(v.hist) : Blind(m, v.hist[i]) /\ v.hist[i].id # view[b][v.hist[i].path]
  BY <1>6 DEF Fair, Excused
<1>7. CASE /\ v.tree = "same" /\ v.status # "disk"
           /\ \A i \in 1..Len(v.hist) : Blind(m, v.hist[i]) => v.hist[i].id = view[b][v.hist[i].path]
  <2>1. v.src = src[b] /\ Traced(v, m) /\ v.status = Step(m, v.src, v.hist)
        /\ \A i \in 1..Len(v.hist) : Determined(v.hist[i], k2)
    BY <1>2, <1>4, <1>7 DEF SoundRecord
  <2>2. ASSUME NEW i \in 1..Len(v.hist) PROVE v.hist[i].id = view[b][v.hist[i].path]
    <3>1. PICK o : o = v.hist[i]
      OBVIOUS
    <3>2. Determined(o, k2) /\ (Blind(m, o) => o.id = view[b][o.path])
      BY <2>1, <1>7, <3>1
    <3>3. CASE ~ByContent /\ o.path \in StorePaths /\ k2.k1.roots[o.path] = o.id
      BY <1>3, <3>1, <3>3
    <3>4. CASE [path |-> Mask[o.path], id |-> o.id] \in k2.lines /\ Resolve(Mask[o.path]) = o.path
      <4>1. view[b][Resolve(Mask[o.path])] = o.id
        BY <3>4, <1>1, <1>2 DEF ValidateManifest
      <4> QED BY <4>1, <3>1, <3>4
    <3>5. CASE Blind(m, o)
      BY <3>1, <3>2, <3>5
    <3> QED BY <1>2, <3>2, <3>3, <3>4, <3>5 DEF Determined
  <2> QED BY <2>1, <2>2 DEF Fair, Genuine, Traced
<1> QED BY <1>5, <1>6, <1>7

(* A stored entry is sound *)

\* What a manifest built now says of a look-up that found what is there.
LEMMA ManifestTells ==
  ASSUME NEW b \in Builds, NEW m, NEW h \in Seq(Seen), NEW i \in 1..Len(h),
         h[i].id = view[b][h[i].path],
         ~(\/ ~(IF h[i].id = Absent THEN LogsAbsent(m, h[i].path) ELSE Lists(m, h[i].path))
           \/ Resolve(Mask[h[i].path]) # h[i].path)
  PROVE  /\ [path |-> Mask[h[i].path], id |-> h[i].id] \in BuildManifest(b, m, h)
         /\ Resolve(Mask[h[i].path]) = h[i].path
<1>1. CASE h[i].id # Absent
  BY <1>1 DEF BuildManifest
<1>2. CASE h[i].id = Absent
  BY <1>2 DEF BuildManifest
<1> QED BY <1>1, <1>2

LEMMA StoreSound ==
  ASSUME FInv, NEW b \in Builds, inv[b].pc = "store",
         Replayable(inv[b].mode, inv[b].made.status), NEW r \in EntryOf(b), r.slot \in {"o", "d", "r"}
  PROVE  SoundRecord(r.key, r.val)
<1> DEFINE m == inv[b].mode
           v == inv[b].made
           w == [v EXCEPT !.tree = inv[b].tree]
           lines == BuildManifest(b, m, v.hist)
           k2 == ResultKey(inv[b].key, lines)
<1>1. inv[b] \in Invocation /\ v # Miss
  BY DEF FInv, TInv, TypeOK
<1>2. v \in Output
  BY <1>1 DEF Invocation
<1>3. w.src = v.src /\ w.hist = v.hist /\ w.status = v.status /\ w.tree = inv[b].tree /\ v.hist \in Seq(Seen)
  BY <1>2 DEF Output
<1>4. r.key = k2 /\ r.val = w
  BY DEF EntryOf
<1> SUFFICES ASSUME inv[b].tree = "same", v.status # "disk"
             PROVE  /\ v.src = k2.k1.src
                    /\ Traced(w, k2.k1.mode)
                    /\ v.status = Step(k2.k1.mode, v.src, v.hist)
                    /\ \A i \in 1..Len(v.hist) : Determined(v.hist[i], k2)
  BY <1>3, <1>4 DEF SoundRecord
<1>5. inv[b].key = RequestKey(m, b) /\ v.src = src[b] /\ Traced(v, m) /\ Fits(v, b)
  BY DEF FInv, InvOf, Busy
<1>6. v.status = Step(m, v.src, v.hist)
  BY CompileCacheAssumption DEF FInv, InvOf, Replayable
<1> HIDE DEF lines
<1>7. k2.k1.mode = m /\ k2.k1.src = src[b] /\ k2.lines = lines
  BY <1>5 DEF ResultKey, RequestKey
<1>8. ~ByContent => k2.k1.roots = [p \in StorePaths |-> view[b][p]]
  BY <1>5 DEF ResultKey, RequestKey
<1>9. Traced(w, m)
  BY <1>3, <1>5 DEF Traced
<1> HIDE DEF k2
<1>10. ASSUME NEW i \in 1..Len(v.hist) PROVE Determined(v.hist[i], k2)
  <2>1. PICK o : o = v.hist[i]
    OBVIOUS
  <2>2. o.id = view[b][o.path]
    BY <1>5, <2>1 DEF Fits
  <2>3. CASE ~ByContent /\ o.path \in StorePaths
    BY <1>8, <2>1, <2>2, <2>3 DEF Determined
  <2>4. CASE Blind(m, o)
    BY <1>7, <2>1, <2>4 DEF Determined
  <2>5. CASE (ByContent \/ o.path \notin StorePaths) /\ ~Blind(m, o)
    <3>1. ~(\/ ~(IF o.id = Absent THEN LogsAbsent(m, o.path) ELSE Lists(m, o.path))
            \/ Resolve(Mask[o.path]) # o.path)
      BY <2>5 DEF Blind
    <3>2. [path |-> Mask[o.path], id |-> o.id] \in lines /\ Resolve(Mask[o.path]) = o.path
      BY <1>3, <2>1, <2>2, <3>1, ManifestTells DEF lines
    <3> QED BY <1>7, <2>1, <3>2 DEF Determined
  <2> QED BY <2>3, <2>4, <2>5
<1> QED BY <1>5, <1>6, <1>7, <1>9, <1>10

----------------------------------------------------------------------------
(* The steps *)

LEMMA InitFaithful == Init => FInv
<1> SUFFICES ASSUME Init PROVE FInv
  OBVIOUS
<1>1. \A b \in Builds : inv[b].tree = "changed"
  BY DEF Init, NoInv
<1> QED BY <1>1, InitTyped DEF Init, FInv, CacheInv, InvOf

\* The files of a build change: nothing more is claimed of its invocation.
LEMMA WorldFaithful ==
  ASSUME FInv, TInv', NEW b \in Builds, Edit(b) \/ Rebuild(b) PROVE FInv'
<1>1. inv \in [Builds -> Invocation] /\ view \in [Builds -> [Paths -> Identities]]
      /\ src \in [Builds -> Sources]
  BY DEF FInv, TInv, TypeOK
<1>2. CacheInv'
  BY SameCache DEF FInv, Edit, Rebuild
<1>3. inv'[b].tree = "changed"
  BY <1>1 DEF Edit, Rebuild, NoInv, Invocation
<1>4. InvOf(b)'
  BY <1>3 DEF InvOf
<1>5. ASSUME NEW d \in Builds, d # b
      PROVE  inv'[d] = inv[d] /\ view'[d] = view[d] /\ src'[d] = src[d]
  BY <1>1, <1>5 DEF Edit, Rebuild
<1> QED BY <1>2, <1>4, <1>5, OneBuild

\* A step of jig or its compiler that puts nothing: what remains to be shown.
LEMMA OneStep ==
  ASSUME FInv, TInv', NEW b \in Builds, NEW x, inv' = [inv EXCEPT ![b] = x],
         UNCHANGED <<view, src, cache>>,
         x.tree = "same" => InvOf(b)'
  PROVE  FInv'
<1>1. inv \in [Builds -> Invocation]
  BY DEF FInv, TInv, TypeOK
<1>2. inv'[b] = x /\ \A d \in Builds : d # b => inv'[d] = inv[d]
  BY <1>1
<1>3. InvOf(b)'
  BY <1>2 DEF InvOf
<1>4. CacheInv'
  BY SameCache DEF FInv
<1> QED BY <1>2, <1>3, <1>4, OneBuild

LEMMA StartFaithful ==
  ASSUME FInv, TInv', NEW b \in Builds, NEW m \in Modes, NEW dep \in {"wanted", "none"}, Start(b, m, dep)
  PROVE  FInv'
<1> DEFINE x == [NoInv EXCEPT !.pc = "find", !.mode = m, !.dep = dep,
                              !.key = RequestKey(m, b), !.tree = "same"]
<1>1. x.pc = "find" /\ x.mode = m /\ x.key = RequestKey(m, b)
  BY DEF NoInv
<1>2. inv' = [inv EXCEPT ![b] = x] /\ UNCHANGED <<view, src, cache>>
  BY DEF Start
<1> HIDE DEF x
<1>3. inv'[b] = x
  BY <1>2 DEF FInv, TInv, TypeOK
<1>4. InvOf(b)'
  BY <1>1, <1>2, <1>3 DEF InvOf, Busy, RequestKey
<1> QED BY <1>2, <1>4, OneStep

\* The compiler starts: nothing seen, so everything seen is right.
LEMMA RunFaithful ==
  ASSUME FInv, TInv', NEW b \in Builds, Busy(b), inv' = [inv EXCEPT ![b] = Running(b)],
         UNCHANGED <<view, src, cache>>
  PROVE  FInv'
<1> DEFINE v == [src |-> src[b], hist |-> <<>>, status |-> "none", tree |-> "same"]
           x == [inv[b] EXCEPT !.pc = "run", !.made = v]
<1>1. inv[b] \in Invocation
  BY DEF FInv, TInv, TypeOK
<1>2. x.pc = "run" /\ x.mode = inv[b].mode /\ x.key = inv[b].key /\ x.made = v /\ x.tree = inv[b].tree
  BY <1>1 DEF Invocation
<1>3. inv' = [inv EXCEPT ![b] = x]
  BY DEF Running
<1>4. v.src = src[b] /\ Traced(v, inv[b].mode) /\ Fits(v, b)
  BY DEF Traced, Fits
<1> HIDE DEF x, v
<1>5. inv'[b] = x
  BY <1>3 DEF FInv, TInv, TypeOK
<1>6. ASSUME x.tree = "same" PROVE InvOf(b)'
  <2>1. inv[b].key = RequestKey(inv[b].mode, b)
    BY <1>2, <1>6 DEF FInv, InvOf
  <2>2. inv'[b].key = RequestKey(inv[b].mode, b)'
    BY <1>2, <1>5, <2>1 DEF RequestKey
  <2>3. Traced(inv[b].made, inv[b].mode)' /\ Fits(inv[b].made, b)'
    BY <1>2, <1>4, <1>5 DEF Traced, Fits
  <2>4. inv'[b].pc = "run" /\ inv'[b].made.src = src'[b]
    BY <1>2, <1>4, <1>5
  <2> QED BY <2>2, <2>3, <2>4 DEF InvOf
<1> QED BY <1>3, <1>6, OneStep

LEMMA FindResultFaithful == ASSUME FInv, TInv', NEW b \in Builds, FindResult(b) PROVE FInv'
<1>1. inv[b].pc = "find" /\ Busy(b) /\ UNCHANGED <<view, src, cache>>
  BY DEF FindResult, Busy
<1>2. CASE inv' = [inv EXCEPT ![b] = Running(b)]
  BY <1>1, <1>2, RunFaithful
<1>3. ASSUME NEW lines \in Stored("m", inv[b].key),
             inv' = [inv EXCEPT ![b] =
               IF ValidateManifest(lines, b) THEN [@ EXCEPT !.pc = "fetch", !.lines = lines]
               ELSE Running(b)]
      PROVE  FInv'
  <2>1. CASE ~ValidateManifest(lines, b)
    BY <1>1, <1>3, <2>1, RunFaithful
  <2>2. CASE ValidateManifest(lines, b)
    <3> DEFINE x == [inv[b] EXCEPT !.pc = "fetch", !.lines = lines]
    <3>1. inv' = [inv EXCEPT ![b] = x]
      BY <1>3, <2>2
    <3>2. inv[b] \in Invocation
      BY DEF FInv, TInv, TypeOK
    <3>3. x.pc = "fetch" /\ x.lines = lines /\ x.mode = inv[b].mode /\ x.key = inv[b].key
          /\ x.tree = inv[b].tree
      BY <3>2 DEF Invocation
    <3> HIDE DEF x
    <3>4. inv'[b] = x
      BY <3>1 DEF FInv, TInv, TypeOK
    <3>5. ASSUME x.tree = "same" PROVE InvOf(b)'
      <4>1. inv[b].key = RequestKey(inv[b].mode, b)
        BY <1>1, <3>3, <3>5 DEF FInv, InvOf
      <4> QED BY <1>1, <2>2, <3>3, <3>4, <4>1 DEF InvOf, Busy, RequestKey, ValidateManifest, Resolve
    <3> QED BY <1>1, <3>1, <3>5, OneStep
  <2> QED BY <2>1, <2>2
<1> QED BY <1>2, <1>3 DEF FindResult

\* An invocation that replays v, and the depfile d if there is one.
LEMMA ReplayFaithful ==
  ASSUME FInv, TInv', NEW b \in Builds, inv[b].pc = "fetch", NEW v, NEW d,
         inv[b].tree = "same" => Fair(v, inv[b].mode, b) /\ (d # Miss => Fair(d, inv[b].mode, b)),
         inv' = [inv EXCEPT ![b] = [inv[b] EXCEPT !.pc = "replayed", !.made = v, !.depfile = d]],
         UNCHANGED <<view, src, cache>>
  PROVE  FInv'
<1> DEFINE x == [inv[b] EXCEPT !.pc = "replayed", !.made = v, !.depfile = d]
<1>1. inv[b] \in Invocation
  BY DEF FInv, TInv, TypeOK
<1>2. x.pc = "replayed" /\ x.made = v /\ x.depfile = d /\ x.mode = inv[b].mode /\ x.tree = inv[b].tree
  BY <1>1 DEF Invocation
<1>3. inv' = [inv EXCEPT ![b] = x]
  OBVIOUS
<1> HIDE DEF x
<1>4. inv'[b] = x
  BY <1>3 DEF FInv, TInv, TypeOK
<1>5. PICK m : m = inv[b].mode
  OBVIOUS
<1>6. ASSUME x.tree = "same" PROVE InvOf(b)'
  <2>1. Fair(v, m, b) /\ (d # Miss => Fair(d, m, b))
    BY <1>2, <1>5, <1>6
  <2>2. Fair(v, m, b)'
    BY <2>1, FairFrame
  <2>3. d # Miss => Fair(d, m, b)'
    BY <2>1, FairFrame
  <2>4. inv'[b].made = v /\ inv'[b].depfile = d /\ inv'[b].mode = m /\ inv'[b].pc = "replayed"
    BY <1>2, <1>4, <1>5
  <2>5. Fair(inv[b].made, inv[b].mode, b)'
    BY <2>2, <2>4, FairNow
  <2>6. (inv[b].depfile # Miss => Fair(inv[b].depfile, inv[b].mode, b))'
    BY <2>3, <2>4, FairNow
  <2> QED BY <2>4, <2>5, <2>6 DEF InvOf, Busy
<1> QED BY <1>3, <1>6, OneStep

LEMMA LookupFaithful == ASSUME FInv, TInv', NEW b \in Builds, Lookup(b) PROVE FInv'
<1> DEFINE k2 == ResultKey(inv[b].key, inv[b].lines)
<1>1. inv[b].pc = "fetch" /\ Busy(b) /\ UNCHANGED <<view, src, cache>>
  BY DEF Lookup, Busy
<1>2. PICK status \in Stored("r", k2) \cup {Miss},
           object \in Stored("o", k2) \cup {Miss},
           depfile \in Stored("d", k2) \cup {Miss} :
        LET failed == OneSource(inv[b].mode) /\ status # Miss
            usable == failed \/ (object # Miss /\ (inv[b].dep = "wanted" => depfile # Miss))
        IN inv' = [inv EXCEPT ![b] =
             IF ~usable THEN Running(b)
             ELSE [@ EXCEPT !.pc = "replayed",
                            !.made = IF failed THEN status ELSE object,
                            !.depfile = IF ~failed /\ inv[b].dep = "wanted" THEN depfile ELSE Miss]]
  BY DEF Lookup
<1> DEFINE failed == OneSource(inv[b].mode) /\ status # Miss
           usable == failed \/ (object # Miss /\ (inv[b].dep = "wanted" => depfile # Miss))
           v == IF failed THEN status ELSE object
           d == IF ~failed /\ inv[b].dep = "wanted" THEN depfile ELSE Miss
<1>3. CASE ~usable
  BY <1>1, <1>2, <1>3, RunFaithful
<1>4. CASE usable
  <2>1. inv' = [inv EXCEPT ![b] = [inv[b] EXCEPT !.pc = "replayed", !.made = v, !.depfile = d]]
    BY <1>2, <1>4
  <2>2. \E s \in {"o", "r"} : v \in Stored(s, k2)
    BY <1>4
  <2>3. inv[b].tree = "same" => Fair(v, inv[b].mode, b)
    BY <1>1, <2>2, HitFair
  <2>4. inv[b].tree = "same" => (d # Miss => Fair(d, inv[b].mode, b))
    BY <1>1, HitFair
  <2> HIDE DEF v, d
  <2> QED BY <1>1, <2>1, <2>3, <2>4, ReplayFaithful
<1> QED BY <1>3, <1>4

LEMMA LookupCrateFaithful == ASSUME FInv, TInv', NEW b \in Builds, LookupCrate(b) PROVE FInv'
<1> DEFINE k2 == ResultKey(inv[b].key, inv[b].lines)
<1>1. inv[b].pc = "fetch" /\ Busy(b) /\ UNCHANGED <<view, src, cache>>
  BY DEF LookupCrate, Busy
<1>2. CASE inv' = [inv EXCEPT ![b] = Running(b)]
  BY <1>1, <1>2, RunFaithful
<1>3. ASSUME NEW v \in Stored("o", k2),
             inv' = [inv EXCEPT ![b] = [@ EXCEPT !.pc = "replayed", !.made = v, !.depfile = Miss]]
      PROVE  FInv'
  <2>1. inv' = [inv EXCEPT ![b] = [inv[b] EXCEPT !.pc = "replayed", !.made = v, !.depfile = Miss]]
    BY <1>3
  <2>2. inv[b].tree = "same" => Fair(v, inv[b].mode, b)
    BY <1>1, HitFair
  <2> QED BY <1>1, <2>1, <2>2, ReplayFaithful
<1> QED BY <1>2, <1>3 DEF LookupCrate

\* One observation more: what came before keeps its place.
LEMMA AppendFacts ==
  ASSUME NEW S, NEW h \in Seq(S), NEW o \in S, NEW i \in 1..Len(Append(h, o))
  PROVE  /\ SubSeq(Append(h, o), 1, i - 1) = SubSeq(h, 1, i - 1)
         /\ (i \in 1..Len(h) /\ Append(h, o)[i] = h[i])
            \/ (i = Len(h) + 1 /\ Append(h, o)[i] = o /\ SubSeq(h, 1, i - 1) = h)
<1>1. Len(h) \in Nat /\ Len(Append(h, o)) = Len(h) + 1
  OBVIOUS
<1>2. i - 1 \in 0..Len(h)
  BY <1>1
<1>3. \A j \in 1..(i - 1) : Append(h, o)[j] = h[j]
  BY <1>1, <1>2
<1>4. SubSeq(Append(h, o), 1, i - 1) = SubSeq(h, 1, i - 1)
  BY <1>1, <1>2, <1>3
<1>5. CASE i = Len(h) + 1
  <2>1. SubSeq(h, 1, i - 1) = h
    BY <1>1, <1>5
  <2> QED BY <1>4, <1>5, <2>1
<1>6. CASE i \in 1..Len(h)
  <2>1. Append(h, o)[i] = h[i]
    BY <1>6
  <2> QED BY <1>4, <1>6, <2>1
<1>7. i = Len(h) + 1 \/ i \in 1..Len(h)
  BY <1>1
<1> QED BY <1>5, <1>6, <1>7

LEMMA LookFaithful == ASSUME FInv, TInv', NEW b \in Builds, Look(b) PROVE FInv'
<1> DEFINE m == inv[b].mode
           v == inv[b].made
           p == Step(m, v.src, v.hist)
           o == [path |-> p, id |-> view[b][p]]
           w == [v EXCEPT !.hist = Append(@, o)]
           x == [inv[b] EXCEPT !.made = w]
<1>1. inv[b].pc = "run" /\ Busy(b) /\ p \in Paths /\ UNCHANGED <<view, src, cache>>
  BY DEF Look, Busy
<1>2. inv' = [inv EXCEPT ![b] = x]
  BY DEF Look
<1>3. inv[b] \in Invocation /\ v # Miss /\ view[b] \in [Paths -> Identities]
  BY <1>1 DEF FInv, TInv, TypeOK
<1>4. v \in Output
  BY <1>3 DEF Invocation
<1>5. o \in Seen
  BY <1>1, <1>3 DEF Seen
<1>6. v.hist \in Seq(Seen) /\ w.src = v.src /\ w.hist = Append(v.hist, o)
  <2> HIDE DEF o, v
  <2> QED BY <1>4 DEF Output
<1>7. x.pc = "run" /\ x.made = w /\ x.mode = m /\ x.key = inv[b].key /\ x.tree = inv[b].tree
  BY <1>1, <1>3 DEF Invocation
<1>8. ASSUME inv[b].tree = "same"
      PROVE  v.src = src[b] /\ Traced(v, m) /\ Fits(v, b) /\ inv[b].key = RequestKey(m, b)
  BY <1>1, <1>8 DEF FInv, InvOf
<1>9. ASSUME inv[b].tree = "same" PROVE Traced(w, m) /\ Fits(w, b)
  <2> SUFFICES ASSUME NEW i \in 1..Len(w.hist)
               PROVE  /\ w.hist[i].path = Step(m, w.src, SubSeq(w.hist, 1, i - 1))
                      /\ w.hist[i].id = view[b][w.hist[i].path]
    BY DEF Traced, Fits
  <2>0. o.path = p /\ o.id = view[b][p]
    OBVIOUS
  <2> HIDE DEF w, o, p
  <2>1. SubSeq(w.hist, 1, i - 1) = SubSeq(v.hist, 1, i - 1)
    BY <1>5, <1>6, AppendFacts
  <2>2. CASE i = Len(v.hist) + 1 /\ w.hist[i] = o /\ SubSeq(v.hist, 1, i - 1) = v.hist
    <3>1. w.hist[i].path = p /\ w.hist[i].id = view[b][p]
      BY <2>2, <2>0
    <3>2. Step(m, w.src, SubSeq(w.hist, 1, i - 1)) = p
      BY <1>6, <2>1, <2>2 DEF p
    <3> QED BY <3>1, <3>2
  <2>3. CASE i \in 1..Len(v.hist) /\ w.hist[i] = v.hist[i]
    <3>1. v.hist[i].path = Step(m, v.src, SubSeq(v.hist, 1, i - 1))
      BY <1>8, <1>9, <2>3 DEF Traced
    <3>2. v.hist[i].id = view[b][v.hist[i].path]
      BY <1>8, <1>9, <2>3 DEF Fits
    <3> QED BY <1>6, <2>1, <2>3, <3>1, <3>2
  <2>4. \/ i \in 1..Len(v.hist) /\ w.hist[i] = v.hist[i]
        \/ i = Len(v.hist) + 1 /\ w.hist[i] = o /\ SubSeq(v.hist, 1, i - 1) = v.hist
    <3> HIDE DEF v
    <3>1. v.hist \in Seq(Seen) /\ i \in 1..Len(Append(v.hist, o)) /\ w.hist = Append(v.hist, o)
      BY <1>6
    <3> QED BY <1>5, <3>1, AppendFacts
  <2> QED BY <2>2, <2>3, <2>4
<1> HIDE DEF x, w
<1>10. inv'[b] = x
  BY <1>2 DEF FInv, TInv, TypeOK
<1>11. ASSUME x.tree = "same" PROVE InvOf(b)'
  <2> HIDE DEF v, p, o
  <2>1. inv[b].tree = "same"
    BY <1>7, <1>11
  <2>2. inv'[b].pc = "run" /\ inv'[b].made = w /\ inv'[b].mode = m /\ inv'[b].key = RequestKey(m, b)
    BY <1>7, <1>8, <1>10, <2>1
  <2>3. inv'[b].key = RequestKey(m, b)'
    BY <1>1, <2>2 DEF RequestKey
  <2>4. inv'[b].made.src = src'[b]
    BY <1>1, <1>6, <1>8, <2>1, <2>2
  <2>5. Traced(inv[b].made, inv[b].mode)'
    BY <1>9, <2>1, <2>2 DEF Traced
  <2>6. Fits(inv[b].made, b)'
    BY <1>1, <1>9, <2>1, <2>2 DEF Fits
  <2> QED BY <2>2, <2>3, <2>4, <2>5, <2>6 DEF InvOf, Busy, m
<1> QED BY <1>1, <1>2, <1>11, OneStep

LEMMA ExitFaithful == ASSUME FInv, TInv', NEW b \in Builds, Exit(b) PROVE FInv'
<1> DEFINE m == inv[b].mode
           v == inv[b].made
<1>1. inv[b].pc = "run" /\ Busy(b) /\ UNCHANGED <<view, src, cache>>
  BY DEF Exit, Busy
<1>2. PICK s \in EnvFailures \cup {Step(m, v.src, v.hist)} :
        inv' = [inv EXCEPT ![b].pc = "store", ![b].made.status = s]
  BY DEF Exit
<1> DEFINE w == [v EXCEPT !.status = s]
           x == [inv[b] EXCEPT !.pc = "store", !.made = w]
<1>3. inv[b] \in Invocation /\ v # Miss /\ inv \in [Builds -> Invocation]
  BY <1>1 DEF FInv, TInv, TypeOK
<1>4. v \in Output
  BY <1>3 DEF Invocation
<1>5. w.src = v.src /\ w.hist = v.hist /\ w.status = s
  BY <1>4 DEF Output
<1>6. x.pc = "store" /\ x.made = w /\ x.mode = m /\ x.key = inv[b].key /\ x.tree = inv[b].tree
  BY <1>3 DEF Invocation
<1>7. inv' = [inv EXCEPT ![b] = x]
  BY <1>2, <1>3, <1>4 DEF Invocation, Output
<1> HIDE DEF x, w
<1>8. inv'[b] = x
  BY <1>3, <1>7
<1>9. ASSUME x.tree = "same" PROVE InvOf(b)'
  <2>1. v.src = src[b] /\ Traced(v, m) /\ Fits(v, b) /\ inv[b].key = RequestKey(m, b)
    BY <1>1, <1>6, <1>9 DEF FInv, InvOf
  <2> HIDE DEF v
  <2>2. inv'[b].pc = "store" /\ inv'[b].made = w /\ inv'[b].mode = m /\ inv'[b].key = RequestKey(m, b)
    BY <1>6, <1>8, <2>1
  <2>3. inv'[b].key = RequestKey(m, b)'
    BY <1>1, <2>2 DEF RequestKey
  <2>4. Traced(inv[b].made, inv[b].mode)'
    BY <1>5, <2>1, <2>2 DEF Traced
  <2>5. Fits(inv[b].made, b)'
    BY <1>1, <1>5, <2>1, <2>2 DEF Fits
  <2>6. inv'[b].made.src = src'[b]
    BY <1>1, <1>5, <2>1, <2>2
  <2>7. \/ inv'[b].made.status \in EnvFailures
        \/ inv'[b].made.status = Step(inv'[b].mode, inv'[b].made.src, inv'[b].made.hist)
    BY <1>2, <1>5, <2>2
  <2> QED BY <2>2, <2>3, <2>4, <2>5, <2>6, <2>7 DEF InvOf, Busy, m
<1> QED BY <1>1, <1>7, <1>9, OneStep

LEMMA StoreFaithful ==
  ASSUME FInv, TInv', NEW b \in Builds, CompileAndStore(b) \/ StoreCrate(b) PROVE FInv'
<1>1. inv[b].pc = "store" /\ UNCHANGED <<view, src>> /\ inv' = [inv EXCEPT ![b] = NoInv]
  BY DEF CompileAndStore, StoreCrate
<1>2. inv \in [Builds -> Invocation]
  BY DEF FInv, TInv, TypeOK
<1>3. CacheInv'
  <2>1. CASE UNCHANGED cache
    BY <2>1, SameCache DEF FInv
  <2>2. CASE Replayable(inv[b].mode, inv[b].made.status) /\ cache' = cache \cup EntryOf(b)
    <3>1. \A r \in EntryOf(b) : r.slot \in {"o", "d", "r"} => SoundRecord(r.key, r.val)
      BY <1>1, <2>2, StoreSound
    <3> QED BY <2>2, <3>1 DEF FInv, CacheInv, SoundRecord, Traced, Determined, Blind, Resolve
  <2> QED BY <2>1, <2>2 DEF CompileAndStore, StoreCrate, Replayable
<1>4. InvOf(b)'
  BY <1>1, <1>2 DEF InvOf, NoInv
<1>5. \A d \in Builds : d # b => inv'[d] = inv[d]
  BY <1>1, <1>2
<1> QED BY <1>1, <1>3, <1>4, <1>5, OneBuild

LEMMA NextFaithful == ASSUME FInv, [Next]_vars PROVE FInv'
<1>0. TInv'
  BY NextTyped DEF FInv
<1>1. CASE UNCHANGED vars
  <2>1. UNCHANGED <<view, src, cache, inv>>
    BY <1>1 DEF vars
  <2> QED BY <1>0, <2>1, Frame, SameCache DEF FInv
<1>2. CASE Next
  <2>1. PICK b \in Builds :
          \/ Edit(b) \/ Rebuild(b)
          \/ \E m \in Modes, dep \in {"wanted", "none"} : Start(b, m, dep)
          \/ FindResult(b) \/ Lookup(b) \/ LookupCrate(b) \/ Look(b) \/ Exit(b)
          \/ CompileAndStore(b) \/ StoreCrate(b)
    BY <1>2 DEF Next
  <2>2. CASE \E m \in Modes, dep \in {"wanted", "none"} : Start(b, m, dep)
    BY <1>0, <2>2, StartFaithful
  <2> QED BY <1>0, <2>1, <2>2, WorldFaithful, FindResultFaithful, LookupFaithful,
             LookupCrateFaithful, LookFaithful, ExitFaithful, StoreFaithful
<1> QED BY <1>1, <1>2

\* A hit replays what the compiler would have made (RunCcMode, RunRustcMode), but for
\* what Excused names: for every deterministic compiler, search path and masking,
\* any number of builds, any history of the cache, and files that change at any time.
THEOREM HitsAreFaithful == Spec => []Faithful
<1>1. FInv => Faithful
  BY DEF FInv, InvOf, Faithful, Hit, Fair
<1>2. FInv /\ [Next]_vars => FInv'
  BY NextFaithful
<1> QED BY InitFaithful, <1>1, <1>2, PTL DEF Spec

=============================================================================
