--------------------------- MODULE PackStoreDisk ---------------------------
(* What the store leaves on disk, for any keys, tiers, limits, faults and    *)
(* outages: the invariant, and that stops, losses of power, and the demoter  *)
(* preserve it.  PackStoreProofs has Put and OpenStore.                      *)
EXTENDS PackStore, TLAPS

\* A pack file: only the last record can be torn.
Files == {s \in Seq(Records \cup {Torn}) : \A o \in 1..(Len(s) - 1) : s[o] # Torn}
Hints == SUBSET (Keys \X (Nat \ {0}))

\* The copies of pack i, and hints of it, that p and h hold agree on the key of
\* every whole record.
CopiesAgree(p, i) ==
  \A t, u \in Tiers :
    p[t][i] # NoFile /\ p[u][i] # NoFile =>
      \A o \in 1..Whole(p[t][i]) : o <= Whole(p[u][i]) => p[t][i][o].key = p[u][i][o].key
HintsAgree(p, h, i) ==
  \A t, u \in Tiers :
    h[t][i] # NoFile /\ p[u][i] # NoFile =>
      \A e \in h[t][i] : e[2] <= Whole(p[u][i]) => p[u][i][e[2]].key = e[1]

DiskOk(p, h) ==
  /\ p \in [Tiers -> [Ids -> Files \cup {NoFile}]]
  /\ h \in [Tiers -> [Ids -> Hints \cup {NoFile}]]
  /\ \A i \in Ids : CopiesAgree(p, i) /\ HintsAgree(p, h, i)

\* The highest id of all files is that of a pack; the file of pack a is.
Used(p, h, t, i) == p[t][i] # NoFile \/ h[t][i] # NoFile
Topped(p, h) ==
  \A t \in Tiers, i \in Ids : Used(p, h, t, i) => \E u \in Tiers, j \in Ids : j >= i /\ p[u][j] # NoFile
Fresh(p, h, a) ==
  /\ p[1][a] # NoFile
  /\ \A t \in Tiers, i \in Ids : Used(p, h, t, i) => i <= a

MemoryOk ==
  /\ main \in {"down", "opening", "open", "closing"}
  /\ cursor \in Tiers \X Nat
  /\ index \in [Keys -> [id : 0..MaxId, off : Nat]]
  /\ packs \in SUBSET Ids
  /\ tier \in [Ids -> Tiers]
  /\ active \in 0..MaxId
  /\ demoter \in [pc : {"idle", "pick", "pack", "hint", "switch", "done"}, id : 0..MaxId]
  /\ puts \in Nat

\* Before the store is open.
Asleep ==
  /\ active = 0 /\ demoter.pc = "idle"
  /\ main = "down" => cursor = <<1, 0>> /\ last = 0 /\ packs = {} /\ \A k \in Keys : index[k].id = 0

\* While OpenStore walks, and has loaded what it has come to: of the packs behind
\* it, each has one file.
Walked ==
  /\ \A i \in packs : pack[tier[i]][i] # NoFile /\ ~Before(cursor, <<tier[i], i>>)
  /\ \A t \in Tiers, i \in Ids :
       pack[t][i] # NoFile /\ ~Before(cursor, <<t, i>>) => i \in packs /\ t = tier[i]
  /\ last \in Nat /\ \A i \in packs : i <= last

\* The active pack is the newest, is only in the fast tier, and whatever hint it
\* has is of what it holds.
ActiveOk ==
  /\ active \in packs /\ tier[active] = 1 /\ Fresh(pack, hint, active)
  /\ pack[1][active] \in Seq(Records)
  /\ \A u \in Tiers \ {1} : pack[u][active] = NoFile /\ hint[u][active] = NoFile
  /\ hint[1][active] # NoFile => \A e \in hint[1][active] : e[2] <= Len(pack[1][active])

\* While it is served, a pack has one file, and perhaps a copy one tier below.
PlacesOk ==
  /\ \A i \in packs : pack[tier[i]][i] # NoFile
  /\ \A t \in Tiers, i \in Ids :
       pack[t][i] # NoFile =>
         i \in packs /\ (t = tier[i] \/ (t = tier[i] + 1 /\ pack[t][i] = pack[tier[i]][i]))

DemoterOk ==
  /\ demoter.pc \in {"pack", "hint", "switch"} => demoter.id \in packs /\ demoter.id # active
  /\ demoter.pc \in {"hint", "switch"} =>
       /\ tier[demoter.id] + 1 \in Tiers
       /\ pack[tier[demoter.id] + 1][demoter.id] = pack[tier[demoter.id]][demoter.id]

PInv ==
  /\ MemoryOk
  /\ DiskOk(pack, hint)
  /\ Topped(pack, hint)
  /\ IndexReads
  /\ ~Running => Asleep
  /\ main = "opening" => Walked
  /\ Running => ActiveOk /\ PlacesOk /\ DemoterOk

----------------------------------------------------------------------------
(* Files *)

LEMMA OneTier == 1 \in Tiers /\ Tiers \subseteq Nat \ {0} /\ Ids \subseteq Nat \ {0}
<1>1. Cardinality(Tiers) \in Nat \ {0}
  BY PackStoreAssumption, Zenon
<1>2. \A t \in Tiers : t \in Nat \ {0} /\ 1 <= t /\ t <= Cardinality(Tiers)
  BY <1>1, PackStoreAssumption
<1>3. 1 \in Tiers
  BY <1>1, <1>2, PackStoreAssumption
<1> QED BY <1>2, <1>3, PackStoreAssumption DEF Ids

LEMMA NoFileIsNone == NoFile \notin Files
BY PackStoreAssumption, Zenon DEF Files

\* The whole records of a file are its first ones.
LEMMA WholeRecords ==
  ASSUME NEW s \in Files
  PROVE  /\ Whole(s) \in Nat /\ Whole(s) <= Len(s) /\ Len(s) <= Whole(s) + 1
         /\ \A o \in 1..Whole(s) : s[o] \in Records
<1>1. s \in Seq(Records \cup {Torn}) /\ Len(s) \in Nat /\ \A o \in 1..(Len(s) - 1) : s[o] # Torn
  BY DEF Files
<1>2. s # <<>> => Len(s) > 0
  BY <1>1
<1>3. CASE s # <<>> /\ s[Len(s)] = Torn
  <2>1. Whole(s) = Len(s) - 1
    BY <1>3, Zenon DEF Whole
  <2> QED BY <1>1, <1>2, <1>3, <2>1
<1>4. CASE ~(s # <<>> /\ s[Len(s)] = Torn)
  <2>1. Whole(s) = Len(s)
    BY <1>4, Zenon DEF Whole
  <2>2. ASSUME NEW o \in 1..Len(s) PROVE s[o] \in Records
    <3>1. s # <<>>
      BY <1>1
    <3>2. s[o] # Torn
      BY <1>1, <1>4, <3>1
    <3> QED BY <1>1, <3>2
  <2> QED BY <1>1, <2>1, <2>2
<1> QED BY <1>3, <1>4, Zenon

\* A file of records only is whole; with a torn one behind them, all but that one is.
LEMMA AllWhole ==
  ASSUME NEW s \in Seq(Records)
  PROVE  /\ s \in Files /\ Append(s, Torn) \in Files
         /\ Whole(s) = Len(s) /\ Whole(Append(s, Torn)) = Len(s)
<1>1. Len(s) \in Nat /\ \A o \in 1..Len(s) : s[o] \in Records /\ s[o] # Torn
  BY PackStoreAssumption
<1>2. s \in Seq(Records \cup {Torn})
  OBVIOUS
<1>3. s # <<>> => Len(s) \in 1..Len(s)
  OBVIOUS
<1>4. Whole(s) = Len(s)
  BY <1>1, <1>3, Zenon DEF Whole
<1>5. /\ Append(s, Torn) \in Seq(Records \cup {Torn}) /\ Len(Append(s, Torn)) = Len(s) + 1
      /\ Append(s, Torn)[Len(s) + 1] = Torn /\ \A o \in 1..Len(s) : Append(s, Torn)[o] = s[o]
      /\ Append(s, Torn) # <<>>
  <2> DEFINE S == Records \cup {Torn}
  <2>1. Torn \in S /\ s \in Seq(S)
    BY <1>2, Zenon
  <2> HIDE DEF S
  <2>2. Append(s, Torn) \in Seq(S) /\ Len(Append(s, Torn)) = Len(s) + 1
    BY <2>1
  <2>3. Append(s, Torn)[Len(s) + 1] = Torn /\ \A o \in 1..Len(s) : Append(s, Torn)[o] = s[o]
    BY <1>1, <2>1
  <2>4. Len(Append(s, Torn)) # 0
    BY <1>1, <2>2
  <2>5. Append(s, Torn) # <<>>
    <3>1. Len(<<>>) = 0
      BY Zenon
    <3> QED BY <2>4, <3>1, Zenon
  <2> QED BY <2>2, <2>3, <2>5, Zenon DEF S
<1>6. Whole(Append(s, Torn)) = Len(s)
  BY <1>1, <1>5 DEF Whole
<1>7. \A o \in 1..(Len(Append(s, Torn)) - 1) : Append(s, Torn)[o] # Torn
  BY <1>1, <1>5
<1>8. \A o \in 1..(Len(s) - 1) : s[o] # Torn
  BY <1>1
<1> QED BY <1>2, <1>4, <1>5, <1>6, <1>7, <1>8, Zenon DEF Files

\* The front of a file, with or without a torn record behind it.
LEMMA FrontFile ==
  ASSUME NEW s \in Files, NEW n \in 0..Whole(s)
  PROVE  /\ SubSeq(s, 1, n) \in Seq(Records) /\ Len(SubSeq(s, 1, n)) = n
         /\ \A o \in 1..n : SubSeq(s, 1, n)[o] = s[o] /\ Append(SubSeq(s, 1, n), Torn)[o] = s[o]
<1>1. s \in Seq(Records \cup {Torn}) /\ n \in Nat /\ n <= Len(s)
  BY WholeRecords DEF Files
<1>2. \A o \in 1..n : s[o] \in Records
  BY WholeRecords
<1>3. Len(SubSeq(s, 1, n)) = n /\ \A o \in 1..n : SubSeq(s, 1, n)[o] = s[o]
  BY <1>1
<1>4. SubSeq(s, 1, n) \in Seq(Records)
  BY <1>1, <1>2, <1>3
<1>5. \A o \in 1..n : Append(SubSeq(s, 1, n), Torn)[o] = SubSeq(s, 1, n)[o]
  BY <1>1, <1>3, <1>4
<1> QED BY <1>3, <1>4, <1>5, Zenon

----------------------------------------------------------------------------
(* One file at a time *)

\* f with one place set.
LEMMA SetAt ==
  ASSUME NEW S, NEW f \in [Tiers -> [Ids -> S]], NEW t \in Tiers, NEW i \in Ids, NEW x \in S
  PROVE  /\ [f EXCEPT ![t][i] = x] \in [Tiers -> [Ids -> S]]
         /\ [f EXCEPT ![t][i] = x][t][i] = x
         /\ \A u \in Tiers, j \in Ids : u # t \/ j # i => [f EXCEPT ![t][i] = x][u][j] = f[u][j]
BY Zenon

\* The file s agrees with the copies of pack i other than the one in tier t, and with its hints.
Fits(p, h, t, i, s) ==
  s # NoFile =>
    /\ \A u \in Tiers \ {t} : p[u][i] # NoFile =>
         \A o \in 1..Whole(s) : o <= Whole(p[u][i]) => s[o].key = p[u][i][o].key
    /\ \A u \in Tiers : h[u][i] # NoFile => \A e \in h[u][i] : e[2] <= Whole(s) => s[e[2]].key = e[1]

LEMMA FileSet ==
  ASSUME NEW p, NEW h, DiskOk(p, h), NEW t \in Tiers, NEW i \in Ids, NEW s \in Files \cup {NoFile},
         Fits(p, h, t, i, s)
  PROVE  DiskOk([p EXCEPT ![t][i] = s], h)
<1> DEFINE q == [p EXCEPT ![t][i] = s]
<1>1. p \in [Tiers -> [Ids -> Files \cup {NoFile}]]
  BY Zenon DEF DiskOk
<1>2. /\ q \in [Tiers -> [Ids -> Files \cup {NoFile}]] /\ q[t][i] = s
      /\ \A u \in Tiers, j \in Ids : u # t \/ j # i => q[u][j] = p[u][j]
  BY <1>1, SetAt
<1> HIDE DEF q
<1>3. ASSUME NEW j \in Ids PROVE CopiesAgree(q, j) /\ HintsAgree(q, h, j)
  <2>1. CopiesAgree(p, j) /\ HintsAgree(p, h, j)
    BY Zenon DEF DiskOk
  <2>2. CASE j # i
    <3>1. \A u \in Tiers : q[u][j] = p[u][j]
      BY <1>2, <2>2, Zenon
    <3>2. CopiesAgree(q, j)
      BY <2>1, <3>1 DEF CopiesAgree
    <3>3. HintsAgree(q, h, j)
      BY <2>1, <3>1 DEF HintsAgree
    <3> QED BY <3>2, <3>3, Zenon
  <2>3. CASE j = i
    <3>1. HintsAgree(q, h, i)
      BY <1>2, <2>1, <2>3 DEF HintsAgree, Fits
    <3>2. ASSUME NEW u \in Tiers, NEW v \in Tiers, q[u][i] # NoFile, q[v][i] # NoFile,
                 NEW o \in 1..Whole(q[u][i]), o <= Whole(q[v][i])
          PROVE  q[u][i][o].key = q[v][i][o].key
      <4>1. CASE u = t
        BY <1>2, <3>2, <4>1 DEF Fits
      <4>2. CASE v = t /\ u # t
        <5>1. Whole(q[v][i]) \in Nat /\ Whole(q[u][i]) \in Nat
          BY <1>2, <3>2, WholeRecords
        <5>2. o \in 1..Whole(s) /\ o <= Whole(p[u][i]) /\ p[u][i] # NoFile /\ s # NoFile
          BY <1>2, <3>2, <4>2, <5>1
        <5> QED BY <1>2, <4>2, <5>2 DEF Fits
      <4>3. CASE u # t /\ v # t
        BY <1>2, <2>1, <2>3, <3>2, <4>3 DEF CopiesAgree
      <4> QED BY <4>1, <4>2, <4>3, Zenon
    <3> QED BY <2>3, <3>1, <3>2, Zenon DEF CopiesAgree
  <2> QED BY <2>2, <2>3, Zenon
<1>4. DiskOk(q, h)
  BY <1>2, <1>3, Zenon DEF DiskOk
<1> QED BY <1>4, Zenon DEF q

LEMMA HintSet ==
  ASSUME NEW p, NEW h, DiskOk(p, h), NEW t \in Tiers, NEW i \in Ids, NEW x \in Hints \cup {NoFile},
         x # NoFile => \A u \in Tiers : p[u][i] # NoFile =>
           \A e \in x : e[2] <= Whole(p[u][i]) => p[u][i][e[2]].key = e[1]
  PROVE  DiskOk(p, [h EXCEPT ![t][i] = x])
<1> DEFINE g == [h EXCEPT ![t][i] = x]
<1>1. h \in [Tiers -> [Ids -> Hints \cup {NoFile}]]
  BY Zenon DEF DiskOk
<1>2. /\ g \in [Tiers -> [Ids -> Hints \cup {NoFile}]] /\ g[t][i] = x
      /\ \A u \in Tiers, j \in Ids : u # t \/ j # i => g[u][j] = h[u][j]
  BY <1>1, SetAt
<1> HIDE DEF g
<1>3. ASSUME NEW j \in Ids PROVE HintsAgree(p, g, j)
  <2>1. HintsAgree(p, h, j)
    BY Zenon DEF DiskOk
  <2> QED BY <1>2, <2>1 DEF HintsAgree
<1>4. DiskOk(p, g)
  BY <1>2, <1>3, Zenon DEF DiskOk
<1> QED BY <1>4, Zenon DEF g

\* Removals.
LEMMA Removed ==
  ASSUME NEW p, NEW h, DiskOk(p, h), NEW t \in Tiers, NEW i \in Ids
  PROVE  DiskOk(Remove(p, t, i), h) /\ DiskOk(p, Remove(h, t, i))
<1>1. Fits(p, h, t, i, NoFile)
  BY Zenon DEF Fits
<1>2. DiskOk([p EXCEPT ![t][i] = NoFile], h)
  BY <1>1, FileSet, Zenon
<1>3. DiskOk(p, [h EXCEPT ![t][i] = NoFile])
  BY HintSet, Zenon
<1> QED BY <1>2, <1>3, Zenon DEF Remove

\* A file that loses its end.
LEMMA Shortened ==
  ASSUME NEW p, NEW h, DiskOk(p, h), NEW t \in Tiers, NEW i \in Ids, p[t][i] # NoFile,
         NEW s \in Files, Whole(s) <= Whole(p[t][i]), \A o \in 1..Whole(s) : s[o] = p[t][i][o]
  PROVE  DiskOk([p EXCEPT ![t][i] = s], h)
<1>1. p[t][i] \in Files /\ CopiesAgree(p, i) /\ HintsAgree(p, h, i)
  BY DEF DiskOk
<1>2. Whole(s) \in Nat /\ Whole(p[t][i]) \in Nat
  BY <1>1, WholeRecords, Zenon
<1>3. ASSUME NEW u \in Tiers, p[u][i] # NoFile, NEW o \in 1..Whole(s), o <= Whole(p[u][i])
      PROVE  s[o].key = p[u][i][o].key
  BY <1>1, <1>2, <1>3 DEF CopiesAgree
<1>4. ASSUME NEW u \in Tiers, h[u][i] # NoFile, NEW e \in h[u][i], e[2] <= Whole(s)
      PROVE  s[e[2]].key = e[1]
  <2>1. e[2] \in Nat \ {0}
    BY <1>4 DEF DiskOk, Hints
  <2> QED BY <1>1, <1>2, <1>4, <2>1 DEF HintsAgree
<1>5. Fits(p, h, t, i, s)
  BY <1>3, <1>4, Zenon DEF Fits
<1> QED BY <1>5, FileSet, Zenon

----------------------------------------------------------------------------
(* Writing *)

LEMMA FreshTop == ASSUME NEW p, NEW h, NEW a \in Ids, Fresh(p, h, a) PROVE Topped(p, h)
BY OneTier, Zenon DEF Fresh, Topped

\* The place a record goes to: pack a, of which only the fast tier has a file,
\* that held the records held before.
Ready(p, h, a, held) ==
  /\ DiskOk(p, h) /\ a \in Ids /\ held \in Seq(Records)
  /\ \A u \in Tiers \ {1} : p[u][a] = NoFile /\ h[u][a] = NoFile
  /\ h[1][a] # NoFile => p[1][a] = held /\ \A e \in h[1][a] : e[2] <= Len(held)
  /\ \A t \in Tiers, i \in Ids : Used(p, h, t, i) => i <= a

LEMMA Written ==
  ASSUME NEW p, NEW h, NEW a, NEW held, Ready(p, h, a, held), NEW s \in Files,
         Len(held) <= Whole(s), \A o \in 1..Len(held) : s[o] = held[o],
         NEW q, q = [p EXCEPT ![1][a] = s]
  PROVE  DiskOk(q, h) /\ Fresh(q, h, a) /\ Topped(q, h)
<1>1. /\ a \in Ids /\ held \in Seq(Records) /\ DiskOk(p, h) /\ 1 \in Tiers
      /\ p \in [Tiers -> [Ids -> Files \cup {NoFile}]]
  BY OneTier, Zenon DEF Ready, DiskOk
<1>2. Fits(p, h, 1, a, s)
  <2>1. ASSUME NEW u \in Tiers, h[u][a] # NoFile, NEW e \in h[u][a], e[2] <= Whole(s)
        PROVE  s[e[2]].key = e[1]
    <3>1. u = 1 /\ p[1][a] = held /\ e[2] <= Len(held)
      BY <2>1, Zenon DEF Ready
    <3>2. held \in Files /\ Whole(held) = Len(held) /\ held # NoFile
      BY <1>1, AllWhole, NoFileIsNone, Zenon
    <3>3. e[2] \in Nat \ {0}
      BY <1>1, <2>1 DEF DiskOk, Hints
    <3>4. held[e[2]].key = e[1]
      BY <1>1, <2>1, <3>1, <3>2, Zenon DEF DiskOk, HintsAgree
    <3> QED BY <1>1, <3>1, <3>3, <3>4
  <2> QED BY <2>1, Zenon DEF Fits, Ready
<1>3. DiskOk(q, h)
  BY <1>1, <1>2, FileSet, Zenon
<1>4. q[1][a] = s /\ \A u \in Tiers, j \in Ids : u # 1 \/ j # a => q[u][j] = p[u][j]
  BY <1>1, SetAt
<1>5. Fresh(q, h, a)
  <2>1. q[1][a] # NoFile
    BY <1>4, NoFileIsNone, Zenon
  <2>2. ASSUME NEW t \in Tiers, NEW i \in Ids, Used(q, h, t, i) PROVE i <= a
    BY <1>1, <1>4, <2>2, OneTier DEF Used, Ready
  <2> QED BY <2>1, <2>2, Zenon DEF Fresh
<1> QED BY <1>1, <1>3, <1>5, FreshTop, Zenon

\* What seal writes.
LEMMA SealedHint ==
  ASSUME PInv, NEW i \in Ids
  PROVE  /\ Sealed(i, index) \in Hints
         /\ \A e \in Sealed(i, index) :
              /\ i \in packs /\ pack[tier[i]][i] # NoFile /\ e[2] <= Whole(pack[tier[i]][i])
              /\ pack[tier[i]][i][e[2]].key = e[1]
<1>1. index \in [Keys -> [id : 0..MaxId, off : Nat]] /\ i # 0 /\ tier[i] \in Tiers
  BY OneTier, Zenon DEF PInv, MemoryOk
<1>2. ASSUME NEW k \in Keys, index[k].id = i
      PROVE  /\ i \in packs /\ pack[tier[i]][i] # NoFile /\ index[k].off \in Nat \ {0}
             /\ index[k].off <= Whole(pack[tier[i]][i]) /\ pack[tier[i]][i][index[k].off].key = k
  <2>1. pack[tier[i]][i] # NoFile /\ index[k].off \in 1..Whole(pack[tier[i]][i])
    BY <1>1, <1>2, Zenon DEF PInv, IndexReads
  <2>2. Whole(pack[tier[i]][i]) \in Nat
    BY <1>1, <2>1, WholeRecords DEF PInv, DiskOk
  <2>3. i \in packs /\ pack[tier[i]][i][index[k].off].key = k
    BY <1>1, <1>2, Zenon DEF PInv, IndexReads, Record
  <2> QED BY <2>1, <2>2, <2>3
<1>3. Sealed(i, index) \in Hints
  BY <1>2 DEF Sealed, Hints
<1> QED BY <1>2, <1>3 DEF Sealed

\* rotate seals the active pack if the record does not fit.
LEMMA SealedDisk ==
  ASSUME PInv, Running, NEW k \in Keys
  PROVE  /\ DiskOk(pack, SealedHints(k)) /\ Fresh(pack, SealedHints(k), active)
         /\ \A t \in Tiers, i \in Ids : t # 1 \/ i # active => SealedHints(k)[t][i] = hint[t][i]
         /\ SealedHints(k)[1][active] # NoFile =>
              \A e \in SealedHints(k)[1][active] : e[2] <= Len(pack[1][active])
<1>1. /\ active \in Ids /\ active \in packs /\ tier[active] = 1 /\ 1 \in Tiers
      /\ Fresh(pack, hint, active) /\ pack[1][active] \in Seq(Records) /\ DiskOk(pack, hint)
      /\ \A u \in Tiers \ {1} : pack[u][active] = NoFile /\ hint[u][active] = NoFile
      /\ hint[1][active] # NoFile => \A e \in hint[1][active] : e[2] <= Len(pack[1][active])
  BY OneTier, Zenon DEF PInv, ActiveOk, MemoryOk
<1>2. CASE ~Full(k)
  BY <1>1, <1>2, Zenon DEF SealedHints
<1>3. CASE Full(k)
  <2> DEFINE x == Sealed(active, index)
             h == [hint EXCEPT ![1][active] = x]
  <2>1. SealedHints(k) = h
    BY <1>3, Zenon DEF SealedHints
  <2>2. x \in Hints /\ \A e \in x : pack[1][active][e[2]].key = e[1] /\ e[2] <= Whole(pack[1][active])
    BY <1>1, SealedHint, Zenon
  <2> HIDE DEF x
  <2>3. DiskOk(pack, h)
    <3>1. \A u \in Tiers : pack[u][active] # NoFile => u = 1
      BY <1>1, Zenon
    <3> QED BY <1>1, <2>2, <3>1, HintSet, Zenon
  <2>4. h[1][active] = x /\ \A u \in Tiers, j \in Ids : u # 1 \/ j # active => h[u][j] = hint[u][j]
    <3>1. hint \in [Tiers -> [Ids -> Hints \cup {NoFile}]] /\ x \in Hints \cup {NoFile}
      BY <1>1, <2>2, Zenon DEF DiskOk
    <3> QED BY <1>1, <3>1, SetAt
  <2> HIDE DEF h
  <2>5. Fresh(pack, h, active)
    BY <1>1, <2>4, OneTier DEF Fresh, Used
  <2>6. Whole(pack[1][active]) = Len(pack[1][active])
    BY <1>1, AllWhole, Zenon
  <2> QED BY <2>1, <2>2, <2>3, <2>4, <2>5, <2>6, Zenon
<1> QED BY <1>2, <1>3, Zenon

\* The record goes to the active pack, or to the one with the next id.
LEMMA Rotated ==
  ASSUME PInv, Running, NEW k \in Keys, Target(k) <= MaxId
  PROVE  /\ Ready(pack, SealedHints(k), Target(k), Held(k)) /\ Fresh(pack, SealedHints(k), active)
         /\ \/ ~Full(k) /\ Target(k) = active /\ Held(k) = pack[1][active]
            \/ Full(k) /\ Target(k) = active + 1 /\ Held(k) = <<>>
<1>1. PICK h : h = SealedHints(k)
  BY Zenon
<1>2. /\ DiskOk(pack, h) /\ Fresh(pack, h, active)
      /\ \A t \in Tiers, i \in Ids : t # 1 \/ i # active => h[t][i] = hint[t][i]
      /\ h[1][active] # NoFile => \A e \in h[1][active] : e[2] <= Len(pack[1][active])
  BY <1>1, SealedDisk, Zenon
<1>3. /\ active \in Ids /\ 1 \in Tiers /\ Ids \subseteq Nat \ {0} /\ pack[1][active] \in Seq(Records)
      /\ \A u \in Tiers \ {1} : pack[u][active] = NoFile /\ hint[u][active] = NoFile
  BY OneTier, Zenon DEF PInv, ActiveOk, MemoryOk
<1>4. \A u \in Tiers, j \in Ids : Used(pack, h, u, j) => j <= active
  BY <1>2, Zenon DEF Fresh
<1>5. CASE ~Full(k)
  <2>1. Target(k) = active /\ Held(k) = pack[1][active]
    BY <1>5, Zenon DEF Target, Held
  <2>2. \A u \in Tiers \ {1} : h[u][active] = NoFile
    BY <1>2, <1>3, Zenon
  <2>3. Ready(pack, h, active, pack[1][active])
    BY <1>2, <1>3, <1>4, <2>2, Zenon DEF Ready
  <2> QED BY <1>1, <1>2, <1>5, <2>1, <2>3, Zenon
<1>6. CASE Full(k)
  <2>1. Target(k) = active + 1 /\ Held(k) = <<>>
    BY <1>6, Zenon DEF Target, Held
  <2>2. active + 1 \in Ids
    BY <1>3, <2>1, PackStoreAssumption DEF Ids
  <2>3. \A u \in Tiers : pack[u][active + 1] = NoFile /\ h[u][active + 1] = NoFile
    BY <1>3, <1>4, <2>2 DEF Used
  <2>4. \A u \in Tiers, j \in Ids : Used(pack, h, u, j) => j <= active + 1
    BY <1>3, <1>4
  <2>5. Ready(pack, h, active + 1, <<>>)
    <3>1. <<>> \in Seq(Records) /\ h[1][active + 1] = NoFile /\ pack[1][active + 1] = NoFile
      BY <1>3, <2>3
    <3> QED BY <1>2, <1>3, <2>2, <2>3, <2>4, <3>1, Zenon DEF Ready
  <2> QED BY <1>1, <1>2, <1>6, <2>1, <2>5, Zenon
<1> QED BY <1>5, <1>6, Zenon

----------------------------------------------------------------------------
(* Stops *)

\* A process that is gone leaves a sound disk.
LEMMA Gone ==
  ASSUME main' = "down", NoMemory, puts' \in Nat, DiskOk(pack', hint'), Topped(pack', hint')
  PROVE  PInv'
<1>1. cursor' = <<1, 0>> /\ last' = 0 /\ index' = [k \in Keys |-> Nowhere] /\ packs' = {} /\ tier' = [i \in Ids |-> 1]
      /\ active' = 0 /\ demoter' = [pc |-> "idle", id |-> 0]
  BY Zenon DEF NoMemory, Idle
<1>2. MaxId \in Nat /\ 1 \in Tiers
  BY PackStoreAssumption, OneTier, Zenon
<1>3. index' \in [Keys -> [id : 0..MaxId, off : Nat]] /\ \A k \in Keys : index'[k].id = 0
  BY <1>1, <1>2 DEF Nowhere
<1>4. MemoryOk'
  BY <1>1, <1>2, <1>3 DEF MemoryOk
<1>5. IndexReads' /\ Asleep' /\ ~Running'
  BY <1>1, <1>3, Zenon DEF IndexReads, Asleep, Running
<1> QED BY <1>4, <1>5, Zenon DEF PInv

LEMMA StopInv == ASSUME PInv, Stop PROVE PInv'
<1>1. DiskOk(pack', hint') /\ Topped(pack', hint') /\ puts' \in Nat
  BY Zenon DEF Stop, PInv, MemoryOk, disk
<1> QED BY <1>1, Gone, Zenon DEF Stop, Stopped

LEMMA CloseSealInv == ASSUME PInv, CloseSeal PROVE PInv'
<1>1. /\ Running /\ 1 \in Tiers /\ active \in Ids /\ active \in packs /\ tier[active] = 1
      /\ Fresh(pack, hint, active) /\ DiskOk(pack, hint) /\ puts \in Nat
      /\ \A u \in Tiers \ {1} : pack[u][active] = NoFile
  BY OneTier, Zenon DEF PInv, ActiveOk, MemoryOk, CloseSeal, Running
<1> DEFINE x == Sealed(active, index)
<1>2. x \in Hints /\ \A e \in x : pack[1][active][e[2]].key = e[1]
  BY <1>1, SealedHint, Zenon
<1>3. hint' = [hint EXCEPT ![1][active] = x] /\ pack' = pack /\ puts' = puts
  BY Zenon DEF CloseSeal
<1> HIDE DEF x
<1>4. DiskOk(pack', hint')
  <2>1. \A u \in Tiers : pack[u][active] # NoFile => u = 1
    BY <1>1, Zenon
  <2> QED BY <1>1, <1>2, <1>3, <2>1, HintSet, Zenon
<1>5. Fresh(pack', hint', active)
  <2>1. hint \in [Tiers -> [Ids -> Hints \cup {NoFile}]] /\ x \in Hints \cup {NoFile}
    BY <1>1, <1>2, Zenon DEF DiskOk
  <2>2. \A u \in Tiers, j \in Ids : u # 1 \/ j # active => hint'[u][j] = hint[u][j]
    BY <1>1, <1>3, <2>1, SetAt
  <2> QED BY <1>1, <1>3, <2>2, OneTier DEF Fresh, Used
<1>6. Topped(pack', hint')
  BY <1>1, <1>5, FreshTop, Zenon
<1> QED BY <1>1, <1>3, <1>4, <1>6, Gone, Zenon DEF CloseSeal

LEMMA StopInPutInv == ASSUME PInv, NEW k \in Keys, StopInPut(k) PROVE PInv'
<1>1. PICK h, a, held : h = SealedHints(k) /\ a = Target(k) /\ held = Held(k)
  BY Zenon
<1>2. Running /\ Ready(pack, h, a, held) /\ Fresh(pack, h, active) /\ hint' = h
  BY <1>1, Rotated, Zenon DEF StopInPut, Running
<1>3. active \in Ids /\ puts \in Nat /\ held \in Seq(Records) /\ a \in Ids
  BY <1>2, Zenon DEF PInv, ActiveOk, MemoryOk, Ready
<1>4. CASE pack' = pack /\ puts' = puts
  <2>1. DiskOk(pack', hint') /\ Topped(pack', hint') /\ puts' \in Nat
    BY <1>2, <1>3, <1>4, FreshTop, Zenon DEF Ready
  <2> QED BY <2>1, Gone, Zenon DEF StopInPut, Stopped
<1>5. CASE Full(k) /\ pack' = [pack EXCEPT ![1][a] = <<>>] /\ puts' = puts
  <2>1. held = <<>> /\ <<>> \in Seq(Records)
    BY <1>1, <1>5 DEF Held
  <2>2. <<>> \in Files /\ Whole(<<>>) = Len(<<>>)
    BY <2>1, AllWhole, Zenon
  <2>3. Len(<<>>) = 0
    BY Zenon
  <2>4. Len(held) <= Whole(<<>>) /\ \A o \in 1..Len(held) : <<>>[o] = held[o]
    BY <2>1, <2>2, <2>3
  <2>5. DiskOk(pack', h) /\ Topped(pack', h)
    BY <1>2, <1>5, <2>2, <2>4, Written, Zenon
  <2>6. DiskOk(pack', hint') /\ Topped(pack', hint') /\ puts' \in Nat
    BY <1>2, <1>3, <1>5, <2>5, Zenon
  <2> QED BY <2>6, Gone, Zenon DEF StopInPut, Stopped
<1>6. ASSUME NEW r \in {Torn, [key |-> k, no |-> puts + 1]},
             pack' = [pack EXCEPT ![1][a] = Append(held, r)], puts' = puts + 1
      PROVE  PInv'
  <2>1. PICK s : s = Append(held, r)
    BY Zenon
  <2>2. s \in Files /\ Len(held) <= Whole(s)
    <3>1. CASE r = Torn
      BY <1>3, <2>1, <3>1, AllWhole
    <3>2. CASE r \in Records
      <4>1. s \in Seq(Records) /\ Len(s) = Len(held) + 1 /\ Len(held) \in Nat
        BY <1>3, <2>1, <3>2
      <4> QED BY <4>1, AllWhole
    <3> QED BY <1>3, <3>1, <3>2 DEF Records
  <2>3. \A o \in 1..Len(held) : s[o] = held[o]
    BY <1>3, <2>1
  <2>4. DiskOk(pack', h) /\ Topped(pack', h)
    <3>1. pack' = [pack EXCEPT ![1][a] = s]
      BY <1>6, <2>1, Zenon
    <3> QED BY <1>2, <2>2, <2>3, <3>1, Written, Zenon
  <2>5. DiskOk(pack', hint') /\ Topped(pack', hint') /\ puts' \in Nat
    BY <1>2, <1>3, <1>6, <2>4
  <2> QED BY <2>5, Gone, Zenon DEF StopInPut, Stopped
<1> QED BY <1>1, <1>4, <1>5, <1>6, Zenon DEF StopInPut

\* What the highest id is does not depend on what files hold, on hints that are
\* gone, on a second copy or, below the active pack, on anything.
LEMMA SameTop ==
  ASSUME NEW p, NEW h, NEW q, NEW g, Topped(p, h),
         \A u \in Tiers, j \in Ids : p[u][j] # NoFile <=> q[u][j] # NoFile,
         \A u \in Tiers, j \in Ids : g[u][j] # NoFile => h[u][j] # NoFile
  PROVE  Topped(q, g)
BY DEF Topped, Used

LEMMA CopyTop ==
  ASSUME NEW p, NEW h, DiskOk(p, h), Topped(p, h), NEW t \in Tiers, NEW i \in Ids,
         NEW v \in Tiers, v # t, p[v][i] # NoFile
  PROVE  Topped(Remove(p, t, i), h) /\ Topped(Remove(p, t, i), Remove(h, t, i))
<1> DEFINE q == Remove(p, t, i)
           g == Remove(h, t, i)
<1>0. p \in [Tiers -> [Ids -> Files \cup {NoFile}]] /\ h \in [Tiers -> [Ids -> Hints \cup {NoFile}]]
  BY Zenon DEF DiskOk
<1>1. q[t][i] = NoFile /\ \A u \in Tiers, j \in Ids : u # t \/ j # i => q[u][j] = p[u][j]
  BY <1>0, Zenon DEF Remove
<1>2. g[t][i] = NoFile /\ \A u \in Tiers, j \in Ids : u # t \/ j # i => g[u][j] = h[u][j]
  BY <1>0, Zenon DEF Remove
<1> HIDE DEF q, g
<1>3. Topped(q, h)
  <2> SUFFICES ASSUME NEW w \in Tiers, NEW k \in Ids, Used(q, h, w, k)
               PROVE  \E u \in Tiers, j \in Ids : j >= k /\ q[u][j] # NoFile
    BY Zenon DEF Topped
  <2>1. Used(p, h, w, k)
    BY <1>1, Zenon DEF Used
  <2>2. PICK u \in Tiers, j \in Ids : j >= k /\ p[u][j] # NoFile
    BY <2>1, Zenon DEF Topped
  <2>3. CASE u = t /\ j = i
    BY <1>1, <2>2, <2>3
  <2>4. CASE u # t \/ j # i
    BY <1>1, <2>2, <2>4
  <2> QED BY <2>3, <2>4, Zenon
<1>4. Topped(q, g)
  <2>1. \A u \in Tiers, j \in Ids : g[u][j] # NoFile => h[u][j] # NoFile
    BY <1>2, Zenon
  <2> QED BY <1>3, <2>1, SameTop
<1> QED BY <1>3, <1>4, Zenon DEF q, g

LEMMA FreshBelow ==
  ASSUME NEW p, NEW h, DiskOk(p, h), NEW a \in Ids, Fresh(p, h, a), NEW t \in Tiers, NEW i \in Ids, i # a
  PROVE  Fresh(Remove(p, t, i), h, a) /\ Fresh(Remove(p, t, i), Remove(h, t, i), a)
<1> DEFINE q == Remove(p, t, i)
           g == Remove(h, t, i)
<1>0. p \in [Tiers -> [Ids -> Files \cup {NoFile}]] /\ h \in [Tiers -> [Ids -> Hints \cup {NoFile}]]
  BY Zenon DEF DiskOk
<1>1. q[t][i] = NoFile /\ \A u \in Tiers, j \in Ids : u # t \/ j # i => q[u][j] = p[u][j]
  BY <1>0, Zenon DEF Remove
<1>2. g[t][i] = NoFile /\ \A u \in Tiers, j \in Ids : u # t \/ j # i => g[u][j] = h[u][j]
  BY <1>0, Zenon DEF Remove
<1> HIDE DEF q, g
<1>3. Fresh(q, h, a) /\ Fresh(q, g, a)
  BY <1>1, <1>2, OneTier DEF Fresh, Used
<1> QED BY <1>3, Zenon DEF q, g

LEMMA StopInFilesInv == ASSUME PInv, StopInFiles PROVE PInv'
<1>1. /\ DiskOk(pack, hint) /\ Topped(pack, hint) /\ puts \in Nat /\ tier \in [Ids -> Tiers] /\ packs \subseteq Ids
      /\ hint' = hint /\ puts' = puts
  BY Zenon DEF PInv, MemoryOk, StopInFiles
<1> SUFFICES DiskOk(pack', hint) /\ Topped(pack', hint)
  BY <1>1, Gone, Zenon DEF StopInFiles, Stopped
<1>2. ASSUME Running, demoter.pc \in {"pack", "switch"}, pack' = Remove(pack, tier[demoter.id], demoter.id)
      PROVE  DiskOk(pack', hint) /\ Topped(pack', hint)
  <2>1. /\ demoter.id \in Ids /\ demoter.id # active /\ active \in Ids /\ tier[demoter.id] \in Tiers
        /\ Fresh(pack, hint, active)
    BY <1>1, <1>2, Zenon DEF PInv, DemoterOk, ActiveOk
  <2> QED BY <1>1, <1>2, <2>1, Removed, FreshBelow, FreshTop
<1>3. ASSUME main = "opening", NEW x \in Unread, x[2] \in packs, pack' = Remove(pack, x[1], x[2])
      PROVE  DiskOk(pack', hint) /\ Topped(pack', hint)
  <2>1. PICK t \in Tiers, i \in Ids : x = <<t, i>> /\ Before(cursor, <<t, i>>)
    BY <1>3 DEF Unread
  <2>2. i \in packs /\ tier[i] \in Tiers /\ pack[tier[i]][i] # NoFile /\ tier[i] # t
    BY <1>1, <1>3, <2>1, Zenon DEF PInv, Walked
  <2> QED BY <1>1, <1>3, <2>1, <2>2, Removed, CopyTop, Zenon
<1>4. ASSUME NEW x \in Unread, pack' = [pack EXCEPT ![x[1]][x[2]] = SubSeq(@, 1, Whole(@))]
      PROVE  DiskOk(pack', hint) /\ Topped(pack', hint)
  <2>1. PICK t \in Tiers, i \in Ids : x = <<t, i>> /\ pack[t][i] # NoFile
    BY <1>4 DEF Unread
  <2>2. PICK s : s = SubSeq(pack[t][i], 1, Whole(pack[t][i]))
    BY Zenon
  <2>3. pack[t][i] \in Files /\ pack \in [Tiers -> [Ids -> Files \cup {NoFile}]]
    BY <1>1, <2>1 DEF DiskOk
  <2>4. Whole(pack[t][i]) \in Nat
    BY <2>3, WholeRecords, Zenon
  <2>5. /\ s \in Seq(Records) /\ Len(s) = Whole(pack[t][i])
        /\ \A o \in 1..Whole(pack[t][i]) : s[o] = pack[t][i][o]
    BY <2>2, <2>3, <2>4, FrontFile
  <2>6. s \in Files /\ Whole(s) = Whole(pack[t][i])
    BY <2>5, AllWhole, Zenon
  <2>7. pack' = [pack EXCEPT ![t][i] = s]
    BY <1>4, <2>1, <2>2, Zenon
  <2>8. DiskOk(pack', hint)
    <3>1. Whole(s) <= Whole(pack[t][i]) /\ \A o \in 1..Whole(s) : s[o] = pack[t][i][o]
      BY <2>4, <2>5, <2>6
    <3>2. DiskOk([pack EXCEPT ![t][i] = s], hint)
      BY <1>1, <2>1, <2>6, <3>1, Shortened
    <3> QED BY <2>7, <3>2, Zenon
  <2>9. \A u \in Tiers, j \in Ids : pack[u][j] # NoFile <=> pack'[u][j] # NoFile
    BY <2>1, <2>3, <2>6, <2>7, NoFileIsNone, Zenon
  <2> QED BY <1>1, <2>8, <2>9, SameTop
<1> QED BY <1>2, <1>3, <1>4, Zenon DEF StopInFiles

LEMMA LosePowerInv == ASSUME PInv, LosePower PROVE PInv'
<1>1. DiskOk(pack, hint) /\ Topped(pack, hint) /\ puts \in Nat /\ puts' = puts
  BY Zenon DEF PInv, MemoryOk, LosePower
<1> SUFFICES DiskOk(pack', hint') /\ Topped(pack', hint')
  BY <1>1, Gone, Zenon DEF LosePower, Stopped
<1>2. /\ pack \in [Tiers -> [Ids -> Files \cup {NoFile}]]
      /\ hint \in [Tiers -> [Ids -> Hints \cup {NoFile}]]
  BY <1>1, Zenon DEF DiskOk
<1>3. ASSUME NEW t \in Tiers, NEW i \in Ids, pack[t][i] # NoFile, hint' = hint,
             NEW n \in 0..(Len(pack[t][i]) - 1),
             pack' \in {[pack EXCEPT ![t][i] = SubSeq(@, 1, n)], [pack EXCEPT ![t][i] = Append(SubSeq(@, 1, n), Torn)]}
      PROVE  DiskOk(pack', hint') /\ Topped(pack', hint')
  <2>1. pack[t][i] \in Files
    BY <1>2, <1>3
  <2>2. Whole(pack[t][i]) \in Nat /\ n \in 0..Whole(pack[t][i])
    <3>1. Len(pack[t][i]) \in Nat
      BY <2>1 DEF Files
    <3> QED BY <1>3, <2>1, <3>1, WholeRecords
  <2>3. PICK f : f = SubSeq(pack[t][i], 1, n)
    BY Zenon
  <2>4. f \in Seq(Records) /\ Len(f) = n /\ \A o \in 1..n : f[o] = pack[t][i][o] /\ Append(f, Torn)[o] = pack[t][i][o]
    BY <2>1, <2>2, <2>3, FrontFile, Zenon
  <2>5. PICK s \in {f, Append(f, Torn)} : pack' = [pack EXCEPT ![t][i] = s]
    BY <1>3, <2>3, Zenon
  <2>6. s \in Files /\ Whole(s) = n /\ \A o \in 1..n : s[o] = pack[t][i][o]
    BY <2>4, <2>5, AllWhole, Zenon
  <2>7. DiskOk(pack', hint)
    <3>1. Whole(s) <= Whole(pack[t][i]) /\ \A o \in 1..Whole(s) : s[o] = pack[t][i][o]
      BY <2>2, <2>6
    <3>2. DiskOk([pack EXCEPT ![t][i] = s], hint)
      BY <1>1, <1>3, <2>6, <3>1, Shortened
    <3> QED BY <2>5, <3>2, Zenon
  <2>8. \A u \in Tiers, j \in Ids : pack[u][j] # NoFile <=> pack'[u][j] # NoFile
    BY <1>2, <1>3, <2>5, <2>6, NoFileIsNone, Zenon
  <2> QED BY <1>1, <1>3, <2>7, <2>8, SameTop
<1>4. ASSUME NEW t \in Tiers, NEW i \in Ids, hint[t][i] # NoFile, pack' = pack,
             NEW h \in SUBSET hint[t][i], hint' = [hint EXCEPT ![t][i] = h]
      PROVE  DiskOk(pack', hint') /\ Topped(pack', hint')
  <2>1. h \in Hints
    BY <1>2, <1>4 DEF Hints
  <2>2. HintsAgree(pack, hint, i)
    BY <1>1, Zenon DEF DiskOk
  <2>3. \A u \in Tiers : pack[u][i] # NoFile =>
          \A e \in h : e[2] <= Whole(pack[u][i]) => pack[u][i][e[2]].key = e[1]
    BY <1>4, <2>2, Zenon DEF HintsAgree
  <2>4. DiskOk(pack', hint')
    BY <1>1, <1>4, <2>1, <2>3, HintSet, Zenon
  <2>5. \A u \in Tiers, j \in Ids : hint'[u][j] # NoFile => hint[u][j] # NoFile
    BY <1>2, <1>4, Zenon
  <2>6. Topped(pack, hint')
    BY <1>1, <2>5, SameTop
  <2> QED BY <1>4, <2>4, <2>6, Zenon
<1>5. PICK t \in Tiers, i \in Ids :
        \/ /\ pack[t][i] # NoFile
           /\ \E n \in 0..(Len(pack[t][i]) - 1) :
                pack' \in {[pack EXCEPT ![t][i] = SubSeq(@, 1, n)],
                           [pack EXCEPT ![t][i] = Append(SubSeq(@, 1, n), Torn)]}
           /\ UNCHANGED hint
        \/ /\ hint[t][i] # NoFile
           /\ \E h \in SUBSET hint[t][i] : hint' = [hint EXCEPT ![t][i] = h]
           /\ UNCHANGED pack
  BY Zenon DEF LosePower
<1>6. CASE /\ pack[t][i] # NoFile
           /\ \E n \in 0..(Len(pack[t][i]) - 1) :
                pack' \in {[pack EXCEPT ![t][i] = SubSeq(@, 1, n)],
                           [pack EXCEPT ![t][i] = Append(SubSeq(@, 1, n), Torn)]}
           /\ UNCHANGED hint
  <2>1. PICK n \in 0..(Len(pack[t][i]) - 1) :
          pack' \in {[pack EXCEPT ![t][i] = SubSeq(@, 1, n)], [pack EXCEPT ![t][i] = Append(SubSeq(@, 1, n), Torn)]}
    BY <1>6, Zenon
  <2> QED BY <1>3, <1>6, <2>1, Zenon
<1>7. CASE /\ hint[t][i] # NoFile
           /\ \E h \in SUBSET hint[t][i] : hint' = [hint EXCEPT ![t][i] = h]
           /\ UNCHANGED pack
  <2>1. PICK h \in SUBSET hint[t][i] : hint' = [hint EXCEPT ![t][i] = h]
    BY <1>7, Zenon
  <2> QED BY <1>4, <1>7, <2>1, Zenon
<1> QED BY <1>5, <1>6, <1>7, Zenon

----------------------------------------------------------------------------
(* Steps that leave the files alone *)

LEMMA InitInv == Init => PInv
<1> SUFFICES ASSUME Init PROVE PInv
  BY Zenon
<1>1. MaxId \in Nat /\ 1 \in Tiers
  BY PackStoreAssumption, OneTier, Zenon
<1>2. MemoryOk
  BY <1>1 DEF Init, MemoryOk, Nowhere, Idle
<1>3. DiskOk(pack, hint) /\ Topped(pack, hint)
  BY DEF Init, DiskOk, Topped, Used, CopiesAgree, HintsAgree
<1>4. \A k \in Keys : index[k].id = 0
  BY Zenon DEF Init, Nowhere
<1>5. IndexReads /\ Asleep /\ ~Running /\ main # "opening"
  BY <1>4, Zenon DEF Init, IndexReads, Asleep, Running, Idle
<1> QED BY <1>2, <1>3, <1>5, Zenon DEF PInv

LEMMA OpenInv == ASSUME PInv, Open PROVE PInv'
<1>1. /\ main = "down" /\ main' = "opening" /\ pack' = pack /\ hint' = hint /\ cursor' = cursor /\ index' = index
      /\ last' = last /\ packs' = packs /\ tier' = tier /\ active' = active /\ demoter' = demoter /\ puts' = puts
  BY Zenon DEF Open, disk, memory
<1>2. ~Running /\ ~Running' /\ MemoryOk' /\ Asleep /\ IndexReads'
  BY <1>1, Zenon DEF PInv, Running, MemoryOk, IndexReads, Record
<1>3. Asleep' /\ packs = {} /\ cursor = <<1, 0>> /\ last = 0 /\ 0 \in Nat
  BY <1>1, <1>2, Zenon DEF Asleep
<1>4. \A t \in Tiers, i \in Ids : Before(<<1, 0>>, <<t, i>>)
  BY OneTier DEF Before
<1>5. Walked'
  BY <1>1, <1>3, <1>4, Zenon DEF Walked
<1> QED BY <1>1, <1>2, <1>3, <1>5, Zenon DEF PInv

\* Of an open store, only where the demoter is changes, and whether it is closing.
LEMMA Quiet ==
  ASSUME PInv, Running, Running', demoter' \in [pc : {"idle", "pick", "pack", "hint", "switch", "done"}, id : 0..MaxId],
         UNCHANGED <<disk, memory, puts>>, DemoterOk'
  PROVE  PInv'
<1>1. /\ pack' = pack /\ hint' = hint /\ cursor' = cursor /\ index' = index
      /\ packs' = packs /\ tier' = tier /\ active' = active /\ puts' = puts
  BY Zenon DEF disk, memory
<1>2. MemoryOk' /\ IndexReads' /\ main' # "opening"
  BY <1>1, Zenon DEF PInv, MemoryOk, IndexReads, Record, Running
<1>3. ActiveOk' /\ PlacesOk'
  BY <1>1, Zenon DEF PInv, ActiveOk, PlacesOk
<1> QED BY <1>1, <1>2, <1>3, Zenon DEF PInv

LEMMA CloseInv == ASSUME PInv, Close PROVE PInv'
<1>1. Running /\ Running' /\ demoter' = demoter /\ UNCHANGED <<disk, memory, puts>>
  BY Zenon DEF Close, Running
<1>2. DemoterOk'
  BY <1>1, Zenon DEF PInv, DemoterOk, disk, memory
<1> QED BY <1>1, <1>2, Quiet, Zenon DEF PInv, MemoryOk

LEMMA WakeInv == ASSUME PInv, Wake \/ MoveFails PROVE PInv'
<1>1. Running /\ Running' /\ UNCHANGED <<disk, memory, puts>> /\ \E c \in {"idle", "pick", "done"} : demoter' = [pc |-> c, id |-> 0]
  BY Zenon DEF Wake, MoveFails, Running, Idle
<1>2. DemoterOk'
  BY <1>1 DEF DemoterOk
<1> QED BY <1>1, <1>2, Quiet, PackStoreAssumption

LEMMA PickInv == ASSUME PInv, Pick PROVE PInv'
<1>1. Running /\ Running' /\ UNCHANGED <<disk, memory, puts>> /\ packs \subseteq Ids /\ MaxId \in Nat
  BY PackStoreAssumption, Zenon DEF Pick, Running, PInv, MemoryOk
<1>2. CASE Victims = {}
  <2>1. demoter' = [pc |-> "idle", id |-> 0]
    BY <1>2, Zenon DEF Pick, Idle
  <2>2. DemoterOk'
    BY <2>1, Zenon DEF DemoterOk
  <2> QED BY <1>1, <2>1, <2>2, Quiet
<1>3. CASE Victims # {}
  <2>1. PICK i \in Victims : demoter' = [pc |-> "pack", id |-> i]
    BY <1>3, Zenon DEF Pick
  <2>2. i \in packs /\ i # active
    BY Zenon DEF Victims, Leavers
  <2>3. DemoterOk'
    BY <1>1, <2>1, <2>2, Zenon DEF DemoterOk, memory
  <2>4. i \in 0..MaxId
    BY <1>1, <2>2 DEF Ids
  <2> QED BY <1>1, <2>1, <2>3, <2>4, Quiet, Zenon
<1> QED BY <1>2, <1>3, Zenon

----------------------------------------------------------------------------
(* The demoter *)

\* Keys whose entry, and the pack it points into, stay the same.
LEMMA IndexKept ==
  ASSUME PInv,
         \A k \in Keys : \/ index'[k].id = 0
                         \/ /\ index'[k] = index[k] /\ index[k].id \in packs'
                            /\ pack'[tier'[index[k].id]][index[k].id] = pack[tier[index[k].id]][index[k].id]
  PROVE  IndexReads'
<1>1. ASSUME NEW k \in Keys, index'[k].id # 0
      PROVE  /\ index'[k].id \in packs' /\ pack'[tier'[index'[k].id]][index'[k].id] # NoFile
             /\ index'[k].off \in 1..Whole(pack'[tier'[index'[k].id]][index'[k].id])
             /\ pack'[tier'[index'[k].id]][index'[k].id][index'[k].off].key = k
  <2>1. /\ index'[k] = index[k] /\ index[k].id \in packs' /\ index[k].id # 0
        /\ pack'[tier'[index[k].id]][index[k].id] = pack[tier[index[k].id]][index[k].id]
    BY <1>1, Zenon
  <2>2. /\ pack[tier[index[k].id]][index[k].id] # NoFile
        /\ index[k].off \in 1..Whole(pack[tier[index[k].id]][index[k].id])
        /\ pack[tier[index[k].id]][index[k].id][index[k].off].key = k
    BY <2>1, Zenon DEF PInv, IndexReads, Record
  <2> QED BY <2>1, <2>2, Zenon
<1> QED BY <1>1, Zenon DEF IndexReads, Record

\* What the demoter knows of its pack.
LEMMA Chosen ==
  ASSUME PInv, Running, demoter.pc \in {"pack", "hint", "switch"}, NEW i, i = demoter.id, NEW t, t = tier[i]
  PROVE  /\ i \in Ids /\ i \in packs /\ i # active /\ active \in Ids /\ t \in Tiers /\ t \in Nat
         /\ pack[t][i] # NoFile /\ DiskOk(pack, hint) /\ Fresh(pack, hint, active)
         /\ pack \in [Tiers -> [Ids -> Files \cup {NoFile}]]
         /\ hint \in [Tiers -> [Ids -> Hints \cup {NoFile}]]
BY OneTier, Zenon DEF PInv, DemoterOk, MemoryOk, ActiveOk, PlacesOk, DiskOk

LEMMA MovePackInv == ASSUME PInv, MovePack PROVE PInv'
<1>1. PICK i, t, u : i = demoter.id /\ t = tier[i] /\ u = t + 1
  BY Zenon
<1>2. /\ Running /\ Running' /\ demoter.pc = "pack" /\ u \in Tiers /\ hint' = hint /\ cursor' = cursor /\ index' = index
      /\ packs' = packs /\ tier' = tier /\ active' = active /\ puts' = puts /\ main' = main
      /\ demoter' = [demoter EXCEPT !.pc = "hint"]
  BY <1>1, Zenon DEF MovePack, Last, Running, memory
<1>3. /\ i \in Ids /\ i \in packs /\ i # active /\ active \in Ids /\ t \in Tiers /\ t \in Nat
      /\ pack[t][i] # NoFile /\ DiskOk(pack, hint) /\ Fresh(pack, hint, active)
      /\ pack \in [Tiers -> [Ids -> Files \cup {NoFile}]]
  BY <1>1, <1>2, Chosen, Zenon
<1>4. PICK s : s = pack[t][i]
  BY Zenon
<1>5. pack[u][i] # NoFile => pack[u][i] = s
  BY <1>1, <1>2, <1>3, <1>4 DEF PInv, PlacesOk
<1>6. pack' = [pack EXCEPT ![u][i] = s]
  <2>1. pack' = [pack EXCEPT ![u][i] = IF @ = NoFile THEN s ELSE @]
    BY <1>1, <1>4, Zenon DEF MovePack, Moved
  <2> QED BY <1>3, <1>5, <2>1, Zenon
<1>7. s \in Files /\ pack'[u][i] = s /\ \A v \in Tiers, j \in Ids : v # u \/ j # i => pack'[v][j] = pack[v][j]
  BY <1>2, <1>3, <1>4, <1>6, Zenon
<1>8. DiskOk(pack', hint')
  <2>1. CopiesAgree(pack, i) /\ HintsAgree(pack, hint, i)
    BY <1>3, Zenon DEF DiskOk
  <2>2. Fits(pack, hint, u, i, s)
    BY <1>3, <1>4, <2>1, Zenon DEF Fits, CopiesAgree, HintsAgree
  <2> QED BY <1>2, <1>3, <1>6, <1>7, <2>2, FileSet, Zenon
<1>9. Fresh(pack', hint', active)
  BY <1>2, <1>3, <1>7, OneTier DEF Fresh, Used
<1>10. IndexReads'
  <2>1. ASSUME NEW j \in packs PROVE pack'[tier[j]][j] = pack[tier[j]][j]
    <3>1. j \in Ids /\ tier[j] \in Tiers
      BY Zenon DEF PInv, MemoryOk
    <3>2. tier[j] # u \/ j # i
      BY <1>1, <1>3
    <3> QED BY <1>7, <3>1, <3>2, Zenon
  <2>2. \A k \in Keys : index[k].id # 0 => index[k].id \in packs
    BY Zenon DEF PInv, IndexReads
  <2> QED BY <1>2, <2>1, <2>2, IndexKept, Zenon
<1>11. ActiveOk'
  BY <1>2, <1>3, <1>7, <1>9, OneTier DEF PInv, ActiveOk
<1>12. PlacesOk'
  <2>1. \A j \in packs : pack'[tier[j]][j] = pack[tier[j]][j] /\ pack[tier[j]][j] # NoFile
    BY <1>1, <1>2, <1>3, <1>7 DEF PInv, MemoryOk, PlacesOk
  <2>2. ASSUME NEW v \in Tiers, NEW j \in Ids, pack'[v][j] # NoFile
        PROVE  j \in packs /\ (v = tier[j] \/ (v = tier[j] + 1 /\ pack'[v][j] = pack'[tier[j]][j]))
    <3>1. CASE v = u /\ j = i
      BY <1>1, <1>3, <1>4, <1>7, <2>1, <3>1, Zenon
    <3>2. CASE v # u \/ j # i
      <4>1. pack'[v][j] = pack[v][j]
        BY <1>7, <3>2, Zenon
      <4>2. j \in packs /\ (v = tier[j] \/ (v = tier[j] + 1 /\ pack[v][j] = pack[tier[j]][j]))
        BY <1>2, <2>2, <4>1, Zenon DEF PInv, PlacesOk
      <4> QED BY <2>1, <4>1, <4>2, Zenon
    <3> QED BY <3>1, <3>2, Zenon
  <2> QED BY <1>2, <2>1, <2>2, Zenon DEF PlacesOk
<1>13. demoter' \in [pc : {"idle", "pick", "pack", "hint", "switch", "done"}, id : 0..MaxId] /\ demoter'.id = i
  BY <1>1, <1>2, Zenon DEF PInv, MemoryOk
<1>14. DemoterOk'
  BY <1>1, <1>2, <1>3, <1>4, <1>7, <1>13 DEF DemoterOk
<1>15. MemoryOk' /\ main' # "opening"
  BY <1>2, <1>13, Zenon DEF PInv, MemoryOk, Running
<1> QED BY <1>2, <1>3, <1>8, <1>9, <1>10, <1>11, <1>12, <1>14, <1>15, FreshTop DEF PInv

LEMMA MoveHintInv == ASSUME PInv, MoveHint PROVE PInv'
<1>1. PICK i, t, u : i = demoter.id /\ t = tier[i] /\ u = t + 1
  BY Zenon
<1>2. /\ Running /\ Running' /\ demoter.pc = "hint" /\ pack' = pack /\ cursor' = cursor /\ index' = index
      /\ packs' = packs /\ tier' = tier /\ active' = active /\ puts' = puts /\ main' = main
      /\ demoter' = [demoter EXCEPT !.pc = "switch"]
  BY <1>1, Zenon DEF MoveHint, Running, memory
<1>3. /\ i \in Ids /\ i \in packs /\ i # active /\ active \in Ids /\ t \in Tiers /\ t \in Nat /\ u \in Tiers
      /\ pack[t][i] # NoFile /\ DiskOk(pack, hint) /\ Fresh(pack, hint, active)
      /\ hint \in [Tiers -> [Ids -> Hints \cup {NoFile}]]
  BY <1>1, <1>2, Chosen, Zenon DEF PInv, DemoterOk
<1>4. PICK x \in {hint[t][i], hint[u][i]} : hint' = [hint EXCEPT ![u][i] = x]
  <2>1. hint' = [hint EXCEPT ![u][i] = IF @ = NoFile THEN hint[t][i] ELSE @]
    BY <1>1, Zenon DEF MoveHint, Moved
  <2>2. CASE hint[u][i] = NoFile
    BY <1>3, <2>1, <2>2, Zenon
  <2>3. CASE hint[u][i] # NoFile
    BY <1>3, <2>1, <2>3, Zenon
  <2> QED BY <2>2, <2>3, Zenon
<1>5. x \in Hints \cup {NoFile} /\ \A v \in Tiers, j \in Ids : v # u \/ j # i => hint'[v][j] = hint[v][j]
  BY <1>3, <1>4
<1>6. DiskOk(pack', hint')
  <2>1. HintsAgree(pack, hint, i)
    BY <1>3, Zenon DEF DiskOk
  <2>2. x # NoFile => \A v \in Tiers : pack[v][i] # NoFile =>
          \A e \in x : e[2] <= Whole(pack[v][i]) => pack[v][i][e[2]].key = e[1]
    BY <1>3, <1>4, <2>1 DEF HintsAgree
  <2> QED BY <1>2, <1>3, <1>4, <1>5, <2>2, HintSet, Zenon
<1>7. Fresh(pack', hint', active)
  BY <1>2, <1>3, <1>5, OneTier DEF Fresh, Used
<1>8. IndexReads' /\ PlacesOk'
  BY <1>2, Zenon DEF PInv, IndexReads, Record, PlacesOk
<1>9. ActiveOk'
  BY <1>2, <1>3, <1>5, <1>7, OneTier DEF PInv, ActiveOk
<1>10. demoter' \in [pc : {"idle", "pick", "pack", "hint", "switch", "done"}, id : 0..MaxId] /\ demoter'.id = i
  BY <1>1, <1>2, Zenon DEF PInv, MemoryOk
<1>11. DemoterOk'
  BY <1>1, <1>2, <1>3, <1>10, Zenon DEF PInv, DemoterOk
<1>12. MemoryOk' /\ main' # "opening"
  BY <1>2, <1>10, Zenon DEF PInv, MemoryOk, Running
<1> QED BY <1>2, <1>3, <1>6, <1>7, <1>8, <1>9, <1>11, <1>12, FreshTop, Zenon DEF PInv

\* The files of pack i in tier t are gone; it was not the active pack.
LEMMA Cleared ==
  ASSUME PInv, Running, NEW i \in Ids, i # active, NEW t \in Tiers,
         pack' = Remove(pack, t, i), hint' = Remove(hint, t, i), active' = active
  PROVE  /\ DiskOk(pack', hint') /\ Fresh(pack', hint', active) /\ Topped(pack', hint')
         /\ pack'[t][i] = NoFile
         /\ \A v \in Tiers, j \in Ids : v # t \/ j # i => pack'[v][j] = pack[v][j] /\ hint'[v][j] = hint[v][j]
<1>1. DiskOk(pack, hint) /\ Fresh(pack, hint, active) /\ active \in Ids
  BY Zenon DEF PInv, ActiveOk, MemoryOk
<1>2. /\ pack \in [Tiers -> [Ids -> Files \cup {NoFile}]]
      /\ hint \in [Tiers -> [Ids -> Hints \cup {NoFile}]]
  BY <1>1, Zenon DEF DiskOk
<1>3. DiskOk(pack', hint)
  BY <1>1, Removed, Zenon
<1>4. DiskOk(pack', hint')
  BY <1>3, Removed, Zenon
<1>5. Fresh(pack', hint', active)
  BY <1>1, FreshBelow, Zenon
<1> QED BY <1>1, <1>2, <1>4, <1>5, FreshTop, Zenon DEF Remove

LEMMA SwitchInv == ASSUME PInv, Switch PROVE PInv'
<1>1. PICK i, t, u : i = demoter.id /\ t = tier[i] /\ u = t + 1
  BY Zenon
<1>2. /\ Running /\ Running' /\ demoter.pc = "switch" /\ pack' = Remove(pack, t, i) /\ hint' = Remove(hint, t, i)
      /\ cursor' = cursor /\ index' = index /\ packs' = packs /\ tier' = [tier EXCEPT ![i] = u]
      /\ active' = active /\ puts' = puts /\ main' = main /\ demoter' = [pc |-> "pick", id |-> 0]
  BY <1>1, Zenon DEF Switch, Running
<1>3. /\ i \in Ids /\ i \in packs /\ i # active /\ active \in Ids /\ t \in Tiers /\ t \in Nat /\ u \in Tiers
      /\ pack[t][i] # NoFile /\ pack[u][i] = pack[t][i] /\ tier \in [Ids -> Tiers] /\ packs \subseteq Ids
  BY <1>1, <1>2, Chosen, Zenon DEF PInv, DemoterOk, MemoryOk
<1>4. /\ DiskOk(pack', hint') /\ Fresh(pack', hint', active) /\ Topped(pack', hint')
      /\ pack'[t][i] = NoFile
      /\ \A v \in Tiers, j \in Ids : v # t \/ j # i => pack'[v][j] = pack[v][j] /\ hint'[v][j] = hint[v][j]
  BY <1>2, <1>3, Cleared, Zenon
<1>5. tier' \in [Ids -> Tiers] /\ tier'[i] = u /\ \A j \in Ids : j # i => tier'[j] = tier[j]
  BY <1>2, <1>3, Zenon
<1>6. \A j \in packs : pack'[tier'[j]][j] = pack[tier[j]][j] /\ pack[tier[j]][j] # NoFile
  <2>1. pack'[tier'[i]][i] = pack[tier[i]][i] /\ pack[tier[i]][i] # NoFile
    BY <1>1, <1>3, <1>4, <1>5
  <2>2. ASSUME NEW j \in packs, j # i PROVE pack'[tier'[j]][j] = pack[tier[j]][j] /\ pack[tier[j]][j] # NoFile
    <3>1. j \in Ids /\ tier[j] \in Tiers /\ tier'[j] = tier[j]
      BY <1>3, <1>5, <2>2, Zenon
    <3>2. pack[tier[j]][j] # NoFile
      BY <1>2, Zenon DEF PInv, PlacesOk
    <3> QED BY <1>4, <2>2, <3>1, <3>2
  <2> QED BY <2>1, <2>2, Zenon
<1>7. IndexReads'
  <2>1. \A k \in Keys : index[k].id # 0 => index[k].id \in packs
    BY Zenon DEF PInv, IndexReads
  <2> QED BY <1>2, <1>6, <2>1, IndexKept, Zenon
<1>8. ActiveOk'
  BY <1>2, <1>3, <1>4, <1>5, OneTier DEF PInv, ActiveOk
<1>9. PlacesOk'
  <2>1. ASSUME NEW v \in Tiers, NEW j \in Ids, pack'[v][j] # NoFile
        PROVE  j \in packs /\ (v = tier'[j] \/ (v = tier'[j] + 1 /\ pack'[v][j] = pack'[tier'[j]][j]))
    <3>1. v # t \/ j # i
      BY <1>4, <2>1, Zenon
    <3>2. pack'[v][j] = pack[v][j]
      BY <1>4, <3>1, Zenon
    <3>3. j \in packs /\ (v = tier[j] \/ (v = tier[j] + 1 /\ pack[v][j] = pack[tier[j]][j]))
      BY <1>2, <2>1, <3>2, Zenon DEF PInv, PlacesOk
    <3>4. CASE j = i
      BY <1>1, <1>5, <3>1, <3>3, <3>4, Zenon
    <3>5. CASE j # i
      BY <1>5, <1>6, <3>2, <3>3, <3>5, Zenon
    <3> QED BY <3>4, <3>5, Zenon
  <2> QED BY <1>2, <1>6, <2>1, Zenon DEF PlacesOk
<1>10. DemoterOk'
  BY <1>2, Zenon DEF DemoterOk
<1>11. MemoryOk' /\ main' # "opening"
  BY <1>2, <1>5, PackStoreAssumption DEF PInv, MemoryOk, Running
<1> QED BY <1>2, <1>4, <1>7, <1>8, <1>9, <1>10, <1>11, Zenon DEF PInv

LEMMA EvictInv == ASSUME PInv, Evict PROVE PInv'
<1>1. PICK i, t : i = demoter.id /\ t = tier[i]
  BY Zenon
<1>2. /\ Running /\ Running' /\ demoter.pc = "pack" /\ pack' = Remove(pack, t, i) /\ hint' = Remove(hint, t, i)
      /\ cursor' = cursor /\ index' = Evicted(i) /\ packs' = packs \ {i} /\ tier' = [tier EXCEPT ![i] = 1]
      /\ active' = active /\ puts' = puts /\ main' = main /\ demoter' = [pc |-> "pick", id |-> 0]
      /\ t + 1 \notin Tiers
  BY <1>1, Zenon DEF Evict, Last, Running
<1>3. /\ i \in Ids /\ i \in packs /\ i # active /\ active \in Ids /\ t \in Tiers /\ 1 \in Tiers
      /\ tier \in [Ids -> Tiers] /\ packs \subseteq Ids
  BY <1>1, <1>2, Chosen, OneTier, Zenon DEF PInv, MemoryOk
<1>4. /\ DiskOk(pack', hint') /\ Fresh(pack', hint', active) /\ Topped(pack', hint')
      /\ pack'[t][i] = NoFile
      /\ \A v \in Tiers, j \in Ids : v # t \/ j # i => pack'[v][j] = pack[v][j] /\ hint'[v][j] = hint[v][j]
  BY <1>2, <1>3, Cleared, Zenon
<1>5. tier' \in [Ids -> Tiers] /\ \A j \in Ids : j # i => tier'[j] = tier[j]
  BY <1>2, <1>3, Zenon
<1>6. \A j \in packs' : j # i /\ j \in packs /\ pack'[tier'[j]][j] = pack[tier[j]][j] /\ pack[tier[j]][j] # NoFile
  BY <1>2, <1>3, <1>4, <1>5 DEF PInv, PlacesOk
<1>7. index \in [Keys -> [id : 0..MaxId, off : Nat]] /\ MaxId \in Nat
  BY PackStoreAssumption, Zenon DEF PInv, MemoryOk
<1>8. \A k \in Keys : index'[k] = IF index[k].id = i THEN [id |-> 0, off |-> 0] ELSE index[k]
  BY <1>2, Zenon DEF Evicted, Nowhere
<1>9. index' \in [Keys -> [id : 0..MaxId, off : Nat]]
  BY <1>2, <1>7 DEF Evicted, Nowhere
<1>10. IndexReads'
  <2>1. ASSUME NEW k \in Keys, index'[k].id # 0
        PROVE  index'[k] = index[k] /\ index[k].id \in packs'
    <3>1. index'[k] = index[k] /\ index[k].id # i
      BY <1>7, <1>8, <2>1
    <3>2. index[k].id \in packs
      BY <2>1, <3>1, Zenon DEF PInv, IndexReads
    <3> QED BY <1>2, <3>1, <3>2, Zenon
  <2> QED BY <1>6, <2>1, IndexKept, Zenon
<1>11. ActiveOk'
  <2>1. active \in packs' /\ tier'[active] = 1
    BY <1>2, <1>3, <1>5, Zenon DEF PInv, ActiveOk
  <2>2. \A v \in Tiers : pack'[v][active] = pack[v][active] /\ hint'[v][active] = hint[v][active]
    BY <1>3, <1>4, Zenon
  <2> QED BY <1>2, <1>3, <1>4, <2>1, <2>2 DEF PInv, ActiveOk
<1>12. PlacesOk'
  <2>1. ASSUME NEW v \in Tiers, NEW j \in Ids, pack'[v][j] # NoFile
        PROVE  j \in packs' /\ (v = tier'[j] \/ (v = tier'[j] + 1 /\ pack'[v][j] = pack'[tier'[j]][j]))
    <3>1. v # t \/ j # i
      BY <1>4, <2>1, Zenon
    <3>2. pack'[v][j] = pack[v][j]
      BY <1>4, <3>1, Zenon
    <3>3. j \in packs /\ (v = tier[j] \/ (v = tier[j] + 1 /\ pack[v][j] = pack[tier[j]][j]))
      BY <1>2, <2>1, <3>2, Zenon DEF PInv, PlacesOk
    <3>4. j # i
      BY <1>1, <1>2, <3>1, <3>3, Zenon
    <3> QED BY <1>2, <1>5, <1>6, <3>2, <3>3, <3>4, Zenon
  <2> QED BY <1>6, <2>1, Zenon DEF PlacesOk
<1>13. DemoterOk'
  BY <1>2, Zenon DEF DemoterOk
<1>14. MemoryOk' /\ main' # "opening"
  BY <1>2, <1>5, <1>7, <1>9 DEF PInv, MemoryOk, Running
<1> QED BY <1>2, <1>4, <1>10, <1>11, <1>12, <1>13, <1>14, Zenon DEF PInv

============================================================================
