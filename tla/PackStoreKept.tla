--------------------------- MODULE PackStoreKept ---------------------------
(* Kept, for any keys, tiers and limits: OpenStore finds what was promised,   *)
(* and so does every Get after it.                                           *)
EXTENDS PackStoreProofs, PackStorePromises

----------------------------------------------------------------------------
(* OpenStore *)

\* OpenStore finds a second copy of a pack it has, and removes it.
LEMMA LoadCopyKept ==
  ASSUME PInv, KInv, NEW t \in Tiers, NEW i \in Ids, LoadPack(t, i), i \in packs PROVE KInv'
<1>1. PICK q, g : q = Remove(pack, t, i) /\ g = Remove(hint, t, i)
  BY Zenon
<1>2. /\ main = "opening" /\ main' = main /\ IsNext(<<t, i>>) /\ pack' = q /\ hint' = g /\ index' = index /\ packs' = packs
      /\ tier' = tier /\ active' = active /\ demoter' = demoter /\ puts' = puts /\ outages' = outages
      /\ promised' = promised
  BY <1>1, Zenon DEF LoadPack
<1>3. /\ ~Running /\ ~Running' /\ demoter.pc # "switch" /\ Before(cursor, <<t, i>>) /\ packs \subseteq Ids
      /\ tier \in [Ids -> Tiers]
  BY <1>2, WalkOn, Zenon DEF PInv, MemoryOk, Running, Asleep
<1>4. tier[i] # t /\ \A u \in Tiers : First(q, u, i) => hint[u][i] # NoFile
  BY <1>1, <1>2, <1>3, SecondCopy, SMTT(20)
<1>5. Aged(q, puts) /\ LastUnsealed(q, g) /\ (outages = 0 => OneHint(g)) /\ SameElsewhere(g, hint, t, i)
  BY <1>1, <1>4, RemoveKeeps
<1>6. ASSUME NEW j \in packs PROVE g[tier[j]][j] = hint[tier[j]][j]
  <2>1. j \in Ids /\ tier[j] \in Tiers /\ (tier[j] # t \/ j # i)
    BY <1>3, <1>4, Zenon
  <2> QED BY <1>5, <2>1, Zenon DEF SameElsewhere
<1>7. SealedOk'
  BY <1>2, <1>3, <1>6, Zenon DEF KInv, SealedOk
<1>8. Listed'
  <2>1. ASSUME NEW k \in Keys, index[k].id # 0 PROVE <<k, index[k].off>> \in g[tier[index[k].id]][index[k].id]
    <3>1. index[k].id \in packs
      BY <2>1, Zenon DEF PInv, IndexReads
    <3>2. <<k, index[k].off>> \in hint[tier[index[k].id]][index[k].id]
      BY <1>3, <2>1, Zenon DEF KInv, Listed
    <3> QED BY <1>6, <3>1, <3>2, Zenon
  <2> QED BY <1>2, <2>1, Zenon DEF Listed
<1>9. ASSUME NEW k \in Keys, outages' = 0, promised'[k] # 0 PROVE StandsOnDisk(k)'
  <2>1. StandsOnDisk(k)
    BY <1>2, <1>3, <1>9, Zenon DEF KInv
  <2>2. PICK j \in Ids, o \in Nat : Stands(pack, hint, k, j, o, promised[k]) /\ (j \in packs => Reached(k, j, o))
    BY <2>1, Zenon DEF StandsOnDisk
  <2>3. Stands(q, g, k, j, o, promised[k])
    BY <1>1, <1>2, <1>3, <2>2, SecondCopyStands, SMTT(20)
  <2> QED BY <1>2, <2>2, <2>3, Zenon DEF StandsOnDisk, Reached
<1>10. Aged(pack', puts') /\ LastUnsealed(pack', hint') /\ (outages' = 0 => OneHint(hint'))
  BY <1>2, <1>5, Zenon
<1>11. promised' \in [Keys -> Nat] /\ outages' \in Nat
  BY <1>2, Zenon DEF KInv
<1> QED BY <1>3, <1>7, <1>8, <1>9, <1>10, <1>11, Zenon DEF KInv

\* load takes the last of the records of k that it finds in pack i, unless it knows a newer pack's.
LEMMA IndexedBest ==
  ASSUME PInv, NEW t \in Tiers, NEW i \in Ids, pack[t][i] # NoFile, NEW k \in Keys,
         NEW x, x = Indexed(i, Entries(t, i))[k]
  PROVE  \/ x = index[k] /\ (index[k].id > i \/ \A o : <<k, o>> \notin Entries(t, i))
         \/ /\ x.id = i /\ ~(index[k].id > i) /\ x.off \in Nat /\ <<k, x.off>> \in Entries(t, i)
            /\ \A o : <<k, o>> \in Entries(t, i) => o <= x.off
<1> DEFINE mine == {e[2] : e \in {e \in Entries(t, i) : e[1] = k}}
<1>1. x = IF mine = {} \/ index[k].id > i THEN index[k] ELSE [id |-> i, off |-> Max(mine)]
  BY Zenon DEF Indexed
<1>2. \A m \in mine : m \in 1..Whole(pack[t][i])
  BY EntriesRead, Zenon
<1>3. Whole(pack[t][i]) \in Nat /\ hint[t][i] \in Hints \cup {NoFile}
  BY WholeRecords, Zenon DEF PInv, DiskOk
<1>4. ASSUME NEW e \in Entries(t, i) PROVE e = <<e[1], e[2]>>
  <2>1. CASE hint[t][i] # NoFile
    <3>1. e \in Keys \X (Nat \ {0})
      BY <1>3, <1>4, <2>1, Zenon DEF Entries, Hints
    <3> QED BY <3>1
  <2>2. CASE hint[t][i] = NoFile
    BY <1>4, <2>2 DEF Entries
  <2> QED BY <2>1, <2>2, Zenon
<1>5. ASSUME NEW o PROVE <<k, o>> \in Entries(t, i) <=> o \in mine
  <2>1. <<k, o>> \in Entries(t, i) => o \in mine
    OBVIOUS
  <2>2. ASSUME o \in mine PROVE <<k, o>> \in Entries(t, i)
    <3>1. PICK e \in Entries(t, i) : e[1] = k /\ o = e[2]
      BY <2>2, Zenon
    <3>2. e = <<e[1], e[2]>>
      BY <1>4, Zenon
    <3> QED BY <3>1, <3>2, Zenon
  <2> QED BY <2>1, <2>2, Zenon
<1> HIDE DEF mine
<1>6. CASE mine = {} \/ index[k].id > i
  BY <1>1, <1>5, <1>6, Zenon
<1>7. CASE ~(mine = {} \/ index[k].id > i)
  <2>1. PICK o : o = Max(mine)
    BY Zenon
  <2>2. mine \in SUBSET (0..Whole(pack[t][i]))
    BY <1>2, <1>3
  <2>3. o \in mine /\ \A m \in mine : m <= o
    BY <1>3, <1>7, <2>1, <2>2, Greatest, Zenon
  <2>4. x.id = i /\ x.off = o /\ o \in Nat
    BY <1>1, <1>2, <1>3, <1>7, <2>1, <2>3, SMTT(20)
  <2> QED BY <1>5, <1>7, <2>3, <2>4, Zenon
<1> QED BY <1>6, <1>7, Zenon

\* The pack OpenStore comes to first is above its other copies.
LEMMA NextIsFirst ==
  ASSUME PInv, main = "opening", NEW t \in Tiers, NEW i \in Ids, IsNext(<<t, i>>), i \notin packs
  PROVE  First(pack, t, i)
<1>1. pack[t][i] # NoFile
  BY WalkOn, Zenon
<1>2. ASSUME NEW u \in Tiers, pack[u][i] # NoFile PROVE t <= u
  <2>1. Before(cursor, <<u, i>>)
    BY <1>2, Zenon DEF PInv, Walked
  <2>2. <<u, i>> \in Unread
    BY <1>2, <2>1 DEF Unread
  <2>3. <<t, i>> = <<u, i>> \/ Before(<<t, i>>, <<u, i>>)
    BY <2>2, Zenon DEF IsNext
  <2> QED BY <2>3, OneTier DEF Before
<1> QED BY <1>1, <1>2, Zenon DEF First

\* What load leaves of the files of pack i, and what it puts in the index.
Loaded(t, i, q, g) ==
  /\ q \in [Tiers -> [Ids -> Files \cup {NoFile}]] /\ SameElsewhere(q, pack, t, i) /\ SameElsewhere(g, hint, t, i)
  /\ Front(q[t][i], pack[t][i]) /\ Whole(q[t][i]) = Whole(pack[t][i]) /\ q[t][i] # NoFile /\ g[t][i] # NoFile
  /\ \/ hint[t][i] # NoFile /\ g = hint
     \/ /\ hint[t][i] = NoFile /\ g[t][i] = Sealed(i, Indexed(i, Entries(t, i)))
        /\ \A u \in Tiers : hint[u][i] = NoFile /\ (u # t => pack[u][i] = NoFile)
        /\ \A u \in Tiers, j \in Ids : pack[u][j] # NoFile => j <= i

LEMMA LoadKeeps ==
  ASSUME NoFile \notin Hints, PInv, KInv, PInv', NEW t \in Tiers, NEW i \in Ids, LoadPack(t, i), i \notin packs
  PROVE  Loaded(t, i, pack', hint') /\ Aged(pack', puts) /\ LastUnsealed(pack', hint') /\ (outages = 0 => OneHint(hint'))
<1>1. PICK recs, ix, kept, q, g :
        /\ recs = pack[t][i] /\ ix = Indexed(i, Entries(t, i)) /\ q = pack' /\ g = hint'
        /\ kept = IF hint[t][i] # NoFile THEN recs ELSE SubSeq(recs, 1, Whole(recs))
  BY Zenon
<1>2. /\ main = "opening" /\ IsNext(<<t, i>>) /\ index' = ix
      /\ q = [pack EXCEPT ![t][i] = kept]
      /\ g = IF hint[t][i] # NoFile THEN hint ELSE [hint EXCEPT ![t][i] = Sealed(i, ix)]
  BY <1>1, Zenon DEF LoadPack
<1>3. /\ pack \in [Tiers -> [Ids -> Files \cup {NoFile}]] /\ hint \in [Tiers -> [Ids -> Hints \cup {NoFile}]]
      /\ LastUnsealed(pack, hint) /\ (outages = 0 => OneHint(hint)) /\ ix \in [Keys -> [id : 0..MaxId, off : Nat]]
  BY <1>2, Zenon DEF PInv, MemoryOk, DiskOk, KInv
<1>4. First(pack, t, i) /\ pack[t][i] # NoFile
  BY <1>2, NextIsFirst, Zenon DEF First
<1>5. recs \in Files /\ Whole(recs) \in Nat
  BY <1>1, <1>3, <1>4, WholeAt, Zenon
<1>6. Front(kept, recs) /\ Whole(kept) = Whole(recs) /\ kept # NoFile
  <2>1. CASE hint[t][i] # NoFile
    <3>1. kept = recs
      BY <1>1, <2>1, Zenon
    <3>2. Whole(recs) <= Whole(recs)
      BY <1>5
    <3> QED BY <1>5, <3>1, <3>2, NoFileIsNone, Zenon DEF Front
  <2>2. CASE hint[t][i] = NoFile
    <3>1. kept = SubSeq(recs, 1, Whole(recs))
      BY <1>1, <2>2, Zenon
    <3>2. kept \in Seq(Records) /\ Len(kept) = Whole(recs) /\ \A o \in 1..Whole(recs) : kept[o] = recs[o]
      BY <1>5, <3>1, FrontFile, SMTT(20)
    <3>3. kept \in Files /\ Whole(kept) = Whole(recs)
      BY <3>2, AllWhole, Zenon
    <3>4. Whole(kept) <= Whole(recs)
      BY <1>5, <3>3
    <3> QED BY <3>2, <3>3, <3>4, NoFileIsNone, Zenon DEF Front
  <2> QED BY <2>1, <2>2, Zenon
<1>7. q[t][i] = kept /\ SameElsewhere(q, pack, t, i)
  BY <1>2, <1>3, Zenon DEF SameElsewhere
<1>8. Aged(q, puts) /\ SamePlaces(q, pack) /\ q \in [Tiers -> [Ids -> Files \cup {NoFile}]]
  <2>1. Front(kept, pack[t][i])
    BY <1>1, <1>6, Zenon
  <2>2. Aged(q, puts) /\ SamePlaces(q, pack)
    BY <1>2, <1>4, <2>1, ShortenedKeeps, Zenon
  <2>3. q \in [Tiers -> [Ids -> Files \cup {NoFile}]]
    BY <1>2, <1>4, <2>1, ShortenedKeeps, Zenon
  <2> QED BY <2>2, <2>3, Zenon
<1>9. Front(q[t][i], pack[t][i]) /\ Whole(q[t][i]) = Whole(pack[t][i]) /\ q[t][i] # NoFile
  BY <1>1, <1>6, <1>7, Zenon
<1>10. CASE hint[t][i] # NoFile
  <2>1. g = hint
    BY <1>2, <1>10, Zenon
  <2>2. SamePlaces(g, hint) /\ SameElsewhere(g, hint, t, i)
    BY <2>1, Zenon DEF SamePlaces, SameElsewhere
  <2>3. LastUnsealed(q, g)
    BY <1>3, <1>8, <2>2, SameFiles, Zenon
  <2>4. Loaded(t, i, q, g)
    BY <1>7, <1>8, <1>9, <1>10, <2>1, <2>2, Zenon DEF Loaded
  <2> QED BY <1>1, <1>3, <1>8, <2>1, <2>3, <2>4, Zenon
<1>11. CASE hint[t][i] = NoFile
  <2>1. PICK x : x = Sealed(i, ix)
    BY Zenon
  <2>2. x # NoFile
    <3>1. ASSUME NEW k \in Keys, ix[k].id = i PROVE ix[k].off \in Nat \ {0}
      <4>1. index'[k].id # 0
        BY <1>2, <3>1, OneTier, Zenon
      <4>2. PICK n : index'[k].off \in 1..n
        BY <4>1, Zenon DEF PInv, IndexReads
      <4>3. index'[k].off # 0
        BY <4>2
      <4> QED BY <1>2, <1>3, <4>3
    <3>2. x \in Hints
      BY <2>1, <3>1 DEF Sealed, Hints
    <3> QED BY <3>2, Zenon
  <2>3. g = [hint EXCEPT ![t][i] = x]
    BY <1>2, <1>11, <2>1, Zenon
  <2>4. g[t][i] = x /\ \A u \in Tiers, j \in Ids : u # t \/ j # i => g[u][j] = hint[u][j]
    BY <1>3, <2>3, Zenon
  <2>5. /\ \A u \in Tiers : hint[u][i] = NoFile /\ (u # t => pack[u][i] = NoFile)
        /\ \A u \in Tiers, j \in Ids : pack[u][j] # NoFile => j <= i
    BY <1>3, <1>4, <1>11, Zenon DEF LastUnsealed
  <2>6. LastUnsealed(pack, g)
    BY <1>3, <1>4, <2>2, <2>4, SealFirst, SMTT(20)
  <2>7. LastUnsealed(q, g)
    <3>1. SamePlaces(g, g)
      BY Zenon DEF SamePlaces
    <3> QED BY <1>8, <2>6, <3>1, SameFiles, Zenon
  <2>8. outages = 0 => OneHint(g)
    <3>1. \A u \in Tiers : u # t => hint[u][i] = NoFile
      BY <2>5, Zenon
    <3> QED BY <1>3, <2>4, <3>1, SingleHint, SMTT(20)
  <2>9. SameElsewhere(g, hint, t, i) /\ g[t][i] # NoFile /\ g[t][i] = Sealed(i, Indexed(i, Entries(t, i)))
    BY <1>1, <2>1, <2>2, <2>4, Zenon DEF SameElsewhere
  <2>10. Loaded(t, i, q, g)
    BY <1>7, <1>8, <1>9, <1>11, <2>5, <2>9, Zenon DEF Loaded
  <2> QED BY <1>1, <1>8, <2>7, <2>8, <2>10, Zenon
<1> QED BY <1>10, <1>11, Zenon

\* What stands in another pack, or in pack i if it is sealed, stands after load.
LEMMA LoadStands ==
  ASSUME PInv, NEW t \in Tiers, NEW i \in Ids, pack[t][i] # NoFile, NEW q, NEW g, Loaded(t, i, q, g),
         NEW k, NEW j \in Ids, NEW o, NEW n, Stands(pack, hint, k, j, o, n), j # i \/ g = hint
  PROVE  Stands(q, g, k, j, o, n)
<1>1. /\ q \in [Tiers -> [Ids -> Files \cup {NoFile}]] /\ SameElsewhere(q, pack, t, i)
      /\ Front(q[t][i], pack[t][i]) /\ Whole(q[t][i]) = Whole(pack[t][i]) /\ q[t][i] # NoFile
      /\ pack \in [Tiers -> [Ids -> Files \cup {NoFile}]]
  BY Zenon DEF Loaded, PInv, DiskOk
<1>2. Stands(q, hint, k, j, o, n)
  BY <1>1, CutStands, Zenon
<1>3. \A u \in Tiers : g[u][j] = hint[u][j]
  BY Zenon DEF Loaded, SameElsewhere
<1> QED BY <1>2, <1>3, Zenon DEF Stands

\* The promise for k stands in a pack other than i: what load adds is no older.
LEMMA ReachedOn ==
  ASSUME PInv, NEW i \in Ids, NEW k \in Keys, NEW x, x = index[k] \/ (x.id = i /\ ~(index[k].id > i)),
         NEW j \in Ids, j # i, NEW o \in Nat, Reached(k, j, o)
  PROVE  x.id > j \/ (x.id = j /\ x.off >= o)
<1>1. index[k].id \in Int /\ i \in Int /\ j \in Int
  <2>1. index[k] \in [id : 0..MaxId, off : Nat]
    BY Zenon DEF PInv, MemoryOk
  <2> QED BY <2>1, OneTier, PackStoreAssumption, SMTT(20)
<1>2. CASE x = index[k]
  BY <1>2, Zenon DEF Reached
<1>3. CASE x.id = i /\ ~(index[k].id > i)
  BY <1>1, <1>3 DEF Reached
<1> QED BY <1>2, <1>3, Zenon

\* It stands in pack i, at o: load finds it there, or a later one.
StandsBy(q, g, k, i, n, x) == \E m \in Nat : Stands(q, g, k, i, m, n) /\ (x.id > i \/ (x.id = i /\ x.off >= m))

LEMMA LoadFinds ==
  ASSUME PInv, KInv, NEW t \in Tiers, NEW i \in Ids, i \notin packs, pack[t][i] # NoFile,
         NEW q, NEW g, Loaded(t, i, q, g),
         NEW k \in Keys, NEW x, x = Indexed(i, Entries(t, i))[k],
         NEW o \in Nat, NEW n \in Nat, Stands(pack, hint, k, i, o, n)
  PROVE  StandsBy(q, g, k, i, n, x)
<1>1. o \in 1..Whole(pack[t][i]) /\ pack[t][i][o].key = k /\ pack[t][i][o].no >= n
      /\ (hint[t][i] # NoFile => <<k, o>> \in hint[t][i])
  BY Zenon DEF Stands
<1>2. <<k, o>> \in Entries(t, i)
  <2>1. CASE hint[t][i] # NoFile
    <3>1. <<k, o>>[2] <= Whole(pack[t][i])
      BY <1>1
    <3> QED BY <1>1, <2>1, <3>1, Zenon DEF Entries
  <2>2. CASE hint[t][i] = NoFile
    BY <1>1, <2>2, Zenon DEF Entries
  <2> QED BY <2>1, <2>2, Zenon
<1>3. \/ x = index[k] /\ index[k].id > i
      \/ x.id = i /\ x.off \in Nat /\ <<k, x.off>> \in Entries(t, i) /\ o <= x.off
  <2>1. \/ x = index[k] /\ (index[k].id > i \/ \A m : <<k, m>> \notin Entries(t, i))
        \/ /\ x.id = i /\ ~(index[k].id > i) /\ x.off \in Nat /\ <<k, x.off>> \in Entries(t, i)
           /\ \A m : <<k, m>> \in Entries(t, i) => m <= x.off
    BY IndexedBest
  <2> QED BY <1>2, <2>1, Zenon
<1>4. x.id > i \/ (x.id = i /\ x.off >= o)
  BY <1>3
<1>5. CASE hint[t][i] # NoFile /\ g = hint
  <2>1. Stands(q, g, k, i, o, n)
    BY <1>5, LoadStands, Zenon
  <2> QED BY <1>4, <2>1, Zenon DEF StandsBy
<1>6. CASE /\ hint[t][i] = NoFile /\ g[t][i] = Sealed(i, Indexed(i, Entries(t, i)))
           /\ \A u \in Tiers : hint[u][i] = NoFile /\ (u # t => pack[u][i] = NoFile)
           /\ \A u \in Tiers, j \in Ids : pack[u][j] # NoFile => j <= i
  <2>1. ~(index[k].id > i)
    <3>1. PICK m : m = index[k].id
      BY Zenon
    <3>2. m \in Int /\ i \in Int /\ i > 0
      <4>1. index[k] \in [id : 0..MaxId, off : Nat]
        BY Zenon DEF PInv, MemoryOk
      <4> QED BY <3>1, <4>1, OneTier, PackStoreAssumption, SMTT(20)
    <3>3. CASE m = 0
      BY <3>1, <3>2, <3>3, SMTT(20)
    <3>4. CASE m # 0
      <4>1. m \in packs /\ pack[tier[m]][m] # NoFile
        BY <3>1, <3>4, Zenon DEF PInv, IndexReads
      <4>2. m \in Ids /\ tier[m] \in Tiers
        BY <4>1, Zenon DEF PInv, MemoryOk
      <4>3. m <= i
        BY <1>6, <4>1, <4>2, Zenon
      <4> QED BY <3>1, <3>2, <4>3, SMTT(20)
    <3> QED BY <3>3, <3>4, Zenon
  <2>2. PICK m : m = x.off
    BY Zenon
  <2>3. x.id = i /\ m \in Nat /\ <<k, m>> \in Entries(t, i) /\ o <= m
    BY <1>3, <2>1, <2>2, Zenon
  <2>4. m \in 1..Whole(pack[t][i]) /\ pack[t][i][m].key = k
    BY <2>3, EntriesRead, SMTT(20)
  <2>5. pack[t][i][m].no >= n
    <3>1. pack[t][i][o].no <= pack[t][i][m].no
      BY <1>1, <2>3, <2>4, Zenon DEF KInv, Aged
    <3>2. pack[t][i][o].no \in Nat /\ pack[t][i][m].no \in Nat
      BY <1>1, <2>4, WholeAt, Zenon DEF PInv, DiskOk
    <3> QED BY <1>1, <3>1, <3>2, SMTT(20)
  <2>6. ASSUME NEW u \in Tiers, q[u][i] # NoFile
        PROVE  m \in 1..Whole(q[u][i]) /\ q[u][i][m].key = k /\ q[u][i][m].no >= n
    <3>1. u = t
      BY <1>6, <2>6, Zenon DEF Loaded, SameElsewhere
    <3>2. Whole(q[t][i]) = Whole(pack[t][i]) /\ q[t][i][m] = pack[t][i][m]
      BY <2>4, Zenon DEF Loaded, Front
    <3> QED BY <2>4, <2>5, <3>1, <3>2, Zenon
  <2>7. ASSUME NEW u \in Tiers, g[u][i] # NoFile PROVE <<k, m>> \in g[u][i]
    <3>1. u = t
      BY <1>6, <2>7, Zenon DEF Loaded, SameElsewhere
    <3>2. <<k, m>> \in Sealed(i, Indexed(i, Entries(t, i)))
      BY <2>2, <2>3, Zenon DEF Sealed
    <3> QED BY <1>6, <3>1, <3>2, Zenon
  <2>8. q[t][i] # NoFile
    BY Zenon DEF Loaded
  <2>9. Stands(q, g, k, i, m, n)
    BY <2>6, <2>7, <2>8, Zenon DEF Stands
  <2>10. x.id = i /\ x.off >= m
    BY <2>2, <2>3, SMTT(20)
  <2> QED BY <2>3, <2>9, <2>10, Zenon DEF StandsBy
<1> QED BY <1>5, <1>6, Zenon DEF Loaded

\* OpenStore loads a pack, cuts a torn end and seals it.
LEMMA LoadFirstKept ==
  ASSUME NoFile \notin Hints, PInv, KInv, PInv', NEW t \in Tiers, NEW i \in Ids, LoadPack(t, i), i \notin packs PROVE KInv'
<1>1. PICK q, g, ix : q = pack' /\ g = hint' /\ ix = Indexed(i, Entries(t, i))
  BY Zenon
<1>2. /\ main = "opening" /\ main' = main /\ IsNext(<<t, i>>) /\ index' = ix /\ packs' = packs \cup {i}
      /\ tier' = [tier EXCEPT ![i] = t] /\ active' = active /\ demoter' = demoter /\ puts' = puts /\ outages' = outages
      /\ promised' = promised
  BY <1>1, Zenon DEF LoadPack
<1>3. /\ ~Running /\ ~Running' /\ demoter.pc # "switch" /\ active = 0 /\ packs \subseteq Ids
      /\ tier \in [Ids -> Tiers] /\ pack[t][i] # NoFile /\ promised \in [Keys -> Nat] /\ 0 \notin Ids
  BY <1>2, WalkOn, OneTier, Zenon DEF PInv, MemoryOk, Running, Asleep, KInv
<1>4. Loaded(t, i, q, g) /\ Aged(q, puts) /\ LastUnsealed(q, g) /\ (outages = 0 => OneHint(g))
  BY <1>1, LoadKeeps, Zenon
<1>5. tier'[i] = t /\ \A j \in Ids : j # i => tier'[j] = tier[j] /\ \A u \in Tiers : g[u][j] = hint[u][j]
  BY <1>2, <1>3, <1>4, Zenon DEF Loaded, SameElsewhere
<1>6. ASSUME NEW k \in Keys
      PROVE  \/ ix[k] = index[k]
             \/ ix[k].id = i /\ ~(index[k].id > i) /\ <<k, ix[k].off>> \in Entries(t, i)
  <2>1. PICK x : x = ix[k]
    BY Zenon
  <2>2. x = index[k] \/ (x.id = i /\ ~(index[k].id > i) /\ <<k, x.off>> \in Entries(t, i))
    BY <1>1, <1>3, <2>1, IndexedBest, SMTT(20)
  <2> QED BY <2>1, <2>2, Zenon
<1>7. SealedOk'
  <2>1. ASSUME NEW j \in packs' PROVE g[tier'[j]][j] # NoFile
    <3>1. CASE j = i
      BY <1>4, <1>5, <3>1, Zenon DEF Loaded
    <3>2. CASE j # i
      <4>1. j \in packs /\ j \in Ids /\ j # active /\ tier[j] \in Tiers
        BY <1>2, <1>3, <3>2, Zenon
      <4>2. hint[tier[j]][j] # NoFile
        BY <4>1, Zenon DEF KInv, SealedOk
      <4> QED BY <1>5, <3>2, <4>1, <4>2, Zenon
    <3> QED BY <3>1, <3>2, Zenon
  <2> QED BY <1>1, <1>2, <1>3, <2>1, Zenon DEF SealedOk
<1>8. Listed'
  <2>1. ASSUME NEW k \in Keys, ix[k].id # 0 PROVE <<k, ix[k].off>> \in g[tier'[ix[k].id]][ix[k].id]
    <3>1. CASE ix[k] = index[k]
      <4>1. PICK m, o : m = index[k].id /\ o = index[k].off
        BY Zenon
      <4>2. m \in packs /\ <<k, o>> \in hint[tier[m]][m]
        BY <1>3, <2>1, <3>1, <4>1, Zenon DEF PInv, IndexReads, KInv, Listed
      <4>3. m \in Ids /\ m # i /\ tier[m] \in Tiers
        BY <1>3, <4>2, Zenon
      <4>4. <<k, o>> \in g[tier'[m]][m]
        BY <1>5, <4>2, <4>3, Zenon
      <4> QED BY <3>1, <4>1, <4>4, Zenon
    <3>2. CASE ix[k].id = i /\ <<k, ix[k].off>> \in Entries(t, i)
      <4>1. <<k, ix[k].off>> \in g[t][i]
        <5>1. CASE hint[t][i] # NoFile /\ g = hint
          BY <3>2, <5>1, Zenon DEF Entries
        <5>2. CASE g[t][i] = Sealed(i, Indexed(i, Entries(t, i)))
          BY <1>1, <3>2, <5>2, Zenon DEF Sealed
        <5> QED BY <1>4, <5>1, <5>2, Zenon DEF Loaded
      <4> QED BY <1>5, <3>2, <4>1, Zenon
    <3> QED BY <1>6, <3>1, <3>2, Zenon
  <2> QED BY <1>1, <1>2, <2>1, Zenon DEF Listed
<1>9. ASSUME NEW k \in Keys, outages' = 0, promised'[k] # 0 PROVE StandsOnDisk(k)'
  <2>1. PICK x, n : x = ix[k] /\ n = promised[k]
    BY Zenon
  <2>2. StandsOnDisk(k) /\ n \in Nat
    BY <1>2, <1>3, <1>9, <2>1, Zenon DEF KInv
  <2>3. PICK j \in Ids, o \in Nat : Stands(pack, hint, k, j, o, n) /\ (j \in packs => Reached(k, j, o))
    BY <2>1, <2>2, Zenon DEF StandsOnDisk
  <2>4. \E m \in Nat : Stands(q, g, k, j, m, n) /\ (j \in packs' => x.id > j \/ (x.id = j /\ x.off >= m))
    <3>1. CASE j # i
      <4>1. Stands(q, g, k, j, o, n)
        BY <1>3, <1>4, <2>3, <3>1, LoadStands, Zenon
      <4>2. j \in packs' => x.id > j \/ (x.id = j /\ x.off >= o)
        <5>1. x = index[k] \/ (x.id = i /\ ~(index[k].id > i))
          BY <1>6, <2>1, Zenon
        <5>2. j \in packs' => Reached(k, j, o)
          BY <1>2, <2>3, <3>1, Zenon
        <5> QED BY <3>1, <5>1, <5>2, ReachedOn, SMTT(20)
      <4> QED BY <2>3, <4>1, <4>2, Zenon
    <3>2. CASE j = i
      <4>1. x = Indexed(i, Entries(t, i))[k] /\ Stands(pack, hint, k, i, o, n)
        BY <1>1, <2>1, <2>3, <3>2, Zenon
      <4>2. StandsBy(q, g, k, i, n, x)
        BY <1>3, <1>4, <1>9, <2>2, <2>3, <4>1, LoadFinds, Zenon
      <4> QED BY <3>2, <4>2, Zenon DEF StandsBy
    <3> QED BY <3>1, <3>2, Zenon
  <2>5. PICK m \in Nat : Stands(q, g, k, j, m, n) /\ (j \in packs' => x.id > j \/ (x.id = j /\ x.off >= m))
    BY <2>4, Zenon
  <2> QED BY <1>1, <1>2, <2>1, <2>5, Zenon DEF StandsOnDisk, Reached
<1>10. Aged(pack', puts') /\ LastUnsealed(pack', hint') /\ (outages' = 0 => OneHint(hint'))
  BY <1>1, <1>2, <1>4, Zenon
<1>11. promised' \in [Keys -> Nat] /\ outages' \in Nat
  BY <1>2, Zenon DEF KInv
<1> QED BY <1>3, <1>7, <1>8, <1>9, <1>10, <1>11, Zenon DEF KInv

\* Once all packs are loaded, the index has the promised record or a later one.
LEMMA AllLoaded ==
  ASSUME PInv, KInv, main = "opening", Unread = {}, outages = 0, NEW k \in Keys, promised[k] # 0
  PROVE  StandsAtIndex(k)
<1>1. PICK m, o, n : m = index[k].id /\ o = index[k].off /\ n = promised[k]
  BY Zenon
<1>2. ~Running /\ n \in Nat /\ OneHint(hint) /\ StandsOnDisk(k) /\ Listed /\ active = 0 /\ 0 \notin Ids /\ packs \subseteq Ids
      /\ tier \in [Ids -> Tiers]
  BY <1>1, OneTier, Zenon DEF PInv, MemoryOk, Asleep, Running, KInv
<1>3. \A t \in Tiers, i \in Ids : pack[t][i] # NoFile => i \in packs /\ t = tier[i]
  <2>1. \A t \in Tiers, i \in Ids : pack[t][i] # NoFile => ~Before(cursor, <<t, i>>)
    BY Zenon DEF Unread
  <2> QED BY <2>1, Zenon DEF PInv, Walked
<1>4. PICK j \in Ids, e \in Nat : Stands(pack, hint, k, j, e, n) /\ (j \in packs => Reached(k, j, e))
  BY <1>1, <1>2, Zenon DEF StandsOnDisk
<1>5. PICK t \in Tiers : pack[t][j] # NoFile
  BY <1>4, Zenon DEF Stands
<1>6. e \in 1..Whole(pack[t][j]) /\ pack[t][j][e].no >= n
  BY <1>4, <1>5, Zenon DEF Stands
<1>7. m > j \/ (m = j /\ o >= e)
  BY <1>1, <1>3, <1>4, <1>5, Zenon DEF Reached
<1>8. m \in Int /\ o \in Int /\ j \in Int /\ j > 0 /\ e \in Int
  <2>1. index[k] \in [id : 0..MaxId, off : Nat]
    BY Zenon DEF PInv, MemoryOk
  <2>2. MaxId \in Nat /\ j \in Nat \ {0}
    BY OneTier, PackStoreAssumption, Zenon
  <2> QED BY <1>1, <2>1, <2>2, SMTT(20)
<1>9. m # 0 /\ (j < m \/ (j = m /\ e <= o))
  BY <1>7, <1>8, SMTT(20)
<1>10. PICK u : u = tier[m]
  BY Zenon
<1>11. m \in packs /\ pack[u][m] # NoFile /\ o \in 1..Whole(pack[u][m]) /\ pack[u][m][o].key = k
  BY <1>1, <1>9, <1>10, Zenon DEF PInv, IndexReads, Record
<1>12. m \in Ids /\ u \in Tiers /\ m # active
  BY <1>2, <1>10, <1>11, Zenon
<1>13. pack[u][m][o].no >= n
  <2>1. pack[t][j][e].no <= pack[u][m][o].no
    BY <1>5, <1>6, <1>9, <1>11, <1>12, Zenon DEF KInv, Aged
  <2>2. pack[t][j][e].no \in Nat /\ pack[u][m][o].no \in Nat
    BY <1>5, <1>6, <1>11, <1>12, WholeAt, Zenon DEF PInv, DiskOk
  <2> QED BY <1>2, <1>6, <2>1, <2>2, SMTT(20)
<1>14. <<k, o>> \in hint[u][m] /\ hint[u][m] # NoFile
  BY <1>1, <1>2, <1>9, <1>10, <1>11, <1>12, Zenon DEF Listed, KInv, SealedOk
<1>15. ASSUME NEW v \in Tiers, hint[v][m] # NoFile PROVE <<k, o>> \in hint[v][m]
  <2>1. hint[v][m] = hint[u][m]
    BY <1>2, <1>12, <1>14, <1>15, Zenon DEF OneHint
  <2> QED BY <1>14, <2>1, Zenon
<1>16. ASSUME NEW v \in Tiers, pack[v][m] # NoFile
       PROVE  o \in 1..Whole(pack[v][m]) /\ pack[v][m][o].key = k /\ pack[v][m][o].no >= n
  <2>1. v = u
    BY <1>3, <1>10, <1>12, <1>16, Zenon
  <2> QED BY <1>11, <1>13, <2>1, Zenon
<1>17. Stands(pack, hint, k, m, o, n)
  BY <1>11, <1>12, <1>15, <1>16, Zenon DEF Stands
<1> QED BY <1>1, <1>9, <1>17, Zenon DEF StandsAtIndex

\* OpenStore ends: the index takes over from the disk.
LEMMA OpenDoneKept == ASSUME PInv, KInv, PInv', OpenDone PROVE KInv'
<1>1. PICK a, q : a = active' /\ q = pack'
  BY Zenon
<1>2. /\ main = "opening" /\ Unread = {} /\ main' = "open" /\ hint' = hint /\ index' = index /\ demoter' = demoter
      /\ puts' = puts /\ outages' = outages /\ promised' = promised
      /\ packs' = packs \cup {a} /\ tier' = [tier EXCEPT ![a] = 1] /\ q = [pack EXCEPT ![1][a] = <<>>]
  <2>1. PICK m : m = last + 1
    BY Zenon
  <2> QED BY <1>1, <2>1, Zenon DEF OpenDone, CreateActive
<1>3. /\ ~Running /\ Running' /\ active = 0 /\ demoter.pc = "idle" /\ packs \subseteq Ids /\ 0 \notin Ids /\ 1 \in Tiers
      /\ tier \in [Ids -> Tiers] /\ pack \in [Tiers -> [Ids -> Files \cup {NoFile}]]
  BY <1>2, OneTier, Zenon DEF PInv, MemoryOk, DiskOk, Asleep, Running
<1>4. /\ a \in Ids /\ Fresh(q, hint, a) /\ \A u \in Tiers \ {1} : q[u][a] = NoFile /\ hint[u][a] = NoFile
  <2>1. a \in packs' /\ packs' \subseteq Ids
    BY <1>1, <1>3, Zenon DEF PInv, ActiveOk, MemoryOk
  <2>2. Fresh(q, hint, a) /\ \A u \in Tiers \ {1} : q[u][a] = NoFile /\ hint[u][a] = NoFile
    BY <1>1, <1>2, <1>3, Zenon DEF PInv, ActiveOk
  <2> QED BY <2>1, <2>2, Zenon
<1>5. <<>> \in Files /\ Whole(<<>>) = 0
  <2>1. <<>> \in Seq(Records) /\ Len(<<>>) = 0
    OBVIOUS
  <2> QED BY <2>1, AllWhole, Zenon
<1>6. q[1][a] = <<>> /\ \A u \in Tiers, j \in Ids : u # 1 \/ j # a => q[u][j] = pack[u][j]
  BY <1>2, <1>3, <1>4, <1>5, SetAt, SMTT(20)
<1>7. \A t \in Tiers, i \in Ids : pack[t][i] # NoFile => i \in packs /\ t = tier[i]
  <2>1. \A t \in Tiers, i \in Ids : pack[t][i] # NoFile => ~Before(cursor, <<t, i>>)
    BY <1>2, Zenon DEF Unread
  <2> QED BY <1>2, <2>1, Zenon DEF PInv, Walked
<1>8. a \notin packs
  <2>1. pack[1][a] = NoFile
    <3>1. PICK m : m = last + 1
      BY Zenon
    <3> QED BY <1>1, <3>1, Zenon DEF OpenDone, CreateActive
  <2>2. \A u \in Tiers : pack[u][a] = NoFile
    BY <1>4, <1>6, <2>1, Zenon
  <2> QED BY <1>2, <1>3, <1>4, <2>2, Zenon DEF PInv, Walked
<1>9. Aged(q, puts)
  <2>1. ASSUME NEW t \in Tiers, NEW u \in Tiers, NEW i \in Ids, NEW j \in Ids, q[t][i] # NoFile, q[u][j] # NoFile,
               NEW o \in 1..Whole(q[t][i]), NEW m \in 1..Whole(q[u][j])
        PROVE  /\ q[t][i][o].no <= puts
               /\ i < j \/ (i = j /\ o <= m) => q[t][i][o].no <= q[u][j][m].no
    <3>1. 1..Whole(<<>>) = {}
      BY <1>5
    <3>2. (t # 1 \/ i # a) /\ (u # 1 \/ j # a)
      BY <1>6, <2>1, <3>1, Zenon
    <3>3. q[t][i] = pack[t][i] /\ q[u][j] = pack[u][j]
      BY <1>6, <3>2, Zenon
    <3> QED BY <2>1, <3>3, Zenon DEF KInv, Aged
  <2> QED BY <2>1, Zenon DEF Aged
<1>10. LastUnsealed(q, hint)
  <2>1. ASSUME NEW t \in Tiers, NEW i \in Ids, First(q, t, i), hint[t][i] = NoFile
        PROVE  /\ \A u \in Tiers : hint[u][i] = NoFile /\ (u # t => q[u][i] = NoFile)
               /\ \A u \in Tiers, j \in Ids : q[u][j] # NoFile => j <= i
    <3>1. CASE i = a
      <4>1. t = 1
        BY <1>4, <2>1, <3>1, Zenon DEF First
      <4> QED BY <1>4, <2>1, <3>1, <4>1, Zenon DEF Fresh, Used
    <3>2. CASE i # a
      <4>1. i \in packs /\ t = tier[i] /\ i # active
        BY <1>3, <1>6, <1>7, <2>1, <3>2, Zenon DEF First
      <4> QED BY <2>1, <4>1, Zenon DEF KInv, SealedOk
    <3> QED BY <3>1, <3>2, Zenon
  <2> QED BY <2>1, Zenon DEF LastUnsealed
<1>11. SealedOk'
  <2>1. ASSUME NEW i \in packs', i # a PROVE hint[tier'[i]][i] # NoFile
    <3>1. i \in packs /\ i \in Ids /\ i # active /\ tier'[i] = tier[i]
      BY <1>2, <1>3, <2>1, Zenon
    <3> QED BY <3>1, Zenon DEF KInv, SealedOk
  <2>2. demoter'.pc # "switch"
    BY <1>2, <1>3
  <2> QED BY <1>1, <1>2, <2>1, <2>2, Zenon DEF SealedOk
<1>12. ASSUME NEW k \in Keys, outages' = 0, promised'[k] # 0 PROVE StandsAtIndex(k)'
  <2>1. PICK m, o, n : m = index[k].id /\ o = index[k].off /\ n = promised[k]
    BY Zenon
  <2>2. StandsAtIndex(k)
    BY <1>2, <1>12, AllLoaded, Zenon
  <2>3. m # 0 /\ Stands(pack, hint, k, m, o, n)
    BY <2>1, <2>2, Zenon DEF StandsAtIndex
  <2>4. m \in packs /\ m \in Ids /\ m # a
    BY <1>3, <1>8, <2>1, <2>3, Zenon DEF PInv, IndexReads
  <2>5. \A u \in Tiers : q[u][m] = pack[u][m]
    BY <1>6, <2>4, Zenon
  <2>6. Stands(q, hint, k, m, o, n)
    BY <2>3, <2>5, Zenon DEF Stands
  <2> QED BY <1>1, <1>2, <2>1, <2>3, <2>6, Zenon DEF StandsAtIndex
<1>13. Aged(pack', puts') /\ LastUnsealed(pack', hint') /\ promised' \in [Keys -> Nat] /\ outages' \in Nat
       /\ (outages' = 0 => OneHint(hint'))
  BY <1>1, <1>2, <1>9, <1>10, Zenon DEF KInv
<1> QED BY <1>3, <1>11, <1>12, <1>13, Zenon DEF KInv

----------------------------------------------------------------------------
(* Every step *)

\* Each action of the store, from the handlers above.
LEMMA NextKept == ASSUME NoFile \notin Hints, PInv, KInv, PInv', [Next]_vars, ~skipped' PROVE KInv'
<1>1. CASE Open
  <2>1. main' = "opening" /\ main = "down" /\ pack' = pack /\ hint' = hint /\ index' = index /\ packs' = packs
        /\ tier' = tier /\ active' = active /\ puts' = puts /\ outages' = outages /\ promised' = promised /\ demoter' = demoter
    BY <1>1, Zenon DEF Open, disk, memory
  <2>2. Running' <=> Running
    BY <2>1, Zenon DEF Running
  <2> QED BY <2>1, <2>2, QuietKept, Zenon
<1>2. CASE OpenDone
  BY <1>2, OpenDoneKept, Zenon
<1>3. CASE Close
  <2>1. main' = "closing" /\ main = "open" /\ pack' = pack /\ hint' = hint /\ index' = index /\ packs' = packs
        /\ tier' = tier /\ active' = active /\ puts' = puts /\ outages' = outages /\ promised' = promised /\ demoter' = demoter
    BY <1>3, Zenon DEF Close, disk, memory
  <2>2. Running' <=> Running
    BY <2>1, Zenon DEF Running
  <2> QED BY <2>1, <2>2, QuietKept, Zenon
<1>4. CASE CloseSeal
  BY <1>4, CloseSealKept, Zenon
<1>5. ASSUME NEW t \in Tiers, NEW i \in Ids, LoadPack(t, i) \/ LoadFails(t, i) PROVE KInv'
  <2>1. ~LoadFails(t, i)
    BY Zenon DEF LoadFails
  <2> QED BY <1>5, <2>1, LoadCopyKept, LoadFirstKept, Zenon
<1>6. ASSUME NEW k \in Keys, Put(k) \/ PutCreateFails(k) \/ PutWriteFails(k) \/ StopInPut(k) PROVE KInv'
  BY <1>6, PutKept, PutCreateFailsKept, PutWriteFailsKept, StopInPutKept, Zenon
<1>7. CASE Wake \/ Pick \/ MoveFails \/ UNCHANGED vars
  <2>1. main' = main /\ pack' = pack /\ hint' = hint /\ index' = index /\ packs' = packs
        /\ tier' = tier /\ active' = active /\ puts' = puts /\ outages' = outages /\ promised' = promised
    BY <1>7, Zenon DEF Wake, Pick, MoveFails, vars, disk, memory
  <2>2. demoter' = demoter \/ demoter'.pc # "switch"
    BY <1>7 DEF Wake, Pick, MoveFails, Idle, vars
  <2>3. Running' <=> Running
    BY <2>1, Zenon DEF Running
  <2> QED BY <2>1, <2>2, <2>3, QuietKept, Zenon
<1>8. CASE Evict \/ MovePack \/ MoveHint \/ Switch
  BY <1>8, EvictKept, MovePackKept, MoveHintKept, SwitchKept, Zenon
<1>9. CASE Stop \/ StopInFiles \/ LosePower
  BY <1>9, StopKept, StopInFilesKept, LosePowerKept, Zenon
<1> QED BY <1>1, <1>2, <1>3, <1>4, <1>5, <1>6, <1>7, <1>8, <1>9, Zenon DEF Next, Demoter

\* PromisesAreKept (Put's return, OpenStore's walk of the tiers, load's hints): for
\* any keys, tiers and limits, and any number of crashes at any point of Put, of a
\* move or of an eviction, failed writes and reopenings, as long as no power is lost
\* and no pack was skipped in a walk,
\* the open store has for every key it has answered for the last record it answered
\* for or a later one.  The index alone does not carry this over a restart: KInv says
\* that the record stands in every file load may find it in.  (NoFile stands for the absent
\* file; it is none of the lists a hint can hold.)
THEOREM PromisesAreKept ==
  ASSUME NoFile \notin Hints
  PROVE  Spec => []Kept
<1>1. (~skipped => PInv /\ KInv) => Kept
  <2> SUFFICES ASSUME PInv, KInv, main \in {"open", "closing"}, outages = 0, NEW k \in Keys, promised[k] # 0
               PROVE  index[k].id # 0 /\ Record(k).no >= promised[k]
    BY Zenon DEF Kept
  <2>1. PICK m, o, n : m = index[k].id /\ o = index[k].off /\ n = promised[k]
    BY Zenon
  <2>2. Running
    BY Zenon DEF Running
  <2>3. m # 0 /\ Stands(pack, hint, k, m, o, n)
    BY <2>1, <2>2, Zenon DEF KInv, StandsAtIndex
  <2>4. m \in packs /\ pack[tier[m]][m] # NoFile
    BY <2>1, <2>3, Zenon DEF PInv, IndexReads
  <2>5. tier[m] \in Tiers
    BY <2>4, Zenon DEF PInv, MemoryOk
  <2>6. pack[tier[m]][m][o].no >= n
    BY <2>3, <2>4, <2>5, Zenon DEF Stands
  <2> QED BY <2>1, <2>3, <2>6, Zenon DEF Record
<1>2. Init => (~skipped => PInv /\ KInv)
  BY InitInv, InitKept, Zenon
<1>3. (~skipped => PInv /\ KInv) /\ [Next]_vars => (~skipped => PInv /\ KInv)'
  BY StaysSkipped, NextInv, NextKept, Zenon
<1> QED BY <1>1, <1>2, <1>3, PTL DEF Spec

============================================================================
