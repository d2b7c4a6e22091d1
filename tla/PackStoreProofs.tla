-------------------------- MODULE PackStoreProofs --------------------------
(* IndexSound and FreshId for any keys, tiers, limits, faults and outages. *)
EXTENDS PackStoreDisk, WellFoundedInduction

----------------------------------------------------------------------------
(* Put *)

\* An entry of the index is as it was or points to a record of its key in pack a, which holds s.
Pointed(new, old, a, s) ==
  /\ new \in [Keys -> [id : 0..MaxId, off : Nat]]
  /\ \A k \in Keys : \/ new[k] = old[k]
                     \/ new[k].id = a /\ new[k].off \in 1..Len(s) /\ s[new[k].off].key = k

\* Pack a is the active one now and holds s, which begins with what it held.
LEMMA NowActive ==
  ASSUME PInv, Running, main' = main, cursor' = cursor, demoter' = demoter, puts' \in Nat,
         NEW h, NEW a, NEW held, Ready(pack, h, a, held), hint' = h,
         (a = active /\ held = pack[1][active]) \/ a = active + 1,
         active' = a, packs' = packs \cup {a}, tier' = [tier EXCEPT ![a] = 1],
         NEW s \in Seq(Records), Len(held) <= Len(s), \A o \in 1..Len(held) : s[o] = held[o],
         pack' = [pack EXCEPT ![1][a] = s], Pointed(index', index, a, s)
  PROVE  PInv'
<1>1. /\ a \in Ids /\ held \in Seq(Records) /\ 1 \in Tiers /\ Ids \subseteq Nat \ {0} /\ MaxId \in Nat
      /\ \A u \in Tiers \ {1} : pack[u][a] = NoFile /\ h[u][a] = NoFile
      /\ h[1][a] # NoFile => \A e \in h[1][a] : e[2] <= Len(held)
  BY OneTier, PackStoreAssumption, Zenon DEF Ready
<1>2. /\ active \in packs /\ packs \subseteq Ids /\ tier \in [Ids -> Tiers] /\ tier[active] = 1
      /\ pack \in [Tiers -> [Ids -> Files \cup {NoFile}]]
      /\ \A t \in Tiers, i \in Ids : pack[t][i] # NoFile => i <= active
      /\ \A i \in packs : pack[tier[i]][i] # NoFile
  BY Zenon DEF PInv, MemoryOk, DiskOk, ActiveOk, PlacesOk, Fresh, Used
<1>3. s \in Files /\ Whole(s) = Len(s) /\ s # NoFile /\ Whole(held) = Len(held) /\ Len(held) \in Nat /\ Len(s) \in Nat
  BY <1>1, AllWhole, NoFileIsNone
<1>4. DiskOk(pack', hint') /\ Fresh(pack', hint', a) /\ Topped(pack', hint')
  BY <1>3, Written, Zenon
<1>5. pack'[1][a] = s /\ \A u \in Tiers, j \in Ids : u # 1 \/ j # a => pack'[u][j] = pack[u][j]
  BY <1>1, <1>2, <1>3, SetAt
<1>6. a \in packs => a = active /\ held = pack[1][active]
  <2>1. \A i \in packs : i <= active
    BY <1>2, Zenon
  <2> QED BY <1>1, <1>2, <2>1
<1>7. tier' \in [Ids -> Tiers] /\ tier'[a] = 1 /\ \A j \in Ids : j # a => tier'[j] = tier[j]
  BY <1>1, <1>2, Zenon
<1>8. \A j \in packs : j # a => pack'[tier'[j]][j] = pack[tier[j]][j]
  BY <1>2, <1>5, <1>7, Zenon
<1>9. IndexReads'
  <2>1. ASSUME NEW k \in Keys, index'[k].id # 0
        PROVE  /\ index'[k].id \in packs' /\ pack'[tier'[index'[k].id]][index'[k].id] # NoFile
               /\ index'[k].off \in 1..Whole(pack'[tier'[index'[k].id]][index'[k].id])
               /\ pack'[tier'[index'[k].id]][index'[k].id][index'[k].off].key = k
    <3>1. CASE index'[k].id = a /\ index'[k].off \in 1..Len(s) /\ s[index'[k].off].key = k
      BY <1>3, <1>5, <1>7, <3>1
    <3>2. CASE index'[k] = index[k]
      <4>1. PICK i, o : i = index[k].id /\ o = index[k].off
        BY Zenon
      <4>2. /\ i \in packs /\ pack[tier[i]][i] # NoFile /\ o \in 1..Whole(pack[tier[i]][i])
            /\ pack[tier[i]][i][o].key = k
        BY <2>1, <3>2, <4>1, Zenon DEF PInv, IndexReads, Record
      <4>3. CASE i = a
        <5>1. pack[tier[i]][i] = held
          BY <1>2, <1>6, <4>2, <4>3, Zenon
        <5>2. o \in 1..Len(s) /\ s[o].key = k
          BY <1>3, <4>2, <5>1
        <5> QED BY <1>3, <1>5, <1>7, <3>2, <4>1, <4>3, <5>2
      <4>4. CASE i # a
        BY <1>8, <3>2, <4>1, <4>2, <4>4, Zenon
      <4> QED BY <4>3, <4>4, Zenon
    <3> QED BY <3>1, <3>2, Zenon DEF Pointed
  <2> QED BY <2>1, Zenon DEF IndexReads, Record
<1>10. ActiveOk'
  <2>1. h[1][a] # NoFile => \A e \in h[1][a] : e[2] <= Len(s)
    <3>1. h \in [Tiers -> [Ids -> Hints \cup {NoFile}]]
      BY Zenon DEF Ready, DiskOk
    <3>2. h[1][a] # NoFile => \A e \in h[1][a] : e[2] \in Nat
      BY <1>1, <3>1 DEF Hints
    <3> QED BY <1>1, <1>3, <3>2
  <2>2. \A u \in Tiers \ {1} : pack'[u][a] = NoFile /\ h[u][a] = NoFile
    BY <1>1, <1>5, Zenon
  <2> QED BY <1>1, <1>4, <1>5, <1>7, <2>1, <2>2, Zenon DEF ActiveOk
<1>11. PlacesOk'
  <2>1. ASSUME NEW i \in packs' PROVE pack'[tier'[i]][i] # NoFile
    BY <1>2, <1>3, <1>5, <1>7, <1>8
  <2>2. ASSUME NEW v \in Tiers, NEW j \in Ids, pack'[v][j] # NoFile
        PROVE  j \in packs' /\ (v = tier'[j] \/ (v = tier'[j] + 1 /\ pack'[v][j] = pack'[tier'[j]][j]))
    <3>1. CASE j = a
      BY <1>1, <1>5, <1>7, <2>2, <3>1
    <3>2. CASE j # a
      <4>1. pack'[v][j] = pack[v][j] /\ tier'[j] = tier[j]
        BY <1>5, <1>7, <3>2, Zenon
      <4>2. j \in packs /\ (v = tier[j] \/ (v = tier[j] + 1 /\ pack[v][j] = pack[tier[j]][j]))
        BY <2>2, <4>1, Zenon DEF PInv, PlacesOk
      <4> QED BY <1>8, <3>2, <4>1, <4>2, Zenon
    <3> QED BY <3>1, <3>2, Zenon
  <2> QED BY <2>1, <2>2, Zenon DEF PlacesOk
<1>12. DemoterOk'
  <2>1. PICK i : i = demoter.id
    BY Zenon
  <2>2. CASE demoter.pc \in {"pack", "hint", "switch"}
    <3>1. i \in packs /\ i # active /\ i # a /\ tier'[i] = tier[i] /\ i \in Ids
      BY <1>2, <1>6, <1>7, <2>1, <2>2 DEF PInv, DemoterOk
    <3>2. demoter.pc \in {"hint", "switch"} => tier[i] + 1 \in Tiers /\ pack[tier[i] + 1][i] = pack[tier[i]][i]
      BY <2>1, Zenon DEF PInv, DemoterOk
    <3>3. demoter.pc \in {"hint", "switch"} => pack'[tier'[i] + 1][i] = pack'[tier'[i]][i]
      BY <1>5, <1>8, <3>1, <3>2
    <3> QED BY <2>1, <3>1, <3>2, <3>3, Zenon DEF DemoterOk
  <2>3. CASE demoter.pc \notin {"pack", "hint", "switch"}
    BY <2>3, Zenon DEF DemoterOk
  <2> QED BY <2>2, <2>3, Zenon
<1>13. MemoryOk' /\ main' # "opening" /\ Running'
  <2>1. a \in 0..MaxId
    BY <1>1 DEF Ids
  <2> QED BY <1>1, <1>2, <1>7, <2>1, Zenon DEF PInv, MemoryOk, Running, Pointed
<1> QED BY <1>4, <1>9, <1>10, <1>11, <1>12, <1>13 DEF PInv

LEMMA PutInv == ASSUME PInv, NEW k \in Keys, Put(k) PROVE PInv'
<1>1. PICK h, a, held : h = SealedHints(k) /\ a = Target(k) /\ held = Held(k)
  BY Zenon
<1>2. /\ Running /\ main' = main /\ cursor' = cursor /\ demoter' = demoter /\ puts' = puts + 1 /\ hint' = h
      /\ active \in packs /\ tier[active] = 1 /\ tier \in [Ids -> Tiers] /\ puts \in Nat /\ MaxId \in Nat
      /\ index \in [Keys -> [id : 0..MaxId, off : Nat]] /\ active \in Ids /\ Ids \subseteq Nat
  BY <1>1, PackStoreAssumption, OneTier, Zenon DEF Put, Running, PInv, MemoryOk, ActiveOk
<1>3. a <= MaxId
  <2>1. CASE Full(k)
    BY <1>1, <2>1, Zenon DEF Put, CreateActive
  <2>2. CASE ~Full(k)
    BY <1>1, <1>2, <2>2 DEF Target, Ids
  <2> QED BY <2>1, <2>2, Zenon
<1>4. /\ Ready(pack, h, a, held) /\ held \in Seq(Records) /\ a \in Ids
      /\ \/ ~Full(k) /\ a = active /\ held = pack[1][active]
         \/ Full(k) /\ a = active + 1
  BY <1>1, <1>2, <1>3, Rotated, Zenon DEF Ready
<1>5. active' = a /\ packs' = packs \cup {a} /\ tier' = [tier EXCEPT ![a] = 1]
  <2>1. CASE Full(k)
    BY <1>1, <2>1, Zenon DEF Put, CreateActive
  <2>2. CASE ~Full(k)
    <3>1. active' = active /\ packs' = packs /\ tier' = tier /\ a = active
      BY <1>4, <2>2, Zenon DEF Put
    <3> QED BY <1>2, <3>1, Zenon
  <2> QED BY <2>1, <2>2, Zenon
<1>6. PICK r, s : r = [key |-> k, no |-> puts + 1] /\ s = Append(held, r)
  BY Zenon
<1>7. r \in Records /\ r.key = k
  BY <1>2, <1>6 DEF Records
<1>8. /\ s \in Seq(Records) /\ Len(s) = Len(held) + 1 /\ Len(held) \in Nat /\ s[Len(s)] = r
      /\ \A o \in 1..Len(held) : s[o] = held[o]
  BY <1>4, <1>6, <1>7
<1>9. pack' = [pack EXCEPT ![1][a] = s] /\ index' = [index EXCEPT ![k] = [id |-> a, off |-> Len(held) + 1]]
  BY <1>1, <1>6, Zenon DEF Put
<1>10. Pointed(index', index, a, s)
  <2>1. [id |-> a, off |-> Len(held) + 1] \in [id : 0..MaxId, off : Nat]
    BY <1>4, <1>8 DEF Ids
  <2>2. index' \in [Keys -> [id : 0..MaxId, off : Nat]]
    BY <1>2, <1>9, <2>1, Zenon
  <2>3. \A j \in Keys : j # k => index'[j] = index[j]
    BY <1>2, <1>9, Zenon
  <2>4. index'[k].id = a /\ index'[k].off = Len(s)
    BY <1>2, <1>8, <1>9, Zenon
  <2> QED BY <1>7, <1>8, <2>2, <2>3, <2>4 DEF Pointed
<1>11. puts' \in Nat /\ Len(held) <= Len(s)
  BY <1>2, <1>8
<1>12. (a = active /\ held = pack[1][active]) \/ a = active + 1
  BY <1>4, Zenon
<1>13. Running /\ main' = main /\ cursor' = cursor /\ demoter' = demoter /\ hint' = h /\ Ready(pack, h, a, held)
  BY <1>2, <1>4, Zenon
<1>14. s \in Seq(Records) /\ (\A o \in 1..Len(held) : s[o] = held[o]) /\ pack' = [pack EXCEPT ![1][a] = s]
  BY <1>8, <1>9, Zenon
<1> QED BY <1>5, <1>10, <1>11, <1>12, <1>13, <1>14, NowActive, Zenon

LEMMA PutWriteFailsInv == ASSUME PInv, NEW k \in Keys, PutWriteFails(k) PROVE PInv'
<1>1. PICK h, a, held : h = SealedHints(k) /\ a = Target(k) /\ held = Held(k)
  BY Zenon
<1>2. /\ Running /\ main' = main /\ cursor' = cursor /\ demoter' = demoter /\ puts' = puts /\ hint' = h
      /\ Full(k) /\ a <= MaxId /\ active' = a /\ packs' = packs \cup {a} /\ tier' = [tier EXCEPT ![a] = 1]
      /\ pack' = [pack EXCEPT ![1][a] = <<>>] /\ index' = index
  BY <1>1, Zenon DEF PutWriteFails, CreateActive, Running
<1>3. Ready(pack, h, a, held) /\ a = active + 1 /\ held = <<>>
  BY <1>1, <1>2, Rotated, Zenon
<1>4. PICK s : s = <<>>
  BY Zenon
<1>5. s \in Seq(Records) /\ Len(held) <= Len(s) /\ \A o \in 1..Len(held) : s[o] = held[o]
  BY <1>3, <1>4
<1>6. puts' \in Nat /\ Pointed(index', index, a, s)
  BY <1>2, Zenon DEF PInv, MemoryOk, Pointed
<1>7. pack' = [pack EXCEPT ![1][a] = s]
  BY <1>2, <1>4, Zenon
<1> QED BY <1>2, <1>3, <1>5, <1>6, <1>7, NowActive, Zenon

LEMMA PutCreateFailsInv == ASSUME PInv, NEW k \in Keys, PutCreateFails(k) PROVE PInv'
<1>1. PICK h : h = SealedHints(k)
  BY Zenon
<1>2. /\ Running /\ Running' /\ main' = main /\ hint' = h /\ pack' = pack /\ cursor' = cursor /\ index' = index
      /\ packs' = packs /\ tier' = tier /\ active' = active /\ demoter' = demoter /\ puts' = puts
  BY <1>1, Zenon DEF PutCreateFails, Running, memory
<1>3. /\ DiskOk(pack, h) /\ Fresh(pack, h, active) /\ active \in Ids
      /\ \A t \in Tiers, i \in Ids : t # 1 \/ i # active => h[t][i] = hint[t][i]
      /\ h[1][active] # NoFile => \A e \in h[1][active] : e[2] <= Len(pack[1][active])
  BY <1>1, <1>2, SealedDisk DEF PInv, MemoryOk, ActiveOk
<1>4. ActiveOk'
  <2>1. \A u \in Tiers \ {1} : pack[u][active] = NoFile /\ h[u][active] = NoFile
    BY <1>2, <1>3, Zenon DEF PInv, ActiveOk
  <2> QED BY <1>2, <1>3, <2>1, Zenon DEF PInv, ActiveOk
<1>5. PlacesOk' /\ DemoterOk' /\ MemoryOk' /\ IndexReads' /\ main' # "opening"
  <2>1. PlacesOk'
    BY <1>2, Zenon DEF PInv, PlacesOk
  <2>2. DemoterOk'
    BY <1>2, Zenon DEF PInv, DemoterOk
  <2>3. MemoryOk'
    BY <1>2, Zenon DEF PInv, MemoryOk
  <2>4. IndexReads'
    BY <1>2, Zenon DEF PInv, IndexReads, Record
  <2>5. main' # "opening"
    BY <1>2 DEF Running
  <2> QED BY <2>1, <2>2, <2>3, <2>4, <2>5, Zenon
<1> QED BY <1>2, <1>3, <1>4, <1>5, FreshTop, Zenon DEF PInv

----------------------------------------------------------------------------
(* OpenStore *)

LEMMA Greatest ==
  ASSUME NEW n \in Nat, NEW S \in SUBSET (0..n), S # {}
  PROVE  Max(S) \in S /\ \A m \in S : m <= Max(S)
<1> DEFINE less == {ss \in Nat \X Nat : ss[1] < ss[2]}
           T == {n - m : m \in S}
<1>1. IsWellFoundedOn(less, Nat)
  BY NatLessThanWellFounded, Zenon DEF OpToRel
<1>2. T \in SUBSET Nat /\ T # {}
  <2>1. \A m \in S : n - m \in Nat
    OBVIOUS
  <2> QED BY <2>1, Zenon
<1> HIDE DEF less
<1>3. PICK x \in T : \A y \in T : ~(<<y, x>> \in less)
  BY <1>1, <1>2, WFMin, Zenon
<1>4. PICK g \in S : x = n - g
  BY Zenon
<1>5. ASSUME NEW m \in S PROVE g >= m
  <2>1. n - m \in T /\ n - m \in Nat /\ n - g \in Nat
    OBVIOUS
  <2>2. ~(n - m < n - g)
    <3>1. ~(<<n - m, n - g>> \in less)
      BY <1>3, <1>4, <2>1, Zenon
    <3> QED BY <2>1, <3>1, Zenon DEF less
  <2> QED BY <2>2
<1>6. \E y \in S : \A m \in S : y >= m
  BY <1>4, <1>5, Zenon
<1>7. Max(S) \in S /\ \A m \in S : Max(S) >= m
  BY <1>6, Zenon DEF Max
<1> QED BY <1>7, Zenon

LEMMA OpenDoneInv == ASSUME PInv, OpenDone PROVE PInv'
<1>1. /\ main = "opening" /\ Unread = {} /\ main' = "open" /\ Running' /\ hint' = hint /\ cursor' = cursor
      /\ index' = index /\ demoter' = demoter /\ puts' = puts
  BY Zenon DEF OpenDone, Running
<1>2. /\ packs \subseteq Ids /\ tier \in [Ids -> Tiers] /\ MaxId \in Nat /\ 1 \in Tiers /\ Ids \subseteq Nat \ {0}
      /\ pack \in [Tiers -> [Ids -> Files \cup {NoFile}]]
      /\ hint \in [Tiers -> [Ids -> Hints \cup {NoFile}]] /\ DiskOk(pack, hint) /\ Walked /\ Asleep
  BY <1>1, PackStoreAssumption, OneTier, Zenon DEF PInv, MemoryOk, DiskOk, Running
<1>3. PICK a : a = last + 1
  BY Zenon
<1>4. a \in Nat \ {0} /\ \A i \in packs : i < a
  BY <1>2, <1>3 DEF Walked
<1>5. /\ a <= MaxId /\ active' = a /\ packs' = packs \cup {a} /\ tier' = [tier EXCEPT ![a] = 1]
      /\ pack' = [pack EXCEPT ![1][a] = <<>>]
  BY <1>3, Zenon DEF OpenDone, CreateActive
<1>6. a \in Ids /\ a \in 0..MaxId
  BY <1>2, <1>4, <1>5 DEF Ids
<1>7. \A t \in Tiers, i \in Ids : pack[t][i] # NoFile => i \in packs /\ t = tier[i]
  <2>1. \A t \in Tiers, i \in Ids : pack[t][i] # NoFile => ~Before(cursor, <<t, i>>)
    BY <1>1, Zenon DEF Unread
  <2>2. \A t \in Tiers, i \in Ids : pack[t][i] # NoFile /\ ~Before(cursor, <<t, i>>) => i \in packs /\ t = tier[i]
    BY <1>2, Zenon DEF Walked
  <2> QED BY <2>1, <2>2, Zenon
<1>8. \A t \in Tiers, i \in Ids : Used(pack, hint, t, i) => i < a
  <2>1. ASSUME NEW t \in Tiers, NEW i \in Ids, Used(pack, hint, t, i) PROVE i < a
    <3>1. PICK u \in Tiers, j \in Ids : j >= i /\ pack[u][j] # NoFile
      BY <2>1, Zenon DEF PInv, Topped
    <3>2. j < a
      BY <1>4, <1>7, <3>1, Zenon
    <3> QED BY <1>2, <1>4, <3>1, <3>2
  <2> QED BY <2>1, Zenon
<1>9. \A t \in Tiers : pack[t][a] = NoFile /\ hint[t][a] = NoFile
  BY <1>4, <1>6, <1>8 DEF Used
<1>10. <<>> \in Seq(Records) /\ Len(<<>>) = 0
  OBVIOUS
<1>11. <<>> \in Files /\ Whole(<<>>) = Len(<<>>)
  BY <1>10, AllWhole, Zenon
<1>12. Ready(pack, hint, a, <<>>)
  <2>1. \A t \in Tiers, i \in Ids : Used(pack, hint, t, i) => i <= a
    BY <1>2, <1>4, <1>8
  <2> QED BY <1>2, <1>6, <1>9, <1>10, <2>1, Zenon DEF Ready
<1>13. DiskOk(pack', hint) /\ Fresh(pack', hint, a) /\ Topped(pack', hint)
  <2>1. Len(<<>>) <= Whole(<<>>) /\ \A o \in 1..Len(<<>>) : <<>>[o] = <<>>[o]
    BY <1>10, <1>11
  <2> QED BY <1>5, <1>11, <1>12, <2>1, Written, Zenon
<1>14. pack'[1][a] = <<>> /\ \A u \in Tiers, j \in Ids : u # 1 \/ j # a => pack'[u][j] = pack[u][j]
  BY <1>2, <1>5, <1>6, <1>11, SetAt
<1>15. tier' \in [Ids -> Tiers] /\ tier'[a] = 1 /\ \A j \in Ids : j # a => tier'[j] = tier[j]
  BY <1>2, <1>5, <1>6, Zenon
<1>16. ASSUME NEW i \in packs
       PROVE  i # a /\ pack'[tier'[i]][i] = pack[tier[i]][i] /\ pack[tier[i]][i] # NoFile
  <2>1. i # a /\ i \in Ids /\ tier[i] \in Tiers /\ tier'[i] = tier[i]
    BY <1>2, <1>4, <1>15
  <2>2. pack[tier[i]][i] # NoFile
    BY <1>2, Zenon DEF Walked
  <2> QED BY <1>14, <2>1, <2>2, Zenon
<1>17. IndexReads'
  <2>1. \A k \in Keys : index[k].id # 0 => index[k].id \in packs
    BY Zenon DEF PInv, IndexReads
  <2> QED BY <1>1, <1>5, <1>16, <2>1, IndexKept, Zenon
<1>18. ActiveOk'
  <2>1. \A u \in Tiers \ {1} : pack'[u][a] = NoFile /\ hint[u][a] = NoFile
    BY <1>6, <1>9, <1>14, Zenon
  <2>2. hint[1][a] = NoFile /\ a \in packs'
    BY <1>2, <1>5, <1>9, Zenon
  <2> QED BY <1>1, <1>5, <1>10, <1>13, <1>14, <1>15, <2>1, <2>2, Zenon DEF ActiveOk
<1>19. PlacesOk'
  <2>1. ASSUME NEW i \in packs' PROVE pack'[tier'[i]][i] # NoFile
    BY <1>5, <1>11, <1>14, <1>15, <1>16, NoFileIsNone
  <2>2. ASSUME NEW v \in Tiers, NEW j \in Ids, pack'[v][j] # NoFile PROVE j \in packs' /\ v = tier'[j]
    BY <1>5, <1>7, <1>9, <1>14, <1>15, <1>16, <2>2
  <2> QED BY <2>1, <2>2, Zenon DEF PlacesOk
<1>20. DemoterOk'
  BY <1>1, <1>2, Zenon DEF Asleep, DemoterOk
<1>21. MemoryOk'
  BY <1>1, <1>2, <1>5, <1>6, <1>15, Zenon DEF PInv, MemoryOk
<1> QED BY <1>1, <1>13, <1>17, <1>18, <1>19, <1>20, <1>21 DEF PInv

\* The walk goes on to <<t, i>>: what is behind it now is that, or was behind it before.
LEMMA WalkOn ==
  ASSUME PInv, NEW t \in Tiers, NEW i \in Ids, IsNext(<<t, i>>)
  PROVE  /\ pack[t][i] # NoFile /\ Before(cursor, <<t, i>>)
         /\ \A u \in Tiers, j \in Ids : ~Before(cursor, <<u, j>>) => ~Before(<<t, i>>, <<u, j>>)
         /\ \A u \in Tiers, j \in Ids :
              pack[u][j] # NoFile /\ ~Before(<<t, i>>, <<u, j>>) =>
                ~Before(cursor, <<u, j>>) \/ (u = t /\ j = i)
<1>1. pack[t][i] # NoFile /\ Before(cursor, <<t, i>>)
  BY Zenon DEF IsNext, Unread
<1>2. PICK c \in Tiers, d \in Nat : cursor = <<c, d>>
  BY DEF PInv, MemoryOk
<1>3. ASSUME NEW u \in Tiers, NEW j \in Ids, ~Before(<<c, d>>, <<u, j>>) PROVE ~Before(<<t, i>>, <<u, j>>)
  <2>1. c \in Nat /\ t \in Nat /\ u \in Nat /\ i \in Nat /\ j \in Nat
    BY OneTier, Zenon
  <2>2. Before(<<c, d>>, <<t, i>>)
    BY <1>1, <1>2, Zenon
  <2> QED BY <1>3, <2>1, <2>2 DEF Before
<1>4. ASSUME NEW u \in Tiers, NEW j \in Ids, pack[u][j] # NoFile, ~Before(<<t, i>>, <<u, j>>), Before(cursor, <<u, j>>)
      PROVE  u = t /\ j = i
  <2>1. <<u, j>> \in Unread
    BY <1>4, Zenon DEF Unread
  <2>2. <<t, i>> = <<u, j>> \/ Before(<<t, i>>, <<u, j>>)
    BY <2>1, Zenon DEF IsNext
  <2> QED BY <1>4, <2>2, Zenon
<1> QED BY <1>1, <1>2, <1>3, <1>4, Zenon

\* A second copy is dropped.
LEMMA LoadCopyInv == ASSUME PInv, NEW t \in Tiers, NEW i \in Ids, LoadPack(t, i), i \in packs PROVE PInv'
<1>1. /\ main = "opening" /\ main' = main /\ IsNext(<<t, i>>) /\ cursor' = <<t, i>>
      /\ pack' = Remove(pack, t, i) /\ hint' = Remove(hint, t, i) /\ index' = index /\ packs' = packs
      /\ last' = last /\ tier' = tier /\ active' = active /\ demoter' = demoter /\ puts' = puts
  BY Zenon DEF LoadPack
<1>2. /\ DiskOk(pack, hint) /\ Topped(pack, hint) /\ Walked /\ Asleep /\ packs \subseteq Ids /\ tier \in [Ids -> Tiers]
      /\ pack \in [Tiers -> [Ids -> Files \cup {NoFile}]] /\ Ids \subseteq Nat
  BY <1>1, OneTier, Zenon DEF PInv, MemoryOk, Running, DiskOk
<1>3. /\ pack[t][i] # NoFile /\ Before(cursor, <<t, i>>)
      /\ \A u \in Tiers, j \in Ids : ~Before(cursor, <<u, j>>) => ~Before(<<t, i>>, <<u, j>>)
      /\ \A u \in Tiers, j \in Ids :
           pack[u][j] # NoFile /\ ~Before(<<t, i>>, <<u, j>>) => ~Before(cursor, <<u, j>>) \/ (u = t /\ j = i)
  BY <1>1, WalkOn, Zenon
<1>4. tier[i] # t /\ tier[i] \in Tiers /\ pack[tier[i]][i] # NoFile
  BY <1>2, <1>3, Zenon DEF Walked
<1>5. DiskOk(pack', hint') /\ Topped(pack', hint')
  <2>1. DiskOk(pack', hint)
    BY <1>1, <1>2, Removed, Zenon
  <2>2. DiskOk(pack', hint')
    BY <1>1, <2>1, Removed, Zenon
  <2> QED BY <1>1, <1>2, <1>4, <2>2, CopyTop, Zenon
<1>6. pack'[t][i] = NoFile /\ \A u \in Tiers, j \in Ids : u # t \/ j # i => pack'[u][j] = pack[u][j]
  BY <1>1, <1>2, Zenon DEF Remove
<1>7. ASSUME NEW j \in packs
      PROVE  j \in Ids /\ tier[j] \in Tiers /\ pack'[tier[j]][j] = pack[tier[j]][j] /\ pack[tier[j]][j] # NoFile
             /\ ~Before(cursor, <<tier[j], j>>)
  <2>1. j \in Ids /\ tier[j] \in Tiers /\ pack[tier[j]][j] # NoFile /\ ~Before(cursor, <<tier[j], j>>)
    BY <1>2, Zenon DEF Walked
  <2>2. tier[j] # t \/ j # i
    BY <1>4, Zenon
  <2> QED BY <1>6, <2>1, <2>2, Zenon
<1>8. Walked'
  <2>1. \A j \in packs' : pack'[tier'[j]][j] # NoFile /\ ~Before(cursor', <<tier'[j], j>>)
    BY <1>1, <1>3, <1>7, Zenon
  <2>2. ASSUME NEW u \in Tiers, NEW j \in Ids, pack'[u][j] # NoFile, ~Before(cursor', <<u, j>>)
        PROVE  j \in packs' /\ u = tier'[j]
    <3>1. (u # t \/ j # i) /\ pack[u][j] # NoFile
      BY <1>6, <2>2, Zenon
    <3>2. ~Before(cursor, <<u, j>>)
      BY <1>1, <1>3, <2>2, <3>1, Zenon
    <3> QED BY <1>1, <1>2, <3>1, <3>2 DEF Walked
  <2>3. last' \in Nat /\ \A j \in packs' : j <= last'
    BY <1>1, <1>2, Zenon DEF Walked
  <2> QED BY <2>1, <2>2, <2>3, Zenon DEF Walked
<1>9. IndexReads'
  <2>1. \A k \in Keys : index[k].id # 0 => index[k].id \in packs
    BY Zenon DEF PInv, IndexReads
  <2> QED BY <1>1, <1>7, <2>1, IndexKept, Zenon
<1>10. MemoryOk' /\ ~Running' /\ Asleep'
  BY <1>1, <1>2, Zenon DEF PInv, MemoryOk, Running, Asleep
<1> QED BY <1>5, <1>8, <1>9, <1>10, Zenon DEF PInv

\* What load reads of a pack are records of the file.
LEMMA EntriesRead ==
  ASSUME PInv, NEW t \in Tiers, NEW i \in Ids, pack[t][i] # NoFile, NEW e \in Entries(t, i)
  PROVE  e[1] \in Keys /\ e[2] \in 1..Whole(pack[t][i]) /\ pack[t][i][e[2]].key = e[1]
<1>1. /\ pack[t][i] \in Files /\ hint[t][i] \in Hints \cup {NoFile} /\ HintsAgree(pack, hint, i)
  BY Zenon DEF PInv, DiskOk
<1>2. Whole(pack[t][i]) \in Nat /\ \A o \in 1..Whole(pack[t][i]) : pack[t][i][o] \in Records
  BY <1>1, WholeRecords, Zenon
<1>3. CASE hint[t][i] # NoFile
  <2>1. e \in hint[t][i] /\ e[2] <= Whole(pack[t][i]) /\ hint[t][i] \in Hints
    BY <1>1, <1>3, Zenon DEF Entries
  <2>2. e[1] \in Keys /\ e[2] \in Nat \ {0}
    BY <2>1, Zenon DEF Hints
  <2>3. pack[t][i][e[2]].key = e[1]
    BY <1>1, <1>3, <2>1, Zenon DEF HintsAgree
  <2> QED BY <1>2, <2>1, <2>2, <2>3
<1>4. CASE hint[t][i] = NoFile
  <2>1. PICK o \in 1..Whole(pack[t][i]) : e = <<pack[t][i][o].key, o>>
    BY <1>4, Zenon DEF Entries
  <2>2. pack[t][i][o].key \in Keys
    BY <1>2, Zenon DEF Records
  <2> QED BY <2>1, <2>2, Zenon
<1> QED BY <1>3, <1>4, Zenon

\* So an entry of the index is as it was or points to a record of its key.
LEMMA IndexedRead ==
  ASSUME PInv, NEW t \in Tiers, NEW i \in Ids, pack[t][i] # NoFile, NEW k \in Keys,
         NEW x, x = Indexed(i, Entries(t, i))[k]
  PROVE  \/ x = index[k]
         \/ /\ x.id = i /\ x.off \in 1..Whole(pack[t][i]) /\ pack[t][i][x.off].key = k
            /\ x = [id |-> i, off |-> x.off]
<1> DEFINE mine == {e[2] : e \in {e \in Entries(t, i) : e[1] = k}}
<1>1. x = IF mine = {} \/ index[k].id > i THEN index[k] ELSE [id |-> i, off |-> Max(mine)]
  BY Zenon DEF Indexed
<1>2. \A m \in mine : m \in 1..Whole(pack[t][i]) /\ pack[t][i][m].key = k
  BY EntriesRead, Zenon
<1>3. Whole(pack[t][i]) \in Nat
  BY WholeRecords, Zenon DEF PInv, DiskOk
<1> HIDE DEF mine
<1>4. CASE mine = {} \/ index[k].id > i
  BY <1>1, <1>4, Zenon
<1>5. CASE ~(mine = {} \/ index[k].id > i)
  <2>1. PICK o : o = Max(mine)
    BY Zenon
  <2>2. mine \in SUBSET (0..Whole(pack[t][i]))
    BY <1>2, <1>3
  <2>3. mine # {} /\ Whole(pack[t][i]) \in Nat
    BY <1>3, <1>5, Zenon
  <2>4. o \in mine
    BY <2>1, <2>2, <2>3, Greatest, Zenon
  <2>5. x = [id |-> i, off |-> o]
    BY <1>1, <1>5, <2>1, Zenon
  <2> QED BY <1>2, <2>4, <2>5
<1> QED BY <1>4, <1>5, Zenon

LEMMA LoadFirstInv == ASSUME PInv, NEW t \in Tiers, NEW i \in Ids, LoadPack(t, i), i \notin packs PROVE PInv'
<1>1. PICK recs, ix, kept :
        /\ recs = pack[t][i] /\ ix = Indexed(i, Entries(t, i))
        /\ kept = IF hint[t][i] # NoFile THEN recs ELSE SubSeq(recs, 1, Whole(recs))
  BY Zenon
<1>2. /\ main = "opening" /\ main' = main /\ IsNext(<<t, i>>) /\ cursor' = <<t, i>>
      /\ pack' = [pack EXCEPT ![t][i] = kept] /\ index' = ix /\ packs' = packs \cup {i}
      /\ hint' = IF hint[t][i] # NoFile THEN hint ELSE [hint EXCEPT ![t][i] = Sealed(i, ix)]
      /\ tier' = [tier EXCEPT ![i] = t] /\ active' = active /\ demoter' = demoter /\ puts' = puts
      /\ last' = IF i > last THEN i ELSE last
  BY <1>1, Zenon DEF LoadPack
<1>3. /\ DiskOk(pack, hint) /\ Topped(pack, hint) /\ Walked /\ Asleep /\ packs \subseteq Ids /\ tier \in [Ids -> Tiers]
      /\ pack \in [Tiers -> [Ids -> Files \cup {NoFile}]] /\ Ids \subseteq Nat \ {0} /\ MaxId \in Nat
      /\ hint \in [Tiers -> [Ids -> Hints \cup {NoFile}]]
      /\ index \in [Keys -> [id : 0..MaxId, off : Nat]]
  BY <1>2, OneTier, PackStoreAssumption, Zenon DEF PInv, MemoryOk, Running, DiskOk
<1>4. /\ pack[t][i] # NoFile /\ Before(cursor, <<t, i>>)
      /\ \A u \in Tiers, j \in Ids : ~Before(cursor, <<u, j>>) => ~Before(<<t, i>>, <<u, j>>)
      /\ \A u \in Tiers, j \in Ids :
           pack[u][j] # NoFile /\ ~Before(<<t, i>>, <<u, j>>) => ~Before(cursor, <<u, j>>) \/ (u = t /\ j = i)
  BY <1>2, WalkOn, Zenon
<1>5. recs \in Files /\ Whole(recs) \in Nat
  BY <1>1, <1>3, <1>4, WholeRecords
<1>6. kept \in Files /\ kept # NoFile /\ Whole(kept) = Whole(recs) /\ \A o \in 1..Whole(recs) : kept[o] = recs[o]
  <2>1. CASE hint[t][i] # NoFile
    BY <1>1, <1>5, <2>1, NoFileIsNone, Zenon
  <2>2. CASE hint[t][i] = NoFile
    <3>1. kept = SubSeq(recs, 1, Whole(recs))
      BY <1>1, <2>2, Zenon
    <3>2. kept \in Seq(Records) /\ Len(kept) = Whole(recs) /\ \A o \in 1..Whole(recs) : kept[o] = recs[o]
      BY <1>5, <3>1, FrontFile
    <3> QED BY <3>2, AllWhole, NoFileIsNone, Zenon
  <2> QED BY <2>1, <2>2, Zenon
<1>7. pack'[t][i] = kept /\ \A u \in Tiers, j \in Ids : u # t \/ j # i => pack'[u][j] = pack[u][j]
  BY <1>2, <1>3, <1>6, SetAt
<1>8. tier' \in [Ids -> Tiers] /\ tier'[i] = t /\ \A j \in Ids : j # i => tier'[j] = tier[j]
  BY <1>2, <1>3, Zenon
<1>9. ASSUME NEW k \in Keys
      PROVE  \/ ix[k] = index[k] /\ index[k].id # i
             \/ /\ ix[k].id = i /\ ix[k].off \in 1..Whole(recs) /\ recs[ix[k].off].key = k
                /\ ix[k] = [id |-> i, off |-> ix[k].off]
  <2>1. index[k].id # i
    BY <1>3, Zenon DEF PInv, IndexReads
  <2>2. PICK x : x = ix[k]
    BY Zenon
  <2>3. \/ x = index[k]
        \/ /\ x.id = i /\ x.off \in 1..Whole(recs) /\ recs[x.off].key = k
           /\ x = [id |-> i, off |-> x.off]
    BY <1>1, <1>4, <2>2, IndexedRead
  <2> QED BY <2>1, <2>2, <2>3, Zenon
<1>10. DiskOk(pack', hint)
  <2>1. /\ kept \in Files /\ Whole(kept) <= Whole(pack[t][i]) /\ DiskOk(pack, hint) /\ pack[t][i] # NoFile
        /\ \A o \in 1..Whole(kept) : kept[o] = pack[t][i][o]
    BY <1>1, <1>3, <1>4, <1>5, <1>6
  <2>2. DiskOk([pack EXCEPT ![t][i] = kept], hint)
    BY <2>1, Shortened
  <2> QED BY <1>2, <2>2, Zenon
<1>11. Sealed(i, ix) \in Hints /\ \A e \in Sealed(i, ix) : e[2] \in 1..Whole(recs) /\ recs[e[2]].key = e[1]
  <2>1. \A k \in Keys : ix[k].id = i => ix[k].off \in 1..Whole(recs) /\ recs[ix[k].off].key = k
    BY <1>9, Zenon
  <2>2. \A k \in Keys : ix[k].id = i => ix[k].off \in Nat \ {0}
    BY <1>5, <2>1
  <2>3. Sealed(i, ix) \in Hints
    BY <2>2 DEF Sealed, Hints
  <2> QED BY <2>1, <2>3 DEF Sealed
<1>12. DiskOk(pack', hint')
  <2>1. CASE hint[t][i] # NoFile
    BY <1>2, <1>10, <2>1, Zenon
  <2>2. CASE hint[t][i] = NoFile
    <3>1. PICK h : h = Sealed(i, ix)
      BY Zenon
    <3>2. CopiesAgree(pack', i)
      BY <1>10, Zenon DEF DiskOk
    <3>3. ASSUME NEW u \in Tiers, pack'[u][i] # NoFile, NEW e \in h, e[2] <= Whole(pack'[u][i])
          PROVE  pack'[u][i][e[2]].key = e[1]
      <4>1. e[2] \in 1..Whole(pack'[t][i]) /\ pack'[t][i][e[2]].key = e[1] /\ pack'[t][i] # NoFile
        BY <1>6, <1>7, <1>11, <3>1, Zenon
      <4> QED BY <3>2, <3>3, <4>1, Zenon DEF CopiesAgree
    <3>4. DiskOk(pack', [hint EXCEPT ![t][i] = h])
      BY <1>10, <1>11, <3>1, <3>3, HintSet, Zenon
    <3> QED BY <1>2, <2>2, <3>1, <3>4, Zenon
  <2> QED BY <2>1, <2>2, Zenon
<1>13. Topped(pack', hint')
  <2>1. \A u \in Tiers, j \in Ids : pack[u][j] # NoFile <=> pack'[u][j] # NoFile
    BY <1>4, <1>6, <1>7, Zenon
  <2>2. Topped(pack', hint)
    BY <1>3, <2>1, SameTop
  <2>3. \A u \in Tiers, j \in Ids : u # t \/ j # i => hint'[u][j] = hint[u][j]
    BY <1>2, <1>3, Zenon
  <2>4. ASSUME NEW u \in Tiers, NEW j \in Ids, Used(pack', hint', u, j)
        PROVE  \E v \in Tiers, m \in Ids : m >= j /\ pack'[v][m] # NoFile
    <3>1. CASE u = t /\ j = i
      BY <1>3, <1>6, <1>7, <3>1
    <3>2. CASE u # t \/ j # i
      BY <2>2, <2>3, <2>4, <3>2 DEF Topped, Used
    <3> QED BY <3>1, <3>2, Zenon
  <2> QED BY <2>4, Zenon DEF Topped
<1>14. ASSUME NEW j \in packs
       PROVE  /\ j \in Ids /\ j # i /\ tier[j] \in Tiers /\ tier'[j] = tier[j]
              /\ pack'[tier'[j]][j] = pack[tier[j]][j] /\ pack[tier[j]][j] # NoFile
              /\ ~Before(cursor, <<tier[j], j>>)
  <2>1. j \in Ids /\ j # i /\ tier[j] \in Tiers /\ pack[tier[j]][j] # NoFile /\ ~Before(cursor, <<tier[j], j>>)
    BY <1>3, Zenon DEF Walked
  <2> QED BY <1>7, <1>8, <2>1
<1>15. Walked'
  <2>1. ASSUME NEW j \in packs' PROVE pack'[tier'[j]][j] # NoFile /\ ~Before(cursor', <<tier'[j], j>>)
    <3>1. CASE j = i
      <4>1. ~Before(<<t, i>>, <<t, i>>)
        BY <1>3, OneTier DEF Before
      <4> QED BY <1>2, <1>6, <1>7, <1>8, <3>1, <4>1
    <3>2. CASE j # i
      BY <1>2, <1>4, <1>14, <3>2, Zenon
    <3> QED BY <3>1, <3>2, Zenon
  <2>2. ASSUME NEW u \in Tiers, NEW j \in Ids, pack'[u][j] # NoFile, ~Before(cursor', <<u, j>>)
        PROVE  j \in packs' /\ u = tier'[j]
    <3>1. CASE u = t /\ j = i
      BY <1>2, <1>8, <3>1, Zenon
    <3>2. CASE u # t \/ j # i
      <4>1. pack[u][j] # NoFile
        BY <1>7, <2>2, <3>2, Zenon
      <4>2. ~Before(cursor, <<u, j>>)
        BY <1>2, <1>4, <2>2, <3>2, <4>1, Zenon
      <4>3. j \in packs /\ u = tier[j]
        BY <1>3, <4>1, <4>2, Zenon DEF Walked
      <4> QED BY <1>2, <1>14, <4>3, Zenon
    <3> QED BY <3>1, <3>2, Zenon
  <2>3. last' \in Nat /\ \A j \in packs' : j <= last'
    BY <1>2, <1>3 DEF Walked
  <2> QED BY <2>1, <2>2, <2>3, Zenon DEF Walked
<1>16. IndexReads'
  <2>1. ASSUME NEW k \in Keys, index'[k].id # 0
        PROVE  /\ index'[k].id \in packs' /\ pack'[tier'[index'[k].id]][index'[k].id] # NoFile
               /\ index'[k].off \in 1..Whole(pack'[tier'[index'[k].id]][index'[k].id])
               /\ pack'[tier'[index'[k].id]][index'[k].id][index'[k].off].key = k
    <3>1. CASE ix[k].id = i /\ ix[k].off \in 1..Whole(recs) /\ recs[ix[k].off].key = k
      BY <1>2, <1>6, <1>7, <1>8, <3>1
    <3>2. CASE ix[k] = index[k]
      <4>1. PICK m, o : m = index[k].id /\ o = index[k].off
        BY Zenon
      <4>2. /\ m \in packs /\ pack[tier[m]][m] # NoFile /\ o \in 1..Whole(pack[tier[m]][m])
            /\ pack[tier[m]][m][o].key = k
        BY <1>2, <2>1, <3>2, <4>1, Zenon DEF PInv, IndexReads, Record
      <4>3. index'[k].id = m /\ index'[k].off = o /\ m \in packs' /\ pack'[tier'[m]][m] = pack[tier[m]][m]
        BY <1>2, <1>14, <3>2, <4>1, <4>2, Zenon
      <4> QED BY <4>2, <4>3, Zenon
    <3> QED BY <1>9, <3>1, <3>2, Zenon
  <2> QED BY <2>1, Zenon DEF IndexReads, Record
<1>17. index' \in [Keys -> [id : 0..MaxId, off : Nat]]
  <2>1. ASSUME NEW k \in Keys PROVE ix[k] \in [id : 0..MaxId, off : Nat]
    <3>1. i \in 0..MaxId
      BY <1>3 DEF Ids
    <3>2. CASE ix[k] = index[k]
      BY <1>3, <3>2, Zenon
    <3>3. CASE ix[k].off \in 1..Whole(recs) /\ ix[k] = [id |-> i, off |-> ix[k].off]
      BY <1>5, <3>1, <3>3
    <3> QED BY <1>9, <3>2, <3>3, Zenon
  <2>2. ix = [k \in Keys |-> ix[k]]
    BY <1>1, Zenon DEF Indexed
  <2> QED BY <1>2, <2>1, <2>2, Zenon
<1>18. MemoryOk' /\ ~Running' /\ Asleep'
  <2>1. cursor' \in Tiers \X Nat /\ packs' \in SUBSET Ids
    BY <1>2, <1>3, Zenon
  <2> QED BY <1>2, <1>3, <1>8, <1>17, <2>1, Zenon DEF PInv, MemoryOk, Running, Asleep
<1> QED BY <1>12, <1>13, <1>15, <1>16, <1>18 DEF PInv

----------------------------------------------------------------------------
(* Every step *)

\* A store that goes on without a pack has done so from then on.
LEMMA StaysSkipped == ASSUME [Next]_vars PROVE skipped' = skipped \/ skipped'
<1>1. CASE Open \/ OpenDone \/ Close \/ CloseSeal
  BY <1>1, Zenon DEF Open, OpenDone, Close, CloseSeal
<1>2. ASSUME NEW t \in Tiers, NEW i \in Ids, LoadPack(t, i) \/ LoadFails(t, i) PROVE skipped' = skipped \/ skipped'
  BY <1>2, Zenon DEF LoadPack, LoadFails
<1>3. ASSUME NEW k \in Keys, Put(k) \/ PutCreateFails(k) \/ PutWriteFails(k) \/ StopInPut(k) PROVE skipped' = skipped
  BY <1>3, Zenon DEF Put, PutCreateFails, PutWriteFails, StopInPut
<1>4. CASE Demoter \/ MoveFails
  BY <1>4, Zenon DEF Demoter, Wake, Pick, Evict, MovePack, MoveHint, Switch, MoveFails
<1>5. CASE Stop \/ StopInFiles \/ LosePower \/ UNCHANGED vars
  BY <1>5, Zenon DEF Stop, StopInFiles, LosePower, vars
<1> QED BY <1>1, <1>2, <1>3, <1>4, <1>5, Zenon DEF Next

LEMMA NextInv == ASSUME PInv, [Next]_vars, ~skipped' PROVE PInv'
<1>1. CASE Open
  BY <1>1, OpenInv, Zenon
<1>2. CASE OpenDone
  BY <1>2, OpenDoneInv, Zenon
<1>3. CASE Close
  BY <1>3, CloseInv, Zenon
<1>4. CASE CloseSeal
  BY <1>4, CloseSealInv, Zenon
<1>5. ASSUME NEW t \in Tiers, NEW i \in Ids, LoadPack(t, i) \/ LoadFails(t, i) PROVE PInv'
  <2>1. ~LoadFails(t, i)
    BY Zenon DEF LoadFails
  <2> QED BY <1>5, <2>1, LoadCopyInv, LoadFirstInv, Zenon
<1>6. ASSUME NEW k \in Keys, Put(k) \/ PutCreateFails(k) \/ PutWriteFails(k) \/ StopInPut(k) PROVE PInv'
  BY <1>6, PutInv, PutCreateFailsInv, PutWriteFailsInv, StopInPutInv, Zenon
<1>7. CASE Demoter
  BY <1>7, WakeInv, PickInv, MovePackInv, MoveHintInv, SwitchInv, EvictInv DEF Demoter
<1>8. CASE MoveFails
  BY <1>8, WakeInv, Zenon
<1>9. CASE Stop
  BY <1>9, StopInv, Zenon
<1>10. CASE StopInFiles
  BY <1>10, StopInFilesInv, Zenon
<1>11. CASE LosePower
  BY <1>11, LosePowerInv, Zenon
<1>12. CASE UNCHANGED vars
  <2>1. /\ pack' = pack /\ hint' = hint /\ main' = main /\ cursor' = cursor /\ index' = index /\ packs' = packs
        /\ last' = last
        /\ tier' = tier /\ active' = active /\ demoter' = demoter /\ puts' = puts
    BY <1>12, Zenon DEF vars, disk, memory
  <2>2. MemoryOk' /\ DiskOk(pack', hint') /\ Topped(pack', hint')
    BY <2>1, Zenon DEF PInv, MemoryOk
  <2>3. IndexReads'
    BY <2>1, Zenon DEF PInv, IndexReads, Record
  <2>4. ~Running' => Asleep'
    BY <2>1, Zenon DEF PInv, Running, Asleep
  <2>5. main' = "opening" => Walked'
    BY <2>1, Zenon DEF PInv, Walked
  <2>6. Running' => ActiveOk' /\ PlacesOk' /\ DemoterOk'
    BY <2>1 DEF PInv, Running, ActiveOk, PlacesOk, DemoterOk
  <2> QED BY <2>2, <2>3, <2>4, <2>5, <2>6, Zenon DEF PInv
<1> QED BY <1>1, <1>2, <1>3, <1>4, <1>5, <1>6, <1>7, <1>8, <1>9, <1>10, <1>11, <1>12, Zenon DEF Next

\* IndexIsSound (load's check against p.size, TestHintPastEOF): for any keys, pack
\* limit and tiers, and after any number of torn writes, lost hints, half-done
\* moves and power losses, what the index points at is a whole record of that key,
\* as long as OpenStore has been able to load every pack it came to.
THEOREM IndexIsSound == Spec => []IndexSound
<1>1. Init => (~skipped => PInv)
  BY InitInv, Zenon
<1>2. (~skipped => PInv) /\ [Next]_vars => (~skipped => PInv)'
  BY StaysSkipped, NextInv, Zenon
<1>3. (~skipped => PInv) => IndexSound
  BY Zenon DEF PInv, IndexSound
<1> QED BY <1>1, <1>2, <1>3, PTL DEF Spec

\* IdsAreFresh (rotate(last + 1), OpenStore's walk of the packs): as long as no pack
\* was skipped in a walk, no file of an earlier pack or hint, in any tier, has an id
\* the active pack would reuse or one above it.
THEOREM IdsAreFresh == Spec => []FreshId
<1>1. (~skipped => PInv) => FreshId
  <2> SUFFICES ASSUME PInv, active # 0, NEW t \in Tiers, NEW i \in Ids,
                      pack[t][i] # NoFile \/ hint[t][i] # NoFile, i # active
               PROVE  i < active
    BY Zenon DEF FreshId
  <2>1. Running /\ Fresh(pack, hint, active) /\ active \in Nat /\ i \in Nat
    BY OneTier, PackStoreAssumption, Zenon DEF PInv, Asleep, ActiveOk, MemoryOk
  <2>2. i <= active
    BY <2>1, Zenon DEF Fresh, Used
  <2> QED BY <2>1, <2>2
<1>2. Init => (~skipped => PInv)
  BY InitInv, Zenon
<1>3. (~skipped => PInv) /\ [Next]_vars => (~skipped => PInv)'
  BY StaysSkipped, NextInv, Zenon
<1> QED BY <1>1, <1>2, <1>3, PTL DEF Spec

============================================================================
