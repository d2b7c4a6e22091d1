------------------------- MODULE PackStorePromises -------------------------
(* What Put has promised stands on the disk: the invariant behind Kept, and  *)
(* that Put, the demoter, Close, a crash and a loss of power preserve it.     *)
EXTENDS PackStoreDisk

\* The n records written so far are numbered in the order of their packs, and
\* within a pack in the order of their offsets.
Aged(p, n) ==
  \A t, u \in Tiers, i, j \in Ids : p[t][i] # NoFile /\ p[u][j] # NoFile =>
    \A o \in 1..Whole(p[t][i]), q \in 1..Whole(p[u][j]) :
      /\ p[t][i][o].no <= n
      /\ i < j \/ (i = j /\ o <= q) => p[t][i][o].no <= p[u][j][q].no

\* A pack that was never sealed is the newest, and has no copy and no hint.
First(p, t, i) == p[t][i] # NoFile /\ \A u \in Tiers : p[u][i] # NoFile => t <= u
LastUnsealed(p, h) ==
  \A t \in Tiers, i \in Ids : First(p, t, i) /\ h[t][i] = NoFile =>
    /\ \A u \in Tiers : h[u][i] = NoFile /\ (u # t => p[u][i] = NoFile)
    /\ \A u \in Tiers, j \in Ids : p[u][j] # NoFile => j <= i

OneHint(h) ==
  \A t, u \in Tiers, i \in Ids : h[t][i] # NoFile /\ h[u][i] # NoFile => h[t][i] = h[u][i]

\* Wherever pack i is loaded from, load finds a record of k at o, number n or later.
Stands(p, h, k, i, o, n) ==
  /\ \E t \in Tiers : p[t][i] # NoFile
  /\ \A t \in Tiers : p[t][i] # NoFile =>
       o \in 1..Whole(p[t][i]) /\ p[t][i][o].key = k /\ p[t][i][o].no >= n
  /\ \A t \in Tiers : h[t][i] # NoFile => <<k, o>> \in h[t][i]

SealedOk ==
  /\ \A i \in packs : i # active => hint[tier[i]][i] # NoFile
  /\ demoter.pc = "switch" => hint[tier[demoter.id] + 1][demoter.id] # NoFile

\* While OpenStore walks, an entry of the index is one of the pack's hint.
Listed ==
  \A k \in Keys : index[k].id # 0 =>
    <<k, index[k].off>> \in hint[tier[index[k].id]][index[k].id]

\* What is promised stands at the place the index has; or, before the store is
\* open, at a place the walk has yet to come to or has taken into account.
Reached(k, i, o) == index[k].id > i \/ (index[k].id = i /\ index[k].off >= o)
StandsAtIndex(k) ==
  index[k].id # 0 /\ Stands(pack, hint, k, index[k].id, index[k].off, promised[k])
StandsOnDisk(k) ==
  \E i \in Ids, o \in Nat :
    Stands(pack, hint, k, i, o, promised[k]) /\ (i \in packs => Reached(k, i, o))

KInv ==
  /\ Aged(pack, puts) /\ LastUnsealed(pack, hint) /\ SealedOk
  /\ promised \in [Keys -> Nat] /\ outages \in Nat
  /\ ~Running => Listed
  /\ outages = 0 =>
       /\ OneHint(hint)
       /\ \A k \in Keys : promised[k] # 0 => IF Running THEN StandsAtIndex(k) ELSE StandsOnDisk(k)

----------------------------------------------------------------------------
(* The order of records *)

\* A file of the store: its whole records are records.
LEMMA WholeAt ==
  ASSUME NEW p \in [Tiers -> [Ids -> Files \cup {NoFile}]], NEW t \in Tiers, NEW i \in Ids, p[t][i] # NoFile
  PROVE  /\ p[t][i] \in Files /\ Whole(p[t][i]) \in Nat
         /\ \A o \in 1..Whole(p[t][i]) : p[t][i][o].no \in Nat /\ p[t][i][o] \in Records
<1>1. p[t][i] \in Files
  OBVIOUS
<1>2. Whole(p[t][i]) \in Nat /\ \A o \in 1..Whole(p[t][i]) : p[t][i][o] \in Records
  BY <1>1, WholeRecords, Zenon
<1> QED BY <1>1, <1>2, Zenon DEF Records

\* What pack i in tier t of q holds is the front of what it holds in some tier of p.
PartOf(q, p, t, i) ==
  \E u \in Tiers : /\ p[u][i] # NoFile /\ Whole(q[t][i]) <= Whole(p[u][i])
                   /\ \A o \in 1..Whole(q[t][i]) : q[t][i][o] = p[u][i][o]

LEMMA AgedPart ==
  ASSUME NEW p \in [Tiers -> [Ids -> Files \cup {NoFile}]], NEW q \in [Tiers -> [Ids -> Files \cup {NoFile}]],
         NEW n, Aged(p, n), \A t \in Tiers, i \in Ids : q[t][i] # NoFile => PartOf(q, p, t, i)
  PROVE  Aged(q, n)
<1>1. ASSUME NEW t \in Tiers, NEW u \in Tiers, NEW i \in Ids, NEW j \in Ids, q[t][i] # NoFile, q[u][j] # NoFile,
             NEW o \in 1..Whole(q[t][i]), NEW m \in 1..Whole(q[u][j])
      PROVE  /\ q[t][i][o].no <= n
             /\ i < j \/ (i = j /\ o <= m) => q[t][i][o].no <= q[u][j][m].no
  <2>1. PICK v \in Tiers : /\ p[v][i] # NoFile /\ Whole(q[t][i]) <= Whole(p[v][i])
                           /\ \A x \in 1..Whole(q[t][i]) : q[t][i][x] = p[v][i][x]
    BY <1>1, Zenon DEF PartOf
  <2>2. PICK w \in Tiers : /\ p[w][j] # NoFile /\ Whole(q[u][j]) <= Whole(p[w][j])
                           /\ \A x \in 1..Whole(q[u][j]) : q[u][j][x] = p[w][j][x]
    BY <1>1, Zenon DEF PartOf
  <2>3. Whole(q[t][i]) \in Nat /\ Whole(q[u][j]) \in Nat /\ Whole(p[v][i]) \in Nat /\ Whole(p[w][j]) \in Nat
    BY <1>1, <2>1, <2>2, WholeAt, Zenon
  <2>4. o \in 1..Whole(p[v][i]) /\ m \in 1..Whole(p[w][j])
    BY <2>1, <2>2, <2>3
  <2>5. /\ p[v][i][o].no <= n
        /\ i < j \/ (i = j /\ o <= m) => p[v][i][o].no <= p[w][j][m].no
    BY <2>1, <2>2, <2>4, Zenon DEF Aged
  <2> QED BY <2>1, <2>2, <2>5, Zenon
<1> QED BY <1>1, Zenon DEF Aged

\* Pack a, the newest, gets the file s: the records it held and perhaps one more, number m.
LEMMA AgedWrite ==
  ASSUME NEW p \in [Tiers -> [Ids -> Files \cup {NoFile}]], NEW n \in Nat, NEW m \in Nat, n <= m, Aged(p, n),
         NEW a \in Ids, NEW held \in Seq(Records), p[1][a] = held \/ held = <<>>,
         \A t \in Tiers, i \in Ids : p[t][i] # NoFile => i <= a /\ (i = a => t = 1),
         NEW s \in Files, Len(held) <= Whole(s), Whole(s) <= Len(held) + 1,
         \A o \in 1..Len(held) : s[o] = held[o],
         Whole(s) = Len(held) + 1 => s[Len(held) + 1].no = m,
         NEW q, q = [p EXCEPT ![1][a] = s]
  PROVE  Aged(q, m)
<1> DEFINE New(t, i, o) == t = 1 /\ i = a /\ o = Len(held) + 1 /\ q[t][i][o].no = m
           Old(t, i, o) == /\ p[t][i] # NoFile /\ o \in 1..Whole(p[t][i]) /\ q[t][i][o] = p[t][i][o]
                           /\ t = 1 /\ i = a => o <= Len(held)
<1>1. q[1][a] = s /\ \A u \in Tiers, j \in Ids : u # 1 \/ j # a => q[u][j] = p[u][j]
  BY OneTier, SetAt
<1>2. Len(held) \in Nat /\ Whole(s) \in Nat /\ Ids \subseteq Nat \ {0} /\ Whole(held) = Len(held)
  BY OneTier, WholeRecords, AllWhole
<1> HIDE DEF New, Old
<1>3. ASSUME NEW t \in Tiers, NEW i \in Ids, q[t][i] # NoFile, NEW o \in 1..Whole(q[t][i])
      PROVE  New(t, i, o) \/ Old(t, i, o)
  <2>1. CASE t # 1 \/ i # a
    BY <1>1, <1>2, <1>3, <2>1, Zenon DEF Old
  <2>2. CASE t = 1 /\ i = a
    <3>1. o \in 1..Whole(s) /\ q[t][i] = s
      BY <1>1, <1>3, <2>2, Zenon
    <3>2. CASE o = Len(held) + 1
      <4>1. Whole(s) = Len(held) + 1
        BY <1>2, <3>1, <3>2
      <4> QED BY <2>2, <3>1, <3>2, <4>1, Zenon DEF New
    <3>3. CASE o # Len(held) + 1
      <4>1. o \in 1..Len(held)
        BY <1>2, <3>1, <3>3
      <4>2. held # <<>>
        BY <4>1
      <4>3. p[1][a] = held /\ held # NoFile
        BY <4>2, AllWhole, NoFileIsNone, Zenon
      <4>4. s[o] = held[o] /\ o \in 1..Whole(held) /\ o <= Len(held)
        BY <1>2, <4>1
      <4> QED BY <2>2, <3>1, <4>3, <4>4, Zenon DEF Old
    <3> QED BY <3>2, <3>3, Zenon
  <2> QED BY <2>1, <2>2, Zenon
<1>4. ASSUME NEW t \in Tiers, NEW i \in Ids, NEW o, Old(t, i, o)
      PROVE  q[t][i][o].no \in Nat /\ q[t][i][o].no <= n /\ i <= a /\ (i = a => t = 1)
  <2>1. p[t][i] # NoFile /\ o \in 1..Whole(p[t][i]) /\ q[t][i][o] = p[t][i][o]
    BY <1>4, Zenon DEF Old
  <2>2. p[t][i][o].no \in Nat
    BY <2>1, WholeAt, Zenon
  <2>3. p[t][i][o].no <= n
    BY <2>1, Zenon DEF Aged
  <2> QED BY <2>1, <2>2, <2>3, Zenon
<1>5. ASSUME NEW t \in Tiers, NEW u \in Tiers, NEW i \in Ids, NEW j \in Ids, q[t][i] # NoFile, q[u][j] # NoFile,
             NEW o \in 1..Whole(q[t][i]), NEW x \in 1..Whole(q[u][j])
      PROVE  /\ q[t][i][o].no <= m
             /\ i < j \/ (i = j /\ o <= x) => q[t][i][o].no <= q[u][j][x].no
  <2>1. New(t, i, o) \/ Old(t, i, o)
    BY <1>3, <1>5, Zenon
  <2>2. New(u, j, x) \/ Old(u, j, x)
    BY <1>3, <1>5, Zenon
  <2>3. q[t][i][o].no <= m
    <3>1. CASE New(t, i, o)
      BY <3>1 DEF New
    <3>2. CASE Old(t, i, o)
      BY <1>4, <3>2
    <3> QED BY <2>1, <3>1, <3>2, Zenon
  <2>4. CASE New(u, j, x)
    BY <2>3, <2>4, Zenon DEF New
  <2>5. CASE Old(u, j, x) /\ New(t, i, o)
    <3>1. j <= a /\ (j = a => u = 1)
      BY <1>4, <2>5, Zenon
    <3>2. u = 1 /\ j = a => x <= Len(held)
      BY <2>5, Zenon DEF Old
    <3>3. i = a /\ o = Len(held) + 1 /\ o \in Int /\ x \in Int
      BY <1>2, <2>5 DEF New
    <3>4. ~(i < j \/ (i = j /\ o <= x))
      BY <1>2, <3>1, <3>2, <3>3
    <3> QED BY <2>3, <3>4, Zenon
  <2>6. CASE Old(u, j, x) /\ Old(t, i, o)
    <3>1. i < j \/ (i = j /\ o <= x) => p[t][i][o].no <= p[u][j][x].no
      BY <2>6, Zenon DEF Aged, Old
    <3> QED BY <2>3, <2>6, <3>1, Zenon DEF Old
  <2> QED BY <2>1, <2>2, <2>4, <2>5, <2>6, Zenon
<1> QED BY <1>5, ZenonT(40) DEF Aged

----------------------------------------------------------------------------
(* What is sealed *)

\* The same files are there, whatever they hold.
SamePlaces(q, p) == \A t \in Tiers, i \in Ids : q[t][i] = NoFile <=> p[t][i] = NoFile

\* Which packs are unsealed depends on which files there are only.
LEMMA SameFiles ==
  ASSUME NEW p, NEW h, NEW q, NEW g, LastUnsealed(p, h), SamePlaces(q, p), SamePlaces(g, h)
  PROVE  LastUnsealed(q, g)
<1>1. ASSUME NEW t \in Tiers, NEW i \in Ids, First(q, t, i), g[t][i] = NoFile
      PROVE  /\ \A u \in Tiers : g[u][i] = NoFile /\ (u # t => q[u][i] = NoFile)
             /\ \A u \in Tiers, j \in Ids : q[u][j] # NoFile => j <= i
  <2>1. First(p, t, i) /\ h[t][i] = NoFile
    BY <1>1, Zenon DEF First, SamePlaces
  <2> QED BY <2>1, Zenon DEF LastUnsealed, SamePlaces
<1> QED BY <1>1, Zenon DEF LastUnsealed

\* A pack gets a hint, next to its first copy.
LEMMA SealFirst ==
  ASSUME NEW p, NEW h, NEW g, LastUnsealed(p, h), NEW t \in Tiers, NEW i \in Ids, First(p, t, i),
         g[t][i] # NoFile, \A u \in Tiers, j \in Ids : u # t \/ j # i => g[u][j] = h[u][j]
  PROVE  LastUnsealed(p, g)
<1>1. ASSUME NEW v \in Tiers, NEW j \in Ids, First(p, v, j), g[v][j] = NoFile
      PROVE  /\ \A u \in Tiers : g[u][j] = NoFile /\ (u # v => p[u][j] = NoFile)
             /\ \A u \in Tiers, m \in Ids : p[u][m] # NoFile => m <= j
  <2>1. j # i
    <3>1. SUFFICES ASSUME j = i PROVE FALSE
      BY Zenon
    <3>2. v <= t /\ t <= v
      BY <1>1, <3>1, Zenon DEF First
    <3>3. v = t
      BY <3>2, OneTier
    <3> QED BY <1>1, <3>1, <3>3, Zenon
  <2>2. h[v][j] = NoFile /\ \A u \in Tiers : g[u][j] = h[u][j]
    BY <1>1, <2>1, Zenon
  <2> QED BY <1>1, <2>2, Zenon DEF LastUnsealed
<1> QED BY <1>1, Zenon DEF LastUnsealed

SameElsewhere(f, e, t, i) == \A u \in Tiers, j \in Ids : u # t \/ j # i => f[u][j] = e[u][j]

\* A pack goes from tier t, and perhaps its hint: what is left of it is sealed.
LEMMA RemoveSealed ==
  ASSUME NEW p, NEW h, NEW q, NEW g, LastUnsealed(p, h), NEW t \in Tiers, NEW i \in Ids,
         q[t][i] = NoFile, SameElsewhere(q, p, t, i), SameElsewhere(g, h, t, i),
         \A u \in Tiers : First(q, u, i) => h[u][i] # NoFile
  PROVE  LastUnsealed(q, g)
<1>1. ASSUME NEW v \in Tiers, NEW j \in Ids, First(q, v, j), g[v][j] = NoFile
      PROVE  /\ \A u \in Tiers : g[u][j] = NoFile /\ (u # v => q[u][j] = NoFile)
             /\ \A u \in Tiers, m \in Ids : q[u][m] # NoFile => m <= j
  <2>1. j # i
    <3>1. SUFFICES ASSUME j = i PROVE FALSE
      BY Zenon
    <3>2. v # t
      BY <1>1, <3>1, Zenon DEF First
    <3>3. g[v][i] = h[v][i] /\ h[v][i] # NoFile
      BY <1>1, <3>1, <3>2, Zenon DEF SameElsewhere
    <3> QED BY <1>1, <3>1, <3>3, Zenon
  <2>2. First(p, v, j) /\ h[v][j] = NoFile /\ \A u \in Tiers : g[u][j] = h[u][j] /\ q[u][j] = p[u][j]
    BY <1>1, <2>1, Zenon DEF First, SameElsewhere
  <2>3. \A u \in Tiers, m \in Ids : q[u][m] # NoFile => p[u][m] # NoFile
    BY Zenon DEF SameElsewhere
  <2> QED BY <2>2, <2>3, Zenon DEF LastUnsealed
<1> QED BY <1>1, Zenon DEF LastUnsealed

\* A hint is copied to another tier: all hints of a pack still agree.
LEMMA CopiedHints ==
  ASSUME NEW h, NEW g, OneHint(h), \A t \in Tiers, i \in Ids : g[t][i] # NoFile => \E u \in Tiers : g[t][i] = h[u][i]
  PROVE  OneHint(g)
<1>1. ASSUME NEW t \in Tiers, NEW u \in Tiers, NEW i \in Ids, g[t][i] # NoFile, g[u][i] # NoFile
      PROVE  g[t][i] = g[u][i]
  <2>1. PICK v \in Tiers : g[t][i] = h[v][i]
    BY <1>1, Zenon
  <2>2. PICK w \in Tiers : g[u][i] = h[w][i]
    BY <1>1, Zenon
  <2> QED BY <1>1, <2>1, <2>2 DEF OneHint
<1> QED BY <1>1 DEF OneHint

\* A pack has no hint but in tier t; the one there changes.
LEMMA SingleHint ==
  ASSUME NEW h, NEW g, OneHint(h), NEW t \in Tiers, NEW i \in Ids, \A u \in Tiers : u # t => h[u][i] = NoFile,
         \A u \in Tiers, j \in Ids : u # t \/ j # i => g[u][j] = h[u][j]
  PROVE  OneHint(g)
<1>1. ASSUME NEW u \in Tiers, NEW v \in Tiers, NEW j \in Ids, g[u][j] # NoFile, g[v][j] # NoFile
      PROVE  g[u][j] = g[v][j]
  <2>1. CASE j = i
    <3>1. \A w \in Tiers : w # t => g[w][i] = NoFile
      BY Zenon
    <3>2. u = t /\ v = t
      BY <1>1, <2>1, <3>1, Zenon
    <3> QED BY <3>2, Zenon
  <2>2. CASE j # i
    <3>1. g[u][j] = h[u][j] /\ g[v][j] = h[v][j]
      BY <2>2, Zenon
    <3> QED BY <1>1, <3>1, Zenon DEF OneHint
  <2> QED BY <2>1, <2>2, Zenon
<1> QED BY <1>1 DEF OneHint

\* A record stands as long as the files of its pack keep their records, and its hints theirs.
Grown(q, p, i) ==
  /\ p \in [Tiers -> [Ids -> Files \cup {NoFile}]] /\ q \in [Tiers -> [Ids -> Files \cup {NoFile}]]
  /\ \E t \in Tiers : q[t][i] # NoFile
  /\ \A t \in Tiers : q[t][i] # NoFile =>
       \E u \in Tiers : /\ p[u][i] # NoFile /\ Whole(p[u][i]) <= Whole(q[t][i])
                        /\ \A x \in 1..Whole(p[u][i]) : q[t][i][x] = p[u][i][x]
Carried(g, h, k, i, o) ==
  \A t \in Tiers : g[t][i] # NoFile => <<k, o>> \in g[t][i] \/ \E u \in Tiers : g[t][i] = h[u][i]

LEMMA StandsOn ==
  ASSUME NEW p, NEW q, NEW h, NEW g, NEW k, NEW i \in Ids, NEW o, NEW n, Stands(p, h, k, i, o, n),
         Grown(q, p, i), Carried(g, h, k, i, o)
  PROVE  Stands(q, g, k, i, o, n)
<1>1. ASSUME NEW t \in Tiers, q[t][i] # NoFile
      PROVE  o \in 1..Whole(q[t][i]) /\ q[t][i][o].key = k /\ q[t][i][o].no >= n
  <2>1. PICK u \in Tiers : /\ p[u][i] # NoFile /\ Whole(p[u][i]) <= Whole(q[t][i])
                           /\ \A x \in 1..Whole(p[u][i]) : q[t][i][x] = p[u][i][x]
    BY <1>1, Zenon DEF Grown
  <2>2. o \in 1..Whole(p[u][i]) /\ p[u][i][o].key = k /\ p[u][i][o].no >= n
    BY <2>1, Zenon DEF Stands
  <2>3. Whole(p[u][i]) \in Nat /\ Whole(q[t][i]) \in Nat
    BY <1>1, <2>1, WholeAt, Zenon DEF Grown
  <2>4. o \in 1..Whole(q[t][i])
    BY <2>1, <2>2, <2>3
  <2> QED BY <2>1, <2>2, <2>4, Zenon
<1>2. \A t \in Tiers : g[t][i] # NoFile => <<k, o>> \in g[t][i]
  BY Zenon DEF Stands, Carried
<1> QED BY <1>1, <1>2, Zenon DEF Stands, Grown

----------------------------------------------------------------------------
(* Steps that leave the disk alone, and stops *)

\* The demoter wakes or picks a pack, Open or Close begins.
LEMMA QuietKept ==
  ASSUME KInv, pack' = pack, hint' = hint, index' = index, packs' = packs, tier' = tier, active' = active,
         puts' = puts, outages' = outages, promised' = promised, Running' <=> Running,
         demoter'.pc = "switch" => demoter' = demoter
  PROVE  KInv'
<1>1. SealedOk'
  BY Zenon DEF KInv, SealedOk
<1>2. Listed <=> Listed'
  BY Zenon DEF Listed
<1>3. ASSUME NEW k \in Keys PROVE (StandsAtIndex(k) => StandsAtIndex(k)') /\ (StandsOnDisk(k) => StandsOnDisk(k)')
  BY Zenon DEF StandsAtIndex, StandsOnDisk, Reached
<1>4. outages' = 0 => OneHint(hint')
  BY Zenon DEF KInv
<1>5. ASSUME NEW k \in Keys, outages' = 0, promised'[k] # 0
      PROVE  IF Running' THEN StandsAtIndex(k)' ELSE StandsOnDisk(k)'
  <2>1. IF Running THEN StandsAtIndex(k) ELSE StandsOnDisk(k)
    BY <1>5, Zenon DEF KInv
  <2> QED BY <1>3, <2>1, Zenon
<1> QED BY <1>1, <1>2, <1>4, <1>5, Zenon DEF KInv

\* Before or after a stop, what is promised stands somewhere.
LEMMA Standing ==
  ASSUME PInv, KInv, outages = 0, NEW k \in Keys, promised[k] # 0
  PROVE  \E i \in Ids, o \in Nat : Stands(pack, hint, k, i, o, promised[k])
<1>1. CASE Running
  <2>1. StandsAtIndex(k)
    BY <1>1, Zenon DEF KInv
  <2>2. index[k].id \in Ids /\ index[k].off \in Nat
    <3>1. index[k] \in [id : 0..MaxId, off : Nat] /\ index[k].id # 0
      BY <2>1, Zenon DEF StandsAtIndex, PInv, MemoryOk
    <3> QED BY <3>1, PackStoreAssumption DEF Ids
  <2> QED BY <2>1, <2>2, Zenon DEF StandsAtIndex
<1>2. CASE ~Running
  BY <1>2, Zenon DEF KInv, StandsOnDisk
<1> QED BY <1>1, <1>2, Zenon

\* The process is gone: the index is empty, the promises stand on disk.
LEMMA StoppedKept ==
  ASSUME main' = "down", NoMemory, Aged(pack', puts'), LastUnsealed(pack', hint'),
         promised' \in [Keys -> Nat], outages' \in Nat, outages' = 0 => OneHint(hint'),
         \A k \in Keys : outages' = 0 /\ promised'[k] # 0 =>
           \E i \in Ids, o \in Nat : Stands(pack', hint', k, i, o, promised'[k])
  PROVE  KInv'
<1>1. ~Running' /\ packs' = {} /\ demoter'.pc # "switch" /\ \A k \in Keys : index'[k].id = 0
  BY DEF Running, NoMemory, Idle, Nowhere
<1>2. SealedOk' /\ Listed'
  BY <1>1, Zenon DEF SealedOk, Listed
<1>3. ASSUME NEW k \in Keys, outages' = 0, promised'[k] # 0 PROVE StandsOnDisk(k)'
  <2>1. PICK i \in Ids, o \in Nat : Stands(pack', hint', k, i, o, promised'[k])
    BY <1>3, Zenon
  <2> QED BY <1>1, <2>1, Zenon DEF StandsOnDisk
<1> QED BY <1>1, <1>2, <1>3, Zenon DEF KInv

LEMMA StopKept == ASSUME PInv, KInv, Stop PROVE KInv'
<1>1. /\ main' = "down" /\ NoMemory /\ pack' = pack /\ hint' = hint /\ puts' = puts /\ outages' = outages
      /\ promised' = promised
  BY Zenon DEF Stop, Stopped, disk
<1>2. /\ Aged(pack', puts') /\ LastUnsealed(pack', hint') /\ promised' \in [Keys -> Nat] /\ outages' \in Nat
      /\ outages' = 0 => OneHint(hint')
  BY <1>1, Zenon DEF KInv
<1>3. \A k \in Keys : outages' = 0 /\ promised'[k] # 0 =>
        \E i \in Ids, o \in Nat : Stands(pack', hint', k, i, o, promised'[k])
  BY <1>1, Standing, Zenon
<1> QED BY <1>1, <1>2, <1>3, StoppedKept, Zenon

LEMMA InitKept == Init => KInv
<1> SUFFICES ASSUME Init PROVE KInv
  OBVIOUS
<1>1. /\ \A t \in Tiers, i \in Ids : pack[t][i] = NoFile
      /\ packs = {} /\ demoter.pc # "switch" /\ \A k \in Keys : index[k].id = 0
      /\ promised \in [Keys -> Nat] /\ outages \in Nat /\ \A k \in Keys : promised[k] = 0
  BY DEF Init, Idle, Nowhere
<1>2. ~Running /\ \A t \in Tiers, i \in Ids : hint[t][i] = NoFile
  BY DEF Init, Running
<1>3. Aged(pack, puts) /\ LastUnsealed(pack, hint)
  BY <1>1, Zenon DEF Aged, LastUnsealed, First
<1>4. SealedOk /\ Listed /\ OneHint(hint)
  BY <1>1, <1>2, Zenon DEF SealedOk, Listed, OneHint
<1> QED BY <1>1, <1>2, <1>3, <1>4, Zenon DEF KInv

----------------------------------------------------------------------------
(* Sealing and writing *)

\* No file is newer than the active pack.
LEMMA ActivePack ==
  ASSUME PInv, Running
  PROVE  /\ active \in Ids /\ active \in packs /\ tier[active] = 1 /\ 1 \in Tiers /\ First(pack, 1, active)
         /\ \A u \in Tiers \ {1} : pack[u][active] = NoFile /\ hint[u][active] = NoFile
         /\ \A t \in Tiers, i \in Ids : pack[t][i] # NoFile \/ hint[t][i] # NoFile => i <= active
<1>1. /\ active \in Ids /\ active \in packs /\ tier[active] = 1 /\ 1 \in Tiers /\ pack[1][active] # NoFile
      /\ \A u \in Tiers \ {1} : pack[u][active] = NoFile /\ hint[u][active] = NoFile
      /\ \A t \in Tiers, i \in Ids : pack[t][i] # NoFile \/ hint[t][i] # NoFile => i <= active
  BY OneTier, Zenon DEF PInv, ActiveOk, MemoryOk, Fresh, Used
<1>2. First(pack, 1, active)
  BY <1>1, OneTier DEF First
<1> QED BY <1>1, <1>2, Zenon

\* The active pack is sealed, or it is not.
LEMMA SealKeeps ==
  ASSUME NoFile \notin Hints, PInv, KInv, Running, NEW g, g = hint \/ g = [hint EXCEPT ![1][active] = Sealed(active, index)]
  PROVE  /\ \A t \in Tiers, i \in Ids : t # 1 \/ i # active => g[t][i] = hint[t][i]
         /\ \A t \in Tiers, i \in Ids : hint[t][i] # NoFile => g[t][i] # NoFile
         /\ g = hint \/ g[1][active] # NoFile
         /\ LastUnsealed(pack, g)
         /\ outages = 0 =>
              /\ OneHint(g)
              /\ \A k \in Keys : promised[k] # 0 => Stands(pack, g, k, index[k].id, index[k].off, promised[k])
<1>1. /\ active \in Ids /\ active \in packs /\ tier[active] = 1 /\ 1 \in Tiers /\ First(pack, 1, active)
      /\ \A u \in Tiers \ {1} : pack[u][active] = NoFile /\ hint[u][active] = NoFile
  BY ActivePack, Zenon
<1>2. ASSUME NEW k \in Keys, outages = 0, promised[k] # 0
      PROVE  Stands(pack, hint, k, index[k].id, index[k].off, promised[k])
  BY <1>2, Zenon DEF KInv, StandsAtIndex
<1>3. CASE g = hint
  BY <1>2, <1>3, Zenon DEF KInv
<1>4. CASE g = [hint EXCEPT ![1][active] = Sealed(active, index)]
  <2>1. PICK x : x = Sealed(active, index)
    BY Zenon
  <2>2. x \in Hints /\ x # NoFile /\ hint \in [Tiers -> [Ids -> Hints \cup {NoFile}]]
    BY <1>1, <2>1, SealedHint, Zenon DEF PInv, DiskOk
  <2>3. g[1][active] = x /\ \A u \in Tiers, j \in Ids : u # 1 \/ j # active => g[u][j] = hint[u][j]
    BY <1>1, <1>4, <2>1, <2>2, SetAt
  <2>4. \A t \in Tiers, i \in Ids : hint[t][i] # NoFile => g[t][i] # NoFile
    BY <2>2, <2>3, Zenon
  <2>5. LastUnsealed(pack, g)
    <3>1. LastUnsealed(pack, hint) /\ g[1][active] # NoFile
      BY <2>2, <2>3, Zenon DEF KInv
    <3> QED BY <1>1, <2>3, <3>1, SealFirst
  <2>6. ASSUME outages = 0 PROVE OneHint(g)
    <3>1. OneHint(hint) /\ \A u \in Tiers : u # 1 => hint[u][active] = NoFile
      BY <1>1, <2>6, Zenon DEF KInv
    <3> QED BY <1>1, <2>3, <3>1, SingleHint
  <2>7. ASSUME NEW k \in Keys, outages = 0, promised[k] # 0
        PROVE  Stands(pack, g, k, index[k].id, index[k].off, promised[k])
    <3>1. PICK i, o : i = index[k].id /\ o = index[k].off
      BY Zenon
    <3>2. Stands(pack, hint, k, i, o, promised[k])
      BY <1>2, <2>7, <3>1, Zenon
    <3>3. ASSUME NEW t \in Tiers, g[t][i] # NoFile, t = 1 /\ i = active PROVE <<k, o>> \in g[t][i]
      <4>1. <<k, index[k].off>> \in Sealed(active, index)
        BY <3>1, <3>3, Zenon DEF Sealed
      <4> QED BY <2>1, <2>3, <3>1, <3>3, <4>1, Zenon
    <3>4. i \in Ids
      <4>1. index[k] \in [id : 0..MaxId, off : Nat] /\ i # 0
        BY <2>7, <3>1, Zenon DEF KInv, StandsAtIndex, PInv, MemoryOk
      <4> QED BY <3>1, <4>1, PackStoreAssumption DEF Ids
    <3>5. \A t \in Tiers : g[t][i] # NoFile => <<k, o>> \in g[t][i]
      BY <2>3, <3>2, <3>3, <3>4, Zenon DEF Stands
    <3> QED BY <3>1, <3>2, <3>5, Zenon DEF Stands
  <2> QED BY <2>2, <2>3, <2>4, <2>5, <2>6, <2>7, Zenon
<1> QED BY <1>3, <1>4, Zenon

LEMMA CloseSealKept == ASSUME NoFile \notin Hints, PInv, KInv, CloseSeal PROVE KInv'
<1>1. /\ Running /\ main' = "down" /\ NoMemory /\ pack' = pack /\ puts' = puts /\ outages' = outages
      /\ promised' = promised /\ hint' = [hint EXCEPT ![1][active] = Sealed(active, index)]
  BY Zenon DEF CloseSeal, Running
<1>2. /\ LastUnsealed(pack, hint')
      /\ outages = 0 =>
           /\ OneHint(hint')
           /\ \A k \in Keys : promised[k] # 0 => Stands(pack, hint', k, index[k].id, index[k].off, promised[k])
  BY <1>1, SealKeeps, Zenon
<1>3. Aged(pack', puts') /\ promised' \in [Keys -> Nat] /\ outages' \in Nat
  BY <1>1, Zenon DEF KInv
<1>4. ASSUME NEW k \in Keys, outages' = 0, promised'[k] # 0
      PROVE  \E i \in Ids, o \in Nat : Stands(pack', hint', k, i, o, promised'[k])
  <2>1. index[k] \in [id : 0..MaxId, off : Nat] /\ index[k].id # 0
    BY <1>1, <1>4, Zenon DEF KInv, StandsAtIndex, PInv, MemoryOk
  <2>2. index[k].id \in Ids /\ index[k].off \in Nat
    BY <2>1, PackStoreAssumption DEF Ids
  <2> QED BY <1>1, <1>2, <1>4, <2>2, Zenon
<1> QED BY <1>1, <1>2, <1>3, <1>4, StoppedKept, Zenon

\* Pack a gets the file s: what it held and perhaps the next record.
LEMMA WriteKeeps ==
  ASSUME NoFile \notin Hints, PInv, KInv, Running, NEW g, g = hint \/ g = [hint EXCEPT ![1][active] = Sealed(active, index)],
         NEW a, NEW held, Ready(pack, g, a, held),
         (a = active /\ held = pack[1][active]) \/ (a = active + 1 /\ held = <<>> /\ g[1][active] # NoFile),
         NEW m \in Nat, puts <= m, NEW s \in Files, Len(held) <= Whole(s), Whole(s) <= Len(held) + 1,
         \A o \in 1..Len(held) : s[o] = held[o],
         Whole(s) = Len(held) + 1 => s[Len(held) + 1].no = m,
         NEW q, q = [pack EXCEPT ![1][a] = s]
  PROVE  /\ Aged(q, m) /\ LastUnsealed(q, g)
         /\ \A k \in Keys : outages = 0 /\ promised[k] # 0 =>
              Stands(q, g, k, index[k].id, index[k].off, promised[k])
<1>1. /\ active \in Ids /\ 1 \in Tiers /\ First(pack, 1, active) /\ Ids \subseteq Nat \ {0}
      /\ \A u \in Tiers \ {1} : pack[u][active] = NoFile /\ hint[u][active] = NoFile
      /\ \A t \in Tiers, i \in Ids : pack[t][i] # NoFile => i <= active
  BY ActivePack, OneTier, Zenon
<1>2. /\ a \in Ids /\ held \in Seq(Records) /\ pack \in [Tiers -> [Ids -> Files \cup {NoFile}]]
      /\ \A u \in Tiers \ {1} : pack[u][a] = NoFile /\ g[u][a] = NoFile
      /\ \A t \in Tiers, i \in Ids : pack[t][i] # NoFile => i <= a
  BY Zenon DEF Ready, DiskOk, Used
<1>3. /\ \A t \in Tiers, i \in Ids : t # 1 \/ i # active => g[t][i] = hint[t][i]
      /\ LastUnsealed(pack, g)
      /\ \A k \in Keys : outages = 0 /\ promised[k] # 0 => Stands(pack, g, k, index[k].id, index[k].off, promised[k])
  BY SealKeeps, ZenonT(40)
<1>4. Aged(q, m)
  <2>1. puts \in Nat /\ Aged(pack, puts)
    BY Zenon DEF PInv, MemoryOk, KInv
  <2>2. \A t \in Tiers, i \in Ids : pack[t][i] # NoFile => i <= a /\ (i = a => t = 1)
    BY <1>2, Zenon
  <2>3. pack[1][a] = held \/ held = <<>>
    BY Zenon
  <2> QED BY <1>2, <2>1, <2>2, <2>3, AgedWrite, Zenon
<1>5. q[1][a] = s /\ s # NoFile /\ \A u \in Tiers, j \in Ids : u # 1 \/ j # a => q[u][j] = pack[u][j]
  BY <1>1, <1>2, SetAt, NoFileIsNone
<1>6. LastUnsealed(q, g)
  <2>1. ASSUME NEW t \in Tiers, NEW i \in Ids, First(q, t, i), g[t][i] = NoFile, i # a PROVE FALSE
    <3>1. First(pack, t, i)
      BY <1>5, <2>1, Zenon DEF First
    <3>2. active <= i
      BY <1>1, <1>3, <2>1, <3>1, Zenon DEF LastUnsealed, First
    <3>3. i = active
      BY <1>1, <3>1, <3>2 DEF First
    <3>4. t = 1
      BY <1>1, <3>1, <3>3, Zenon DEF First
    <3> QED BY <1>1, <1>3, <2>1, <3>3, <3>4, Zenon
  <2>2. ASSUME NEW t \in Tiers, First(q, t, a), g[t][a] = NoFile
        PROVE  /\ \A u \in Tiers : g[u][a] = NoFile /\ (u # t => q[u][a] = NoFile)
               /\ \A u \in Tiers, j \in Ids : q[u][j] # NoFile => j <= a
    <3>1. t = 1
      BY <1>2, <1>5, <2>2, Zenon DEF First
    <3>2. \A u \in Tiers, j \in Ids : q[u][j] # NoFile => j <= a
      BY <1>1, <1>2, <1>5
    <3> QED BY <1>2, <1>5, <2>2, <3>1, <3>2, Zenon
  <2>3. ASSUME NEW t \in Tiers, NEW i \in Ids, First(q, t, i), g[t][i] = NoFile
        PROVE  /\ \A u \in Tiers : g[u][i] = NoFile /\ (u # t => q[u][i] = NoFile)
               /\ \A u \in Tiers, j \in Ids : q[u][j] # NoFile => j <= i
    <3>1. i = a
      BY <2>1, <2>3, Zenon
    <3> QED BY <2>2, <2>3, <3>1, Zenon
  <2> QED BY <2>3, Zenon DEF LastUnsealed
<1>7. ASSUME NEW k \in Keys, outages = 0, promised[k] # 0
      PROVE  Stands(q, g, k, index[k].id, index[k].off, promised[k])
  <2>1. PICK i, o : i = index[k].id /\ o = index[k].off
    BY Zenon
  <2>2. Stands(pack, g, k, i, o, promised[k])
    BY <1>3, <1>7, <2>1, Zenon
  <2>3. i \in Ids
    <3>1. index[k] \in [id : 0..MaxId, off : Nat] /\ i # 0
      BY <1>7, <2>1, Zenon DEF KInv, StandsAtIndex, PInv, MemoryOk
    <3> QED BY <2>1, <3>1, PackStoreAssumption DEF Ids
  <2>4. q \in [Tiers -> [Ids -> Files \cup {NoFile}]]
    BY <1>1, <1>2, SetAt
  <2>5. i = a => a = active /\ held = pack[1][active]
    <3>1. \E t \in Tiers : pack[t][i] # NoFile
      BY <2>2, Zenon DEF Stands
    <3>2. i <= active
      BY <1>1, <2>3, <3>1, Zenon
    <3> QED BY <1>1, <2>3, <3>2
  <2>6. Whole(held) = Len(held)
    BY <1>2, AllWhole, Zenon
  <2>7. ASSUME NEW t \in Tiers, q[t][i] # NoFile
        PROVE  /\ pack[t][i] # NoFile /\ Whole(pack[t][i]) <= Whole(q[t][i])
               /\ \A x \in 1..Whole(pack[t][i]) : q[t][i][x] = pack[t][i][x]
    <3>1. CASE t = 1 /\ i = a
      <4>1. pack[t][i] = held /\ q[t][i] = s
        BY <1>5, <2>5, <3>1, Zenon
      <4>2. pack[1][active] # NoFile
        BY <1>1, Zenon DEF First
      <4> QED BY <2>5, <2>6, <3>1, <4>1, <4>2, ZenonT(40)
    <3>2. CASE t # 1 \/ i # a
      <4>1. q[t][i] = pack[t][i] /\ pack[t][i] # NoFile
        BY <1>5, <2>3, <2>7, <3>2, Zenon
      <4>2. Whole(pack[t][i]) \in Nat
        BY <1>2, <2>3, <4>1, WholeAt, Zenon
      <4> QED BY <4>1, <4>2
    <3> QED BY <3>1, <3>2, Zenon
  <2>8. \E t \in Tiers : q[t][i] # NoFile
    BY <1>5, <2>2, <2>3, Zenon DEF Stands
  <2>9. Stands(q, g, k, i, o, promised[k])
    <3>1. Grown(q, pack, i)
      BY <1>2, <2>4, <2>7, <2>8, Zenon DEF Grown
    <3>2. Carried(g, g, k, i, o)
      BY Zenon DEF Carried
    <3> QED BY <2>2, <2>3, <3>1, <3>2, StandsOn, Zenon
  <2> QED BY <2>1, <2>9, Zenon
<1> QED BY <1>4, <1>6, <1>7, Zenon

\* Where the record of Put goes, and that rotate seals first.
LEMMA Rotates ==
  ASSUME NoFile \notin Hints, PInv, KInv, Running, NEW k \in Keys, Target(k) <= MaxId, NEW g, g = SealedHints(k),
         NEW a, a = Target(k), NEW held, held = Held(k)
  PROVE  /\ g = hint \/ g = [hint EXCEPT ![1][active] = Sealed(active, index)]
         /\ Ready(pack, g, a, held) /\ a \in Ids /\ held \in Seq(Records)
         /\ (a = active /\ held = pack[1][active]) \/ (a = active + 1 /\ held = <<>> /\ g[1][active] # NoFile)
<1>1. /\ Ready(pack, g, a, held)
      /\ \/ ~Full(k) /\ a = active /\ held = pack[1][active]
         \/ Full(k) /\ a = active + 1 /\ held = <<>>
  BY Rotated, Zenon
<1>2. g = hint \/ g = [hint EXCEPT ![1][active] = Sealed(active, index)]
  BY Zenon DEF SealedHints
<1>3. ASSUME Full(k) PROVE g[1][active] # NoFile
  <2>1. g = [hint EXCEPT ![1][active] = Sealed(active, index)]
    BY <1>3, Zenon DEF SealedHints
  <2>2. PICK x : x = Sealed(active, index)
    BY Zenon
  <2>3. x \in Hints /\ x # NoFile /\ hint \in [Tiers -> [Ids -> Hints \cup {NoFile}]] /\ active \in Ids /\ 1 \in Tiers
    BY <2>2, ActivePack, SealedHint, Zenon DEF PInv, DiskOk
  <2> QED BY <2>1, <2>2, <2>3, SetAt
<1> QED BY <1>1, <1>2, <1>3, Zenon DEF Ready

\* Pack a is the active one now; what is promised is at the index as before, or there anew.
LEMMA WrittenKept ==
  ASSUME NoFile \notin Hints, PInv, KInv, Running, Running', NEW g, g = hint \/ g = [hint EXCEPT ![1][active] = Sealed(active, index)],
         hint' = g, NEW a, NEW held, Ready(pack, g, a, held),
         (a = active /\ held = pack[1][active]) \/ (a = active + 1 /\ held = <<>> /\ g[1][active] # NoFile),
         puts' \in Nat, puts <= puts', NEW s \in Files, Len(held) <= Whole(s), Whole(s) <= Len(held) + 1,
         \A o \in 1..Len(held) : s[o] = held[o],
         Whole(s) = Len(held) + 1 => s[Len(held) + 1].no = puts',
         pack' = [pack EXCEPT ![1][a] = s],
         active' = a, packs' = packs \cup {a}, tier' = [tier EXCEPT ![a] = 1], demoter' = demoter,
         outages' = outages, promised' \in [Keys -> Nat],
         \A k \in Keys : outages = 0 /\ promised'[k] # 0 =>
           (index'[k] = index[k] /\ promised'[k] = promised[k]) \/ StandsAtIndex(k)'
  PROVE  KInv'
<1>1. PICK q, m : q = pack' /\ m = puts'
  BY Zenon
<1>2. /\ Aged(q, m) /\ LastUnsealed(q, g)
      /\ \A k \in Keys : outages = 0 /\ promised[k] # 0 =>
           Stands(q, g, k, index[k].id, index[k].off, promised[k])
  <2>1. m \in Nat /\ puts <= m /\ (Whole(s) = Len(held) + 1 => s[Len(held) + 1].no = m) /\ q = [pack EXCEPT ![1][a] = s]
    BY <1>1, Zenon
  <2> QED BY <2>1, WriteKeeps, Zenon
<1>3. /\ \A t \in Tiers, i \in Ids : t # 1 \/ i # active => g[t][i] = hint[t][i]
      /\ \A t \in Tiers, i \in Ids : hint[t][i] # NoFile => g[t][i] # NoFile
      /\ outages = 0 => OneHint(g)
  BY SealKeeps
<1>4. /\ active \in Ids /\ active \in packs /\ tier[active] = 1 /\ 1 \in Tiers /\ a \in Ids /\ packs \subseteq Ids
      /\ tier \in [Ids -> Tiers] /\ \A i \in packs : pack[tier[i]][i] # NoFile /\ i <= active
  BY ActivePack, Zenon DEF Ready, PInv, MemoryOk, PlacesOk
<1>5. \A j \in Ids : j # a => tier'[j] = tier[j]
  BY <1>4, Zenon
<1>6. SealedOk'
  <2>1. ASSUME NEW i \in packs', i # active' PROVE hint'[tier'[i]][i] # NoFile
    <3>1. i \in packs /\ i # a /\ i \in Ids /\ tier'[i] = tier[i] /\ tier[i] \in Tiers
      BY <1>4, <1>5, <2>1, Zenon
    <3>2. CASE i = active
      <4>1. g[1][active] # NoFile
        BY <3>1, <3>2
      <4>2. tier'[i] = 1
        BY <1>4, <3>1, <3>2, Zenon
      <4> QED BY <3>2, <4>1, <4>2
    <3>3. CASE i # active
      <4>1. g[tier[i]][i] # NoFile
        BY <1>3, <3>1, <3>3, Zenon DEF KInv, SealedOk
      <4> QED BY <3>1, <4>1
    <3> QED BY <3>2, <3>3, Zenon
  <2>2. ASSUME demoter'.pc = "switch" PROVE hint'[tier'[demoter'.id] + 1][demoter'.id] # NoFile
    <3>1. PICK i : i = demoter.id
      BY Zenon
    <3>2. /\ i \in packs /\ i # active /\ tier[i] + 1 \in Tiers /\ hint[tier[i] + 1][i] # NoFile
      BY <2>2, <3>1 DEF PInv, DemoterOk, KInv, SealedOk
    <3>3. i # a /\ i \in Ids
      BY <1>4, <3>2, OneTier
    <3>4. tier'[i] = tier[i] /\ g[tier[i] + 1][i] # NoFile
      BY <1>3, <1>5, <3>2, <3>3, Zenon
    <3> QED BY <3>1, <3>4
  <2> QED BY <2>1, <2>2, Zenon DEF SealedOk
<1>7. ASSUME NEW k \in Keys, outages' = 0, promised'[k] # 0 PROVE StandsAtIndex(k)'
  <2>1. CASE index'[k] = index[k] /\ promised'[k] = promised[k]
    <3>1. index[k].id # 0
      BY <1>7, <2>1, Zenon DEF KInv, StandsAtIndex
    <3> QED BY <1>1, <1>2, <1>7, <2>1, <3>1, Zenon DEF StandsAtIndex
  <2>2. CASE StandsAtIndex(k)'
    BY <2>2, Zenon
  <2> QED BY <1>7, <2>1, <2>2, Zenon
<1>8. outages' \in Nat
  BY Zenon DEF KInv
<1> QED BY <1>1, <1>2, <1>3, <1>6, <1>7, <1>8, Zenon DEF KInv

LEMMA PutKept == ASSUME NoFile \notin Hints, PInv, KInv, NEW k \in Keys, Put(k) PROVE KInv'
<1>1. PICK g, a, held : g = SealedHints(k) /\ a = Target(k) /\ held = Held(k)
  BY Zenon
<1>2. /\ Running /\ Running' /\ demoter' = demoter /\ puts' = puts + 1 /\ hint' = g /\ outages' = outages
      /\ active \in packs /\ tier[active] = 1 /\ tier \in [Ids -> Tiers] /\ puts \in Nat /\ MaxId \in Nat
      /\ index \in [Keys -> [id : 0..MaxId, off : Nat]] /\ active \in Ids /\ promised \in [Keys -> Nat]
  BY <1>1, PackStoreAssumption, OneTier, Zenon DEF Put, Running, PInv, MemoryOk, ActiveOk, KInv
<1>3. a <= MaxId
  <2>1. CASE Full(k)
    BY <1>1, <2>1, Zenon DEF Put, CreateActive
  <2>2. CASE ~Full(k)
    BY <1>1, <1>2, <2>2 DEF Target, Ids
  <2> QED BY <2>1, <2>2, Zenon
<1>4. /\ g = hint \/ g = [hint EXCEPT ![1][active] = Sealed(active, index)]
      /\ Ready(pack, g, a, held) /\ a \in Ids /\ held \in Seq(Records)
      /\ (a = active /\ held = pack[1][active]) \/ (a = active + 1 /\ held = <<>> /\ g[1][active] # NoFile)
  BY <1>1, <1>2, <1>3, Rotates
<1>5. active' = a /\ packs' = packs \cup {a} /\ tier' = [tier EXCEPT ![a] = 1]
  <2>1. CASE Full(k)
    BY <1>1, <2>1, Zenon DEF Put, CreateActive
  <2>2. CASE ~Full(k)
    <3>1. active' = active /\ packs' = packs /\ tier' = tier /\ a = active
      BY <1>1, <2>2, Zenon DEF Put, Target
    <3> QED BY <1>2, <3>1, Zenon
  <2> QED BY <2>1, <2>2, Zenon
<1>6. PICK r, s : r = [key |-> k, no |-> puts + 1] /\ s = Append(held, r)
  BY Zenon
<1>7. r \in Records /\ r.key = k /\ r.no = puts + 1
  BY <1>2, <1>6 DEF Records
<1>8. /\ s \in Seq(Records) /\ Len(s) = Len(held) + 1 /\ Len(held) \in Nat /\ s[Len(held) + 1] = r
      /\ \A o \in 1..Len(held) : s[o] = held[o]
  BY <1>4, <1>6, <1>7
<1>9. s \in Files /\ Whole(s) = Len(held) + 1 /\ s # NoFile
  BY <1>8, AllWhole, NoFileIsNone, Zenon
<1>10. pack' = [pack EXCEPT ![1][a] = s] /\ index' = [index EXCEPT ![k] = [id |-> a, off |-> Len(held) + 1]]
  BY <1>1, <1>6, Zenon DEF Put
<1>11. promised' = [promised EXCEPT ![k] = IF g[1][a] = NoFile THEN puts + 1 ELSE 0]
  BY <1>1, <1>2, Zenon DEF Put
<1>12. promised' \in [Keys -> Nat]
  BY <1>2, <1>11
<1>13. ASSUME NEW j \in Keys, outages = 0, promised'[j] # 0
       PROVE  (index'[j] = index[j] /\ promised'[j] = promised[j]) \/ StandsAtIndex(j)'
  <2>1. CASE j # k
    BY <1>2, <1>10, <1>11, <2>1, Zenon
  <2>2. CASE j = k
    <3>1. g[1][a] = NoFile /\ promised'[k] = puts + 1
      BY <1>2, <1>11, <1>13, <2>2, Zenon
    <3>2. \A t \in Tiers : g[t][a] = NoFile
      BY <1>4, <3>1, Zenon DEF Ready
    <3>3. /\ pack'[1][a] = s /\ \A u \in Tiers, i \in Ids : u # 1 \/ i # a => pack'[u][i] = pack[u][i]
      BY <1>4, <1>9, <1>10, OneTier, SetAt DEF Ready, DiskOk
    <3>4. \A u \in Tiers : u # 1 => pack'[u][a] = NoFile
      BY <1>4, <3>3, Zenon DEF Ready
    <3>5. PICK o : o = Len(held) + 1
      BY Zenon
    <3>6. o \in 1..Whole(s) /\ s[o].key = k /\ s[o].no >= puts + 1
      BY <1>2, <1>7, <1>8, <1>9, <3>5
    <3>7. Stands(pack', g, k, a, o, puts + 1)
      BY <1>9, <3>2, <3>3, <3>4, <3>6, OneTier, Zenon DEF Stands
    <3>8. index'[k].id = a /\ index'[k].off = o /\ a # 0
      BY <1>2, <1>4, <1>10, <3>5, OneTier, Zenon
    <3> QED BY <1>2, <2>2, <3>1, <3>7, <3>8, Zenon DEF StandsAtIndex
  <2> QED BY <2>1, <2>2, Zenon
<1>14. /\ puts' \in Nat /\ puts <= puts' /\ Len(held) <= Whole(s) /\ Whole(s) <= Len(held) + 1
       /\ s[Len(held) + 1].no = puts'
  BY <1>2, <1>7, <1>8, <1>9
<1>15. \A o \in 1..Len(held) : s[o] = held[o]
  BY <1>8, Zenon
<1> QED BY <1>2, <1>4, <1>5, <1>9, <1>10, <1>12, <1>13, <1>14, <1>15, WrittenKept, Zenon

----------------------------------------------------------------------------
(* Put that fails, or is cut short *)

\* Where the index points while the store runs.
LEMMA IndexPlace ==
  ASSUME PInv, KInv, Running, outages = 0, NEW k \in Keys, promised[k] # 0
  PROVE  /\ index[k].id \in Ids /\ index[k].off \in Nat
         /\ Stands(pack, hint, k, index[k].id, index[k].off, promised[k])
<1>1. StandsAtIndex(k)
  BY Zenon DEF KInv
<1>2. index[k] \in [id : 0..MaxId, off : Nat] /\ index[k].id # 0
  BY <1>1, Zenon DEF StandsAtIndex, PInv, MemoryOk
<1>3. index[k].id \in Ids /\ index[k].off \in Nat
  BY <1>2, PackStoreAssumption DEF Ids
<1> QED BY <1>1, <1>3, Zenon DEF StandsAtIndex

\* A stop of the running store: what was promised still stands where the index had it.
LEMMA StopAtIndex ==
  ASSUME PInv, KInv, Running, main' = "down", NoMemory, Aged(pack', puts'), LastUnsealed(pack', hint'),
         outages' = outages, promised' \in [Keys -> Nat], outages = 0 => OneHint(hint'),
         \A k \in Keys : outages = 0 /\ promised'[k] # 0 =>
           promised[k] # 0 /\ Stands(pack', hint', k, index[k].id, index[k].off, promised'[k])
  PROVE  KInv'
<1>1. outages' \in Nat
  BY Zenon DEF KInv
<1>2. ASSUME NEW k \in Keys, outages' = 0, promised'[k] # 0
      PROVE  \E i \in Ids, o \in Nat : Stands(pack', hint', k, i, o, promised'[k])
  <2>1. index[k].id \in Ids /\ index[k].off \in Nat
    BY <1>2, IndexPlace, Zenon
  <2> QED BY <1>2, <2>1, Zenon
<1> QED BY <1>1, <1>2, StoppedKept, Zenon

LEMMA StopInPutKept == ASSUME NoFile \notin Hints, PInv, KInv, NEW k \in Keys, StopInPut(k) PROVE KInv'
<1>1. PICK g, a, held : g = SealedHints(k) /\ a = Target(k) /\ held = Held(k)
  BY Zenon
<1>2. /\ Running /\ main' = "down" /\ NoMemory /\ hint' = g /\ outages' = outages /\ promised' = promised
      /\ a <= MaxId /\ puts \in Nat /\ promised' \in [Keys -> Nat]
  BY <1>1, Zenon DEF StopInPut, Stopped, Running, PInv, MemoryOk, KInv
<1>3. /\ g = hint \/ g = [hint EXCEPT ![1][active] = Sealed(active, index)]
      /\ Ready(pack, g, a, held) /\ a \in Ids /\ held \in Seq(Records)
      /\ (a = active /\ held = pack[1][active]) \/ (a = active + 1 /\ held = <<>> /\ g[1][active] # NoFile)
  BY <1>1, <1>2, Rotates
<1>4. /\ LastUnsealed(pack, g) /\ (outages = 0 => OneHint(g))
      /\ \A j \in Keys : outages = 0 /\ promised[j] # 0 => Stands(pack, g, j, index[j].id, index[j].off, promised[j])
  BY <1>2, <1>3, SealKeeps
<1>5. CASE pack' = pack /\ puts' = puts
  <2>1. Aged(pack', puts') /\ LastUnsealed(pack', hint')
    BY <1>2, <1>4, <1>5, Zenon DEF KInv
  <2>2. \A j \in Keys : outages = 0 /\ promised'[j] # 0 =>
          promised[j] # 0 /\ Stands(pack', hint', j, index[j].id, index[j].off, promised'[j])
    BY <1>2, <1>4, <1>5, Zenon
  <2> QED BY <1>2, <1>4, <2>1, <2>2, StopAtIndex, Zenon
<1>6. ASSUME NEW s \in Files, NEW m, m = puts', m \in Nat, puts <= m, Len(held) <= Whole(s), Whole(s) <= Len(held) + 1,
             \A o \in 1..Len(held) : s[o] = held[o], Whole(s) = Len(held) + 1 => s[Len(held) + 1].no = m,
             pack' = [pack EXCEPT ![1][a] = s]
      PROVE  KInv'
  <2>1. PICK q : q = pack'
    BY Zenon
  <2>2. /\ Aged(q, m) /\ LastUnsealed(q, g)
        /\ \A j \in Keys : outages = 0 /\ promised[j] # 0 => Stands(q, g, j, index[j].id, index[j].off, promised[j])
    <3>1. q = [pack EXCEPT ![1][a] = s]
      BY <1>6, <2>1, Zenon
    <3> QED BY <1>2, <1>3, <1>6, <3>1, WriteKeeps, Zenon
  <2>3. Aged(pack', puts') /\ LastUnsealed(pack', hint')
    BY <1>2, <1>6, <2>1, <2>2, Zenon
  <2>4. \A j \in Keys : outages = 0 /\ promised'[j] # 0 =>
          promised[j] # 0 /\ Stands(pack', hint', j, index[j].id, index[j].off, promised'[j])
    BY <1>2, <2>1, <2>2, Zenon
  <2> QED BY <1>2, <1>4, <2>3, <2>4, StopAtIndex, Zenon
<1>7. Len(held) \in Nat /\ puts + 1 \in Nat /\ puts <= puts + 1 /\ puts <= puts
  BY <1>2, <1>3
<1>8. CASE Full(k) /\ pack' = [pack EXCEPT ![1][a] = <<>>] /\ puts' = puts
  <2>1. held = <<>>
    BY <1>1, <1>8, Zenon DEF Held
  <2>2. PICK s : s = <<>>
    BY Zenon
  <2>3. s \in Seq(Records) /\ Len(s) = 0 /\ Len(held) = 0
    BY <2>1, <2>2
  <2>4. s \in Files /\ Whole(s) = 0
    BY <2>3, AllWhole, Zenon
  <2>5. Len(held) <= Whole(s) /\ Whole(s) <= Len(held) + 1 /\ Whole(s) # Len(held) + 1 /\ \A o \in 1..Len(held) : s[o] = held[o]
    BY <2>3, <2>4
  <2> QED BY <1>2, <1>6, <1>7, <1>8, <2>2, <2>4, <2>5, Zenon
<1>9. CASE pack' = [pack EXCEPT ![1][a] = Append(held, Torn)] /\ puts' = puts + 1
  <2>1. PICK s : s = Append(held, Torn)
    BY Zenon
  <2>2. s \in Files /\ Whole(s) = Len(held)
    BY <1>3, <2>1, AllWhole, Zenon
  <2>3. \A o \in 1..Len(held) : s[o] = held[o]
    BY <1>3, <2>1
  <2>4. Len(held) <= Whole(s) /\ Whole(s) <= Len(held) + 1 /\ Whole(s) # Len(held) + 1
    BY <1>7, <2>2
  <2> QED BY <1>6, <1>7, <1>9, <2>1, <2>2, <2>3, <2>4, Zenon
<1>10. CASE pack' = [pack EXCEPT ![1][a] = Append(held, [key |-> k, no |-> puts + 1])] /\ puts' = puts + 1
  <2>1. PICK r, s : r = [key |-> k, no |-> puts + 1] /\ s = Append(held, r)
    BY Zenon
  <2>2. r \in Records /\ r.no = puts + 1
    BY <1>2, <2>1 DEF Records
  <2>3. /\ s \in Seq(Records) /\ Len(s) = Len(held) + 1 /\ s[Len(held) + 1] = r
        /\ \A o \in 1..Len(held) : s[o] = held[o]
    BY <1>3, <2>1, <2>2
  <2>4. s \in Files /\ Whole(s) = Len(held) + 1
    BY <2>3, AllWhole, Zenon
  <2>5. Len(held) <= Whole(s) /\ Whole(s) <= Len(held) + 1 /\ s[Len(held) + 1].no = puts + 1
    BY <1>7, <2>2, <2>3, <2>4
  <2> QED BY <1>6, <1>7, <1>10, <2>1, <2>3, <2>4, <2>5, Zenon
<1>11. \/ Full(k) /\ pack' \in {pack, [pack EXCEPT ![1][a] = <<>>]} /\ puts' = puts
       \/ \E r \in {Torn, [key |-> k, no |-> puts + 1]} :
            pack' = [pack EXCEPT ![1][a] = Append(held, r)] /\ puts' = puts + 1
  BY <1>1, Zenon DEF StopInPut
<1> QED BY <1>5, <1>8, <1>9, <1>10, <1>11, Zenon

LEMMA PutWriteFailsKept == ASSUME NoFile \notin Hints, PInv, KInv, NEW k \in Keys, PutWriteFails(k) PROVE KInv'
<1>1. PICK g, a, held, s : g = SealedHints(k) /\ a = Target(k) /\ held = Held(k) /\ s = <<>>
  BY Zenon
<1>2. /\ Running /\ Running' /\ hint' = g /\ Full(k) /\ a <= MaxId /\ active' = a /\ packs' = packs \cup {a}
      /\ tier' = [tier EXCEPT ![a] = 1] /\ demoter' = demoter /\ puts' = puts /\ outages' = outages
      /\ promised' = promised /\ pack' = [pack EXCEPT ![1][a] = s] /\ index' = index
  BY <1>1, Zenon DEF PutWriteFails, CreateActive, Running
<1>3. /\ g = hint \/ g = [hint EXCEPT ![1][active] = Sealed(active, index)]
      /\ Ready(pack, g, a, held)
      /\ (a = active /\ held = pack[1][active]) \/ (a = active + 1 /\ held = <<>> /\ g[1][active] # NoFile)
  BY <1>1, <1>2, Rotates
<1>4. held = <<>>
  BY <1>1, <1>2, Zenon DEF Held
<1>5. s \in Seq(Records) /\ Len(s) = 0 /\ Len(held) = 0
  BY <1>1, <1>4
<1>6. s \in Files /\ Whole(s) = 0
  BY <1>5, AllWhole, Zenon
<1>7. Len(held) <= Whole(s) /\ Whole(s) <= Len(held) + 1 /\ Whole(s) # Len(held) + 1 /\ \A o \in 1..Len(held) : s[o] = held[o]
  BY <1>5, <1>6
<1>8. puts' \in Nat /\ puts <= puts' /\ promised' \in [Keys -> Nat]
  BY <1>2 DEF PInv, MemoryOk, KInv
<1>9. \A j \in Keys : index'[j] = index[j] /\ promised'[j] = promised[j]
  BY <1>2, Zenon
<1> QED BY <1>2, <1>3, <1>6, <1>7, <1>8, <1>9, WrittenKept, Zenon

LEMMA PutCreateFailsKept == ASSUME NoFile \notin Hints, PInv, KInv, NEW k \in Keys, PutCreateFails(k) PROVE KInv'
<1>1. PICK g : g = SealedHints(k)
  BY Zenon
<1>2. /\ Running /\ Running' /\ hint' = g /\ pack' = pack /\ index' = index /\ packs' = packs /\ tier' = tier
      /\ active' = active /\ demoter' = demoter /\ puts' = puts /\ outages' = outages /\ promised' = promised
  BY <1>1, Zenon DEF PutCreateFails, Running, memory
<1>3. g = hint \/ g = [hint EXCEPT ![1][active] = Sealed(active, index)]
  BY <1>1, Zenon DEF SealedHints
<1>4. /\ \A t \in Tiers, i \in Ids : hint[t][i] # NoFile => g[t][i] # NoFile
      /\ LastUnsealed(pack, g) /\ (outages = 0 => OneHint(g))
      /\ \A j \in Keys : outages = 0 /\ promised[j] # 0 => Stands(pack, g, j, index[j].id, index[j].off, promised[j])
  BY <1>2, <1>3, SealKeeps
<1>5. SealedOk'
  <2>1. packs \subseteq Ids /\ tier \in [Ids -> Tiers]
    BY Zenon DEF PInv, MemoryOk
  <2>2. \A i \in packs : i # active => g[tier[i]][i] # NoFile
    BY <1>4, <2>1, Zenon DEF KInv, SealedOk
  <2>3. demoter.pc = "switch" => tier[demoter.id] + 1 \in Tiers /\ demoter.id \in packs /\ hint[tier[demoter.id] + 1][demoter.id] # NoFile
    BY <1>2 DEF PInv, DemoterOk, KInv, SealedOk
  <2>4. demoter.pc = "switch" => g[tier[demoter.id] + 1][demoter.id] # NoFile
    BY <1>4, <2>1, <2>3, Zenon
  <2> QED BY <1>2, <2>2, <2>4, Zenon DEF SealedOk
<1>6. ASSUME NEW j \in Keys, outages' = 0, promised'[j] # 0 PROVE StandsAtIndex(j)'
  <2>1. index[j].id # 0
    BY <1>2, <1>6, Zenon DEF KInv, StandsAtIndex
  <2> QED BY <1>2, <1>4, <1>6, <2>1, Zenon DEF StandsAtIndex
<1> QED BY <1>2, <1>4, <1>5, <1>6, Zenon DEF KInv

----------------------------------------------------------------------------
(* Removals *)

\* An unchanged file is part of what was there.
LEMMA SamePart ==
  ASSUME NEW p \in [Tiers -> [Ids -> Files \cup {NoFile}]], NEW q, NEW t \in Tiers, NEW u \in Tiers, NEW i \in Ids,
         p[u][i] # NoFile, q[t][i] = p[u][i]
  PROVE  PartOf(q, p, t, i)
<1>1. Whole(p[u][i]) \in Nat
  BY WholeAt, Zenon
<1>2. Whole(q[t][i]) <= Whole(p[u][i])
  BY <1>1
<1> QED BY <1>2, Zenon DEF PartOf

\* Some places of q are those of p, the others are empty.
Less(q, p) == \A t \in Tiers, i \in Ids : q[t][i] = p[t][i] \/ q[t][i] = NoFile

LEMMA AgedLess ==
  ASSUME NEW p \in [Tiers -> [Ids -> Files \cup {NoFile}]], NEW q \in [Tiers -> [Ids -> Files \cup {NoFile}]],
         NEW n, Aged(p, n), Less(q, p)
  PROVE  Aged(q, n)
<1>1. ASSUME NEW t \in Tiers, NEW i \in Ids, q[t][i] # NoFile PROVE PartOf(q, p, t, i)
  <2>1. q[t][i] = p[t][i] /\ p[t][i] # NoFile
    BY <1>1, Zenon DEF Less
  <2> QED BY <2>1, SamePart, Zenon
<1> QED BY <1>1, AgedPart

LEMMA StandsLess ==
  ASSUME NEW p, NEW q, NEW h, NEW g, Less(q, p), Less(g, h), NEW k, NEW i \in Ids, NEW o, NEW n,
         Stands(p, h, k, i, o, n), \E t \in Tiers : q[t][i] # NoFile
  PROVE  Stands(q, g, k, i, o, n)
<1>1. ASSUME NEW t \in Tiers, q[t][i] # NoFile
      PROVE  o \in 1..Whole(q[t][i]) /\ q[t][i][o].key = k /\ q[t][i][o].no >= n
  <2>1. q[t][i] = p[t][i]
    BY <1>1, Zenon DEF Less
  <2> QED BY <1>1, <2>1, Zenon DEF Stands
<1>2. ASSUME NEW t \in Tiers, g[t][i] # NoFile PROVE <<k, o>> \in g[t][i]
  <2>1. g[t][i] = h[t][i]
    BY <1>2, Zenon DEF Less
  <2> QED BY <1>2, <2>1, Zenon DEF Stands
<1> QED BY <1>1, <1>2, Zenon DEF Stands

LEMMA HintsLess == ASSUME NEW h, NEW g, OneHint(h), Less(g, h) PROVE OneHint(g)
<1>1. \A t \in Tiers, i \in Ids : g[t][i] # NoFile => \E u \in Tiers : g[t][i] = h[u][i]
  BY Zenon DEF Less
<1> QED BY <1>1, CopiedHints, Zenon

\* What Remove does to one place and leaves in the others.
LEMMA RemoveAt ==
  ASSUME NEW S, NEW f \in [Tiers -> [Ids -> S]], NoFile \in S, NEW t \in Tiers, NEW i \in Ids
  PROVE  /\ Remove(f, t, i) \in [Tiers -> [Ids -> S]] /\ Remove(f, t, i)[t][i] = NoFile
         /\ Less(Remove(f, t, i), f) /\ SameElsewhere(Remove(f, t, i), f, t, i)
<1>1. PICK e : e = Remove(f, t, i)
  BY Zenon
<1>2. e \in [Tiers -> [Ids -> S]] /\ e[t][i] = NoFile /\ \A u \in Tiers, j \in Ids : u # t \/ j # i => e[u][j] = f[u][j]
  BY <1>1, Zenon DEF Remove
<1>3. Less(e, f) /\ SameElsewhere(e, f, t, i)
  BY <1>2, Zenon DEF Less, SameElsewhere
<1> QED BY <1>1, <1>2, <1>3, Zenon

\* The same for the files of the store.
LEMMA RemovedFile ==
  ASSUME PInv, NEW t \in Tiers, NEW i \in Ids, NEW q, q = Remove(pack, t, i)
  PROVE  /\ q \in [Tiers -> [Ids -> Files \cup {NoFile}]] /\ q[t][i] = NoFile /\ Less(q, pack)
         /\ SameElsewhere(q, pack, t, i)
<1>1. PICK S : S = Files \cup {NoFile}
  BY Zenon
<1>2. pack \in [Tiers -> [Ids -> S]] /\ NoFile \in S
  BY <1>1, Zenon DEF PInv, DiskOk
<1>3. q \in [Tiers -> [Ids -> S]] /\ q[t][i] = NoFile /\ Less(q, pack) /\ SameElsewhere(q, pack, t, i)
  BY <1>2, RemoveAt
<1> QED BY <1>1, <1>3, Zenon

LEMMA RemovedHint ==
  ASSUME PInv, NEW t \in Tiers, NEW i \in Ids, NEW g, g = Remove(hint, t, i)
  PROVE  Less(g, hint) /\ SameElsewhere(g, hint, t, i)
<1>1. hint \in [Tiers -> [Ids -> Hints \cup {NoFile}]] /\ NoFile \in Hints \cup {NoFile}
  BY Zenon DEF PInv, DiskOk
<1> QED BY <1>1, RemoveAt, Zenon

\* Pack i leaves tier t, its hint too or not: the disk stays ordered and sealed.
LEMMA RemoveKeeps ==
  ASSUME PInv, KInv, NEW t \in Tiers, NEW i \in Ids, NEW q, q = Remove(pack, t, i),
         NEW g, g = hint \/ g = Remove(hint, t, i), \A u \in Tiers : First(q, u, i) => hint[u][i] # NoFile
  PROVE  /\ Aged(q, puts) /\ LastUnsealed(q, g) /\ (outages = 0 => OneHint(g))
         /\ q[t][i] = NoFile /\ SameElsewhere(q, pack, t, i) /\ SameElsewhere(g, hint, t, i)
         /\ Less(q, pack) /\ Less(g, hint)
<1>1. /\ pack \in [Tiers -> [Ids -> Files \cup {NoFile}]] /\ hint \in [Tiers -> [Ids -> Hints \cup {NoFile}]]
      /\ Aged(pack, puts) /\ LastUnsealed(pack, hint) /\ (outages = 0 => OneHint(hint))
  BY Zenon DEF PInv, DiskOk, KInv
<1>2. /\ q \in [Tiers -> [Ids -> Files \cup {NoFile}]] /\ q[t][i] = NoFile /\ Less(q, pack)
      /\ SameElsewhere(q, pack, t, i)
  BY RemovedFile, Zenon
<1>3. Less(g, hint) /\ SameElsewhere(g, hint, t, i)
  <2>1. CASE g = hint
    BY <2>1, Zenon DEF Less, SameElsewhere
  <2>2. CASE g = Remove(hint, t, i)
    BY <2>2, RemovedHint, Zenon
  <2> QED BY <2>1, <2>2, Zenon
<1>4. Aged(q, puts)
  BY <1>1, <1>2, AgedLess, Zenon
<1>5. LastUnsealed(q, g)
  BY <1>1, <1>2, <1>3, RemoveSealed
<1>6. outages = 0 => OneHint(g)
  BY <1>1, <1>3, HintsLess, Zenon
<1> QED BY <1>2, <1>3, <1>4, <1>5, <1>6, Zenon

\* The pack the demoter works on.
LEMMA DemotedPack ==
  ASSUME PInv, KInv, Running, demoter.pc \in {"pack", "hint", "switch"}, NEW i, i = demoter.id, NEW t, t = tier[i]
  PROVE  /\ i \in packs /\ i \in Ids /\ i # active /\ t \in Tiers /\ pack[t][i] # NoFile /\ hint[t][i] # NoFile
         /\ \A u \in Tiers : pack[u][i] # NoFile => u = t \/ (u = t + 1 /\ pack[u][i] = pack[t][i])
         /\ t + 1 # t
         /\ demoter.pc \in {"hint", "switch"} => t + 1 \in Tiers /\ pack[t + 1][i] = pack[t][i]
         /\ demoter.pc = "switch" => hint[t + 1][i] # NoFile
<1>1. /\ i \in packs /\ i # active /\ packs \subseteq Ids /\ tier \in [Ids -> Tiers]
  BY Zenon DEF PInv, MemoryOk, DemoterOk
<1>2. i \in Ids /\ t \in Tiers /\ hint[t][i] # NoFile /\ pack[t][i] # NoFile
  BY <1>1, Zenon DEF KInv, SealedOk, PInv, PlacesOk
<1>3. \A u \in Tiers : pack[u][i] # NoFile => u = t \/ (u = t + 1 /\ pack[u][i] = pack[t][i])
  BY <1>2, Zenon DEF PInv, PlacesOk
<1>4. /\ demoter.pc \in {"hint", "switch"} => t + 1 \in Tiers /\ pack[t + 1][i] = pack[t][i]
      /\ demoter.pc = "switch" => hint[t + 1][i] # NoFile
  BY Zenon DEF PInv, DemoterOk, KInv, SealedOk
<1>5. t + 1 # t
  BY <1>2, OneTier
<1> QED BY <1>1, <1>2, <1>3, <1>4, <1>5, Zenon

LEMMA EvictKept == ASSUME PInv, KInv, Evict PROVE KInv'
<1>1. PICK i, t, q, g : i = demoter.id /\ t = tier[i] /\ q = Remove(pack, t, i) /\ g = Remove(hint, t, i)
  BY Zenon
<1>2. /\ Running /\ Running' /\ demoter.pc = "pack" /\ t + 1 \notin Tiers /\ demoter'.pc = "pick"
      /\ index' = Evicted(i) /\ promised' = Unpromised(i) /\ pack' = q /\ hint' = g
      /\ packs' = packs \ {i} /\ tier' = [tier EXCEPT ![i] = 1] /\ active' = active /\ puts' = puts /\ outages' = outages
  BY <1>1 DEF Evict, Running, Last
<1>3. /\ i \in packs /\ i \in Ids /\ t \in Tiers
      /\ \A u \in Tiers : pack[u][i] # NoFile => u = t
  <2>1. demoter.pc \in {"pack", "hint", "switch"}
    BY <1>2
  <2>2. /\ i \in packs /\ i \in Ids /\ t \in Tiers
        /\ \A u \in Tiers : pack[u][i] # NoFile => u = t \/ (u = t + 1 /\ pack[u][i] = pack[t][i])
    BY <1>1, <1>2, <2>1, DemotedPack, Zenon
  <2> QED BY <1>2, <2>2, Zenon
<1>4. q[t][i] = NoFile /\ SameElsewhere(q, pack, t, i)
  BY <1>1, <1>3, RemovedFile
<1>5. \A u \in Tiers : First(q, u, i) => hint[u][i] # NoFile
  BY <1>3, <1>4, Zenon DEF First, SameElsewhere
<1>6. /\ Aged(q, puts) /\ LastUnsealed(q, g) /\ (outages = 0 => OneHint(g))
      /\ SameElsewhere(g, hint, t, i) /\ Less(q, pack) /\ Less(g, hint)
  BY <1>1, <1>3, <1>5, RemoveKeeps, SMTT(20)
<1>7. SealedOk'
  <2>1. packs \subseteq Ids /\ tier \in [Ids -> Tiers]
    BY Zenon DEF PInv, MemoryOk
  <2>2. ASSUME NEW j \in packs', j # active' PROVE hint'[tier'[j]][j] # NoFile
    <3>1. j \in packs /\ j # i /\ j \in Ids /\ tier'[j] = tier[j] /\ tier[j] \in Tiers
      BY <1>2, <2>1, <2>2, Zenon
    <3>2. hint[tier[j]][j] # NoFile
      BY <1>2, <2>2, <3>1, Zenon DEF KInv, SealedOk
    <3>3. g[tier[j]][j] = hint[tier[j]][j]
      BY <1>6, <3>1, Zenon DEF SameElsewhere
    <3> QED BY <1>2, <3>1, <3>2, <3>3, Zenon
  <2> QED BY <1>2, <2>2 DEF SealedOk
<1>8. ASSUME NEW k \in Keys PROVE promised'[k] = IF index[k].id = i THEN 0 ELSE promised[k]
  BY <1>2, Zenon DEF Unpromised
<1>9. promised' \in [Keys -> Nat] /\ outages' \in Nat
  BY <1>2 DEF KInv, Unpromised
<1>10. ASSUME NEW k \in Keys, outages' = 0, promised'[k] # 0 PROVE StandsAtIndex(k)'
  <2>1. index[k].id # i /\ promised'[k] = promised[k] /\ promised[k] # 0
    BY <1>8, <1>10, Zenon
  <2>2. index'[k] = index[k]
    BY <1>2, <2>1, Zenon DEF Evicted
  <2>3. PICK j, o : j = index[k].id /\ o = index[k].off
    BY Zenon
  <2>4. j \in Ids /\ j # i /\ Stands(pack, hint, k, j, o, promised[k])
    BY <1>2, <1>10, <2>1, <2>3, IndexPlace, Zenon
  <2>5. \E u \in Tiers : q[u][j] # NoFile
    <3>1. PICK u \in Tiers : pack[u][j] # NoFile
      BY <2>4, Zenon DEF Stands
    <3>2. q[u][j] = pack[u][j]
      BY <1>4, <2>4, Zenon DEF SameElsewhere
    <3> QED BY <3>1, <3>2, Zenon
  <2>6. Stands(q, g, k, j, o, promised[k])
    BY <1>6, <2>4, <2>5, StandsLess, Zenon
  <2>7. j # 0
    BY <2>4, OneTier, Zenon
  <2> QED BY <1>2, <2>1, <2>2, <2>3, <2>6, <2>7, Zenon DEF StandsAtIndex
<1>11. Aged(pack', puts') /\ LastUnsealed(pack', hint') /\ (outages' = 0 => OneHint(hint'))
  BY <1>2, <1>6, Zenon
<1> QED BY <1>2, <1>7, <1>9, <1>10, <1>11, Zenon DEF KInv

LEMMA SwitchKept == ASSUME PInv, KInv, Switch PROVE KInv'
<1>1. PICK i, t, q, g : i = demoter.id /\ t = tier[i] /\ q = Remove(pack, t, i) /\ g = Remove(hint, t, i)
  BY Zenon
<1>2. /\ Running /\ Running' /\ demoter.pc = "switch" /\ demoter'.pc = "pick"
      /\ index' = index /\ promised' = promised /\ pack' = q /\ hint' = g
      /\ packs' = packs /\ tier' = [tier EXCEPT ![i] = t + 1] /\ active' = active /\ puts' = puts /\ outages' = outages
  BY <1>1 DEF Switch, Running
<1>3. /\ i \in packs /\ i \in Ids /\ t \in Tiers /\ t + 1 \in Tiers /\ t + 1 # t
      /\ pack[t + 1][i] = pack[t][i] /\ pack[t][i] # NoFile /\ hint[t + 1][i] # NoFile
      /\ \A u \in Tiers : pack[u][i] # NoFile => u = t \/ (u = t + 1 /\ pack[u][i] = pack[t][i])
  <2>1. demoter.pc \in {"pack", "hint", "switch"} /\ demoter.pc \in {"hint", "switch"}
    BY <1>2
  <2>2. /\ i \in packs /\ i \in Ids /\ t \in Tiers /\ t + 1 \in Tiers /\ t + 1 # t
        /\ pack[t + 1][i] = pack[t][i] /\ pack[t][i] # NoFile /\ hint[t + 1][i] # NoFile
    BY <1>1, <1>2, <2>1, DemotedPack, Zenon
  <2>3. \A u \in Tiers : pack[u][i] # NoFile => u = t \/ (u = t + 1 /\ pack[u][i] = pack[t][i])
    BY <1>1, <1>2, <2>2, Zenon DEF PInv, PlacesOk
  <2> QED BY <2>2, <2>3, Zenon
<1>4. q[t][i] = NoFile /\ SameElsewhere(q, pack, t, i)
  BY <1>1, <1>3, RemovedFile
<1>5. \A u \in Tiers : First(q, u, i) => hint[u][i] # NoFile
  BY <1>3, <1>4, Zenon DEF First, SameElsewhere
<1>6. /\ Aged(q, puts) /\ LastUnsealed(q, g) /\ (outages = 0 => OneHint(g))
      /\ SameElsewhere(g, hint, t, i) /\ Less(q, pack) /\ Less(g, hint)
  BY <1>1, <1>3, <1>5, RemoveKeeps
<1>7. SealedOk'
  <2>1. packs \subseteq Ids /\ tier \in [Ids -> Tiers]
    BY Zenon DEF PInv, MemoryOk
  <2>2. ASSUME NEW j \in packs', j # active' PROVE hint'[tier'[j]][j] # NoFile
    <3>1. CASE j = i
      <4>1. tier'[j] = t + 1
        BY <1>2, <1>3, <2>1, <3>1, Zenon
      <4>2. g[t + 1][i] = hint[t + 1][i]
        BY <1>3, <1>6, Zenon DEF SameElsewhere
      <4> QED BY <1>2, <1>3, <3>1, <4>1, <4>2, Zenon
    <3>2. CASE j # i
      <4>1. j \in packs /\ j \in Ids /\ tier'[j] = tier[j] /\ tier[j] \in Tiers
        BY <1>2, <2>1, <2>2, <3>2, Zenon
      <4>2. hint[tier[j]][j] # NoFile
        BY <1>2, <2>2, <4>1, Zenon DEF KInv, SealedOk
      <4>3. g[tier[j]][j] = hint[tier[j]][j]
        BY <1>6, <3>2, <4>1, Zenon DEF SameElsewhere
      <4> QED BY <1>2, <4>1, <4>2, <4>3, Zenon
    <3> QED BY <3>1, <3>2, Zenon
  <2> QED BY <1>2, <2>2 DEF SealedOk
<1>8. promised' \in [Keys -> Nat] /\ outages' \in Nat
  BY <1>2, Zenon DEF KInv
<1>9. ASSUME NEW k \in Keys, outages' = 0, promised'[k] # 0 PROVE StandsAtIndex(k)'
  <2>1. PICK j, o : j = index[k].id /\ o = index[k].off
    BY Zenon
  <2>2. j \in Ids /\ Stands(pack, hint, k, j, o, promised[k])
    BY <1>2, <1>9, <2>1, IndexPlace, Zenon
  <2>3. \E u \in Tiers : q[u][j] # NoFile
    <3>1. CASE j = i
      <4>1. q[t + 1][i] = pack[t + 1][i]
        BY <1>3, <1>4, Zenon DEF SameElsewhere
      <4> QED BY <1>3, <3>1, <4>1, Zenon
    <3>2. CASE j # i
      <4>1. PICK u \in Tiers : pack[u][j] # NoFile
        BY <2>2, Zenon DEF Stands
      <4>2. q[u][j] = pack[u][j]
        BY <1>4, <2>2, <3>2, Zenon DEF SameElsewhere
      <4> QED BY <4>1, <4>2, Zenon
    <3> QED BY <3>1, <3>2, Zenon
  <2>4. Stands(q, g, k, j, o, promised[k])
    BY <1>6, <2>2, <2>3, StandsLess, Zenon
  <2>5. j # 0
    BY <2>2, OneTier, Zenon
  <2> QED BY <1>2, <2>1, <2>4, <2>5, Zenon DEF StandsAtIndex
<1>10. Aged(pack', puts') /\ LastUnsealed(pack', hint') /\ (outages' = 0 => OneHint(hint'))
  BY <1>2, <1>6, Zenon
<1> QED BY <1>2, <1>7, <1>8, <1>9, <1>10, Zenon DEF KInv

----------------------------------------------------------------------------
(* Copies *)

\* Each place of q holds what p has for the pack in some tier.
Copies(q, p) == \A t \in Tiers, i \in Ids : q[t][i] # NoFile => \E u \in Tiers : q[t][i] = p[u][i]

LEMMA AgedCopies ==
  ASSUME NEW p \in [Tiers -> [Ids -> Files \cup {NoFile}]], NEW q \in [Tiers -> [Ids -> Files \cup {NoFile}]],
         NEW n, Aged(p, n), Copies(q, p)
  PROVE  Aged(q, n)
<1>1. ASSUME NEW t \in Tiers, NEW i \in Ids, q[t][i] # NoFile PROVE PartOf(q, p, t, i)
  <2>1. PICK u \in Tiers : q[t][i] = p[u][i]
    BY <1>1, Zenon DEF Copies
  <2> QED BY <1>1, <2>1, SamePart, Zenon
<1> QED BY <1>1, AgedPart

LEMMA StandsCopies ==
  ASSUME NEW p, NEW q, NEW h, NEW g, Copies(q, p), Copies(g, h), NEW k, NEW i \in Ids, NEW o, NEW n,
         Stands(p, h, k, i, o, n), \E t \in Tiers : q[t][i] # NoFile
  PROVE  Stands(q, g, k, i, o, n)
<1>1. ASSUME NEW t \in Tiers, q[t][i] # NoFile
      PROVE  o \in 1..Whole(q[t][i]) /\ q[t][i][o].key = k /\ q[t][i][o].no >= n
  <2>1. PICK u \in Tiers : q[t][i] = p[u][i]
    BY <1>1, Zenon DEF Copies
  <2> QED BY <1>1, <2>1, Zenon DEF Stands
<1>2. ASSUME NEW t \in Tiers, g[t][i] # NoFile PROVE <<k, o>> \in g[t][i]
  <2>1. PICK u \in Tiers : g[t][i] = h[u][i]
    BY <1>2, Zenon DEF Copies
  <2> QED BY <1>2, <2>1, Zenon DEF Stands
<1> QED BY <1>1, <1>2, Zenon DEF Stands

\* Files of a sealed pack appear in tier u, below the one it is first in.
LEMMA CopySealed ==
  ASSUME NEW p, NEW h, NEW q, NEW g, LastUnsealed(p, h), NEW t \in Tiers, NEW u \in Tiers, NEW i \in Ids, t < u,
         First(p, t, i), h[t][i] # NoFile, SameElsewhere(q, p, u, i), SameElsewhere(g, h, u, i)
  PROVE  LastUnsealed(q, g)
<1>1. t # u /\ t \in Nat /\ u \in Nat
  BY OneTier
<1>2. q[t][i] = p[t][i] /\ g[t][i] = h[t][i] /\ p[t][i] # NoFile
  BY <1>1, Zenon DEF SameElsewhere, First
<1>3. ASSUME NEW v \in Tiers, NEW j \in Ids, First(q, v, j), g[v][j] = NoFile
      PROVE  /\ \A w \in Tiers : g[w][j] = NoFile /\ (w # v => q[w][j] = NoFile)
             /\ \A w \in Tiers, m \in Ids : q[w][m] # NoFile => m <= j
  <2>1. j # i
    <3>1. SUFFICES ASSUME j = i PROVE FALSE
      BY Zenon
    <3>2. v <= t
      BY <1>2, <1>3, <3>1, Zenon DEF First
    <3>3. v # u
      BY <1>1, <3>2
    <3>4. p[v][i] # NoFile
      BY <1>3, <3>1, <3>3, Zenon DEF First, SameElsewhere
    <3>5. t <= v
      BY <3>4, Zenon DEF First
    <3>6. v = t
      BY <3>2, <3>5, OneTier
    <3> QED BY <1>2, <1>3, <3>1, <3>6, Zenon
  <2>2. \A w \in Tiers : g[w][j] = h[w][j] /\ q[w][j] = p[w][j]
    BY <2>1, Zenon DEF SameElsewhere
  <2>3. First(p, v, j) /\ h[v][j] = NoFile
    BY <1>3, <2>2, Zenon DEF First
  <2>4. ASSUME NEW w \in Tiers, NEW m \in Ids, q[w][m] # NoFile PROVE m <= j
    <3>1. CASE w = u /\ m = i
      BY <1>2, <2>3, <3>1, Zenon DEF LastUnsealed
    <3>2. CASE w # u \/ m # i
      <4>1. p[w][m] # NoFile
        BY <2>4, <3>2, Zenon DEF SameElsewhere
      <4> QED BY <2>3, <4>1, Zenon DEF LastUnsealed
    <3> QED BY <3>1, <3>2, Zenon
  <2>5. \A w \in Tiers : h[w][j] = NoFile /\ (w # v => p[w][j] = NoFile)
    BY <2>3, Zenon DEF LastUnsealed
  <2> QED BY <2>2, <2>4, <2>5, Zenon
<1> QED BY <1>3, Zenon DEF LastUnsealed

\* The demoter copies a file of its pack to the next tier.
LEMMA CopyKept ==
  ASSUME PInv, KInv, Running, Running', demoter.pc \in {"pack", "hint", "switch"}, NEW i, i = demoter.id,
         NEW t, t = tier[i], NEW u \in Tiers, u = t + 1,
         NEW q \in [Tiers -> [Ids -> Files \cup {NoFile}]], NEW g, pack' = q, hint' = g,
         Copies(q, pack), Copies(g, hint), SameElsewhere(q, pack, u, i), SameElsewhere(g, hint, u, i),
         index' = index, packs' = packs, tier' = tier, active' = active, puts' = puts, outages' = outages,
         promised' = promised,
         demoter'.pc = "switch" => demoter'.id = i /\ g[u][i] # NoFile
  PROVE  KInv'
<1>1. /\ i \in packs /\ i \in Ids /\ t \in Tiers /\ t # u /\ pack[t][i] # NoFile /\ hint[t][i] # NoFile
      /\ \A v \in Tiers : pack[v][i] # NoFile => v = t \/ v = t + 1
  <2>1. i \in packs /\ i \in Ids /\ t \in Tiers /\ t + 1 # t /\ pack[t][i] # NoFile /\ hint[t][i] # NoFile
    BY DemotedPack, Zenon
  <2>2. \A v \in Tiers : pack[v][i] # NoFile => v = t \/ v = t + 1
    BY <2>1, Zenon DEF PInv, PlacesOk
  <2> QED BY <2>1, <2>2, Zenon
<1>2. /\ pack \in [Tiers -> [Ids -> Files \cup {NoFile}]] /\ Aged(pack, puts) /\ LastUnsealed(pack, hint)
      /\ packs \subseteq Ids /\ tier \in [Ids -> Tiers]
  BY Zenon DEF PInv, DiskOk, KInv, MemoryOk
<1>3. t < u /\ First(pack, t, i)
  <2>1. t < u /\ t \in Nat
    BY <1>1, OneTier
  <2>2. \A v \in Tiers : v = t \/ v = t + 1 => t <= v
    BY <2>1
  <2> QED BY <1>1, <2>1, <2>2, Zenon DEF First
<1>4. Aged(q, puts)
  BY <1>2, AgedCopies, Zenon
<1>5. LastUnsealed(q, g)
  BY <1>1, <1>2, <1>3, CopySealed, Zenon
<1>6. outages = 0 => OneHint(g)
  BY CopiedHints, Zenon DEF KInv, Copies
<1>7. ASSUME NEW v \in Tiers, NEW j \in Ids, v # u \/ j # i PROVE q[v][j] = pack[v][j] /\ g[v][j] = hint[v][j]
  BY <1>7, Zenon DEF SameElsewhere
<1>8. SealedOk'
  <2>1. ASSUME NEW j \in packs, j # active PROVE g[tier[j]][j] # NoFile
    <3>1. j \in Ids /\ tier[j] \in Tiers /\ (tier[j] # u \/ j # i)
      BY <1>1, <1>2, Zenon
    <3> QED BY <1>7, <2>1, <3>1, Zenon DEF KInv, SealedOk
  <2> QED BY <2>1, Zenon DEF SealedOk
<1>9. promised' \in [Keys -> Nat] /\ outages' \in Nat
  BY Zenon DEF KInv
<1>10. ASSUME NEW k \in Keys, outages' = 0, promised'[k] # 0 PROVE StandsAtIndex(k)'
  <2>1. PICK j, o : j = index[k].id /\ o = index[k].off
    BY Zenon
  <2>2. j \in Ids /\ Stands(pack, hint, k, j, o, promised[k])
    BY <1>10, <2>1, IndexPlace, Zenon
  <2>3. PICK v \in Tiers : pack[v][j] # NoFile
    BY <2>2, Zenon DEF Stands
  <2>4. \E w \in Tiers : q[w][j] # NoFile
    <3>1. CASE j = i
      <4>1. q[t][i] = pack[t][i]
        BY <1>1, <1>7, Zenon
      <4> QED BY <1>1, <3>1, <4>1, Zenon
    <3>2. CASE j # i
      BY <1>7, <2>2, <2>3, <3>2, Zenon
    <3> QED BY <3>1, <3>2, Zenon
  <2>5. Stands(q, g, k, j, o, promised[k])
    BY <2>2, <2>4, StandsCopies, Zenon
  <2>6. j # 0
    BY <2>2, OneTier, Zenon
  <2> QED BY <2>1, <2>5, <2>6, Zenon DEF StandsAtIndex
<1>11. Aged(pack', puts') /\ LastUnsealed(pack', hint') /\ (outages' = 0 => OneHint(hint'))
  BY <1>4, <1>5, <1>6, Zenon
<1> QED BY <1>8, <1>9, <1>10, <1>11, Zenon DEF KInv

LEMMA MovePackKept == ASSUME PInv, KInv, MovePack PROVE KInv'
<1>1. PICK i, t, u, q, g : i = demoter.id /\ t = tier[i] /\ u = t + 1 /\ q = pack' /\ g = hint
  BY Zenon
<1>2. /\ Running /\ Running' /\ demoter.pc \in {"pack", "hint", "switch"} /\ u \in Tiers /\ hint' = g /\ index' = index
      /\ packs' = packs /\ tier' = tier /\ active' = active /\ puts' = puts /\ outages' = outages /\ promised' = promised
      /\ demoter' = [demoter EXCEPT !.pc = "hint"]
  BY <1>1, Zenon DEF MovePack, Last, Running, memory
<1>3. /\ i \in Ids /\ t \in Tiers /\ pack[t][i] # NoFile /\ t + 1 # t
      /\ pack \in [Tiers -> [Ids -> Files \cup {NoFile}]]
  BY <1>1, <1>2, DemotedPack, Zenon DEF PInv, DiskOk
<1>4. PICK s \in {pack[t][i], pack[u][i]} : q = [pack EXCEPT ![u][i] = s]
  <2>1. q = [pack EXCEPT ![u][i] = IF @ = NoFile THEN pack[t][i] ELSE @]
    BY <1>1, Zenon DEF MovePack, Moved
  <2>2. CASE pack[u][i] = NoFile
    BY <1>2, <1>3, <2>1, <2>2, Zenon
  <2>3. CASE pack[u][i] # NoFile
    BY <1>2, <1>3, <2>1, <2>3, Zenon
  <2> QED BY <2>2, <2>3, Zenon
<1>5. PICK S : S = Files \cup {NoFile}
  BY Zenon
<1>6. s \in S /\ pack \in [Tiers -> [Ids -> S]]
  BY <1>2, <1>3, <1>4, <1>5, SMTT(20)
<1>7. q \in [Tiers -> [Ids -> S]] /\ q[u][i] = s /\ SameElsewhere(q, pack, u, i)
  BY <1>2, <1>3, <1>4, <1>6, SetAt, SMTT(20) DEF SameElsewhere
<1>8. Copies(q, pack)
  BY <1>2, <1>3, <1>4, <1>7, Zenon DEF Copies, SameElsewhere
<1>9. Copies(g, hint) /\ SameElsewhere(g, hint, u, i)
  BY <1>1, Zenon DEF Copies, SameElsewhere
<1>10. demoter'.pc # "switch"
  BY <1>2, Zenon DEF PInv, MemoryOk
<1>11. pack' = q /\ q \in [Tiers -> [Ids -> Files \cup {NoFile}]]
  BY <1>1, <1>5, <1>7, Zenon
<1> QED BY <1>1, <1>2, <1>8, <1>7, <1>9, <1>10, <1>11, CopyKept, Zenon

LEMMA MoveHintKept == ASSUME PInv, KInv, MoveHint PROVE KInv'
<1>1. PICK i, t, u, q, g : i = demoter.id /\ t = tier[i] /\ u = t + 1 /\ q = pack /\ g = hint'
  BY Zenon
<1>2. /\ Running /\ Running' /\ demoter.pc = "hint" /\ pack' = q /\ index' = index
      /\ packs' = packs /\ tier' = tier /\ active' = active /\ puts' = puts /\ outages' = outages /\ promised' = promised
      /\ demoter' = [demoter EXCEPT !.pc = "switch"]
  BY <1>1, Zenon DEF MoveHint, Running, memory
<1>3. demoter.pc \in {"pack", "hint", "switch"} /\ demoter.pc \in {"hint", "switch"}
  BY <1>2
<1>4. /\ i \in Ids /\ t \in Tiers /\ hint[t][i] # NoFile /\ t + 1 # t /\ u \in Tiers
      /\ hint \in [Tiers -> [Ids -> Hints \cup {NoFile}]]
  BY <1>1, <1>2, <1>3, DemotedPack, Zenon DEF PInv, DiskOk
<1>5. PICK x \in {hint[t][i], hint[u][i]} : x # NoFile /\ g = [hint EXCEPT ![u][i] = x]
  <2>1. g = [hint EXCEPT ![u][i] = IF @ = NoFile THEN hint[t][i] ELSE @]
    BY <1>1, Zenon DEF MoveHint, Moved
  <2>2. CASE hint[u][i] = NoFile
    BY <1>4, <2>1, <2>2, Zenon
  <2>3. CASE hint[u][i] # NoFile
    BY <1>4, <2>1, <2>3, Zenon
  <2> QED BY <2>2, <2>3, Zenon
<1>6. PICK S : S = Hints \cup {NoFile}
  BY Zenon
<1>7. x \in S /\ hint \in [Tiers -> [Ids -> S]]
  BY <1>4, <1>5, <1>6
<1>8. g[u][i] = x /\ SameElsewhere(g, hint, u, i)
  BY <1>4, <1>5, <1>7, SetAt DEF SameElsewhere
<1>9. Copies(g, hint)
  BY <1>4, <1>5, <1>8, Zenon DEF Copies, SameElsewhere
<1>10. Copies(q, pack) /\ SameElsewhere(q, pack, u, i)
  BY <1>1, Zenon DEF Copies, SameElsewhere
<1>11. demoter'.id = i /\ g[u][i] # NoFile /\ g = hint'
  BY <1>1, <1>2, <1>5, <1>8, Zenon DEF PInv, MemoryOk
<1>12. q \in [Tiers -> [Ids -> Files \cup {NoFile}]]
  BY <1>1, Zenon DEF PInv, DiskOk
<1> QED BY <1>1, <1>2, <1>3, <1>4, <1>8, <1>9, <1>10, <1>11, <1>12, CopyKept, Zenon

----------------------------------------------------------------------------
(* Stops with a half-done removal, and losses of power *)

\* A file loses its end.
Front(s, r) == s \in Files /\ Whole(s) <= Whole(r) /\ \A o \in 1..Whole(s) : s[o] = r[o]

LEMMA ShortenedKeeps ==
  ASSUME PInv, KInv, NEW t \in Tiers, NEW i \in Ids, pack[t][i] # NoFile, NEW s, Front(s, pack[t][i]),
         NEW q, q = [pack EXCEPT ![t][i] = s]
  PROVE  /\ q \in [Tiers -> [Ids -> Files \cup {NoFile}]] /\ q[t][i] = s /\ SameElsewhere(q, pack, t, i)
         /\ Aged(q, puts) /\ SamePlaces(q, pack)
<1>1. pack \in [Tiers -> [Ids -> Files \cup {NoFile}]] /\ Aged(pack, puts)
  BY Zenon DEF PInv, DiskOk, KInv
<1>2. q \in [Tiers -> [Ids -> Files \cup {NoFile}]] /\ q[t][i] = s /\ SameElsewhere(q, pack, t, i)
  <2>1. PICK S : S = Files \cup {NoFile}
    BY Zenon
  <2>2. pack \in [Tiers -> [Ids -> S]] /\ s \in S
    BY <1>1, <2>1, Zenon DEF Front
  <2>3. q \in [Tiers -> [Ids -> S]] /\ q[t][i] = s /\ SameElsewhere(q, pack, t, i)
    BY <2>2, SetAt DEF SameElsewhere
  <2> QED BY <2>1, <2>3, Zenon
<1>3. ASSUME NEW u \in Tiers, NEW j \in Ids, q[u][j] # NoFile PROVE PartOf(q, pack, u, j)
  <2>1. CASE u = t /\ j = i
    BY <1>2, <2>1, Zenon DEF PartOf, Front
  <2>2. CASE u # t \/ j # i
    <3>1. q[u][j] = pack[u][j]
      BY <1>2, <2>2, Zenon DEF SameElsewhere
    <3> QED BY <1>1, <1>3, <3>1, SamePart, Zenon
  <2> QED BY <2>1, <2>2, Zenon
<1>4. Aged(q, puts)
  BY <1>1, <1>2, <1>3, AgedPart, Zenon
<1>5. s # NoFile
  BY NoFileIsNone, Zenon DEF Front
<1>6. ASSUME NEW u \in Tiers, NEW j \in Ids PROVE q[u][j] = NoFile <=> pack[u][j] = NoFile
  BY <1>2, <1>5, Zenon DEF SameElsewhere
<1> QED BY <1>2, <1>4, <1>6, Zenon DEF SamePlaces

\* A file loses only a torn record: what stands does so still.
LEMMA CutStands ==
  ASSUME NEW p \in [Tiers -> [Ids -> Files \cup {NoFile}]], NEW q \in [Tiers -> [Ids -> Files \cup {NoFile}]],
         NEW t \in Tiers, NEW i \in Ids, SameElsewhere(q, p, t, i), p[t][i] # NoFile, q[t][i] # NoFile,
         Front(q[t][i], p[t][i]), Whole(q[t][i]) = Whole(p[t][i]),
         NEW h, NEW k, NEW j \in Ids, NEW o, NEW n, Stands(p, h, k, j, o, n)
  PROVE  Stands(q, h, k, j, o, n)
<1>1. ASSUME NEW u \in Tiers, q[u][j] # NoFile
      PROVE  o \in 1..Whole(q[u][j]) /\ q[u][j][o].key = k /\ q[u][j][o].no >= n
  <2>1. CASE u = t /\ j = i
    <3>1. o \in 1..Whole(p[t][i]) /\ p[t][i][o].key = k /\ p[t][i][o].no >= n
      BY <2>1, Zenon DEF Stands
    <3> QED BY <2>1, <3>1, Zenon DEF Front
  <2>2. CASE u # t \/ j # i
    <3>1. q[u][j] = p[u][j]
      BY <2>2, Zenon DEF SameElsewhere
    <3> QED BY <1>1, <3>1, Zenon DEF Stands
  <2> QED BY <2>1, <2>2, Zenon
<1>2. PICK u \in Tiers : p[u][j] # NoFile
  BY Zenon DEF Stands
<1>3. q[u][j] # NoFile
  BY <1>2, Zenon DEF SameElsewhere
<1>4. \A v \in Tiers : h[v][j] # NoFile => <<k, o>> \in h[v][j]
  BY Zenon DEF Stands
<1> QED BY <1>1, <1>3, <1>4, Zenon DEF Stands

\* OpenStore comes to pack i again: what it has loaded is in a tier above, and sealed.
LEMMA SecondCopy ==
  ASSUME PInv, KInv, main = "opening", NEW t \in Tiers, NEW i \in Ids, i \in packs, Before(cursor, <<t, i>>),
         NEW q, q = Remove(pack, t, i)
  PROVE  /\ tier[i] \in Tiers /\ tier[i] # t /\ q[tier[i]][i] # NoFile
         /\ \A u \in Tiers : First(q, u, i) => hint[u][i] # NoFile
<1>1. PICK v : v = tier[i]
  BY Zenon
<1>2. /\ v \in Tiers /\ pack[v][i] # NoFile /\ ~Before(cursor, <<v, i>>) /\ v # t
      /\ cursor \in Tiers \X Nat
  BY <1>1, Zenon DEF PInv, Walked, MemoryOk
<1>3. q[t][i] = NoFile /\ SameElsewhere(q, pack, t, i)
  BY RemovedFile, Zenon
<1>4. q[v][i] # NoFile
  BY <1>2, <1>3, Zenon DEF SameElsewhere
<1>5. hint[v][i] # NoFile
  <2>1. active = 0 /\ i # 0
    BY OneTier, Zenon DEF PInv, Running, Asleep
  <2> QED BY <1>1, <2>1, Zenon DEF KInv, SealedOk
<1>6. ASSUME NEW u \in Tiers, First(q, u, i) PROVE u = v
  <2>1. u <= v /\ q[u][i] # NoFile
    BY <1>2, <1>4, <1>6, Zenon DEF First
  <2>2. pack[u][i] # NoFile
    BY <1>3, <2>1, Zenon DEF SameElsewhere
  <2>3. ~Before(cursor, <<u, i>>)
    <3>1. PICK c \in Tiers, d \in Nat : cursor = <<c, d>>
      BY <1>2
    <3>2. c \in Nat /\ u \in Nat /\ v \in Nat /\ i \in Nat
      BY <1>2, OneTier, Zenon
    <3>3. ~(c < v \/ (c = v /\ d < i))
      BY <1>2, <3>1 DEF Before
    <3>4. ~(c < u \/ (c = u /\ d < i))
      BY <2>1, <3>2, <3>3
    <3> QED BY <3>1, <3>4 DEF Before
  <2> QED BY <1>1, <2>2, <2>3, Zenon DEF PInv, Walked
<1> QED BY <1>1, <1>2, <1>4, <1>5, <1>6, Zenon

LEMMA SecondCopyStands ==
  ASSUME PInv, KInv, main = "opening", NEW t \in Tiers, NEW i \in Ids, i \in packs, Before(cursor, <<t, i>>),
         NEW q, q = Remove(pack, t, i), NEW g, g = hint \/ g = Remove(hint, t, i),
         NEW k, NEW j \in Ids, NEW o, NEW n, Stands(pack, hint, k, j, o, n)
  PROVE  Stands(q, g, k, j, o, n)
<1>1. tier[i] \in Tiers /\ q[tier[i]][i] # NoFile /\ \A u \in Tiers : First(q, u, i) => hint[u][i] # NoFile
  BY SecondCopy, SMTT(20)
<1>2. Less(q, pack) /\ Less(g, hint) /\ SameElsewhere(q, pack, t, i)
  BY <1>1, RemoveKeeps
<1>3. \E u \in Tiers : q[u][j] # NoFile
  <2>1. CASE j = i
    BY <1>1, <2>1, Zenon
  <2>2. CASE j # i
    <3>1. PICK u \in Tiers : pack[u][j] # NoFile
      BY Zenon DEF Stands
    <3>2. q[u][j] = pack[u][j]
      BY <1>2, <2>2, Zenon DEF SameElsewhere
    <3> QED BY <3>1, <3>2, Zenon
  <2> QED BY <2>1, <2>2, Zenon
<1> QED BY <1>2, <1>3, StandsLess, Zenon

\* The demoter stops between the removal of a pack and of its hint.
LEMMA StopInMoveKept ==
  ASSUME PInv, KInv, Running, demoter.pc \in {"pack", "switch"}, main' = "down", NoMemory,
         NEW i, i = demoter.id, NEW t, t = tier[i], NEW q, q = Remove(pack, t, i), pack' = q, hint' = hint,
         puts' = puts, outages' = outages,
         \/ demoter.pc = "pack" /\ t + 1 \notin Tiers /\ promised' = Unpromised(i)
         \/ demoter.pc = "switch" /\ promised' = promised
  PROVE  KInv'
<1>1. demoter.pc \in {"pack", "hint", "switch"} /\ (demoter.pc = "switch" => demoter.pc \in {"hint", "switch"})
  OBVIOUS
<1>2. /\ i \in packs /\ i \in Ids /\ t \in Tiers /\ t + 1 # t /\ pack[t][i] # NoFile
      /\ demoter.pc = "switch" => t + 1 \in Tiers /\ hint[t + 1][i] # NoFile /\ pack[t + 1][i] = pack[t][i]
  BY <1>1, DemotedPack, Zenon
<1>3. \A u \in Tiers : pack[u][i] # NoFile => u = t \/ u = t + 1
  BY <1>2, Zenon DEF PInv, PlacesOk
<1>4. q[t][i] = NoFile /\ SameElsewhere(q, pack, t, i)
  BY <1>2, RemovedFile
<1>5. \A u \in Tiers : First(q, u, i) => hint[u][i] # NoFile
  <2>1. ASSUME NEW u \in Tiers, First(q, u, i) PROVE u = t + 1
    <3>1. q[u][i] # NoFile /\ u # t
      BY <1>4, <2>1, Zenon DEF First
    <3>2. q[u][i] = pack[u][i]
      BY <1>2, <1>4, <3>1, Zenon DEF SameElsewhere
    <3> QED BY <1>3, <3>1, <3>2, Zenon
  <2> QED BY <1>2, <2>1, Zenon
<1>6. Aged(q, puts) /\ LastUnsealed(q, hint) /\ (outages = 0 => OneHint(hint)) /\ Less(q, pack) /\ Less(hint, hint)
  <2>1. PICK g : g = hint
    BY Zenon
  <2>2. Aged(q, puts) /\ LastUnsealed(q, g) /\ (outages = 0 => OneHint(g)) /\ Less(q, pack) /\ Less(g, hint)
    BY <1>2, <1>5, <2>1, RemoveKeeps
  <2> QED BY <2>1, <2>2, Zenon
<1>7. ASSUME NEW k \in Keys
      PROVE  promised'[k] = promised[k] \/ promised'[k] = 0
  <2>1. CASE promised' = promised
    BY <2>1, Zenon
  <2>2. CASE promised' = Unpromised(i)
    BY <2>2, Zenon DEF Unpromised
  <2> QED BY <2>1, <2>2, Zenon
<1>8. promised' \in [Keys -> Nat]
  <2>1. promised \in [Keys -> Nat]
    BY Zenon DEF KInv
  <2>2. CASE promised' = promised
    BY <2>1, <2>2, Zenon
  <2>3. CASE promised' = Unpromised(i)
    BY <2>1, <2>3 DEF Unpromised
  <2> QED BY <2>2, <2>3, Zenon
<1>9. ASSUME NEW k \in Keys, outages = 0, promised'[k] # 0
      PROVE  promised[k] # 0 /\ Stands(pack', hint', k, index[k].id, index[k].off, promised'[k])
  <2>1. promised[k] # 0 /\ promised'[k] = promised[k]
    BY <1>7, <1>9
  <2>2. PICK j, o : j = index[k].id /\ o = index[k].off
    BY Zenon
  <2>3. j \in Ids /\ Stands(pack, hint, k, j, o, promised[k])
    BY <1>9, <2>1, <2>2, IndexPlace, Zenon
  <2>4. \E u \in Tiers : q[u][j] # NoFile
    <3>1. CASE j = i
      <4>1. demoter.pc = "switch"
        <5>1. promised' # Unpromised(i)
          BY <1>9, <2>2, <3>1, Zenon DEF Unpromised
        <5> QED BY <5>1, Zenon
      <4>2. q[t + 1][i] = pack[t + 1][i]
        BY <1>2, <1>4, <4>1, Zenon DEF SameElsewhere
      <4> QED BY <1>2, <3>1, <4>1, <4>2, Zenon
    <3>2. CASE j # i
      <4>1. PICK u \in Tiers : pack[u][j] # NoFile
        BY <2>3, Zenon DEF Stands
      <4>2. q[u][j] = pack[u][j]
        BY <1>2, <1>4, <2>3, <3>2, Zenon DEF SameElsewhere
      <4> QED BY <4>1, <4>2, Zenon
    <3> QED BY <3>1, <3>2, Zenon
  <2>5. Stands(q, hint, k, j, o, promised[k])
    BY <1>6, <2>3, <2>4, StandsLess, Zenon
  <2> QED BY <2>1, <2>2, <2>5, Zenon
<1>10. Aged(pack', puts') /\ LastUnsealed(pack', hint') /\ (outages = 0 => OneHint(hint'))
  BY <1>6, Zenon
<1> QED BY <1>8, <1>9, <1>10, StopAtIndex, Zenon

\* A stop that leaves every promise standing.
LEMMA StopStanding ==
  ASSUME PInv, KInv, main' = "down", NoMemory, NEW q, NEW g, pack' = q, hint' = g, puts' = puts, outages' = outages,
         promised' = promised, Aged(q, puts), LastUnsealed(q, g), outages = 0 => OneHint(g),
         \A k \in Keys, j \in Ids, o \in Nat : Stands(pack, hint, k, j, o, promised[k]) => Stands(q, g, k, j, o, promised[k])
  PROVE  KInv'
<1>1. /\ Aged(pack', puts') /\ LastUnsealed(pack', hint') /\ promised' \in [Keys -> Nat] /\ outages' \in Nat
      /\ outages' = 0 => OneHint(hint')
  BY Zenon DEF KInv
<1>2. ASSUME NEW k \in Keys, outages' = 0, promised'[k] # 0
      PROVE  \E j \in Ids, o \in Nat : Stands(pack', hint', k, j, o, promised'[k])
  <2>1. PICK j \in Ids, o \in Nat : Stands(pack, hint, k, j, o, promised[k])
    BY <1>2, Standing, Zenon
  <2> QED BY <2>1, Zenon
<1> QED BY <1>1, <1>2, StoppedKept, Zenon

LEMMA StopInFilesKept == ASSUME PInv, KInv, StopInFiles PROVE KInv'
<1>1. main' = "down" /\ NoMemory /\ hint' = hint /\ puts' = puts /\ outages' = outages
  BY Zenon DEF StopInFiles, Stopped
<1>2. CASE /\ Running /\ demoter.pc = "pack" /\ Last(demoter.id)
           /\ pack' = Remove(pack, tier[demoter.id], demoter.id)
           /\ promised' = Unpromised(demoter.id)
  <2>1. PICK i, t, q : i = demoter.id /\ t = tier[i] /\ q = Remove(pack, t, i)
    BY Zenon
  <2>2. pack' = q /\ demoter.pc \in {"pack", "switch"} /\ t + 1 \notin Tiers /\ promised' = Unpromised(i)
    BY <1>2, <2>1 DEF Last
  <2> QED BY <1>1, <1>2, <2>1, <2>2, StopInMoveKept, Zenon
<1>3. CASE /\ Running /\ demoter.pc = "switch"
           /\ pack' = Remove(pack, tier[demoter.id], demoter.id)
           /\ UNCHANGED promised
  <2>1. PICK i, t, q : i = demoter.id /\ t = tier[i] /\ q = Remove(pack, t, i)
    BY Zenon
  <2>2. pack' = q /\ demoter.pc \in {"pack", "switch"} /\ promised' = promised
    BY <1>3, <2>1
  <2> QED BY <1>1, <1>3, <2>1, <2>2, StopInMoveKept, Zenon
<1>4. ASSUME main = "opening", NEW x \in Unread, x[2] \in packs, pack' = Remove(pack, x[1], x[2]), promised' = promised
      PROVE  KInv'
  <2>1. PICK t \in Tiers, i \in Ids : x = <<t, i>> /\ Before(cursor, <<t, i>>)
    BY <1>4 DEF Unread
  <2>2. PICK q, g : q = Remove(pack, t, i) /\ g = hint
    BY Zenon
  <2>3. i \in packs /\ pack' = q /\ hint' = g
    BY <1>1, <1>4, <2>1, <2>2, Zenon
  <2>4. \A u \in Tiers : First(q, u, i) => hint[u][i] # NoFile
    BY <1>4, <2>1, <2>2, <2>3, SecondCopy, SMTT(20)
  <2>5. Aged(q, puts) /\ LastUnsealed(q, g) /\ (outages = 0 => OneHint(g))
    BY <2>2, <2>4, RemoveKeeps
  <2>6. \A k \in Keys, j \in Ids, o \in Nat : Stands(pack, hint, k, j, o, promised[k]) => Stands(q, g, k, j, o, promised[k])
    BY <1>4, <2>1, <2>2, <2>3, SecondCopyStands, SMTT(20)
  <2> QED BY <1>1, <1>4, <2>3, <2>5, <2>6, StopStanding, Zenon
<1>5. ASSUME NEW x \in Unread, pack' = [pack EXCEPT ![x[1]][x[2]] = SubSeq(@, 1, Whole(@))], promised' = promised
      PROVE  KInv'
  <2>1. PICK t \in Tiers, i \in Ids : x = <<t, i>> /\ pack[t][i] # NoFile
    BY <1>5 DEF Unread
  <2>2. PICK s, q, g : s = SubSeq(pack[t][i], 1, Whole(pack[t][i])) /\ q = [pack EXCEPT ![t][i] = s] /\ g = hint
    BY Zenon
  <2>3. /\ pack[t][i] \in Files /\ pack \in [Tiers -> [Ids -> Files \cup {NoFile}]] /\ LastUnsealed(pack, hint)
        /\ Whole(pack[t][i]) \in Nat
    BY <2>1, WholeAt, Zenon DEF PInv, DiskOk, KInv
  <2>4. /\ s \in Seq(Records) /\ Len(s) = Whole(pack[t][i])
        /\ \A o \in 1..Whole(pack[t][i]) : s[o] = pack[t][i][o]
    BY <2>2, <2>3, FrontFile
  <2>5. s \in Files /\ Whole(s) = Whole(pack[t][i])
    BY <2>4, AllWhole, Zenon
  <2>6. Front(s, pack[t][i])
    BY <2>3, <2>4, <2>5 DEF Front
  <2>7. /\ q \in [Tiers -> [Ids -> Files \cup {NoFile}]] /\ q[t][i] = s /\ SameElsewhere(q, pack, t, i)
        /\ Aged(q, puts) /\ SamePlaces(q, pack)
    <3>1. q \in [Tiers -> [Ids -> Files \cup {NoFile}]]
      BY <2>1, <2>2, <2>6, ShortenedKeeps, ZenonT(40)
    <3>2. q[t][i] = s /\ SameElsewhere(q, pack, t, i)
      BY <2>2, <2>3, Zenon DEF SameElsewhere
    <3>3. Aged(q, puts) /\ SamePlaces(q, pack)
      BY <2>1, <2>2, <2>6, ShortenedKeeps, Zenon
    <3> QED BY <3>1, <3>2, <3>3, Zenon
  <2>8. LastUnsealed(q, g)
    <3>1. SamePlaces(g, hint)
      BY <2>2, Zenon DEF SamePlaces
    <3> QED BY <2>3, <2>7, <3>1, SameFiles, Zenon
  <2>9. s # NoFile
    BY <2>5, NoFileIsNone, Zenon
  <2>10. ASSUME NEW k \in Keys, NEW j \in Ids, NEW o \in Nat, Stands(pack, hint, k, j, o, promised[k])
         PROVE  Stands(q, g, k, j, o, promised[k])
    <3>1. Front(q[t][i], pack[t][i]) /\ Whole(q[t][i]) = Whole(pack[t][i]) /\ q[t][i] # NoFile
      BY <2>5, <2>6, <2>7, <2>9, Zenon
    <3>2. Stands(q, hint, k, j, o, promised[k])
      BY <2>1, <2>3, <2>7, <2>10, <3>1, CutStands, Zenon
    <3> QED BY <2>2, <3>2, Zenon
  <2>11. pack' = q /\ hint' = g /\ (outages = 0 => OneHint(g))
    BY <1>1, <1>5, <2>1, <2>2, Zenon DEF KInv
  <2> QED BY <1>1, <1>5, <2>7, <2>8, <2>10, <2>11, StopStanding, Zenon
<1> QED BY <1>2, <1>3, <1>4, <1>5, Zenon DEF StopInFiles

LEMMA LosePowerKept == ASSUME NoFile \notin Hints, PInv, KInv, LosePower PROVE KInv'
<1>1. /\ main' = "down" /\ NoMemory /\ puts' = puts /\ outages' = outages + 1 /\ promised' = [k \in Keys |-> 0]
  BY Zenon DEF LosePower, Stopped
<1>2. outages' \in Nat /\ outages' # 0 /\ promised' \in [Keys -> Nat]
  BY <1>1 DEF KInv
<1>3. /\ pack \in [Tiers -> [Ids -> Files \cup {NoFile}]] /\ hint \in [Tiers -> [Ids -> Hints \cup {NoFile}]]
      /\ Aged(pack, puts) /\ LastUnsealed(pack, hint)
  BY Zenon DEF PInv, DiskOk, KInv
<1> SUFFICES Aged(pack', puts) /\ LastUnsealed(pack', hint')
  BY <1>1, <1>2, StoppedKept, Zenon
<1>4. ASSUME NEW t \in Tiers, NEW i \in Ids, pack[t][i] # NoFile, hint' = hint,
             NEW n \in 0..(Len(pack[t][i]) - 1),
             pack' \in {[pack EXCEPT ![t][i] = SubSeq(@, 1, n)], [pack EXCEPT ![t][i] = Append(SubSeq(@, 1, n), Torn)]}
      PROVE  Aged(pack', puts) /\ LastUnsealed(pack', hint')
  <2>1. pack[t][i] \in Files
    BY <1>3, <1>4
  <2>2. Whole(pack[t][i]) \in Nat /\ n \in 0..Whole(pack[t][i])
    <3>1. Len(pack[t][i]) \in Nat
      BY <2>1 DEF Files
    <3> QED BY <1>4, <2>1, <3>1, WholeRecords
  <2>3. PICK f : f = SubSeq(pack[t][i], 1, n)
    BY Zenon
  <2>4. f \in Seq(Records) /\ Len(f) = n /\ \A o \in 1..n : f[o] = pack[t][i][o] /\ Append(f, Torn)[o] = pack[t][i][o]
    BY <2>1, <2>2, <2>3, FrontFile, Zenon
  <2>5. PICK s \in {f, Append(f, Torn)} : pack' = [pack EXCEPT ![t][i] = s]
    BY <1>4, <2>3, Zenon
  <2>6. s \in Files /\ Whole(s) = n /\ \A o \in 1..n : s[o] = pack[t][i][o]
    BY <2>4, <2>5, AllWhole, Zenon
  <2>7. PICK q : q = pack'
    BY Zenon
  <2>8. Front(s, pack[t][i]) /\ q = [pack EXCEPT ![t][i] = s]
    BY <2>2, <2>5, <2>6, <2>7 DEF Front
  <2>9. Aged(q, puts) /\ SamePlaces(q, pack) /\ SamePlaces(hint, hint)
    <3>1. SamePlaces(hint, hint)
      BY Zenon DEF SamePlaces
    <3> QED BY <1>4, <2>8, <3>1, ShortenedKeeps, Zenon
  <2>10. LastUnsealed(q, hint)
    BY <1>3, <2>9, SameFiles, Zenon
  <2> QED BY <1>4, <2>7, <2>9, <2>10, Zenon
<1>5. ASSUME NEW t \in Tiers, NEW i \in Ids, hint[t][i] # NoFile, pack' = pack,
             NEW h \in SUBSET hint[t][i], hint' = [hint EXCEPT ![t][i] = h]
      PROVE  Aged(pack', puts) /\ LastUnsealed(pack', hint')
  <2>1. h \in Hints
    BY <1>3, <1>5 DEF Hints
  <2>2. PICK g : g = hint'
    BY Zenon
  <2>3. h # NoFile
    BY <2>1, Zenon
  <2>4. g[t][i] = h /\ \A u \in Tiers, j \in Ids : u # t \/ j # i => g[u][j] = hint[u][j]
    BY <1>3, <1>5, <2>2, Zenon
  <2>5. SamePlaces(g, hint) /\ SamePlaces(pack, pack)
    BY <1>5, <2>3, <2>4, Zenon DEF SamePlaces
  <2>6. LastUnsealed(pack, g)
    BY <1>3, <2>5, SameFiles, Zenon
  <2> QED BY <1>3, <1>5, <2>2, <2>6, Zenon
<1>6. PICK t \in Tiers, i \in Ids :
        \/ /\ pack[t][i] # NoFile
           /\ \E n \in 0..(Len(pack[t][i]) - 1) :
                pack' \in {[pack EXCEPT ![t][i] = SubSeq(@, 1, n)],
                           [pack EXCEPT ![t][i] = Append(SubSeq(@, 1, n), Torn)]}
           /\ UNCHANGED hint
        \/ /\ hint[t][i] # NoFile
           /\ \E h \in SUBSET hint[t][i] : hint' = [hint EXCEPT ![t][i] = h]
           /\ UNCHANGED pack
  BY Zenon DEF LosePower
<1>7. CASE /\ pack[t][i] # NoFile
           /\ \E n \in 0..(Len(pack[t][i]) - 1) :
                pack' \in {[pack EXCEPT ![t][i] = SubSeq(@, 1, n)],
                           [pack EXCEPT ![t][i] = Append(SubSeq(@, 1, n), Torn)]}
           /\ UNCHANGED hint
  <2>1. PICK n \in 0..(Len(pack[t][i]) - 1) :
          pack' \in {[pack EXCEPT ![t][i] = SubSeq(@, 1, n)], [pack EXCEPT ![t][i] = Append(SubSeq(@, 1, n), Torn)]}
    BY <1>7, Zenon
  <2> QED BY <1>4, <1>7, <2>1, Zenon
<1>8. CASE /\ hint[t][i] # NoFile
           /\ \E h \in SUBSET hint[t][i] : hint' = [hint EXCEPT ![t][i] = h]
           /\ UNCHANGED pack
  <2>1. PICK h \in SUBSET hint[t][i] : hint' = [hint EXCEPT ![t][i] = h]
    BY <1>8, Zenon
  <2> QED BY <1>5, <1>8, <2>1, Zenon
<1> QED BY <1>6, <1>7, <1>8, Zenon

============================================================================
