----------------------------- MODULE PackStore -----------------------------
(***************************************************************************)
(* The blob store of jigd (store.go): values appended to the active pack   *)
(* file, an in-memory index, hint files for sealed packs, tiers with a     *)
(* byte budget, a demoter goroutine that moves packs down a tier or        *)
(* deletes them, and everything a stop of the process can leave behind on  *)
(* disk for the next OpenStore to find.                                    *)
(*                                                                         *)
(* The records of one key have one size; header bytes are left out, and a  *)
(* torn record counts as one unit.  Which of several packs was read least  *)
(* recently is left open.                                                  *)
(***************************************************************************)
EXTENDS Integers, Sequences, FiniteSets, FiniteSetsExt

CONSTANTS
  Keys,
  Bytes,       \* units a record of the key takes
  Tiers,       \* 1..n, the fast tier first
  Budget,      \* units per tier, 0 = unbounded             (Tier.Budget)
  PackLimit,   \* units in a pack before it is sealed       (packLimit)
  MaxId,       \* bound: pack ids used
  MaxPuts,     \* bound: records written
  Faults,      \* which file operations may fail: "write", "move", "create", "load"
  MaxOutages,  \* bound: how often unsynced data is lost
  NoFile, Torn

\* What Put writes: the key, and which write it was.
Records == [key : Keys, no : Nat]

ASSUME PackStoreAssumption ==
  /\ Cardinality(Tiers) \in Nat \ {0} /\ Tiers = 1..Cardinality(Tiers)
  /\ Bytes \in [Keys -> Nat \ {0}]
  /\ Budget \in [Tiers -> Nat]
  /\ PackLimit \in Nat \ {0}
  /\ MaxId \in Nat /\ MaxPuts \in Nat
  /\ Faults \subseteq {"write", "move", "create", "load"}
  /\ MaxOutages \in Nat
  /\ Torn \notin Records
  /\ NoFile \notin Seq(Records \cup {Torn})

Ids == 1..MaxId

VARIABLES
  pack,      \* pack[t][id]: the records in the file, or NoFile
  hint,      \* hint[t][id]: <<key, offset>> the hint lists, or NoFile
  main,      \* "down", "opening", "open", "closing" (closed is set), "panic"
  cursor,    \* OpenStore: the last <<tier, id>> it has looked at
  last,      \* OpenStore: the highest id it has loaded without an error
  index,     \* per key the pack and the offset of its record   (Store.index)
  packs,     \* ids of the loaded packs                         (Store.packs)
  tier,      \* per loaded pack                                 (pack.tier)
  size,      \* per loaded pack                                 (pack.size)
  live,      \* per loaded pack                                 (pack.live)
  total,     \* per tier                                        (Tier.total)
  active,    \* id of the pack being written                    (Store.active)
  kick,      \* whether the demote channel holds a token        (Store.demote)
  demoter,   \* where the demoter goroutine is, and its pack
  puts,      \* how many records were written
  outages,   \* how often the machine lost power
  promised,  \* per key, the record (its number) acknowledged and not evicted
  skipped    \* whether OpenStore has ever gone on without a pack it could not load

disk == <<pack, hint>>
memory == <<cursor, last, index, packs, tier, size, live, total, active>>
vars == <<disk, main, memory, kick, demoter, puts, outages, promised, skipped>>

\* A key that is not in the map.
Nowhere == [id |-> 0, off |-> 0]
Idle == [pc |-> "idle", id |-> 0]

TypeOK ==
  /\ \A t \in Tiers, i \in Ids :
       /\ pack[t][i] = NoFile \/ Len(pack[t][i]) <= PackLimit
       /\ hint[t][i] = NoFile \/ hint[t][i] \subseteq Keys \X (1..PackLimit)
  /\ main \in {"down", "opening", "open", "closing"}
  /\ index \in [Keys -> [id : 0..MaxId, off : 0..PackLimit]]
  /\ packs \subseteq Ids
  /\ tier \in [Ids -> Tiers]
  /\ size \in [Ids -> 0..PackLimit]
  /\ live \in [Ids -> Int]
  /\ total \in [Tiers -> Int]
  /\ active \in 0..MaxId /\ last \in 0..MaxId
  /\ kick \in BOOLEAN /\ skipped \in BOOLEAN
  /\ demoter \in [pc : {"idle", "pick", "pack", "hint", "switch", "done"}, id : 0..MaxId]

NoMemory ==
  /\ cursor' = <<1, 0>>
  /\ last' = 0
  /\ index' = [k \in Keys |-> Nowhere]
  /\ packs' = {}
  /\ tier' = [i \in Ids |-> 1]
  /\ size' = [i \in Ids |-> 0]
  /\ live' = [i \in Ids |-> 0]
  /\ total' = [t \in Tiers |-> 0]
  /\ active' = 0
  /\ kick' = FALSE
  /\ demoter' = Idle

Init ==
  /\ pack = [t \in Tiers |-> [i \in Ids |-> NoFile]]
  /\ hint = [t \in Tiers |-> [i \in Ids |-> NoFile]]
  /\ main = "down"
  /\ cursor = <<1, 0>>
  /\ last = 0
  /\ index = [k \in Keys |-> Nowhere]
  /\ packs = {}
  /\ tier = [i \in Ids |-> 1]
  /\ size = [i \in Ids |-> 0]
  /\ live = [i \in Ids |-> 0]
  /\ total = [t \in Tiers |-> 0]
  /\ active = 0
  /\ kick = FALSE
  /\ demoter = Idle
  /\ puts = 0
  /\ outages = 0
  /\ promised = [k \in Keys |-> 0]
  /\ skipped = FALSE

----------------------------------------------------------------------------
(* Files *)

\* How many whole records a pack file holds; only the last can be torn.
Whole(s) == IF s # <<>> /\ s[Len(s)] = Torn THEN Len(s) - 1 ELSE Len(s)

\* What seal writes for pack i: where the index points at.
Sealed(i, ix) == {<<k, ix[k].off>> : k \in {k \in Keys : ix[k].id = i}}

\* What a file with the records recs measures, and what the index ix points at
\* in pack i.
Units(recs) ==
  MapThenSumSet(LAMBDA o : IF recs[o] = Torn THEN 1 ELSE Bytes[recs[o].key], 1..Len(recs))
Live(ix, i) == MapThenSumSet(LAMBDA k : Bytes[k], {k \in Keys : ix[k].id = i})

Remove(f, t, i) == [f EXCEPT ![t][i] = NoFile]

----------------------------------------------------------------------------
(* OpenStore *)

Open ==
  /\ main = "down"
  /\ main' = "opening"
  /\ UNCHANGED <<disk, memory, kick, demoter, puts, outages, promised, skipped>>

\* The directory walk: tier by tier, ids ascending.
Before(a, b) == a[1] < b[1] \/ (a[1] = b[1] /\ a[2] < b[2])
Unread == {x \in Tiers \X Ids : pack[x[1]][x[2]] # NoFile /\ Before(cursor, x)}
IsNext(x) == x \in Unread /\ \A y \in Unread : x = y \/ Before(x, y)

\* What load reads of pack i in tier t: the hint, as far as the file still holds
\* what it lists, else every whole record.  (Without the check, for comparison.)
EntriesUnchecked(t, i) ==
  IF hint[t][i] # NoFile THEN hint[t][i]
  ELSE {<<pack[t][i][o].key, o>> : o \in 1..Whole(pack[t][i])}

Entries(t, i) ==
  IF hint[t][i] # NoFile THEN {e \in hint[t][i] : e[2] <= Whole(pack[t][i])}
  ELSE {<<pack[t][i][o].key, o>> : o \in 1..Whole(pack[t][i])}

\* load's add, for all entries of pack i: a later record of the same pack wins,
\* and the newest pack id.  (Or, for comparison, the pack loaded last.)
IndexedLast(i, entries) ==
  [k \in Keys |->
     LET mine == {e[2] : e \in {e \in entries : e[1] = k}}
     IN IF mine = {} THEN index[k] ELSE [id |-> i, off |-> Max(mine)]]

Indexed(i, entries) ==
  [k \in Keys |->
     LET mine == {e[2] : e \in {e \in entries : e[1] = k}}
     IN IF mine = {} \/ index[k].id > i THEN index[k] ELSE [id |-> i, off |-> Max(mine)]]

\* load's counts of live values once the index is ix: what pack i has in it, and
\* the other packs without what pack i superseded.
LiveWith(ix, i) ==
  [j \in Ids |->
     IF j = i THEN Live(ix, i)
     ELSE live[j] - Live([k \in Keys |-> IF ix[k].id = i THEN index[k] ELSE Nowhere], j)]

\* One pack of the walk.  A second copy of a loaded pack is removed; a pack with
\* a hint is indexed from it, up to what the file still holds; one without is
\* scanned, its torn tail cut off, and sealed.
LoadPack(t, i) ==
  /\ main = "opening"
  /\ IsNext(<<t, i>>)
  /\ cursor' = <<t, i>>
  /\ IF i \in packs
     THEN /\ pack' = Remove(pack, t, i)
          /\ hint' = Remove(hint, t, i)
          /\ UNCHANGED <<last, index, packs, tier, size, live, total>>
     ELSE LET recs == pack[t][i]
              hinted == hint[t][i] # NoFile
              ix == Indexed(i, Entries(t, i))
              kept == IF hinted THEN recs ELSE SubSeq(recs, 1, Whole(recs))
          IN /\ last' = IF i > last THEN i ELSE last
             /\ index' = ix
             /\ packs' = packs \cup {i}
             /\ tier' = [tier EXCEPT ![i] = t]
             /\ size' = [size EXCEPT ![i] = Units(kept)]
             /\ live' = LiveWith(ix, i)
             /\ total' = [total EXCEPT ![t] = @ + Units(kept)]
             /\ pack' = [pack EXCEPT ![t][i] = kept]
             /\ hint' = IF hinted THEN hint ELSE [hint EXCEPT ![t][i] = Sealed(i, ix)]
  /\ UNCHANGED <<main, active, kick, demoter, puts, outages, promised, skipped>>

\* load returns an error and OpenStore goes on without raising last: the file
\* cannot be opened; or it was scanned, so that the pack and its entries are in
\* the maps, and then the torn tail cannot be cut off, or the hint not written.
LoadFails(t, i) ==
  /\ "load" \in Faults
  /\ main = "opening"
  /\ IsNext(<<t, i>>)
  /\ i \notin packs
  /\ cursor' = <<t, i>>
  /\ skipped' = TRUE
  /\ \/ UNCHANGED <<pack, index, packs, tier, size, live, total>>
     \/ /\ hint[t][i] = NoFile
        /\ index' = Indexed(i, Entries(t, i))
        /\ packs' = packs \cup {i}
        /\ tier' = [tier EXCEPT ![i] = t]
        /\ live' = LiveWith(index', i)
        /\ \/ /\ Whole(pack[t][i]) # Len(pack[t][i])
              /\ size' = [size EXCEPT ![i] = Units(pack[t][i])]
              /\ UNCHANGED <<pack, total>>
           \/ LET kept == SubSeq(pack[t][i], 1, Whole(pack[t][i]))
              IN /\ pack' = [pack EXCEPT ![t][i] = kept]
                 /\ size' = [size EXCEPT ![i] = Units(kept)]
                 /\ total' = [total EXCEPT ![t] = @ + Units(kept)]
  /\ UNCHANGED <<hint, last, main, active, kick, demoter, puts, outages, promised>>

\* A new active pack: it is created exclusively, in the fast tier.
CreateActive(i) ==
  /\ i <= MaxId
  /\ pack[1][i] = NoFile
  /\ active' = i
  /\ packs' = packs \cup {i}
  /\ tier' = [tier EXCEPT ![i] = 1]

\* The end of OpenStore: rotate(last + 1), with no active pack to seal.  (Or,
\* for comparison, counting the packs.)
OpenDoneCounting ==
  /\ main = "opening"
  /\ Unread = {}
  /\ LET i == Cardinality(packs) + 1
     IN /\ CreateActive(i)
        /\ pack' = [pack EXCEPT ![1][i] = <<>>]
        /\ size' = [size EXCEPT ![i] = 0]
        /\ live' = [live EXCEPT ![i] = 0]
  /\ main' = "open"
  /\ UNCHANGED <<hint, cursor, last, index, total, kick, demoter, puts, outages, promised, skipped>>

OpenDone ==
  /\ main = "opening"
  /\ Unread = {}
  /\ LET i == last + 1
     IN /\ CreateActive(i)
        /\ pack' = [pack EXCEPT ![1][i] = <<>>]
        /\ size' = [size EXCEPT ![i] = 0]
        /\ live' = [live EXCEPT ![i] = 0]
  /\ main' = "open"
  /\ UNCHANGED <<hint, cursor, last, index, total, kick, demoter, puts, outages, promised, skipped>>

----------------------------------------------------------------------------
(* Put, under mu once the body has been read *)

Full(k) == size[active] + Bytes[k] > PackLimit /\ size[active] > 0

\* Where the record goes, and what its file holds before.
Target(k) == IF Full(k) THEN active + 1 ELSE active
Held(k) == IF Full(k) THEN <<>> ELSE pack[1][active]

\* The hint files after rotate has sealed the active pack.
SealedHints(k) == IF Full(k) THEN [hint EXCEPT ![1][active] = Sealed(active, index)] ELSE hint

\* (For comparison: without the look at closed, a kick meets a closed channel.)
PutUnchecked(k) ==
  /\ main \in {"open", "closing"}
  /\ puts < MaxPuts
  /\ IF Full(k) THEN CreateActive(Target(k)) ELSE UNCHANGED <<active, packs, tier>>
  /\ hint' = SealedHints(k)
  /\ pack' = [pack EXCEPT ![1][Target(k)] = Append(Held(k), [key |-> k, no |-> puts + 1])]
  /\ index' = [index EXCEPT ![k] = [id |-> Target(k), off |-> Len(Held(k)) + 1]]
  /\ size' = [size EXCEPT ![Target(k)] = (IF Full(k) THEN 0 ELSE @) + Bytes[k]]
  /\ live' = [i \in Ids |-> (IF Full(k) /\ i = Target(k) THEN 0 ELSE live[i])
                             - (IF i = index[k].id THEN Bytes[k] ELSE 0)
                             + (IF i = Target(k) THEN Bytes[k] ELSE 0)]
  /\ total' = [total EXCEPT ![1] = @ + Bytes[k]]
  /\ kick' = (kick \/ (Budget[1] > 0 /\ total[1] + Bytes[k] > Budget[1]))
  /\ puts' = puts + 1
  /\ promised' = [promised EXCEPT ![k] = IF hint'[1][Target(k)] = NoFile THEN puts + 1 ELSE 0]
  /\ main' = IF main = "closing" /\ kick' THEN "panic" ELSE main
  /\ UNCHANGED <<cursor, last, demoter, outages, skipped>>

Put(k) ==
  /\ main = "open"
  /\ puts < MaxPuts
  /\ IF Full(k) THEN CreateActive(Target(k)) ELSE UNCHANGED <<active, packs, tier>>
  /\ hint' = SealedHints(k)
  /\ pack' = [pack EXCEPT ![1][Target(k)] = Append(Held(k), [key |-> k, no |-> puts + 1])]
  /\ index' = [index EXCEPT ![k] = [id |-> Target(k), off |-> Len(Held(k)) + 1]]
  /\ size' = [size EXCEPT ![Target(k)] = (IF Full(k) THEN 0 ELSE @) + Bytes[k]]
  /\ live' = [i \in Ids |-> (IF Full(k) /\ i = Target(k) THEN 0 ELSE live[i])
                             - (IF i = index[k].id THEN Bytes[k] ELSE 0)
                             + (IF i = Target(k) THEN Bytes[k] ELSE 0)]
  /\ total' = [total EXCEPT ![1] = @ + Bytes[k]]
  /\ kick' = (kick \/ (Budget[1] > 0 /\ total[1] + Bytes[k] > Budget[1]))
  /\ puts' = puts + 1
  /\ promised' = [promised EXCEPT ![k] = IF hint'[1][Target(k)] = NoFile THEN puts + 1 ELSE 0]
  /\ UNCHANGED <<main, cursor, last, demoter, outages, skipped>>

\* rotate fails to create the new pack: the active one is sealed and stays active.
PutCreateFails(k) ==
  /\ "create" \in Faults
  /\ main = "open"
  /\ Full(k)
  /\ hint' = SealedHints(k)
  /\ UNCHANGED <<pack, main, memory, kick, demoter, puts, outages, promised, skipped>>

\* Writing the record fails and is undone, after rotate has done its work.
PutWriteFails(k) ==
  /\ "write" \in Faults
  /\ main = "open"
  /\ Full(k)
  /\ CreateActive(Target(k))
  /\ hint' = SealedHints(k)
  /\ pack' = [pack EXCEPT ![1][Target(k)] = <<>>]
  /\ size' = [size EXCEPT ![Target(k)] = 0]
  /\ live' = [live EXCEPT ![Target(k)] = 0]
  /\ UNCHANGED <<main, cursor, last, index, total, kick, demoter, puts, outages, promised, skipped>>

----------------------------------------------------------------------------
(* The demoter *)

Over(t) == Budget[t] > 0 /\ total[t] > Budget[t]
Leavers(t) == {i \in packs : tier[i] = t /\ i # active}

\* victim: of the first tier over budget with a pack to give, the mostly
\* superseded ones if there are any.
Victims ==
  LET full == {t \in Tiers : Over(t) /\ Leavers(t) # {}}
  IN IF full = {} THEN {}
     ELSE LET out == Leavers(Min(full))
              stale == {i \in out : live[i] * 2 < size[i]}
          IN IF stale # {} THEN stale ELSE out

Running == main \in {"open", "closing"}
Last(i) == tier[i] + 1 \notin Tiers

\* The range over the channel: a token, or the end of a closed and empty channel.
\* (Or, for comparison, a loop that receives and does not see the end.)
WakeForever ==
  /\ Running
  /\ demoter.pc = "idle"
  /\ kick
  /\ kick' = FALSE
  /\ demoter' = [pc |-> "pick", id |-> 0]
  /\ UNCHANGED <<disk, main, memory, puts, outages, promised, skipped>>

Wake ==
  /\ Running
  /\ demoter.pc = "idle"
  /\ IF kick
     THEN kick' = FALSE /\ demoter' = [pc |-> "pick", id |-> 0]
     ELSE main = "closing" /\ demoter' = [pc |-> "done", id |-> 0] /\ UNCHANGED kick
  /\ UNCHANGED <<disk, main, memory, puts, outages, promised, skipped>>

Pick ==
  /\ Running
  /\ demoter.pc = "pick"
  /\ IF Victims = {} THEN demoter' = Idle
     ELSE \E i \in Victims : demoter' = [pc |-> "pack", id |-> i]
  /\ UNCHANGED <<disk, main, memory, kick, puts, outages, promised, skipped>>

\* The last tier deletes.  Keys that lived in the pack are gone from the map.
Evicted(i) == [k \in Keys |-> IF index[k].id = i THEN Nowhere ELSE index[k]]
Unpromised(i) == [k \in Keys |-> IF index[k].id = i THEN 0 ELSE promised[k]]

Evict ==
  /\ Running
  /\ demoter.pc = "pack"
  /\ Last(demoter.id)
  /\ LET i == demoter.id
     IN /\ index' = Evicted(i)
        /\ promised' = Unpromised(i)
        /\ pack' = Remove(pack, tier[i], i)
        /\ hint' = Remove(hint, tier[i], i)
        /\ packs' = packs \ {i}
        /\ total' = [total EXCEPT ![tier[i]] = @ - size[i]]
        /\ tier' = [tier EXCEPT ![i] = 1]
        /\ size' = [size EXCEPT ![i] = 0]
        /\ live' = [live EXCEPT ![i] = 0]
  /\ demoter' = [pc |-> "pick", id |-> 0]
  /\ UNCHANGED <<main, cursor, last, active, kick, puts, outages, skipped>>

\* moveFile: a file already there is taken for the same one.
Moved(f, i) ==
  [f EXCEPT ![tier[i] + 1][i] = IF @ = NoFile THEN f[tier[i]][i] ELSE @]

\* The pack file, then its hint, without the lock.
MovePack ==
  /\ Running
  /\ demoter.pc = "pack"
  /\ ~Last(demoter.id)
  /\ pack' = Moved(pack, demoter.id)
  /\ demoter' = [demoter EXCEPT !.pc = "hint"]
  /\ UNCHANGED <<hint, main, memory, kick, puts, outages, promised, skipped>>

MoveHint ==
  /\ Running
  /\ demoter.pc = "hint"
  /\ hint[tier[demoter.id]][demoter.id] # NoFile
  /\ hint' = Moved(hint, demoter.id)
  /\ demoter' = [demoter EXCEPT !.pc = "switch"]
  /\ UNCHANGED <<pack, main, memory, kick, puts, outages, promised, skipped>>

\* A failed move, also for want of a hint: what was moved stays, the inner loop
\* ends.
MoveFails ==
  /\ Running
  /\ \/ "move" \in Faults /\ (demoter.pc = "hint" \/ (demoter.pc = "pack" /\ ~Last(demoter.id)))
     \/ demoter.pc = "hint" /\ hint[tier[demoter.id]][demoter.id] = NoFile
  /\ demoter' = Idle
  /\ UNCHANGED <<disk, main, memory, kick, puts, outages, promised, skipped>>

\* Under mu: the pack is served from its new place, the old files go.  (Or, for
\* comparison, with one total adjusted only; or one pack per kick.)
SwitchOneSided ==
  /\ Running
  /\ demoter.pc = "switch"
  /\ LET i == demoter.id
         t == tier[i]
     IN /\ tier' = [tier EXCEPT ![i] = t + 1]
        /\ total' = [total EXCEPT ![t + 1] = @ + size[i]]
        /\ pack' = Remove(pack, t, i)
        /\ hint' = Remove(hint, t, i)
  /\ demoter' = [pc |-> "pick", id |-> 0]
  /\ UNCHANGED <<main, cursor, last, index, packs, size, live, active, kick, puts, outages, promised, skipped>>

SwitchOnce ==
  /\ Running
  /\ demoter.pc = "switch"
  /\ LET i == demoter.id
         t == tier[i]
     IN /\ tier' = [tier EXCEPT ![i] = t + 1]
        /\ total' = [total EXCEPT ![t] = @ - size[i], ![t + 1] = @ + size[i]]
        /\ pack' = Remove(pack, t, i)
        /\ hint' = Remove(hint, t, i)
  /\ demoter' = Idle
  /\ UNCHANGED <<main, cursor, last, index, packs, size, live, active, kick, puts, outages, promised, skipped>>

Switch ==
  /\ Running
  /\ demoter.pc = "switch"
  /\ LET i == demoter.id
         t == tier[i]
     IN /\ tier' = [tier EXCEPT ![i] = t + 1]
        /\ total' = [total EXCEPT ![t] = @ - size[i], ![t + 1] = @ + size[i]]
        /\ pack' = Remove(pack, t, i)
        /\ hint' = Remove(hint, t, i)
  /\ demoter' = [pc |-> "pick", id |-> 0]
  /\ UNCHANGED <<main, cursor, last, index, packs, size, live, active, kick, puts, outages, promised, skipped>>

----------------------------------------------------------------------------
(* Close, and every other way to stop *)

Close ==
  /\ main = "open"
  /\ main' = "closing"
  /\ UNCHANGED <<disk, memory, kick, demoter, puts, outages, promised, skipped>>

\* Once the demoter is done: seal the active pack, and main returns.
CloseSeal ==
  /\ main = "closing"
  /\ demoter.pc = "done"
  /\ hint' = [hint EXCEPT ![1][active] = Sealed(active, index)]
  /\ main' = "down"
  /\ NoMemory
  /\ UNCHANGED <<pack, puts, outages, promised, skipped>>

Stopped == main # "down" /\ main' = "down" /\ NoMemory

\* The process ends anywhere between two of the steps above.
Stop == Stopped /\ UNCHANGED <<disk, puts, outages, promised, skipped>>

\* Or inside Put: after the seal, after the new pack was created, in the middle
\* of the record, or after the record and before the answer.
StopInPut(k) ==
  /\ main = "open"
  /\ puts < MaxPuts
  /\ Target(k) <= MaxId
  /\ Stopped
  /\ hint' = SealedHints(k)
  /\ \/ Full(k) /\ pack' \in {pack, [pack EXCEPT ![1][Target(k)] = <<>>]} /\ UNCHANGED puts
     \/ \E r \in {Torn, [key |-> k, no |-> puts + 1]} :
          /\ pack' = [pack EXCEPT ![1][Target(k)] = Append(Held(k), r)]
          /\ puts' = puts + 1
  /\ UNCHANGED <<outages, promised, skipped>>

\* Or between the removal of a pack and of its hint: in an eviction, at the end
\* of a demotion, or when OpenStore drops a second copy.  Or between the cut of a
\* torn tail and the hint.
StopInFiles ==
  /\ Stopped
  /\ \/ /\ Running /\ demoter.pc = "pack" /\ Last(demoter.id)
        /\ pack' = Remove(pack, tier[demoter.id], demoter.id)
        /\ promised' = Unpromised(demoter.id)
     \/ /\ Running /\ demoter.pc = "switch"
        /\ pack' = Remove(pack, tier[demoter.id], demoter.id)
        /\ UNCHANGED promised
     \/ /\ main = "opening"
        /\ \E x \in Unread : IsNext(x) /\ x[2] \in packs /\ pack' = Remove(pack, x[1], x[2])
        /\ UNCHANGED promised
     \/ /\ main = "opening"
        /\ \E x \in Unread :
             /\ IsNext(x) /\ x[2] \notin packs /\ hint[x[1]][x[2]] = NoFile
             /\ pack' = [pack EXCEPT ![x[1]][x[2]] = SubSeq(@, 1, Whole(@))]
        /\ UNCHANGED promised
  /\ UNCHANGED <<hint, puts, outages, skipped>>

\* The machine stops and a file loses what was not written back yet: the end of
\* a pack, or some of a hint.
LosePower ==
  /\ outages < MaxOutages
  /\ outages' = outages + 1
  /\ Stopped
  /\ \E t \in Tiers, i \in Ids :
       \/ /\ pack[t][i] # NoFile
          /\ \E n \in 0..(Len(pack[t][i]) - 1) :
               pack' \in {[pack EXCEPT ![t][i] = SubSeq(@, 1, n)],
                          [pack EXCEPT ![t][i] = Append(SubSeq(@, 1, n), Torn)]}
          /\ UNCHANGED hint
       \/ /\ hint[t][i] # NoFile
          /\ \E h \in SUBSET hint[t][i] : hint' = [hint EXCEPT ![t][i] = h]
          /\ UNCHANGED pack
  /\ promised' = [k \in Keys |-> 0]
  /\ UNCHANGED <<puts, skipped>>

----------------------------------------------------------------------------

Demoter == Wake \/ Pick \/ Evict \/ MovePack \/ MoveHint \/ Switch

Next ==
  \/ Open \/ OpenDone \/ Close \/ CloseSeal
  \/ \E t \in Tiers, i \in Ids : LoadPack(t, i) \/ LoadFails(t, i)
  \/ \E k \in Keys : Put(k) \/ PutCreateFails(k) \/ PutWriteFails(k) \/ StopInPut(k)
  \/ Demoter \/ MoveFails
  \/ Stop \/ StopInFiles \/ LosePower

Spec == Init /\ [][Next]_vars

\* The demoter is a goroutine, Close is called by main once it has begun.
FairSpec == Spec /\ WF_vars(Demoter) /\ WF_vars(CloseSeal)

----------------------------------------------------------------------------
(* Properties *)

\* The record the index has for k.
Record(k) == pack[tier[index[k].id]][index[k].id][index[k].off]

\* The next four are promises of a store that has never gone on without a pack.
\* One that has may give a new pack an id below those of older ones, or the id of
\* one in a slower tier: then older records win at the next start, or the file of
\* the other pack is taken for the new one when that is demoted.

\* IndexSound (load's check against p.size, TestHintPastEOF): whatever the index
\* points at can be read in full from a linked file of a loaded pack and is a
\* record of that key, also after torn writes, lost hints and half-done moves.
IndexReads ==
  \A k \in Keys : index[k].id # 0 =>
    /\ index[k].id \in packs
    /\ pack[tier[index[k].id]][index[k].id] # NoFile
    /\ index[k].off \in 1..Whole(pack[tier[index[k].id]][index[k].id])
    /\ Record(k).key = k
IndexSound == ~skipped => IndexReads

\* Accounts (live, size and total, on which victim decides): per pack the values
\* the index points at and the length of the file, per tier the sum of its packs.
Accounts ==
  ~skipped =>
    /\ \A i \in packs :
         /\ live[i] = Live(index, i)
         /\ size[i] = Units(pack[tier[i]][i])
    /\ \A t \in Tiers : total[t] = MapThenSumSet(LAMBDA i : size[i], {i \in packs : tier[i] = t})

\* Kept (TestPutGetReopen, TestReopenNewestAcrossTiers): what was acknowledged
\* and not evicted is served, or something newer, whenever the store is open:
\* after any stop of the process at any point, through hints, scans and moves.
\* A power failure may cost records, as nothing is synced, and so may a pack that
\* grows after it was sealed (SealedNeverGrows): what goes there is not promised.
Kept ==
  main \in {"open", "closing"} /\ outages = 0 /\ ~skipped =>
    \A k \in Keys : promised[k] # 0 => index[k].id # 0 /\ Record(k).no >= promised[k]

\* FreshId (OpenStore's last + 1, rotate's id + 1): the active pack has the
\* highest id of all files, left-over hints included, so a new pack never finds
\* the hint of an old one and pack ids order records by age.
FreshId ==
  active # 0 /\ ~skipped =>
    \A t \in Tiers, i \in Ids :
      (pack[t][i] # NoFile \/ hint[t][i] # NoFile) /\ i # active => i < active

\* SealedNeverGrows (seal's comment: "a pack that will not grow any more"): a
\* pack file that has a hint next to it gets no further record, for load would
\* not see it.
SealedNeverGrows ==
  [][\A t \in Tiers, i \in Ids :
       hint[t][i] # NoFile /\ pack[t][i] # NoFile /\ pack'[t][i] # NoFile
         => Len(pack'[t][i]) <= Len(pack[t][i])]_vars

\* Demoted (Put's kick, the demoter's loops): once Put has found the fast tier
\* over budget, the store gets to a point where no tier has a pack to give, if
\* it keeps running.  A token sent while the demoter is busy is not lost.
Demoted == kick ~> (Victims = {} \/ main = "down")

\* Bounded (main.go: "JIGD_SIZE ... bounds the store; beyond it the least recently
\* read packs move"): an open store over a budget, with packs to give, does not
\* stay so.
Bounded == (main = "open" /\ Victims # {}) ~> (Victims = {} \/ main # "open")

\* Closes (Close waits for the demoter): Close always returns.
Closes == main = "closing" ~> main = "down"

============================================================================
