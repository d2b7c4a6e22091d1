# TLA+ models of jig, jigd, jsem and what makes their output relocatable

The repository is a package set whose builds share a few programs of its own:
**jig**, the compiler wrapper that is the only compiler on a build's `PATH`, and
whose other modes restore directories, serve go's build cache, talk to nix and make
binaries relocatable; **jigd**, the daemon behind it (a blob store, identities of
store files, build slots); **jsem**, which feeds GHC's job semaphore from jigd's
slots; and **launch**, **crt-interp** and **dlaudit**, which start and watch programs
of a store that was moved. This directory models them, checks the models with TLC and
proves the main properties with TLAPS. The rest of the repository is Nix
expressions and sequential scripts.

## Parts

| part | state | operations | what is hard about it |
|---|---|---|---|
| jigd slots (`slots.go`, `serve` in `main.go`, `Slot` in `process.cc`) | tokens out, tokens per build, queue, per connection the tokens it holds | SLOT, DONE, hang-up, grant | lost wake-ups, clients that die while queued, nested compilers, restart of the daemon |
| jigd store (`store.go`) | pack and hint files in tiers, index, byte counts, demoter | OpenStore, Get, Put, rotate, seal, demote, evict, Close | a stop or power failure between any two file operations, moves without the lock, failing writes |
| jigd identities (`identity.go`) | memo of stamps | Of | files collected and replaced, links pointed elsewhere, between its system calls |
| compile cache (`cc_mode.cc`, `rustc_mode.cc`, `manifest.cc`, `store.cc`) | entries under request and result keys; per invocation what was found or compiled | look up, validate, replay, compile, store | inputs that change between builds and during one, look-ups the compiler does not report, pieces evicted one by one, failures |
| cache client (`cache_client.cc`) | one connection | pipelined requests | both sides blocked on full socket buffers, hang-ups in a batch |
| dir mode (`dir_mode.cc`) | a listing and blobs | put-dir, get-dir | changes while hashing, partial eviction, masked store paths |
| gocache mode (`gocache_mode.cc`) | a shared directory, actions and outputs | get, put | sessions that die while sending, eviction between look-ups |
| nix-store mode (`nix_store_mode.cc`) | a protocol stream | add, submit | two sides that must read exactly what the other wrote |
| driver (`driver.cc`, `main.cc`) | none beyond one process | argument rewriting | which words reach the linker, and in which order |
| fixup (`fixup_mode.cc`, `elf_fixup.cc`, `macho_fixup.cc`) | an output tree | RUNPATH, NEEDED, interpreter, load commands | in-place patches that must fit, runs on its own output |
| launch, crt-interp, dlaudit | none beyond one process | find, map, exec; report | chains of links, page boundaries, aliases |
| jsem (`broker.cc`, `main.cc`) | the semaphore, slots held, a pending order | tick, order, cancel, end | other processes use the semaphore between any two calls; the daemon restarts |

`PROJECT.json` lists every component with its status, every hazard with its
line and the properties that cover it, and the source lines of every definition.

## Modules

| module | models |
|---|---|
| `SlotService` | what jigd's slots promise: the abstract specification |
| `Slots` | slots.go, the connection handler and the jig processes; implements `SlotService` |
| `SlotsProofs` | its safety properties, and that it implements `SlotService` |
| `PackStore` | store.go with the disk it leaves behind |
| `PackStoreDisk`, `PackStoreProofs` | that its index leads to whole records and its ids are fresh |
| `PackStorePromises`, `PackStoreKept` | that what it acknowledged it serves, through stops and reopenings |
| `CompileCache` | one cache and any number of builds that use it |
| `CompileCacheProofs` | that hits are faithful, and that they bring their depfiles |
| `Jsem` | broker, ghcs and C compilers on top of `SlotService` |
| `Paths` | path algebra of reloc-fixup and launch |
| `Driver`, `CcArgs` | what the driver makes of a compiler line; which of it is cached, under which key |
| `Fixup` | reloc-fixup, ELF and Mach-O |
| `Launch`, `CrtInterp`, `Dlaudit` | how a moved program starts, and the record of what it could not open |
| `Toolchain` | their composition: a line is typed, linked, fixed up, installed, started, audited |
| `CacheClient` | one connection with bounded buffers on both sides |
| `Identities` | identity.go with handlers that share the memo |
| `StoreView`, `DirMode` | store paths in texts; put-dir and get-dir |
| `GoCache` | concurrent go builds on one directory and one daemon |
| `NixStore` | client and daemon of the builder-rpc protocol |
| `RustArgs` | how a rustc line is read |
| `Codec` | base64, Nix32, padding, quoting, packing, response files, next to reference definitions |
| `JigModesProofs` | the proofs about `Jsem`, `Identities` and `GoCache` |
| `WirePathProofs` | the proofs about `CacheClient` (the wire) and `Paths` (relative references) |
| `JigModes` | main's choice of a mode, and the parts of each mode |
| `MC...` | instances for TLC |

An operator introduced by "Variant:" or "for comparison" is a plausible slip in the
code it stands next to. No specification uses it; replacing the original by it
makes TLC find a violation of the property `PROJECT.json` names, which shows that
the property depends on that code.

### Slots

A client is a jig process with at most one connection. `serve[c]` is where the
handler goroutine of its connection is, `tok[c]` the handler's own count
(`held` in `serve`), `line[c]` a request in the socket. `Acquire` and `Release`
are the critical sections under `mu`; `Granted` is the handler going on after
Acquire has returned, so between being granted a token and counting it, everybody
else may run. `HangUp` is the deferred function, one release per step. `EnterSlot`
is the constructor of `Slot` (nested under `JIG_SLOT`, no daemon, asked),
`LeaveSlot` its destructor, `Kill` the end of a process at any point and `Restart`
a new daemon, whose clients find their connection closed. grant's loop is one
round: `NoIdleToken` says that its condition is false after it.

`Implements` is the refinement: with `want` the queued clients and `has` those
that were granted a token, `Slots` behaves like `SlotService`, in which a returned
token goes straight to one who waits.

### PackStore

`pack[t][i]` and `hint[t][i]` are the files of a tier; a file is its sequence of records, with
a torn one at the end if the process stopped while writing. OpenStore reads one pack per step,
from its hint or by scanning (`LoadPack`), or goes on without it when it cannot be opened, cut
or sealed (`LoadFails`): then `last` is not raised, and after a failed cut or seal its entries
are in the index nevertheless. Put is atomic under the lock except for the stops inside it
(`StopInPut`). The demoter is `Wake`, `Pick`, then `Evict` or `MovePack`, `MoveHint`,
`Switch`, interleaved with Puts. `Stop` ends the process between two steps, `StopInFiles`
between two removals, `LosePower` also loses ends of unsynced files. `promised` is a history
variable: the newest acknowledged record per key that no eviction removed; `skipped` says that
OpenStore once went on without a pack. Recency is abstracted to a choice of any pack that
`victim` could pick.

A skipped pack undoes what the store promises: with its predecessors evicted, the new active
pack gets an id below the skipped one's or the same one, and after the next start the older
record wins. `Kept`, `FreshId`, `IndexSound` and `Accounts` are therefore stated for stores
that have skipped none (`~skipped`).

### CompileCache

The compiler is a parameter: `Step(mode, source, history)` is the next path it
looks up or its verdict, given what it has seen. An output *is* its source and the
history of look-ups, so that "the output the compiler would have made" is exact.
The cache is everything ever put; a GET may always miss, which covers eviction and
lost PUTs. `FindResult`, `Lookup`, `LookupCrate`, `CompileAndStore` and
`StoreCrate` follow the code for C, plain assembly, links and rustc; `Edit` and `Rebuild`
change the build tree, also under a running compiler, and replace the store roots of a build.

`Lists` and `LogsAbsent` say which look-ups a compiler reports. Only the C compiler logs what
it missed, and store paths missed get no line; rustc tries `a.rs` and then `a/mod.rs` and
reports neither miss, nor the variables of `env!()`; the depfile of a plain `.s` is made up by
jig and names the source alone. `Faithful` compares a hit with what the compiler would make
now. What `Excused` lists, jig cannot know:

* the result was made while the files of its build changed: identities are taken after the run;
* it is a failure for want of disk space, which looks like any other;
* the compiler would now find something else, but only at a look-up that nothing in the entry's
  keys speaks of (`Blind`): it was not reported, or its masked name stands for another root.

That every wrong hit is one of these is what the run and the theorem show. `Identical` has no
exceptions, as docs/design.md puts it, and is violated.

### Jsem

Each `sem_trywait` of `Broker::Tick`, the computation of `in_use` with the resize,
the order or its cancellation, the poll and the final `sem_post` are steps of their
own. A connection stays known to the daemon after the broker has closed it, until
the daemon has read the request, granted it and found the connection closed.
`has` and `want` are those of `SlotService`, whose actions the daemon's steps
are. GHC and cabal are external: they take and give tokens, run C compilers, end. A
capability that waits for its C compiler keeps its token, so a ghc gives back only tokens no C
compiler of its own needs.

With as many capabilities compiling C at once as there are slots, and the broker holding them
all (one per token in use and one spare), every C compiler waits and nothing comes free. The
state is reachable. `CcServed` names it (`AllWait`) and shows that a C compiler waits for
ever in no other.

### Toolchain

A command line is a sequence of words `[opt, path, refs]`; a path is the sequence of
its components, a binary the record of what the code reads of it. The lengths of texts that
must fit are in bytes: `Bytes` gives the length of each component, and the slack constants are
those of driver.h. `AddWord` types,
`RunCc` is one invocation of jig (`ParseInvocation`, then `BuildDriverArgs`
and the external linker), `RelocFixup` one run over the output tree, `Install` the
copy of the store to a root, `Start` the launcher and the entry stub, and `Audit` the
loader's callbacks. The linker, the dynamic loader and the kernel are external:
`LinkImage`, `Opens` and `LoadedByKernel` state what the code relies on. A set-up says whether
the files of the tree can be read and written and whether there is an SDK. A file reloc-fixup
cannot read it passes over without an error (fixup_mode.cc:91), so what is said of fixed files
is said of those it can read; without an SDK every system library counts as known
(macho_fixup.cc:211).

### JigModes

A behaviour follows one invocation of jig into one part of the mode it selects;
the parts have disjoint variables and one run checks them all.

* `CacheClient`: `script` is the list of operations of a process, `up` and `down` are
  the buffered units. The client writes its whole batch before it reads; the handler
  flushes only when its input is empty or its buffer full. Either side may hang up.
* `Identities`: `OfStart` to `OfMemo` are Of's system calls and critical sections, one
  per step. A path leads to a real path, which holds an inode; `Repointed` makes a path lead
  elsewhere, `FileMade` and `FileGone` replace what a real path holds. Of opens the name it
  resolved, wherever its path leads by then. An inode can be used again once nobody has it
  open, with the size and time it had. `past` and `seen` are history variables.
* `DirMode`: `Scan` hashes one entry, `Has` and `Upload` are the batches, `PutListing`
  the listing; `Get`, `GetBatch`, `GetDone` restore it, with the build's roots or, where
  `JIG_STORE_IDENTITY` is not "content", with none. Links that cannot be made are passed over,
  as in the code. `Rewrite` changes a file under put-dir, `Evict` drops a blob or the listing.
* `GoCache`: a session's request is its calls to the daemon and the directory in order.
  `Killed` ends a go build, also in the middle of a body; `Lost` is a lost daemon. A request
  line arrives whole: the code takes one without BodySize for an empty body.
* `NixStore`: both sides hold the list of what they read next (`need`, `want`); log
  traffic may precede every answer, the daemon may be old or go away.
* `Codec`, `RustArgs`: pure; inputs are enumerated. `RustcReads` is how rustc itself reads
  a line, the external reference for `ParseRustInvocation`.

## Runs

| run | shows |
|---|---|
| `slots` | conservation, the limit, no idle token while someone waits, an exact queue, precedence of builds without tokens, and the refinement of `SlotService` |
| `slots_live` | every request is answered and the tokens of dead clients come back, with one slot and a nested compiler |
| `packstore` | after stops at any point, one power failure and failing calls, and as long as no pack was skipped: the index is sound, the accounts exact, new packs get fresh ids; power failures aside, acknowledged and not evicted values are served |
| `packstore_live` | the demoter reaches the budgets, Close returns |
| `compile_cache` | a hit is what the compiler would have made, but for what jig cannot know, with the depfile asked for |
| `jsem` | nothing in use or on offer without a backing token, inside Tick too; the broker's slots come back; a C compiler gets a slot unless all wait for all |
| `toolchain` | a moved program finds the libraries it was linked with (`SameSearch`, `LoadsLinked`), what the driver has linked reloc-fixup has the room to rewrite (`Accepted`), fixups leave nothing half done and change nothing the second time (`Whole`, `Idempotent`), launch ends in the right program (`Launches`), the stub maps ld.so as the kernel would (`AsKernel`), lines with one key mean the same (`KeyFaithful`), failed dlopens are reported (`ReportsMissing`) |
| `jig_modes` | batches are answered in order and never stand off (`Answered`, `NoStandoff`), identities are of files the resolved name held, up to inode, size and time (`IdentityCurrent`), files are restored whole or not at all (`TreeWhole`), go gets whole outputs of its action (`GoServed`), protocol streams stay in step (`InStep`), conversions agree with their references (`Converts`), rustc keys hold what matters (`RustKey`) |
| `packstore_grows`, `packstore_idle`, `compile_cache_shadow`, `fixup_status` | disagreements with comments, below |

Disagreements between code and comments:

* `packstore_grows`: when `rotate` cannot create the next pack, the sealed one
  stays active and grows behind its hint. The next start does not see what was
  appended, although `seal` speaks of "a pack that will not grow any more".
* `packstore_idle`: a store that is over budget when it is opened stays so as long as
  nothing is Put, although main.go says that `JIGD_SIZE` "bounds the store".
* `compile_cache_shadow`: with masked store paths a rebuilt dependency that gains
  a header earlier on the search path still gets the old object, because absent
  store paths are not in the manifest. docs/design.md says such a header "is a miss",
  and that "outputs are identical either way" (`Identical`).
* `fixup_status`: reloc-fixup returns before it looks at any NEEDED name when a file has
  no RUNPATH, which is so for a program linked with `-nostartfiles`. It exits 0, although
  fixup_mode.h says "Exit status 1 if any file could not be made consistent".

One more that is plain from the two texts and needs no run: fixup_mode.h:10 says that the id
of a Mach-O library becomes `@rpath/...`, while `NewSpelling` (macho_fixup.cc:246) gives it the
absolute path of its final place. `Fixup` follows the code.

Conditions that properties state, because the code relies on them:

* `Kept`, `FreshId`, `IndexSound` and `Accounts` are about stores that have skipped no pack.
  `Kept` is also about histories without power failure (nothing is synced), and a record
  appended behind a hint is not promised.
* `Faithful` has the exceptions of `Excused`, `CcServed` that of `AllWait`, above.
* `NoStandoff` is about batches that fit (`kBatch` is chosen so); the batch of
  identities is unbounded in the code and is left out there.
* `IdentityCurrent` allows the identity of an earlier file with the same inode, size and time,
  which the code answers. Store files all have the same time, so inode and size decide.
* `TreeWhole` allows what a file held after it was hashed, since it is read again for the
  upload. It leaves out links whose making failed and link targets with a space, which the
  listing's format cannot hold. A store path whose root the restoring build lacks comes
  back masked. Removals before status 1 are taken to succeed.
* `RustKey` says of every line that rustc would read the same from the key. That nothing which
  links, keeps incremental state or names its output is cached is said of lines as cargo spells
  them: the code does cache `--crate-type=lib,cdylib`, `--codegen incremental=...` and `-oFILE`.
  Words in an @file are not seen.
* `Accepted` excludes a library of the runtimes named before `-nostdlib`, and files more than
  three directories below the prefix, for which the slack need not suffice.

### Bounds

* `slots`: four processes of two builds, one nested in another, two slots. Enough
  for a queue of two builds with different counts, a dead client in the queue
  and a nested compiler at the same time. Processes, kills and restarts are
  unbounded (identities are reused). `slots_live` has one slot and three processes.
* `packstore`: two tiers, packs of three units, records of one and two units, three
  Puts, four pack ids and one power failure: a pack is sealed, superseded, demoted,
  evicted and reloaded. Every opening takes an id, so the four also bound the reopenings.
  A store that has skipped a pack is followed until it stops. `packstore_live` has four Puts.
* `compile_cache`: two builds, one search path over the build tree and two store
  roots, modules in two places, one variable, two invocations of one mode and two edits at any
  time: one stores, the other one looks up after anything has changed. Invocations of
  different modes have different keys and are not mixed (`Followed`). The proof covers every
  other instance. `compile_cache_shadow` has C only, three edits, and none during a run.
* `jsem`: one ghc that takes two tokens and runs two C compilers, one token of cabal, two
  slots, two connections and one restart.
* `toolchain`: four lines, to which every pair of 32 words is added in two set-ups and every
  single one in twelve more: C, C++ and Fortran, ELF, Mach-O and COFF, no SDK, no
  configuration, denied names, files that cannot be read or written. Two roots, four ways to
  start, one over a link that leads nowhere; one place to install to is too deep for the
  slack. Names are long enough for a direct name not to fit into what the driver's slack
  leaves.
* `jig_modes`: sockets smaller than a batch of four; two handlers, two real paths and two
  inodes (each pair symmetric) with files of three texts, two of one size, and one time; a
  tree of four entries in batches of two with one rewrite; two go builds, two outputs; up to
  three words added to a rustc line; conversions of all lengths around their boundaries
  (padding for 0 to 130 bytes).

`CHECK_DEADLOCK` is off for jsem, whose build ends, and for `toolchain`, `fixup_status`
and `jig_modes`, where one invocation ends.

### Fairness

* `Slots`: handlers are goroutines and go on (weak); jig asks for its slot (weak);
  a compiler ends, after finitely many nested ones (strong). Nobody has to start,
  die or restart.
* `PackStore`: the demoter and Close are goroutines that go on (weak).
* `Jsem`: the broker's loop and the daemon go on (weak); the broker looks for the semaphore at
  every 50th tick and gets a connection to a daemon that is up again and again (strong); a ghc
  gives back tokens that no C compiler of its own needs, and it and cabal end (strong, C
  compilers come and go); a waiting client is served once tokens come back again and again,
  which is `Served` of the slots.
* `Toolchain`, `JigModes`: safety only. That a batch is answered is `NoStandoff`: as
  long as it is not, one of the two sides can go on.

## Proofs

All theorems hold for every value of the constants that satisfies the `ASSUME` of
the module (finite sets of clients, positive limits, and the like).

* `SlotsProofs`: `TypeCorrect`, `TokensConserved`, `NoLostWakeup`, `QueueIsExact`,
  `LimitHolds`. The inductive invariant adds to these properties which states of a
  client, its handler and the line between them occur together (`ConnOf`): a
  client that runs with a token has a handler that counts it, and a DONE in the
  socket belongs to one that ends. Without it `Admission` is not inductive, since it
  relates `client` to `out`. Tokens are counted as the set of pairs of a client and a
  number, so that a grant adds one element and a release removes one.
  `SlotsImplementService` and `ProbesGoFirst`: `Single` adds that a
  connection carries one request: a handler that counts a token has no other granted,
  queued or asked for. Then the clients of `Has` are as many as `out` says
  (`HasCount`), and every step is a `Request`, a `Free` with the grant that follows it, a
  `Forget` (restart) or a stutter of the service.
* `PackStoreDisk` and `PackStoreProofs`: `IndexIsSound` and `IdsAreFresh`. The invariant
  `PInv` has a part for each thing that can be between a record and its entry. On the disk
  (`DiskOk`), the copies of a pack in two tiers and the hints written for it agree record by
  record, so that an entry made from either is good for both; every tier's next id is above
  the ids on its disk (`Topped`). While the store opens (`Walked`), the packs read so far are
  those of the walk and their entries are whole records. While it serves, the active pack is a
  whole prefix of its file (`ActiveOk`), a pack is where the index says it is (`PlacesOk`),
  and the demoter removes the source only when the copy is complete (`DemoterOk`). Stops and
  power failures keep the disk part alone, and opening rebuilds the rest from it. All of it is
  said of stores that have skipped no pack: a skip is never undone, so nothing has to be shown
  after one. `PackStoreDisk` has the definitions, the disk and the demoter; `PackStoreProofs`
  has Put, opening and the theorems.
* `PackStorePromises` and `PackStoreKept`: `PromisesAreKept`. What the index holds says nothing
  of the next start, which rebuilds it from the packs in the order of their ids and, within
  one, from its hint or by scanning; so the invariant `KInv` says where the disk itself holds
  what was acknowledged. Records are numbered as they are put, and their numbers rise with
  pack and offset (`Aged`), so whatever a later pack holds for a key is newer. A pack without
  a hint is the newest and has no copy (`LastUnsealed`); the hints of a pack agree (`OneHint`)
  and every sealed pack has one where the store looks for it (`SealedOk`). While the store
  serves, a promised record stands where the index leads (`StandsAtIndex`): every copy of
  that pack holds it whole and every hint lists it. While it is down or opening, it stands
  in some pack that the walk has yet to come to or that the index has caught up with
  (`StandsOnDisk`); entries made so far are those of hints (`Listed`). `PInv` is used
  throughout. `PackStorePromises` has the order of records, seals and the demoter,
  `PackStoreKept` has Put, stops, opening and the theorem. The theorem assumes that `NoFile`
  is none of the sets a hint can be: it is a model value in every instance, but the
  assumption is about an infinite set, which TLC cannot evaluate as an `ASSUME`.
* `CompileCacheProofs`: `HitsAreFaithful`, for every deterministic compiler. The
  invariant says that each stored result was made by the compiler step by step
  (`Traced`) and that each of its look-ups is determined by its key, by a line of the
  manifest or by the request key, or is one the manifest is blind to, unless the result was made
  while files changed. A valid manifest then makes every look-up the entry speaks of have
  the same answer in the build that hits; either all have it, and the hit is genuine, or one
  of the others differs, and it is excused. Racing edits, clashing masked names, links and
  rebuilt roots with other listings are all within the theorem.
  `CacheTypeCorrect` and `DepfilesWritten`: the invariant types what was put, per kind of
  entry, and says that a success replayed for somebody who asked for a depfile brings one.
* `JigModesProofs`, on `Jsem`: `AdmissionHolds`, `TokensRetire`, `TokensAreSlots`,
  `JsemTypes`. The point of the invariant `Books` is that from the computation of `in_use` to
  the `sem_post`, the tokens out are bounded by cabal's and `in_use` alone, whatever ghc gives
  or takes; the slot that is added meanwhile is the one posted. `Alive` says that no
  connection the broker counts or waits for is closed.
* `JigModesProofs`, on `GoCache` and `Identities`: `ServedWhole`. `Honest` follows one
  session: past the first look-up it holds a pair go has claimed, before a write a whole body.
  The directory and the daemon hold whole bodies only, and an action names an output claimed
  for it. `MemoIsCurrent`: the memo holds stamps some file had, with that file's identity; a
  call has seen every store file its resolved name has held since it was resolved, the one it
  has open among them. A hit compares stamps, so what it answers is the identity of a file
  with the stamp of the open one.
* `WirePathProofs`, on `CacheClient`: `AnswersMatch` and `SidesNeverBlock`. `Answered`
  compares what was read with what was answered, which are many steps apart; the invariant
  `WireInv` is about what is between them. Of the operation under way (`Under`), the units not
  yet read by the daemon are the end of what was sent, the daemon has given as many answers
  as the part it read asks for, and what is buffered in the socket, being written or held
  back for a flush carries exactly the answers not yet read, in order, each value followed
  by its body (`Carries`). So an operation that has read all it waits for leaves nothing behind
  (`Clear`), which is what lets the next one match answers by their place. After a hang-up
  what is left is the front of what was owed (`Cut`), or is never read, because no later
  operation gets anything sent. At most two units per answer are under way for GET and
  one otherwise, so a client that cannot send and a daemon that cannot write together mean
  that neither the request nor the answers fit. `ScriptAssumption` excludes operations
  without keys, for which the client returns before it sends anything.
* `WirePathProofs`, on `Paths`: `Relocates`. The relative reference from a directory to a
  target goes up to their longest common prefix and down again, so it leads to the moved
  target from the moved directory.

Only model-checked, and why:

* all liveness properties (fairness and ENABLED are outside the prover's reach);
* `Accounts` of `PackStore` and its `TypeOK`, whose bounds on sizes rest on it: sums over
  sets and sequences need induction over data;
* `TreeWhole`, `ReportsMissing` and the other properties of `Toolchain`: they are about what
  selecting from and rewriting a whole sequence returns, again induction over data;
* `InStep`: what a reader still needs is a list that a log of any length rewrites, so its
  invariant would be a grammar defined by recursion;
* `Converts` and `RustKey`, whose definitions are recursive.

## Not modelled

* The rounds of SHA-256 (32-bit words overflow TLC's integers), the compression of a hash
  and the texts of store paths and derivations that are put together from it: no state,
  and their references would be the code again.
* Scanners of texts whose only property is the format: depfiles and dep-info, JSON fields,
  splitting and joining of strings, randomised names in links, `UnmaskOut` in binaries.
* The text of diagnostics, statistics and logs; the check of the peer's uid; zstd.
* The Windows half of launch and the assembly for system calls.
* Builder scripts, bootstrap, lints and the Nix expressions: sequential or pure.
* A killed jig's compiler is taken to end with it.
