------------------------------ MODULE Identities ------------------------------
(***************************************************************************)
(* The identities jigd answers for store files (identity.go).  Handlers    *)
(* call Of at the same time and share one memo, while store paths are      *)
(* collected, built again and pointed elsewhere, and directories swapped   *)
(* for links, between any two of their system calls.  A file does not      *)
(* change once it is there; its inode may be used again when nobody has it *)
(* open.  The identity of a file is its text, an empty answer NoId.        *)
(***************************************************************************)
EXTENDS Naturals

CONSTANTS Callers,
          Asked,      \* paths clients send
          InStore,    \* those that are clean and below the store
          RealPaths,  \* what they lead to when links are resolved
          Inodes,     \* none of them 0
          Texts,      \* [size, v]
          Mtimes,     \* modification times
          MaxFiles,   \* bound: files made
          NoId

ASSUME IdentitiesAssumption ==
  /\ InStore \subseteq Asked
  /\ 0 \notin Inodes /\ NoId \notin Texts /\ NoId \notin RealPaths /\ MaxFiles \in Nat
  /\ \A i \in Inodes, t \in Texts, m \in Mtimes : NoId # [ino |-> i, size |-> t.size, mtime |-> m]

VARIABLES file,    \* per inode [text, mtime, place], place: "store", "special" or "outside"
          at,      \* per real path the inode it opens, or 0
          leads,   \* per path the real path EvalSymlinks finds, or NoId
          known,   \* per path [stamp, id], or [stamp |-> NoId]   (Identities.known)
          of,      \* per caller [pc, path, real, ino, answer], seen: store files real has held since
          past,    \* every [stamp, text] a file ever had
          made

ivars == <<file, at, leads, known, of, past, made>>

NoFileYet == [text |-> NoId, mtime |-> 0, place |-> "outside"]
Resting == [pc |-> "done", path |-> NoId, real |-> NoId, ino |-> 0, answer |-> NoId, seen |-> {}]

IInit ==
  /\ file = [i \in Inodes |-> NoFileYet] /\ at = [n \in RealPaths |-> 0] /\ leads = [p \in InStore |-> NoId]
  /\ known = [p \in InStore |-> [stamp |-> NoId]]   \* NewIdentities
  /\ of = [c \in Callers |-> Resting] /\ past = {} /\ made = 0

\* stampOf
StampOf(f, i) == [ino |-> i, size |-> f.text.size, mtime |-> f.mtime]

Record(f, i) == [stamp |-> StampOf(f, i), text |-> f.text]
Found(n) == IF at[n] # 0 /\ file[at[n]].place = "store" THEN {Record(file[at[n]], at[n])} ELSE {}
\* of a call that ends, only what its answer is judged by is kept
Ends(c, id) ==
  of' = [of EXCEPT ![c] = IF id = NoId THEN Resting ELSE [Resting EXCEPT !.answer = id, !.seen = of[c].seen]]
Goes(c, pc) == of' = [of EXCEPT ![c].pc = pc]

\* Of: anything but a clean path below the store has no identity
OfStart(c, p) ==
  /\ of[c].pc = "done"
  /\ of' = [of EXCEPT ![c] = IF p \in InStore
                             THEN [Resting EXCEPT !.pc = "resolve", !.path = p]
                             ELSE Resting]
  /\ UNCHANGED <<file, at, leads, known, past, made>>

\* EvalSymlinks, and whether it leads out of the store
OfResolve(c) ==
  /\ of[c].pc = "resolve"
  /\ LET n == leads[of[c].path]
     IN IF n = NoId \/ at[n] = 0 \/ file[at[n]].place = "outside" THEN Ends(c, NoId)
        ELSE of' = [of EXCEPT ![c].pc = "open", ![c].real = n, ![c].seen = Found(n)]
  /\ UNCHANGED <<file, at, leads, known, past, made>>

\* Open of what was resolved, wherever the path leads by now; then Stat, IsRegular and fdUnder of
\* what was opened
OfOpen(c) ==
  /\ of[c].pc = "open"
  /\ LET i == at[of[c].real]
     IN IF i = 0 \/ file[i].place # "store" THEN Ends(c, NoId)
        ELSE of' = [of EXCEPT ![c].pc = "look", ![c].ino = i]
  /\ UNCHANGED <<file, at, leads, known, past, made>>

\* mutant: what is known of the path is taken whatever the file
OfLookPath(c) ==
  /\ of[c].pc = "look"
  /\ IF known[of[c].path].stamp # NoId THEN Ends(c, known[of[c].path].id) ELSE Goes(c, "read")
  /\ UNCHANGED <<file, at, leads, known, past, made>>

\* under RLock
OfLook(c) ==
  /\ of[c].pc = "look"
  /\ IF known[of[c].path].stamp = StampOf(file[of[c].ino], of[c].ino)
     THEN Ends(c, known[of[c].path].id) ELSE Goes(c, "read")
  /\ UNCHANGED <<file, at, leads, known, past, made>>

\* ReadFull, which may fail; then, under Lock, the memo, whatever others put there meanwhile
OfRead(c) ==
  /\ of[c].pc = "read"
  /\ Ends(c, NoId) \/ Goes(c, "memo")
  /\ UNCHANGED <<file, at, leads, known, past, made>>
OfMemo(c) ==
  /\ of[c].pc = "memo"
  /\ LET f == file[of[c].ino]
     IN known' = [known EXCEPT ![of[c].path] = [stamp |-> StampOf(f, of[c].ino), id |-> f.text]] /\ Ends(c, f.text)
  /\ UNCHANGED <<file, at, leads, past, made>>

\* the world: callers under way see what their real path holds next
Holds(n, i, f) ==
  /\ at' = [at EXCEPT ![n] = i]
  /\ of' = [c \in Callers |->
       IF of[c].real = n /\ i # 0 /\ f.place = "store"
       THEN [of[c] EXCEPT !.seen = @ \cup {Record(f, i)}] ELSE of[c]]

\* a file is made, on an inode nobody uses
FileMade(n) ==
  /\ made < MaxFiles /\ made' = made + 1
  /\ \E i \in Inodes, text \in Texts, mtime \in Mtimes, place \in {"store", "special", "outside"} :
       LET f == [text |-> text, mtime |-> mtime, place |-> place]
       IN /\ \A m \in RealPaths : at[m] # i
          /\ \A c \in Callers : of[c].pc \in {"look", "read", "memo"} => of[c].ino # i
          /\ file' = [file EXCEPT ![i] = f]
          /\ past' = past \cup {Record(f, i)}
          /\ Holds(n, i, f)
  /\ UNCHANGED <<leads, known>>

\* a file is collected, or another that is there gets its name
FileGone(n) ==
  /\ \E i \in {0} \cup {at[m] : m \in RealPaths} :
       i # at[n] /\ Holds(n, i, IF i = 0 THEN NoFileYet ELSE file[i])
  /\ UNCHANGED <<file, leads, known, past, made>>

\* a path comes to lead elsewhere
Repointed(p) ==
  /\ \E n \in RealPaths \cup {NoId} : n # leads[p] /\ leads' = [leads EXCEPT ![p] = n]
  /\ UNCHANGED <<file, at, known, of, past, made>>

INext ==
  \/ \E c \in Callers : \/ \E p \in Asked : OfStart(c, p)
                        \/ OfResolve(c) \/ OfOpen(c) \/ OfLook(c) \/ OfRead(c) \/ OfMemo(c)
  \/ \E n \in RealPaths : FileMade(n) \/ FileGone(n)
  \/ \E p \in InStore : Repointed(p)
ISpec == IInit /\ [][INext]_ivars

(***************************************************************************)
(* An identity answered is that of a regular store file: one that the name *)
(* the path was resolved to, in this call, has held since, or one that had *)
(* the same inode, size and time (identity.go:76).  It is so whichever     *)
(* handlers filled the memo before, for whatever the path led to then.     *)
(***************************************************************************)
IdentityCurrent ==
  \A c \in Callers : of[c].pc = "done" /\ of[c].answer # NoId =>
    \E s \in of[c].seen, f \in past : f.stamp = s.stamp /\ f.text = of[c].answer

===============================================================================
