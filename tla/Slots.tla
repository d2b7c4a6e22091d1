------------------------------- MODULE Slots -------------------------------
(***************************************************************************)
(* Host-wide admission of compiler runs: jigd's token counter (slots.go),  *)
(* the connection handler that takes and returns tokens (serve in main.go) *)
(* and the jig processes that ask for them (Slot in process.cc, AcquireSlot*)
(* and ReleaseSlot in cache_client.cc).                                    *)
(*                                                                         *)
(* A client is one jig process; it has at most one connection and hence at *)
(* most one handler goroutine.  Killed clients, nested compilers, refused  *)
(* connections and a restart of the daemon are all included.               *)
(***************************************************************************)
EXTENDS Integers, Sequences, FiniteSets

CONSTANTS
  Clients,    \* jig processes (an identity is reused by later processes)
  Builds,     \* values of $NIX_BUILD_TOP
  BuildOf,    \* the build a client belongs to
  Nests,      \* pairs <<p, c>>: the compiler that p runs may start c
  NoParent,
  Limit       \* JIGD_SLOTS

ASSUME SlotsAssumption ==
  /\ IsFiniteSet(Clients)
  /\ BuildOf \in [Clients -> Builds]
  /\ NoParent \notin Clients
  /\ Nests \subseteq Clients \X Clients
  /\ Limit \in Nat \ {0}

VARIABLES
  out,        \* tokens given out                                (Slots.out)
  held,       \* tokens per build, 0 for a build not in the map  (Slots.held)
  waiting,    \* queued requests, oldest first                   (Slots.waiting)
  serve,      \* where the handler goroutine of a connection is
  tok,        \* tokens the handler counts as its client's   (serve's `held`)
  line,       \* request line in the socket the handler has not read yet
  client,     \* what the jig process is doing
  env,        \* JIG_SLOT as the process was started with it
  parent      \* the client whose compiler started the process and waits for it

vars == <<out, held, waiting, serve, tok, line, client, env, parent>>

\* "none": no connection.  "queued": blocked in Acquire on its ready channel.
\* "granted": Acquire has returned or its ready channel is closed, the handler
\* has not run on yet.  "hangup": in the deferred release.
ServeStates == {"none", "read", "queued", "granted", "hangup"}

\* "idle": before its one compiler run.  "running": with a token.  "covered":
\* under the token of an ancestor.  "free": no usable daemon, runs anyway.
\* "ending": DONE sent.  "off": no process, or none that will use the daemon's
\* slots again.
ClientStates == {"off", "idle", "asked", "running", "covered", "free", "ending"}

Requests == {"", "SLOT", "DONE"}

TypeOK ==
  /\ out \in Nat
  /\ held \in [Builds -> Nat]
  /\ waiting \in Seq(Clients)
  /\ serve \in [Clients -> ServeStates]
  /\ tok \in [Clients -> Nat]
  /\ line \in [Clients -> Requests]
  /\ client \in [Clients -> ClientStates]
  /\ env \in [Clients -> {"", "1"}]
  /\ parent \in [Clients -> Clients \cup {NoParent}]

Init ==
  /\ out = 0
  /\ held = [b \in Builds |-> 0]
  /\ waiting = <<>>
  /\ serve = [c \in Clients |-> "none"]
  /\ tok = [c \in Clients |-> 0]
  /\ line = [c \in Clients |-> ""]
  /\ client = [c \in Clients |-> "off"]
  /\ env = [c \in Clients |-> ""]
  /\ parent = [c \in Clients |-> NoParent]

----------------------------------------------------------------------------
(* slots.go *)

RemoveAt(s, i) == SubSeq(s, 1, i - 1) \o SubSeq(s, i + 1, Len(s))

\* Variant: first come, first served.
IsBestFifo(i, h) == i = 1

\* The loop over s.waiting: the first of those whose build holds the fewest.
IsBest(i, h) ==
  \A j \in DOMAIN waiting :
    \/ h[BuildOf[waiting[i]]] < h[BuildOf[waiting[j]]]
    \/ h[BuildOf[waiting[i]]] = h[BuildOf[waiting[j]]] /\ i <= j

\* Variant: the comparison off by one.
AcquireOneMore(c) ==
  IF out <= Limit /\ waiting = <<>>
  THEN /\ out' = out + 1
       /\ held' = [held EXCEPT ![BuildOf[c]] = @ + 1]
       /\ serve' = [serve EXCEPT ![c] = "granted"]
       /\ UNCHANGED waiting
  ELSE /\ waiting' = Append(waiting, c)
       /\ serve' = [serve EXCEPT ![c] = "queued"]
       /\ UNCHANGED <<out, held>>

\* Acquire: the fast path, or a place at the end of the queue.
Acquire(c) ==
  IF out < Limit /\ waiting = <<>>
  THEN /\ out' = out + 1
       /\ held' = [held EXCEPT ![BuildOf[c]] = @ + 1]
       /\ serve' = [serve EXCEPT ![c] = "granted"]
       /\ UNCHANGED waiting
  ELSE /\ waiting' = Append(waiting, c)
       /\ serve' = [serve EXCEPT ![c] = "queued"]
       /\ UNCHANGED <<out, held>>

\* Variant: Release without the call of grant.
ReleaseNoGrant(c, st) ==
  /\ out' = out - 1
  /\ held' = [held EXCEPT ![BuildOf[c]] = @ - 1]
  /\ serve' = [serve EXCEPT ![c] = st]
  /\ UNCHANGED waiting

\* Variant: grant wakes a waiter and leaves it in the queue.
ReleaseKeepsWaiter(c, st) ==
  LET h == [held EXCEPT ![BuildOf[c]] = @ - 1]
  IN IF out - 1 < Limit /\ waiting # <<>>
     THEN \E i \in DOMAIN waiting :
            /\ IsBest(i, h)
            /\ held' = [h EXCEPT ![BuildOf[waiting[i]]] = @ + 1]
            /\ serve' = [serve EXCEPT ![c] = st, ![waiting[i]] = "granted"]
            /\ UNCHANGED <<out, waiting>>
     ELSE /\ out' = out - 1
          /\ held' = h
          /\ serve' = [serve EXCEPT ![c] = st]
          /\ UNCHANGED waiting

\* Release by the handler of c, which goes on in state st, and grant.  grant
\* loops while a token is free and somebody waits; NoIdleToken says the loop
\* condition is false again after one round.
Release(c, st) ==
  LET h == [held EXCEPT ![BuildOf[c]] = @ - 1]
  IN IF out - 1 < Limit /\ waiting # <<>>
     THEN \E i \in DOMAIN waiting :
            /\ IsBest(i, h)
            /\ held' = [h EXCEPT ![BuildOf[waiting[i]]] = @ + 1]
            /\ waiting' = RemoveAt(waiting, i)
            /\ serve' = [serve EXCEPT ![c] = st, ![waiting[i]] = "granted"]
            /\ UNCHANGED out
     ELSE /\ out' = out - 1
          /\ held' = h
          /\ serve' = [serve EXCEPT ![c] = st]
          /\ UNCHANGED waiting

----------------------------------------------------------------------------
(* serve: the handler goroutine of one connection *)

Gone(c) == client[c] = "off"

\* A reply cannot be flushed to a client that is gone: the handler returns.
AfterReply(c) == IF Gone(c) THEN "hangup" ELSE "read"

\* Processes c started stop having a parent to be waited for by, and c is gone.
Leaves(c) ==
  /\ client' = [client EXCEPT ![c] = "off"]
  /\ parent' = [n \in Clients |-> IF n = c \/ parent[n] = c THEN NoParent ELSE parent[n]]

ReadSlot(c) ==
  /\ serve[c] = "read"
  /\ line[c] = "SLOT"
  /\ line' = [line EXCEPT ![c] = ""]
  /\ Acquire(c)
  /\ UNCHANGED <<tok, client, env, parent>>

\* Variant: the token is counted only when the answer reached the client.
GrantedIfAnswered(c) ==
  /\ serve[c] = "granted"
  /\ tok' = [tok EXCEPT ![c] = IF Gone(c) THEN @ ELSE @ + 1]
  /\ serve' = [serve EXCEPT ![c] = AfterReply(c)]
  /\ client' = [client EXCEPT ![c] = IF Gone(c) THEN @ ELSE "running"]
  /\ UNCHANGED <<out, held, waiting, line, env, parent>>

\* Back from Acquire: count the token, answer OK.
Granted(c) ==
  /\ serve[c] = "granted"
  /\ tok' = [tok EXCEPT ![c] = @ + 1]
  /\ serve' = [serve EXCEPT ![c] = AfterReply(c)]
  /\ client' = [client EXCEPT ![c] = IF Gone(c) THEN @ ELSE "running"]
  /\ UNCHANGED <<out, held, waiting, line, env, parent>>

\* DONE is answered whether or not the connection holds a token.  The client is
\* then done with slots: it stores its results and exits.
ReadDone(c) ==
  /\ serve[c] = "read"
  /\ line[c] = "DONE"
  /\ line' = [line EXCEPT ![c] = ""]
  /\ Leaves(c)
  /\ IF tok[c] > 0
     THEN /\ tok' = [tok EXCEPT ![c] = @ - 1]
          /\ Release(c, AfterReply(c))
     ELSE /\ serve' = [serve EXCEPT ![c] = AfterReply(c)]
          /\ UNCHANGED <<out, held, waiting, tok>>
  /\ UNCHANGED env

\* readLine fails once the client is gone and what it sent has been read.
ReadEof(c) ==
  /\ serve[c] = "read"
  /\ line[c] = ""
  /\ Gone(c)
  /\ serve' = [serve EXCEPT ![c] = "hangup"]
  /\ UNCHANGED <<out, held, waiting, tok, line, client, env, parent>>

\* The deferred function: one Release per token, then the goroutine ends and
\* whatever is still in the socket is dropped with it.
HangUp(c) ==
  /\ serve[c] = "hangup"
  /\ IF tok[c] > 0
     THEN /\ tok' = [tok EXCEPT ![c] = @ - 1]
          /\ Release(c, "hangup")
          /\ UNCHANGED line
     ELSE /\ serve' = [serve EXCEPT ![c] = "none"]
          /\ line' = [line EXCEPT ![c] = ""]
          /\ UNCHANGED <<out, held, waiting, tok>>
  /\ UNCHANGED <<client, env, parent>>

----------------------------------------------------------------------------
(* jig *)

\* A new process, with the daemon (yes) or without (no daemon, or refused).  A
\* nested one is started by a compiler and inherits its environment.
Start(c, connects, p) ==
  /\ Gone(c)
  /\ serve[c] = "none"
  /\ \/ /\ p = NoParent
        /\ env' = [env EXCEPT ![c] = ""]
     \/ /\ <<p, c>> \in Nests
        /\ client[p] \in {"running", "covered", "free"}
        /\ env' = [env EXCEPT ![c] = IF client[p] = "free" THEN "" ELSE "1"]
  /\ parent' = [parent EXCEPT ![c] = p]
  /\ serve' = [serve EXCEPT ![c] = IF connects THEN "read" ELSE "none"]
  /\ client' = [client EXCEPT ![c] = "idle"]
  /\ UNCHANGED <<out, held, waiting, tok, line>>

\* Variant: JIG_SLOT is not looked at.
EnterSlotNested(c) ==
  /\ client[c] = "idle"
  /\ client' = [client EXCEPT ![c] = IF serve[c] = "none" THEN "free" ELSE "asked"]
  /\ line' = [line EXCEPT ![c] = IF serve[c] = "none" THEN "" ELSE "SLOT"]
  /\ UNCHANGED <<out, held, waiting, serve, tok, env, parent>>

\* Slot::Slot: nothing to ask for under JIG_SLOT, nobody to ask on a dead
\* connection.
EnterSlot(c) ==
  /\ client[c] = "idle"
  /\ client' = [client EXCEPT ![c] = IF env[c] # "" THEN "covered"
                                     ELSE IF serve[c] = "none" THEN "free"
                                     ELSE "asked"]
  /\ line' = [line EXCEPT ![c] = IF env[c] # "" \/ serve[c] = "none" THEN "" ELSE "SLOT"]
  /\ UNCHANGED <<out, held, waiting, serve, tok, env, parent>>

\* The compiler has exited, so what it had started has, and Slot::~Slot runs.
\* Without a token to return the process is done with slots.
LeaveSlot(c) ==
  /\ client[c] \in {"running", "covered", "free"}
  /\ \A n \in Clients : parent[n] # c
  /\ IF client[c] = "running" /\ serve[c] # "none"
     THEN /\ client' = [client EXCEPT ![c] = "ending"]
          /\ line' = [line EXCEPT ![c] = "DONE"]
          /\ UNCHANGED parent
     ELSE /\ Leaves(c)
          /\ UNCHANGED line
  /\ UNCHANGED <<out, held, waiting, serve, tok, env>>

\* The process is killed, wherever it is; bytes it sent stay in the socket and
\* what its compiler started lives on.
Kill(c) ==
  /\ ~Gone(c)
  /\ Leaves(c)
  /\ UNCHANGED <<out, held, waiting, serve, tok, line, env>>

\* The daemon stops and a new one takes its place: every connection is gone.
\* A client waiting for an answer reads end-of-file.
Restart ==
  /\ \E c \in Clients : serve[c] # "none"
  /\ out' = 0
  /\ held' = [b \in Builds |-> 0]
  /\ waiting' = <<>>
  /\ serve' = [c \in Clients |-> "none"]
  /\ tok' = [c \in Clients |-> 0]
  /\ line' = [c \in Clients |-> ""]
  /\ client' = [c \in Clients |-> CASE client[c] = "asked" -> "free"
                                    [] client[c] = "ending" -> "off"
                                    [] OTHER -> client[c]]
  /\ parent' = [c \in Clients |-> IF client[c] = "ending" THEN NoParent ELSE parent[c]]
  /\ UNCHANGED env

----------------------------------------------------------------------------

Handler(c) ==
  ReadSlot(c) \/ Granted(c) \/ ReadDone(c) \/ ReadEof(c) \/ HangUp(c)

Process(c) ==
  \/ \E connects \in BOOLEAN, p \in Clients \cup {NoParent} : Start(c, connects, p)
  \/ EnterSlot(c)
  \/ LeaveSlot(c)
  \/ Kill(c)

Next == (\E c \in Clients : Handler(c) \/ Process(c)) \/ Restart

\* Handlers are goroutines of a running daemon.  A jig process goes on by
\* itself; its compiler ends, after finitely many nested ones (strong: the
\* nested process comes and goes).  Nobody has to start, be killed or restart.
Fairness ==
  \A c \in Clients :
    /\ WF_vars(Handler(c))
    /\ WF_vars(EnterSlot(c))
    /\ SF_vars(LeaveSlot(c))

Spec == Init /\ [][Next]_vars

FairSpec == Spec /\ Fairness

----------------------------------------------------------------------------
(* Properties *)

\* How many tokens of each client the daemon has to account for: those its
\* handler counts, and one it was granted and has not counted yet.
Owned == [c \in Clients |-> tok[c] + (IF serve[c] = "granted" THEN 1 ELSE 0)]

\* The tokens a function from clients to counts stands for, and those of a build.
Tokens(f) == UNION {{c} \X (1..f[c]) : c \in Clients}
TokensOf(f, b) == {u \in Tokens(f) : BuildOf[u[1]] = b}

\* Conservation (slots.go out and held against serve's own count): every token
\* given out is owned by exactly one live handler, in total and per build, so a
\* killed wrapper leaks none and no DONE or hang-up returns one twice.
Conservation ==
  /\ out = Cardinality(Tokens(Owned))
  /\ \A b \in Builds : held[b] = Cardinality(TokensOf(Owned, b))

\* Admission (slots.go, "keeps the number of running compilers at `limit`"): of
\* the clients this daemon answered OK, at most Limit are running a compiler.
Admitted == {c \in Clients : client[c] = "running" /\ serve[c] # "none"}
Admission == out <= Limit /\ Cardinality(Admitted) <= Limit

\* NoIdleToken (grant's loop, Acquire's fast path): nobody waits while a token
\* is free, so no wake-up is lost.
NoIdleToken == waiting # <<>> => out = Limit

\* QueueExact (Acquire, grant): the queue holds each blocked handler once and
\* nobody else, also when clients die or connections are reused.
QueueExact ==
  /\ \A i, j \in DOMAIN waiting : waiting[i] = waiting[j] => i = j
  /\ \A c \in Clients : serve[c] = "queued" <=> \E i \in DOMAIN waiting : waiting[i] = c

\* ProbesFirst (slots.go, "one build's -j16 burst cannot starve another's serial
\* configure probes"): a request of a build that holds no token is passed over
\* only for another build that held none.
ProbesFirst ==
  [][\A c, d \in Clients :
       /\ serve[c] = "queued" /\ serve'[c] = "queued" /\ held[BuildOf[c]] = 0
       /\ serve[d] # "granted" /\ serve'[d] = "granted"
       => held'[BuildOf[d]] = 1]_vars

\* Served (Acquire blocks "until build may run one more compiler"): a client
\* that asked is eventually answered, dies or loses the daemon; nobody starves.
Served == \A c \in Clients : client[c] = "asked" ~> client[c] # "asked"

\* Reclaimed (serve's deferred release, "a killed compiler wrapper must not
\* leak them"): the handler of a client that is gone ends and gives its tokens
\* back, even when the client died while queued.
Reclaimed ==
  \A c \in Clients : (client[c] = "off" /\ serve[c] # "none") ~> serve[c] = "none"

\* The refinement mapping: who waits, and who has a token counted or granted.
Want == {c \in Clients : serve[c] = "queued"}
Has == {c \in Clients : tok[c] > 0 \/ serve[c] = "granted"}
Service == INSTANCE SlotService WITH want <- Want, has <- Has

\* Implements (slots.go as its callers see it): queue, counters, dead clients and
\* reconnections together behave like the plain service of SlotService.tla, in
\* which a token that is returned goes straight to one who waits.
Implements == Service!Spec
============================================================================
