------------------------------- MODULE Jsem -------------------------------
(***************************************************************************)
(* jsem (main.cc, broker.cc): GHC's job semaphore, fed from jigd's slots.  *)
(* One cabal build makes the semaphore and runs ghcs under jsem; the first *)
(* jsem forks the broker.  Each ghc takes a token per capability beyond    *)
(* its first and gives it back; a capability may also run a C compiler,    *)
(* which jig runs with a slot of its own, and waits for it with its token  *)
(* in hand.  Broker::Tick is a sequence of semaphore operations and socket *)
(* calls, and everybody else runs in between.                              *)
(*                                                                         *)
(* jigd is the service of SlotService; a connection that was closed keeps  *)
(* its place in the queue until the daemon writes to it or reads from it.  *)
(***************************************************************************)
EXTENDS SlotService, Functions, Sequences

CONSTANTS
  Conns,        \* bound: connections of the broker the daemon knows of at once
  Ghcs,
  Ccs, Owner,   \* C compilers, and the ghc that waits for each
  Cabal,        \* tokens cabal makes the semaphore with
  MaxTakes,     \* bound: how often each ghc takes a token
  MaxRestarts,  \* bound: restarts of the daemon
  NoConn

ASSUME JsemAssumption ==
  /\ Clients = Conns \cup Ccs /\ Conns \cap Ccs = {}
  /\ IsFiniteSet(Conns) /\ IsFiniteSet(Ghcs)
  /\ Owner \in [Ccs -> Ghcs]
  /\ Cabal \in Nat /\ MaxTakes \in Nat /\ MaxRestarts \in Nat
  /\ Limit \in Nat \ {0}
  /\ NoConn \notin Clients

VARIABLES
  sem,      \* the semaphore's count
  linked,   \* "yes" until cabal unlinks the semaphore
  ghc,      \* "off", "on" per ghc
  busy,     \* capabilities beyond a ghc's first: <<g, k>> is the one of its k-th token
  takes,    \* how many tokens it ever took
  pc,       \* where the broker is; "off" when nobody holds the lock file
  idle,     \* tokens Tick has taken out so far
  inuse,    \* Tick's in_use
  held,     \* connections that stand for a token         (Broker.held_)
  order,    \* connection of the pending order            (DaemonSource.pending)
  sent,     \* connections with a SLOT line the daemon has not read
  closed,   \* connections the broker has closed
  restarts

broker == <<pc, idle, inuse, held, order>>
cabal == <<linked, ghc, busy, takes>>
vars == <<want, has, sem, cabal, broker, sent, closed, restarts>>

TypeOK ==
  /\ want \subseteq Clients /\ has \subseteq Clients
  /\ sem \in Nat
  /\ linked \in {"yes", "no"}
  /\ ghc \in [Ghcs -> {"off", "on"}]
  /\ busy \subseteq Ghcs \X (1..MaxTakes)
  /\ takes \in [Ghcs -> 0..MaxTakes]
  /\ pc \in {"off", "tick", "drain", "return", "order", "poll", "post"}
  /\ idle \in Nat /\ inuse \in Nat
  /\ held \in Seq(Conns)
  /\ order \in Conns \cup {NoConn}
  /\ sent \subseteq Conns /\ closed \subseteq Conns
  /\ restarts \in 0..MaxRestarts

JInit ==
  /\ Init
  /\ sem = Cabal
  /\ linked = "yes"
  /\ ghc = [g \in Ghcs |-> "off"]
  /\ busy = {}
  /\ takes = [g \in Ghcs |-> 0]
  /\ pc = "off"
  /\ idle = 0
  /\ inuse = 0
  /\ held = <<>>
  /\ order = NoConn
  /\ sent = {}
  /\ closed = {}
  /\ restarts = 0

----------------------------------------------------------------------------
(* cabal, ghc and its C compilers *)

\* main: the jsem that gets the lock of the semaphore forks the broker, if the
\* daemon is up; either way it becomes ghc.
GhcStart(g, up) ==
  /\ linked = "yes"
  /\ ghc[g] = "off"
  /\ ghc' = [ghc EXCEPT ![g] = "on"]
  /\ pc' = IF pc = "off" /\ up THEN "tick" ELSE pc
  /\ UNCHANGED <<want, has, sem, linked, busy, takes, idle, inuse, held, order, sent, closed, restarts>>

Take(g) ==
  /\ ghc[g] = "on"
  /\ takes[g] < MaxTakes
  /\ sem > 0
  /\ sem' = sem - 1
  /\ takes' = [takes EXCEPT ![g] = @ + 1]
  /\ busy' = busy \cup {<<g, takes'[g]>>}
  /\ UNCHANGED <<want, has, linked, ghc, broker, sent, closed, restarts>>

Tokens(g) == {t \in busy : t[1] = g}

\* The C compilers of g, one in a capability.
Compiling(g) == {c \in Ccs : Owner[c] = g /\ c \in want \cup has}

\* A capability that does not wait for a C compiler ends.
Give(g) ==
  /\ Cardinality(Compiling(g)) <= Cardinality(Tokens(g))
  /\ \E k \in 1..MaxTakes : <<g, k>> \in busy /\ busy' = busy \ {<<g, k>>}
  /\ sem' = sem + 1
  /\ UNCHANGED <<want, has, linked, ghc, takes, broker, sent, closed, restarts>>

GhcExit(g) ==
  /\ ghc[g] = "on"
  /\ \A k \in 1..MaxTakes : <<g, k>> \notin busy
  /\ Compiling(g) = {}
  /\ ghc' = [ghc EXCEPT ![g] = "off"]
  /\ UNCHANGED <<want, has, sem, linked, busy, takes, broker, sent, closed, restarts>>

CabalExit ==
  /\ linked = "yes"
  /\ \A g \in Ghcs : ghc[g] = "off"
  /\ linked' = "no"
  /\ UNCHANGED <<want, has, sem, ghc, busy, takes, broker, sent, closed, restarts>>

CcStart(c) ==
  /\ ghc[Owner[c]] = "on"
  /\ Cardinality(Compiling(Owner[c])) <= Cardinality(Tokens(Owner[c]))
  /\ Request(c)
  /\ UNCHANGED <<sem, cabal, broker, sent, closed, restarts>>

CcEnd(c) ==
  /\ Free(c)
  /\ UNCHANGED <<sem, cabal, broker, sent, closed, restarts>>

----------------------------------------------------------------------------
(* The broker: RunBroker and Tick *)

Drop(conns) == closed' = closed \cup (conns \ {NoConn})

\* Not at every tick the broker looks whether the semaphore is still there.
TickStart ==
  /\ pc = "tick"
  /\ pc' = "drain"
  /\ UNCHANGED <<want, has, sem, cabal, idle, inuse, held, order, sent, closed, restarts>>

\* Variant: wait until ghc has given everything back.
BrokerExitLast ==
  /\ pc = "tick"
  /\ linked = "no"
  /\ held = <<>>
  /\ pc' = "off"
  /\ Drop({order})
  /\ order' = NoConn
  /\ UNCHANGED <<want, has, sem, cabal, idle, inuse, held, sent, restarts>>

\* It is not: ~Broker takes out what it put in, and everything is dropped.
BrokerExit ==
  /\ pc = "tick"
  /\ linked = "no"
  /\ pc' = "off"
  /\ sem' = IF sem > Len(held) THEN sem - Len(held) ELSE 0
  /\ Drop(Range(held) \cup {order})
  /\ held' = <<>>
  /\ order' = NoConn
  /\ UNCHANGED <<want, has, cabal, idle, inuse, sent, restarts>>

\* Variant: the attempt that fails is counted, too.
DrainCountsAll ==
  /\ pc = "drain"
  /\ idle' = idle + 1
  /\ IF sem > 0
     THEN sem' = sem - 1 /\ UNCHANGED pc
     ELSE pc' = "return" /\ UNCHANGED sem
  /\ UNCHANGED <<want, has, cabal, inuse, held, order, sent, closed, restarts>>

\* One sem_trywait of the loop.
Drain ==
  /\ pc = "drain"
  /\ IF sem > 0
     THEN sem' = sem - 1 /\ idle' = idle + 1 /\ UNCHANGED pc
     ELSE pc' = "return" /\ UNCHANGED <<sem, idle>>
  /\ UNCHANGED <<want, has, cabal, inuse, held, order, sent, closed, restarts>>

Less(a, b) == IF a < b THEN a ELSE b

\* Variant: without the bound on idle, which counts cabal's tokens, too.
ReturnUnbounded ==
  /\ pc = "return"
  /\ inuse' = Len(held) - idle
  /\ held' = SubSeq(held, 1, Less(Len(held), inuse' + 1))
  /\ Drop(Range(held) \ Range(held'))
  /\ idle' = 0
  /\ pc' = "order"
  /\ UNCHANGED <<want, has, sem, cabal, order, sent, restarts>>

\* Variant: nothing is returned before the broker ends.
ReturnLater ==
  /\ pc = "return"
  /\ inuse' = Len(held) - Less(Len(held), idle)
  /\ idle' = 0
  /\ pc' = "order"
  /\ UNCHANGED <<want, has, sem, cabal, held, order, sent, closed, restarts>>

\* Tokens that came back are returned to the daemon but for one.
Return ==
  /\ pc = "return"
  /\ inuse' = Len(held) - Less(Len(held), idle)
  /\ held' = SubSeq(held, 1, Less(Len(held), inuse' + 1))
  /\ Drop(Range(held) \ Range(held'))
  /\ idle' = 0
  /\ pc' = "order"
  /\ UNCHANGED <<want, has, sem, cabal, order, sent, restarts>>

Spare == Len(held) = inuse + 1

\* source_(false): an order that is not needed any more.
Cancel ==
  /\ pc = "order"
  /\ Spare
  /\ Drop({order})
  /\ order' = NoConn
  /\ pc' = "post"
  /\ UNCHANGED <<want, has, sem, cabal, idle, inuse, held, sent, restarts>>

\* source_(true) without an order: connect and ask, if the daemon is there.
Place ==
  /\ pc = "order"
  /\ ~Spare
  /\ order = NoConn
  /\ \E c \in Conns \ (Range(held) \cup sent \cup want \cup has) :
       /\ order' = c
       /\ sent' = sent \cup {c}
       /\ closed' = closed \ {c}
  /\ pc' = "poll"
  /\ UNCHANGED <<want, has, sem, cabal, idle, inuse, held, restarts>>

Refused ==
  /\ pc = "order"
  /\ ~Spare
  /\ order = NoConn
  /\ pc' = "post"
  /\ UNCHANGED <<want, has, sem, cabal, idle, inuse, held, order, sent, closed, restarts>>

\* Variant: an order counts as soon as it was placed.
PollUnanswered ==
  /\ pc = "poll" \/ (pc = "order" /\ ~Spare /\ order # NoConn)
  /\ held' = Append(held, order)
  /\ order' = NoConn
  /\ pc' = "post"
  /\ UNCHANGED <<want, has, sem, cabal, idle, inuse, sent, closed, restarts>>

\* The answer is there, or the end of the connection, or nothing yet.
Poll ==
  /\ pc = "poll" \/ (pc = "order" /\ ~Spare /\ order # NoConn)
  /\ \/ /\ order \in has
        /\ held' = Append(held, order) /\ order' = NoConn /\ UNCHANGED closed
     \/ /\ order \in (sent \cup want) \ has
        /\ UNCHANGED <<held, order, closed>>
     \/ /\ order \notin has \cup sent \cup want
        /\ Drop({order}) /\ order' = NoConn /\ UNCHANGED held
  /\ pc' = "post"
  /\ UNCHANGED <<want, has, sem, cabal, idle, inuse, sent, restarts>>

\* Variant: a spare token whether or not a slot backs it.
PostAlways ==
  /\ pc = "post"
  /\ sem' = IF Len(held) >= inuse THEN sem + 1 ELSE sem
  /\ pc' = "tick"
  /\ UNCHANGED <<want, has, cabal, idle, inuse, held, order, sent, closed, restarts>>

Post ==
  /\ pc = "post"
  /\ sem' = IF Len(held) > inuse THEN sem + 1 ELSE sem
  /\ pc' = "tick"
  /\ UNCHANGED <<want, has, cabal, idle, inuse, held, order, sent, closed, restarts>>

----------------------------------------------------------------------------
(* jigd *)

ReadSlot(c) ==
  /\ c \in sent
  /\ sent' = sent \ {c}
  /\ Request(c)
  /\ UNCHANGED <<sem, cabal, broker, closed, restarts>>

\* The daemon finds a connection closed that has a token.
Reap(c) ==
  /\ c \in closed
  /\ Free(c)
  /\ UNCHANGED <<sem, cabal, broker, sent, closed, restarts>>

Restart ==
  /\ restarts < MaxRestarts
  /\ restarts' = restarts + 1
  /\ Forget
  /\ sent' = {}
  /\ UNCHANGED <<sem, cabal, broker, closed>>

----------------------------------------------------------------------------

Tick == TickStart \/ Drain \/ Return \/ Cancel \/ Place \/ Refused \/ Poll \/ Post

Daemon == \E c \in Conns : ReadSlot(c) \/ Reap(c)

JNext ==
  \/ \E g \in Ghcs : (\E up \in BOOLEAN : GhcStart(g, up)) \/ Take(g) \/ Give(g) \/ GhcExit(g)
  \/ CabalExit
  \/ \E c \in Ccs : CcStart(c) \/ CcEnd(c)
  \/ Tick \/ BrokerExit \/ Daemon \/ Restart

JSpec == JInit /\ [][JNext]_vars

\* Broker, daemon and compilers go on; the broker looks at every 50th tick; the
\* daemon is up again and again; a ghc that does not wait for C compilers gives its
\* tokens back and ends, after finitely many of them, and so does cabal; whoever
\* waits gets one of the tokens that come back (Served in Slots.tla).
JFairness ==
  /\ WF_vars(Tick) /\ SF_vars(BrokerExit) /\ SF_vars(Place)
  /\ \A c \in Conns : WF_vars(ReadSlot(c)) /\ WF_vars(Reap(c))
  /\ \A c \in Ccs : WF_vars(CcEnd(c))
  /\ \A c \in Clients : SF_vars(JNext /\ c \in want /\ c \in has')
  /\ \A g \in Ghcs : SF_vars(Give(g)) /\ SF_vars(GhcExit(g))
  /\ SF_vars(CabalExit)

JFairSpec == JSpec /\ JFairness

----------------------------------------------------------------------------
(* Properties *)

\* Capabilities of all ghcs beyond their first.
Extra == Cardinality(busy)

\* Whether Tick is going to put one token in.
Due == IF pc \in {"order", "poll", "post"} /\ Len(held) > inuse THEN 1 ELSE 0

\* What is in use, on offer or counted in Tick, beyond what slots back.
Unbacked == sem + idle + Extra + Due - Len(held)

\* NoOverAdmission (Tick: "else a waiter could take a token nobody admitted";
\* broker.qnt): every capability in use or on offer, at any point inside Tick, is
\* backed by one of cabal's tokens or by a slot.
NoOverAdmission == sem + idle + Extra + Due <= Cabal + Len(held)

\* Retired (Tick takes cabal's own tokens out and does not put them back): what
\* no slot backs only gets less while the broker runs.
Retired == [][pc' # "off" => Unbacked' <= Unbacked]_vars

\* Backed (DaemonSource: a token is a connection that was answered OK): as long
\* as the daemon lives, each token the broker counts is a slot the daemon counts.
Backed == restarts = 0 => Range(held) \subseteq has

\* Returned (~Broker, DaemonSource: "which the daemon frees on close"): once the
\* semaphore is gone, all of the broker's slots come back, cancelled orders too.
Returned == linked = "no" ~> Conns \cap (want \cup has) = {}

\* All slots are needed for the capabilities, with the broker's spare, and each
\* capability of each ghc waits for a slot for its C compiler.
AllWait ==
  /\ Cardinality(Conns \cap has) = Limit /\ Limit <= Extra + 1
  /\ \A g \in Ghcs : ghc[g] = "on" =>
       Compiling(g) \subseteq want /\ Cardinality(Compiling(g)) = Cardinality(Tokens(g)) + 1

\* CcServed (Tick returns all tokens but one): a C compiler that a ghc waits for
\* gets a slot, whatever the broker keeps for itself, unless all wait for all.
CcServed == \A c \in Ccs : c \in want ~> c \notin want \/ AllWait
============================================================================
