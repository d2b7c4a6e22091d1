--------------------------- MODULE JigModesProofs ---------------------------
(***************************************************************************)
(* Modes of jig, for every value of their constants: the broker of ghc and *)
(* cabal, the identities jigd answers, and the go cache.                   *)
(***************************************************************************)
EXTENDS Jsem, Identities, GoCache, FiniteSetTheorems, TLAPS

------------------------------------------------------------------------------
(* The broker: any number of ghcs, C compilers, slots and tokens cabal starts *)
(* with, and any number of restarts of the daemon *)

InTick == pc \in {"order", "poll", "post"}

\* The books: who holds a capability is a running ghc, and inside Tick, after
\* in_use is known, it alone covers what is not cabal's.
Books ==
  /\ IsFiniteSet(busy)
  /\ \A g \in Ghcs, k \in 1..MaxTakes : <<g, k>> \in busy => k <= takes[g] /\ ghc[g] = "on"
  /\ linked = "no" => \A g \in Ghcs : ghc[g] = "off"
  /\ pc \notin {"drain", "return"} => idle = 0
  /\ InTick => inuse <= Len(held) /\ Len(held) <= inuse + 1
  /\ pc = "poll" => Len(held) = inuse
  /\ sem + idle + Extra <= Cabal + (IF InTick THEN inuse ELSE Len(held))

Inv == TypeOK /\ Books

----------------------------------------------------------------------------
(* Tokens in use *)

LEMMA ExtraNat ==
  ASSUME IsFiniteSet(busy) PROVE Extra \in Nat
BY FS_CardinalityType, Zenon DEF Extra

LEMMA TakeExtra ==
  ASSUME Inv, NEW g \in Ghcs, Take(g)
  PROVE  IsFiniteSet(busy') /\ Extra' = Extra + 1
<1>1. takes \in [Ghcs -> 0..MaxTakes] /\ takes[g] < MaxTakes /\ MaxTakes \in Nat
  BY JsemAssumption, Zenon DEF Inv, TypeOK, Take
<1>2. takes'[g] = takes[g] + 1 /\ takes'[g] \in 1..MaxTakes
  BY <1>1 DEF Take
<1>3. <<g, takes'[g]>> \notin busy
  BY <1>1, <1>2 DEF Inv, Books
<1>4. busy' = busy \cup {<<g, takes'[g]>>}
  BY Zenon DEF Take
<1>5. IsFiniteSet(busy)
  BY Zenon DEF Inv, Books
<1> QED BY <1>3, <1>4, <1>5, FS_AddElement, Zenon DEF Extra

LEMMA GiveExtra ==
  ASSUME Inv, NEW g \in Ghcs, Give(g)
  PROVE  IsFiniteSet(busy') /\ Extra' = Extra - 1
<1>1. PICK k \in 1..MaxTakes : <<g, k>> \in busy /\ busy' = busy \ {<<g, k>>}
  BY Zenon DEF Give
<1>2. IsFiniteSet(busy)
  BY Zenon DEF Inv, Books
<1> QED BY <1>1, <1>2, FS_RemoveElement, Zenon DEF Extra

LEMMA NoneInUse ==
  ASSUME Inv, linked = "no" PROVE Extra = 0
<1>1. ASSUME NEW u \in busy PROVE FALSE
  <2>1. PICK g \in Ghcs, k \in 1..MaxTakes : u = <<g, k>>
    BY <1>1 DEF Inv, TypeOK
  <2> QED BY <1>1, <2>1, Zenon DEF Inv, Books
<1>2. busy = {}
  BY <1>1, Zenon
<1> QED BY <1>2, FS_EmptySet, Zenon DEF Extra

----------------------------------------------------------------------------
(* Types *)

\* Of n tokens held with i in the semaphore, u are in use and k are kept.
LEMMA Kept ==
  ASSUME NEW n \in Nat, NEW i \in Nat, NEW u, u = n - Less(n, i), NEW k, k = Less(n, u + 1)
  PROVE  /\ u \in Nat /\ u <= n /\ n <= u + i
         /\ k \in Nat /\ k <= n /\ u <= k /\ k <= u + 1
BY DEF Less

LEMMA ReturnSizes ==
  ASSUME held \in Seq(Conns), idle \in Nat, Return
  PROVE  /\ inuse' \in Nat /\ inuse' <= Len(held) /\ Len(held) <= inuse' + idle
         /\ held' \in Seq(Conns)
         /\ inuse' <= Len(held') /\ Len(held') <= inuse' + 1
<1> DEFINE n == Len(held)
           k == Less(n, inuse' + 1)
<1>1. n \in Nat
  OBVIOUS
<1>2. inuse' = n - Less(n, idle) /\ held' = SubSeq(held, 1, k)
  BY Zenon DEF Return
<1>3. /\ inuse' \in Nat /\ inuse' <= n /\ n <= inuse' + idle
      /\ k \in Nat /\ k <= n /\ inuse' <= k /\ k <= inuse' + 1
  <2> HIDE DEF n
  <2> QED BY <1>1, <1>2, Kept, Zenon
<1>4. held' \in Seq(Conns) /\ Len(held') = k
  <2> HIDE DEF k
  <2> QED BY <1>2, <1>3
<1> HIDE DEF k
<1> QED BY <1>3, <1>4, Zenon

LEMMA TypeInit == JInit => TypeOK
BY JsemAssumption DEF JInit, Init, TypeOK

LEMMA ServiceType ==
  ASSUME TypeOK, NEW c \in Clients, Request(c) \/ Free(c)
  PROVE  want' \subseteq Clients /\ has' \subseteq Clients
BY DEF TypeOK, Request, Free

LEMMA TypeNext ==
  ASSUME TypeOK, [JNext]_vars
  PROVE  TypeOK'
<1> USE JsemAssumption
<1>1. ASSUME NEW g \in Ghcs, NEW up \in BOOLEAN, GhcStart(g, up) PROVE TypeOK'
  BY <1>1, Zenon DEF TypeOK, GhcStart
<1>2. ASSUME NEW g \in Ghcs, Take(g) PROVE TypeOK'
  <2>1. takes' \in [Ghcs -> 0..MaxTakes] /\ takes'[g] \in 1..MaxTakes
    BY <1>2 DEF TypeOK, Take
  <2>2. sem' \in Nat
    BY <1>2 DEF TypeOK, Take
  <2> QED BY <1>2, <2>1, <2>2 DEF TypeOK, Take, broker
<1>3. ASSUME NEW g \in Ghcs, Give(g) PROVE TypeOK'
  BY <1>3 DEF TypeOK, Give, broker
<1>4. ASSUME NEW g \in Ghcs, GhcExit(g) PROVE TypeOK'
  BY <1>4, Zenon DEF TypeOK, GhcExit, broker
<1>5. CASE CabalExit
  BY <1>5, Zenon DEF TypeOK, CabalExit, broker
<1>6. ASSUME NEW c \in Ccs, CcStart(c) \/ CcEnd(c) PROVE TypeOK'
  <2>1. c \in Clients /\ (Request(c) \/ Free(c))
    BY <1>6, Zenon DEF CcStart, CcEnd
  <2>2. want' \subseteq Clients /\ has' \subseteq Clients
    BY <2>1, ServiceType, Zenon
  <2> QED BY <1>6, <2>2, Zenon DEF TypeOK, CcStart, CcEnd, broker, cabal
<1>7. CASE TickStart
  BY <1>7, Zenon DEF TypeOK, TickStart, cabal
<1>8. CASE BrokerExit
  BY <1>8 DEF TypeOK, BrokerExit, Drop, Range, cabal
<1>9. CASE Drain
  BY <1>9 DEF TypeOK, Drain, cabal
<1>10. CASE Return
  <2>1. inuse' \in Nat /\ held' \in Seq(Conns)
    BY <1>10, ReturnSizes, Zenon DEF TypeOK
  <2>3. closed' \subseteq Conns
    BY <1>10 DEF TypeOK, Return, Drop, Range
  <2> QED BY <1>10, <2>1, <2>3, Zenon DEF TypeOK, Return, cabal
<1>11. CASE Cancel
  BY <1>11, Zenon DEF TypeOK, Cancel, Drop, cabal
<1>12. CASE Place
  BY <1>12, Zenon DEF TypeOK, Place, cabal
<1>13. CASE Refused
  BY <1>13, Zenon DEF TypeOK, Refused, cabal
<1>14. CASE Poll
  <2>2. order \in Conns \cup {NoConn} /\ held \in Seq(Conns) /\ closed \subseteq Conns
    BY Zenon DEF TypeOK
  <2>3. CASE order \in has
    <3>1. held' = Append(held, order) /\ order' = NoConn /\ closed' = closed
      BY <1>14, <2>3, Zenon DEF Poll
    <3>2. order \in Conns
      BY <2>2, <2>3, Zenon DEF TypeOK
    <3>3. held' \in Seq(Conns)
      BY <2>2, <3>1, <3>2
    <3> QED BY <1>14, <3>1, <3>3, Zenon DEF TypeOK, Poll, cabal
  <2>4. CASE order \notin has
    <3>1. held' = held /\ order' \in {order, NoConn} /\ closed' \subseteq closed \cup (Conns \cap {order})
      BY <1>14, <2>2, <2>4, Zenon DEF Poll, Drop
    <3> QED BY <1>14, <2>2, <3>1, Zenon DEF TypeOK, Poll, cabal
  <2> QED BY <2>3, <2>4, Zenon
<1>15. CASE Post
  BY <1>15 DEF TypeOK, Post, cabal
<1>16. ASSUME NEW c \in Conns, ReadSlot(c) \/ Reap(c) PROVE TypeOK'
  <2>1. c \in Clients /\ (Request(c) \/ Free(c))
    BY <1>16, Zenon DEF ReadSlot, Reap
  <2>2. want' \subseteq Clients /\ has' \subseteq Clients
    BY <2>1, ServiceType, Zenon
  <2> QED BY <1>16, <2>2, Zenon DEF TypeOK, ReadSlot, Reap, broker, cabal
<1>17. CASE Restart
  BY <1>17 DEF TypeOK, Restart, Forget, broker, cabal
<1>18. CASE UNCHANGED vars
  BY <1>18, Zenon DEF TypeOK, vars, broker, cabal
<1> QED
  BY <1>1, <1>2, <1>3, <1>4, <1>5, <1>6, <1>7, <1>8, <1>9, <1>10, <1>11, <1>12, <1>13,
     <1>14, <1>15, <1>16, <1>17, <1>18
  DEF JNext, Tick, Daemon
----------------------------------------------------------------------------
(* The books *)

LEMMA BooksInit == JInit => Books
<1> SUFFICES ASSUME JInit PROVE Books
  BY Zenon
<1>1. busy = {} /\ IsFiniteSet(busy) /\ Extra = 0
  BY FS_EmptySet, Zenon DEF JInit, Extra
<1>2. sem = Cabal /\ idle = 0 /\ held = <<>> /\ Len(held) = 0 /\ pc = "off" /\ linked = "yes"
  BY Zenon DEF JInit
<1> QED BY <1>1, <1>2, JsemAssumption DEF Books, InTick

\* The sizes that the last conjunct of Books compares.
LEMMA Sizes ==
  ASSUME Inv
  PROVE  /\ sem \in Nat /\ idle \in Nat /\ Extra \in Nat /\ inuse \in Nat
         /\ Len(held) \in Nat /\ Cabal \in Nat
BY ExtraNat, JsemAssumption DEF Inv, TypeOK, Books

\* Steps of the daemon and of C compilers leave the books alone.
LEMMA BooksUnchanged ==
  ASSUME Books, UNCHANGED <<sem, cabal, broker>>
  PROVE  Books'
BY Zenon DEF Books, InTick, Extra, cabal, broker

LEMMA BooksNext ==
  ASSUME Inv, [JNext]_vars
  PROVE  Books'
<1> USE JsemAssumption
<1>1. ASSUME NEW g \in Ghcs, NEW up \in BOOLEAN, GhcStart(g, up) PROVE Books'
  BY <1>1, Zenon DEF Inv, TypeOK, Books, InTick, Extra, GhcStart
<1>2. ASSUME NEW g \in Ghcs, Take(g) PROVE Books'
  <2>1. IsFiniteSet(busy') /\ Extra' = Extra + 1
    BY <1>2, TakeExtra, Zenon
  <2>2. ASSUME NEW h \in Ghcs, NEW k \in 1..MaxTakes, <<h, k>> \in busy'
        PROVE  k <= takes'[h] /\ ghc'[h] = "on"
    <3>1. takes \in [Ghcs -> 0..MaxTakes] /\ takes' = [takes EXCEPT ![g] = @ + 1] /\ ghc' = ghc /\ ghc[g] = "on"
      BY <1>2, Zenon DEF Inv, TypeOK, Take
    <3>2. takes'[h] >= takes[h] /\ takes[h] \in Nat /\ takes'[h] \in Nat
      BY <3>1
    <3>3. CASE <<h, k>> \in busy
      <4>1. k <= takes[h] /\ ghc[h] = "on"
        BY <3>3, Zenon DEF Inv, Books
      <4> QED BY <3>1, <3>2, <4>1
    <3>4. CASE <<h, k>> \notin busy
      <4>1. h = g /\ k = takes'[g]
        BY <1>2, <2>2, <3>4, Zenon DEF Take
      <4> QED BY <3>1, <3>2, <4>1
    <3> QED BY <3>3, <3>4, Zenon
  <2>3. sem' = sem - 1 /\ UNCHANGED <<linked, ghc, pc, idle, inuse, held>>
    BY <1>2, Zenon DEF Take, broker
  <2>4. InTick' <=> InTick
    BY <2>3, Zenon DEF InTick
  <2>5. sem' + idle' + Extra' <= Cabal + (IF InTick' THEN inuse' ELSE Len(held'))
    <3>1. sem' + idle' + Extra' = sem + idle + Extra
      BY <2>1, <2>3, Sizes
    <3>2. sem + idle + Extra <= Cabal + (IF InTick THEN inuse ELSE Len(held))
      BY Zenon DEF Inv, Books
    <3> QED BY <2>3, <2>4, <3>1, <3>2, Zenon
  <2> QED BY <2>1, <2>2, <2>3, <2>4, <2>5, Zenon DEF Inv, Books
<1>3. ASSUME NEW g \in Ghcs, Give(g) PROVE Books'
  <2>1. IsFiniteSet(busy') /\ Extra' = Extra - 1
    BY <1>3, GiveExtra, Zenon
  <2>2. busy' \subseteq busy
    BY <1>3, Zenon DEF Give
  <2>3. sem' = sem + 1 /\ UNCHANGED <<linked, ghc, takes, pc, idle, inuse, held>>
    BY <1>3, Zenon DEF Give, broker
  <2>4. InTick' <=> InTick
    BY <2>3, Zenon DEF InTick
  <2>5. sem' + idle' + Extra' <= Cabal + (IF InTick' THEN inuse' ELSE Len(held'))
    <3>1. sem' + idle' + Extra' = sem + idle + Extra
      BY <2>1, <2>3, Sizes
    <3>2. sem + idle + Extra <= Cabal + (IF InTick THEN inuse ELSE Len(held))
      BY Zenon DEF Inv, Books
    <3> QED BY <2>3, <2>4, <3>1, <3>2, Zenon
  <2> QED BY <2>1, <2>2, <2>3, <2>4, <2>5, Zenon DEF Inv, Books
<1>4. ASSUME NEW g \in Ghcs, GhcExit(g) PROVE Books'
  BY <1>4, Zenon DEF Inv, TypeOK, Books, InTick, Extra, GhcExit, broker
<1>5. CASE CabalExit
  BY <1>5, Zenon DEF Inv, Books, InTick, Extra, CabalExit, broker
<1>6. ASSUME NEW c \in Ccs, CcStart(c) \/ CcEnd(c) PROVE Books'
  BY <1>6, BooksUnchanged, Zenon DEF Inv, CcStart, CcEnd
<1>7. CASE TickStart
  BY <1>7, Zenon DEF Inv, Books, InTick, Extra, TickStart, cabal
<1>8. CASE BrokerExit
  <2>1. linked = "no" /\ Extra = 0 /\ idle = 0
    BY <1>8, NoneInUse, Zenon DEF BrokerExit, Inv, Books
  <2>2. sem <= Cabal + Len(held)
    BY <1>8, <2>1, Sizes DEF BrokerExit, Inv, Books, InTick
  <2>3. sem' \in Nat /\ sem' <= Cabal
    BY <1>8, <2>2, Sizes DEF BrokerExit
  <2>4. held' = <<>> /\ Len(held') = 0 /\ pc' = "off" /\ UNCHANGED <<cabal, idle>> /\ Extra' = Extra
    BY <1>8, Zenon DEF BrokerExit, Extra, cabal
  <2>5. UNCHANGED <<linked, ghc, busy, takes>>
    BY <2>4, Zenon DEF cabal
  <2>6. idle' = 0 /\ Extra' = 0 /\ Len(held') = 0
    BY <2>1, <2>4, Zenon DEF cabal
  <2>7. sem' + idle' + Extra' <= Cabal + Len(held')
    <3>1. PICK s \in Nat : s = sem'
      BY <2>3, Zenon
    <3>2. s <= Cabal
      BY <2>3, <3>1, Zenon
    <3>3. s + 0 + 0 <= Cabal + 0
      BY <3>2, Sizes
    <3> QED BY <2>6, <3>1, <3>3, Zenon
  <2> QED BY <2>4, <2>5, <2>6, <2>7, Zenon DEF Inv, Books, InTick
<1>9. CASE Drain
  <2>1. UNCHANGED <<cabal, held, inuse>> /\ Extra' = Extra /\ pc = "drain" /\ pc' \in {"drain", "return"}
    BY <1>9, Zenon DEF Drain, Extra, cabal
  <2>2. sem' + idle' = sem + idle
    BY <1>9, Sizes DEF Drain
  <2>3. sem' + idle' + Extra' <= Cabal + Len(held')
    BY <2>1, <2>2, Sizes, Zenon DEF Inv, Books, InTick
  <2> QED BY <2>1, <2>3, Zenon DEF Inv, Books, InTick, cabal
<1>10. CASE Return
  <2>1. UNCHANGED <<cabal, sem>> /\ Extra' = Extra /\ pc = "return" /\ pc' = "order" /\ idle' = 0
    BY <1>10, Zenon DEF Return, Extra, cabal
  <2>4. /\ inuse' \in Nat /\ inuse' <= Len(held) /\ Len(held) <= inuse' + idle
        /\ inuse' <= Len(held') /\ Len(held') <= inuse' + 1
    BY <1>10, ReturnSizes, Zenon DEF Inv, TypeOK
  <2>5. sem + idle + Extra <= Cabal + Len(held)
    BY <2>1, Zenon DEF Inv, Books, InTick
  <2>6. sem' + idle' + Extra' <= Cabal + inuse'
    BY <2>1, <2>4, <2>5, Sizes, SMTT(30)
  <2> QED BY <2>1, <2>4, <2>6, Zenon DEF Inv, Books, InTick, cabal
<1>11. CASE Cancel
  BY <1>11, Zenon DEF Inv, Books, InTick, Extra, Cancel, cabal
<1>12. CASE Place
  BY <1>12, Sizes DEF Inv, Books, InTick, Extra, Place, Spare, cabal
<1>13. CASE Refused
  BY <1>13, Zenon DEF Inv, Books, InTick, Extra, Refused, cabal
<1>14. CASE Poll
  <2>1. UNCHANGED <<cabal, sem, idle, inuse>> /\ Extra' = Extra /\ InTick /\ pc' = "post"
    BY <1>14, Zenon DEF Poll, InTick, Extra, cabal
  <2>2. Len(held) = inuse
    BY <1>14, <2>1, Sizes DEF Poll, Spare, Inv, Books
  <2>3. Len(held') \in {inuse, inuse + 1}
    <3>1. held' \in {held, Append(held, order)}
      BY <1>14, Zenon DEF Poll
    <3> QED BY <2>2, <3>1 DEF Inv, TypeOK
  <2>4. InTick' /\ inuse' <= Len(held') /\ Len(held') <= inuse' + 1 /\ idle' = 0
    BY <2>1, <2>3, Sizes DEF Inv, Books, InTick
  <2>5. sem' + idle' + Extra' <= Cabal + inuse'
    BY <2>1, Zenon DEF Inv, Books
  <2> QED BY <2>1, <2>4, <2>5, Zenon DEF Inv, Books, cabal
<1>15. CASE Post
  <2>1. UNCHANGED <<cabal, idle, inuse, held>> /\ Extra' = Extra /\ pc = "post" /\ pc' = "tick"
    BY <1>15, Zenon DEF Post, Extra, cabal
  <2>2. sem' + idle' + Extra' <= Cabal + Len(held')
    BY <1>15, <2>1, Sizes, SMTT(30) DEF Post, Inv, Books, InTick
  <2> QED BY <2>1, <2>2, Zenon DEF Inv, Books, InTick, cabal
<1>16. ASSUME NEW c \in Conns, ReadSlot(c) \/ Reap(c) PROVE Books'
  BY <1>16, BooksUnchanged, Zenon DEF Inv, ReadSlot, Reap
<1>17. CASE Restart
  BY <1>17, BooksUnchanged, Zenon DEF Inv, Restart
<1>18. CASE UNCHANGED vars
  BY <1>18, BooksUnchanged, Zenon DEF Inv, vars
<1> QED
  BY <1>1, <1>2, <1>3, <1>4, <1>5, <1>6, <1>7, <1>8, <1>9, <1>10, <1>11, <1>12, <1>13,
     <1>14, <1>15, <1>16, <1>17, <1>18
  DEF JNext, Tick, Daemon

LEMMA Invariance == JSpec => []Inv
<1>1. JInit => Inv
  BY TypeInit, BooksInit, Zenon DEF Inv
<1>2. Inv /\ [JNext]_vars => Inv'
  BY TypeNext, BooksNext, Zenon DEF Inv
<1> QED BY <1>1, <1>2, PTL DEF JSpec

\* Every variable of the broker, its semaphore and its clients has its type.
THEOREM JsemTypes == JSpec => []TypeOK
<1>1. Inv => TypeOK
  BY Zenon DEF Inv
<1> QED BY <1>1, Invariance, PTL

\* Broker::Tick and ~Broker never put a token into the semaphore, or leave one in
\* use, that neither cabal nor a slot backs, whatever ghc does between two of
\* their steps.
THEOREM AdmissionHolds == JSpec => []NoOverAdmission
<1>1. Inv => NoOverAdmission
  <2> SUFFICES ASSUME Inv PROVE NoOverAdmission
    BY Zenon
  <2> QED BY Sizes, SMTT(30) DEF Inv, Books, NoOverAdmission, Due, InTick
<1> QED BY <1>1, Invariance, PTL

\* Outside ~Broker, no step adds to what no slot backs: Tick takes cabal's own
\* tokens out of the semaphore for good, and a token enters it only with a slot.
THEOREM TokensRetire == JSpec => Retired
<1>1. Inv /\ TypeOK' /\ Books' /\ [JNext]_vars => [pc' # "off" => Unbacked' <= Unbacked]_vars
  <2> SUFFICES ASSUME Inv, TypeOK', Books', JNext, pc' # "off"
               PROVE  Unbacked' <= Unbacked
    BY Zenon
  <2> USE JsemAssumption
  <2>1. ASSUME NEW g \in Ghcs, NEW up \in BOOLEAN, GhcStart(g, up) PROVE Unbacked' <= Unbacked
    <3>1. UNCHANGED <<sem, idle, busy, inuse, held>> /\ ~InTick' = ~InTick
      BY <2>1, Zenon DEF GhcStart, InTick
    <3>2. Unbacked' = Unbacked
      BY <3>1 DEF Unbacked, Due, Extra, InTick
    <3> QED BY <3>2, Sizes, SMTT(30) DEF Unbacked, Due
  <2>2. ASSUME NEW g \in Ghcs, Take(g) PROVE Unbacked' <= Unbacked
    <3>1. sem' = sem - 1 /\ Extra' = Extra + 1 /\ UNCHANGED <<pc, idle, inuse, held>>
      BY <2>2, TakeExtra, Zenon DEF Take, broker
    <3> QED BY <3>1, Sizes, SMTT(30) DEF Unbacked, Due
  <2>3. ASSUME NEW g \in Ghcs, Give(g) PROVE Unbacked' <= Unbacked
    <3>1. sem' = sem + 1 /\ Extra' = Extra - 1 /\ UNCHANGED <<pc, idle, inuse, held>>
      BY <2>3, GiveExtra, Zenon DEF Give, broker
    <3> QED BY <3>1, Sizes, SMTT(30) DEF Unbacked, Due
  <2>4. ASSUME UNCHANGED <<sem, busy, broker>> PROVE Unbacked' <= Unbacked
    <3>1. Unbacked' = Unbacked
      BY <2>4, Zenon DEF Unbacked, Due, Extra, broker
    <3> QED BY <3>1, Sizes, SMTT(30) DEF Unbacked, Due
  <2>5. CASE TickStart
    <3>1. UNCHANGED <<sem, idle, busy, inuse, held>> /\ pc = "tick" /\ pc' = "drain"
      BY <2>5, Zenon DEF TickStart, cabal
    <3> QED BY <3>1, Sizes, SMTT(30) DEF Unbacked, Due, Extra
  <2>6. CASE Drain
    <3>1. UNCHANGED <<busy, inuse, held>> /\ pc = "drain" /\ pc' \in {"drain", "return"}
      BY <2>6, Zenon DEF Drain, cabal
    <3>2. (sem' = sem - 1 /\ idle' = idle + 1) \/ UNCHANGED <<sem, idle>>
      BY <2>6, Zenon DEF Drain
    <3> QED BY <3>1, <3>2, Sizes, SMTT(30) DEF Unbacked, Due, Extra
  <2>7. CASE Return
    <3>1. UNCHANGED <<sem, busy>> /\ pc = "return" /\ pc' = "order" /\ idle' = 0
      BY <2>7, Zenon DEF Return, cabal
    <3> DEFINE u == inuse'
               n == Len(held')
    <3>2. /\ u \in Nat /\ n \in Nat /\ u <= Len(held) /\ Len(held) <= u + idle
          /\ u <= n /\ n <= u + 1
      BY <2>7, ReturnSizes DEF Inv, TypeOK
    <3>3. Unbacked = sem + idle + Extra + 0 - Len(held)
      BY <3>1, Zenon DEF Unbacked, Due
    <3>4. Unbacked' = sem + 0 + Extra + (IF n > u THEN 1 ELSE 0) - n
      BY <3>1, Zenon DEF Unbacked, Due, Extra
    <3> HIDE DEF u, n
    <3> QED BY <3>2, <3>3, <3>4, Sizes, SMTT(30)
  <2>8. CASE Cancel \/ Place \/ Refused
    <3>1. UNCHANGED <<sem, idle, busy, inuse, held>> /\ pc = "order" /\ pc' \in {"poll", "post"}
      BY <2>8, Zenon DEF Cancel, Place, Refused, cabal
    <3> QED BY <3>1, Sizes, SMTT(30) DEF Unbacked, Due, Extra
  <2>9. CASE Poll
    <3>1. UNCHANGED <<sem, idle, busy, inuse>> /\ pc \in {"order", "poll"} /\ pc' = "post"
      BY <2>9, Zenon DEF Poll, cabal
    <3>2. held' \in {held, Append(held, order)}
      BY <2>9, Zenon DEF Poll
    <3>3. Len(held') = Len(held) \/ Len(held') = Len(held) + 1
      BY <3>2 DEF Inv, TypeOK
    <3> QED BY <3>1, <3>3, Sizes, SMTT(30) DEF Unbacked, Due, Extra
  <2>10. CASE Post
    <3>1. UNCHANGED <<idle, busy, inuse, held>> /\ pc = "post" /\ pc' = "tick"
      BY <2>10, Zenon DEF Post, cabal
    <3>2. sem' = IF Len(held) > inuse THEN sem + 1 ELSE sem
      BY <2>10, Zenon DEF Post
    <3> QED BY <3>1, <3>2, Sizes, SMTT(30) DEF Unbacked, Due, Extra
  <2>11. ASSUME NEW g \in Ghcs, GhcExit(g) PROVE Unbacked' <= Unbacked
    BY <2>4, <2>11, Zenon DEF GhcExit
  <2>12. CASE CabalExit
    BY <2>4, <2>12, Zenon DEF CabalExit
  <2>13. ASSUME NEW c \in Clients, CcStart(c) \/ CcEnd(c) \/ ReadSlot(c) \/ Reap(c)
         PROVE  Unbacked' <= Unbacked
    BY <2>4, <2>13, Zenon DEF CcStart, CcEnd, ReadSlot, Reap, cabal
  <2>14. CASE Restart
    BY <2>4, <2>14, Zenon DEF Restart, cabal
  <2>15. ~BrokerExit
    BY Zenon DEF BrokerExit
  <2> QED
    BY <2>1, <2>2, <2>3, <2>5, <2>6, <2>7, <2>8, <2>9, <2>10, <2>11, <2>12, <2>13, <2>14, <2>15
   , Zenon DEF JNext, Tick, Daemon
<1>2. Inv => TypeOK /\ Books
  BY Zenon DEF Inv
<1> QED BY <1>1, <1>2, Invariance, PTL DEF JSpec, Retired

----------------------------------------------------------------------------
(* Slots behind tokens *)

\* The broker counts no connection, and waits for none, that it has closed.
Alive ==
  /\ Range(held) \cap closed = {}
  /\ order \notin closed
  /\ order \notin Range(held)

LEMMA RangeAppend ==
  ASSUME NEW S, NEW s \in Seq(S), NEW x \in S
  PROVE  Range(Append(s, x)) = Range(s) \cup {x}
<1> DEFINE t == Append(s, x)
<1>1. DOMAIN s = 1..Len(s) /\ DOMAIN t = 1..(Len(s) + 1) /\ Len(s) \in Nat
  OBVIOUS
<1>2. \A i \in 1..Len(s) : t[i] = s[i]
  OBVIOUS
<1>3. t[Len(s) + 1] = x
  OBVIOUS
<1> HIDE DEF t
<1>4. ASSUME NEW y \in Range(t) PROVE y \in Range(s) \cup {x}
  <2>1. PICK i \in 1..(Len(s) + 1) : y = t[i]
    BY <1>1, Zenon DEF Range
  <2>2. i \in 1..Len(s) \/ i = Len(s) + 1
    BY <1>1
  <2> QED BY <1>1, <1>2, <1>3, <2>1, <2>2, Zenon DEF Range
<1>5. ASSUME NEW y \in Range(s) PROVE y \in Range(t)
  <2>1. PICK i \in 1..Len(s) : y = s[i]
    BY <1>1, Zenon DEF Range
  <2>2. i \in DOMAIN t /\ t[i] = y
    BY <1>1, <1>2, <2>1
  <2> QED BY <2>2, Zenon DEF Range
<1>6. x \in Range(t)
  <2>1. Len(s) + 1 \in DOMAIN t
    BY <1>1
  <2> QED BY <1>3, <2>1, Zenon DEF Range
<1>7. Range(t) = Range(s) \cup {x}
  BY <1>4, <1>5, <1>6, Zenon
<1> QED BY <1>7, Zenon DEF t

LEMMA RangePrefix ==
  ASSUME NEW S, NEW s \in Seq(S), NEW n \in Nat, n <= Len(s)
  PROVE  Range(SubSeq(s, 1, n)) \subseteq Range(s)
<1> DEFINE t == SubSeq(s, 1, n)
<1>1. DOMAIN t = 1..n /\ DOMAIN s = 1..Len(s) /\ Len(s) \in Nat
  OBVIOUS
<1>2. \A i \in 1..n : t[i] = s[i] /\ i \in 1..Len(s)
  OBVIOUS
<1> HIDE DEF t
<1>3. Range(t) \subseteq Range(s)
  BY <1>1, <1>2, Zenon DEF Range
<1> QED BY <1>3, Zenon DEF t

\* A closed connection aside, nobody loses a slot to a step of the daemon.
LEMMA FreeKeeps ==
  ASSUME NEW c, NEW d \in has, d # c, Request(c) \/ Free(c)
  PROVE  d \in has'
BY Zenon DEF Request, Free

LEMMA AliveNext ==
  ASSUME Inv, Alive, Backed, [JNext]_vars
  PROVE  Alive' /\ Backed'
<1> USE JsemAssumption
<1>0. held \in Seq(Conns) /\ Range(held) \subseteq Conns /\ order \in Conns \cup {NoConn} /\ closed \subseteq Conns
  BY DEF Inv, TypeOK, Range
<1>1. ASSUME UNCHANGED <<held, order, closed, has, restarts>> PROVE Alive' /\ Backed'
  BY <1>1, Zenon DEF Alive, Backed
<1>2. CASE \/ \E g \in Ghcs : (\E up \in BOOLEAN : GhcStart(g, up)) \/ Take(g) \/ Give(g) \/ GhcExit(g)
           \/ CabalExit \/ TickStart \/ Drain \/ Refused \/ Post \/ UNCHANGED vars
  BY <1>1, <1>2, Zenon DEF GhcStart, Take, Give, GhcExit, CabalExit, TickStart, Drain, Refused, Post, broker, vars
<1>3. ASSUME NEW c \in Clients, CcStart(c) \/ CcEnd(c) \/ ReadSlot(c) \/ Reap(c), c \notin Range(held)
      PROVE  Alive' /\ Backed'
  <2>1. (Request(c) \/ Free(c)) /\ UNCHANGED <<held, order, closed, restarts>>
    BY <1>3, Zenon DEF CcStart, CcEnd, ReadSlot, Reap, broker
  <2>2. ASSUME NEW d \in Range(held), d \in has PROVE d \in has'
    BY <1>3, <2>1, <2>2, FreeKeeps, Zenon
  <2> QED BY <2>1, <2>2, Zenon DEF Alive, Backed
<1>4. ASSUME NEW c \in Ccs, CcStart(c) \/ CcEnd(c) PROVE Alive' /\ Backed'
  BY <1>0, <1>3, <1>4, Zenon
<1>5. ASSUME NEW c \in Conns, Reap(c) PROVE Alive' /\ Backed'
  BY <1>3, <1>5, Zenon DEF Alive, Reap
<1>6. ASSUME NEW c \in Conns, ReadSlot(c) PROVE Alive' /\ Backed'
  <2>1. Request(c) /\ UNCHANGED <<held, order, closed, restarts>>
    BY <1>6, Zenon DEF ReadSlot, broker
  <2>2. has \subseteq has'
    BY <2>1, Zenon DEF Request
  <2> QED BY <2>1, <2>2, Zenon DEF Alive, Backed
<1>7. CASE BrokerExit
  <2>0. held' = <<>> /\ order' = NoConn /\ UNCHANGED <<has, restarts>>
    BY <1>7, Zenon DEF BrokerExit
  <2>1. held' = <<>> /\ Range(held') = {} /\ order' = NoConn /\ UNCHANGED <<has, restarts>>
    BY <2>0 DEF Range
  <2>2. closed' \subseteq Conns
    BY <1>0, <1>7, Zenon DEF BrokerExit, Drop
  <2> QED BY <2>1, <2>2, Zenon DEF Alive, Backed
<1>8. CASE Return
  <2> DEFINE k == Less(Len(held), inuse' + 1)
  <2>1. inuse' \in Nat /\ idle \in Nat
    BY <1>8, ReturnSizes, Zenon DEF Inv, TypeOK
  <2>2. k \in Nat /\ k <= Len(held)
    <3>1. inuse' = Len(held) - Less(Len(held), idle) /\ Len(held) \in Nat
      BY <1>0, <1>8 DEF Return
    <3> QED BY <2>1, <3>1, Kept, Zenon
  <2>3. held' = SubSeq(held, 1, k) /\ Drop(Range(held) \ Range(held')) /\ UNCHANGED <<order, has, restarts>>
    BY <1>8, Zenon DEF Return
  <2> HIDE DEF k
  <2>4. Range(held') \subseteq Range(held)
    BY <1>0, <2>2, <2>3, RangePrefix, Zenon
  <2> QED BY <2>3, <2>4, Zenon DEF Alive, Backed, Drop
<1>9. CASE Cancel
  BY <1>0, <1>9, Zenon DEF Cancel, Drop, Alive, Backed
<1>10. CASE Place
  <2>1. PICK c \in Conns : c \notin Range(held) /\ order' = c /\ closed' = closed \ {c}
    BY <1>10, Zenon DEF Place
  <2>2. UNCHANGED <<held, has, restarts>>
    BY <1>10, Zenon DEF Place
  <2> QED BY <2>1, <2>2, Zenon DEF Alive, Backed
<1>11. CASE Poll
  <2>1. CASE order \in has
    <3>1. held' = Append(held, order) /\ order' = NoConn /\ UNCHANGED <<closed, has, restarts>>
      BY <1>11, <2>1, Zenon DEF Poll
    <3>2. order \in Conns
      BY <1>0, <2>1, Zenon DEF Inv, TypeOK
    <3>3. Range(held') = Range(held) \cup {order}
      BY <1>0, <3>1, <3>2, RangeAppend
    <3> QED BY <1>0, <2>1, <3>1, <3>2, <3>3, Zenon DEF Alive, Backed
  <2>2. CASE order \notin has
    <3>1. UNCHANGED <<held, has, restarts>> /\ (UNCHANGED <<order, closed>> \/ (order' = NoConn /\ Drop({order})))
      BY <1>11, <2>2, Zenon DEF Poll
    <3> QED BY <1>0, <3>1 DEF Alive, Backed, Drop
  <2> QED BY <2>1, <2>2, Zenon
<1>12. CASE Restart
  <2>1. restarts' # 0 /\ UNCHANGED <<held, order, closed>>
    BY <1>12 DEF Restart, Inv, TypeOK, broker
  <2> QED BY <2>1, Zenon DEF Alive, Backed
<1> QED
  BY <1>2, <1>4, <1>5, <1>6, <1>7, <1>8, <1>9, <1>10, <1>11, <1>12, Zenon DEF JNext, Tick, Daemon

\* As long as the daemon has not restarted, every token in Broker.held_ is a slot
\* the daemon counts: no answer is mistaken for a grant, no closed one is kept.
THEOREM TokensAreSlots == JSpec => []Backed
<1>1. JInit => Alive /\ Backed
  BY JsemAssumption DEF JInit, Alive, Backed, Range
<1>2. Inv /\ (Alive /\ Backed) /\ [JNext]_vars => (Alive /\ Backed)'
  BY AliveNext, Zenon
<1> QED BY <1>1, <1>2, Invariance, PTL DEF JSpec

------------------------------------------------------------------------------
(* Identities: any number of handlers, paths and files *)

Stamps == [ino : Inodes, size : {t.size : t \in Texts}, mtime : Mtimes]
Places == {"store", "special", "outside"}
FileRec == [text : Texts, mtime : Mtimes, place : Places]
Call == [pc : {"done", "resolve", "open", "look", "read", "memo"}, path : Asked \cup {NoId},
         real : RealPaths \cup {NoId}, ino : Inodes \cup {0}, answer : Texts \cup {NoId},
         seen : SUBSET [stamp : Stamps, text : Texts]]

Was(stamp, text) == [stamp |-> stamp, text |-> text] \in past
Recorded(i) == file[i] \in FileRec /\ Was(StampOf(file[i], i), file[i].text)

\* A file of this text had the stamp of one in seen.
Judged(id, seen) == \E s \in seen, f \in past : f.stamp = s.stamp /\ f.text = id

\* Of one call: its path is one of the store's; what the real path it resolved holds
\* has been seen, so has the file it has open; its answer is judged by what was seen.
CallOf(r) ==
  /\ r.pc # "done" => r.path \in InStore
  /\ r.pc \in {"open", "look", "read", "memo"} => r.real \in RealPaths
  /\ r.real \in RealPaths => Found(r.real) \subseteq r.seen
  /\ r.pc \in {"look", "read", "memo"} =>
       r.ino \in Inodes /\ Recorded(r.ino) /\ Record(file[r.ino], r.ino) \in r.seen
  /\ r.pc = "done" => r.real = NoId /\ (r.answer # NoId => Judged(r.answer, r.seen))

\* A real path holds a file that was made, and the memo holds what some file had.
DiskInv ==
  /\ at \in [RealPaths -> Inodes \cup {0}] /\ DOMAIN file = Inodes
  /\ leads \in [InStore -> RealPaths \cup {NoId}]
  /\ \A n \in RealPaths : at[n] # 0 => Recorded(at[n])
  /\ DOMAIN known = InStore
  /\ \A p \in InStore : \/ known[p] = [stamp |-> NoId]
                        \/ /\ known[p].stamp \in Stamps /\ known[p].id \in Texts
                           /\ Was(known[p].stamp, known[p].id)

IdInv == of \in [Callers -> Call] /\ DiskInv /\ \A c \in Callers : CallOf(of[c])

LEMMA StampType == ASSUME NEW i \in Inodes, NEW f \in FileRec PROVE StampOf(f, i) \in Stamps
BY DEF FileRec, StampOf, Stamps

LEMMA NoIdStamp == NoId \notin Stamps
<1> SUFFICES ASSUME NoId \in Stamps PROVE FALSE
  OBVIOUS
<1>1. PICK i \in Inodes, t \in Texts, m \in Mtimes : NoId = [ino |-> i, size |-> t.size, mtime |-> m]
  BY DEF Stamps
<1> QED BY <1>1, IdentitiesAssumption

\* A step of one call that leaves the files alone: what remains to be shown.
LEMMA OneCall ==
  ASSUME IdInv, NEW c \in Callers, NEW x \in Call, of' = [of EXCEPT ![c] = x], CallOf(x),
         UNCHANGED <<file, at, past>>, DiskInv'
  PROVE  IdInv'
<1>1. of' \in [Callers -> Call] /\ of'[c] = x /\ \A d \in Callers : d # c => of'[d] = of[d]
  BY DEF IdInv
<1>2. ASSUME NEW d \in Callers PROVE CallOf(of'[d])
  BY <1>1 DEF IdInv
<1>3. ASSUME NEW d \in Callers PROVE CallOf(of[d])'
  <2>1. PICK y : y = of'[d] /\ CallOf(y)
    BY <1>2
  <2>2. /\ Found(y.real)' = Found(y.real) /\ (Recorded(y.ino) => Recorded(y.ino)')
        /\ Record(file[y.ino], y.ino)' = Record(file[y.ino], y.ino)
        /\ Judged(y.answer, y.seen)' = Judged(y.answer, y.seen)
    BY DEF Found, Recorded, Was, StampOf, Record, Judged
  <2>3. CallOf(y)'
    BY <2>1, <2>2 DEF CallOf
  <2>4. (of[d].pc # "done" => of[d].path \in InStore)'
        /\ (of[d].pc \in {"open", "look", "read", "memo"} => of[d].real \in RealPaths)'
    BY <2>1 DEF CallOf
  <2>5. (of[d].real \in RealPaths => Found(of[d].real) \subseteq of[d].seen)'
    BY <2>1, <2>3, Zenon DEF CallOf, Found, Record, StampOf
  <2>6. (of[d].pc \in {"look", "read", "memo"} =>
          of[d].ino \in Inodes /\ Recorded(of[d].ino) /\ Record(file[of[d].ino], of[d].ino) \in of[d].seen)'
    BY <2>1, <2>3 DEF CallOf, Recorded, Was, Record, StampOf
  <2>7. (of[d].pc = "done" => of[d].real = NoId /\ (of[d].answer # NoId => Judged(of[d].answer, of[d].seen)))'
    BY <2>1, <2>3 DEF CallOf, Judged
  <2> QED BY <2>4, <2>5, <2>6, <2>7 DEF CallOf
<1> QED BY <1>1, <1>3 DEF IdInv

\* The call ends with id.
LEMMA EndsInv ==
  ASSUME IdInv, NEW c \in Callers, NEW id \in Texts \cup {NoId}, Ends(c, id),
         id # NoId => Judged(id, of[c].seen), UNCHANGED <<file, at, past>>, DiskInv'
  PROVE  IdInv'
<1>1. of[c] \in Call
  BY DEF IdInv
<1>2. CASE id = NoId
  <2>1. Resting \in Call /\ CallOf(Resting)
    BY IdentitiesAssumption DEF Resting, Call, CallOf
  <2>2. of' = [of EXCEPT ![c] = Resting]
    BY <1>2 DEF Ends
  <2> QED BY <2>1, <2>2, OneCall
<1>3. CASE id # NoId
  <2> DEFINE x == [Resting EXCEPT !.answer = id, !.seen = of[c].seen]
  <2>1. x \in Call /\ x.pc = "done" /\ x.answer = id /\ x.seen = of[c].seen /\ x.real = NoId
    BY <1>1 DEF Call, Resting
  <2>2. of' = [of EXCEPT ![c] = x]
    BY <1>3 DEF Ends
  <2> HIDE DEF x
  <2>3. CallOf(x)
    BY <2>1, IdentitiesAssumption DEF CallOf
  <2> QED BY <2>1, <2>2, <2>3, OneCall
<1> QED BY <1>2, <1>3

LEMMA SameDisk == IdInv /\ UNCHANGED <<file, at, leads, known, past>> => DiskInv'
BY DEF IdInv, DiskInv, Recorded, Was, StampOf

\* The call goes on.
LEMMA GoesInv ==
  ASSUME IdInv, NEW c \in Callers, NEW to \in {"read", "memo"}, Goes(c, to),
         of[c].pc \in {"look", "read"}, UNCHANGED <<file, at, leads, known, past>>
  PROVE  IdInv'
<1> DEFINE x == [of[c] EXCEPT !.pc = to]
<1>1. of[c] \in Call /\ CallOf(of[c])
  BY DEF IdInv
<1>2. /\ x \in Call /\ x.pc = to /\ x.path = of[c].path /\ x.real = of[c].real
      /\ x.ino = of[c].ino /\ x.seen = of[c].seen
  BY <1>1 DEF Call
<1>3. of' = [of EXCEPT ![c] = x]
  BY DEF Goes
<1> HIDE DEF x
<1>4. CallOf(x)
  BY <1>1, <1>2 DEF CallOf
<1> QED BY <1>2, <1>3, <1>4, SameDisk, OneCall

LEMMA IInitInv == IInit => IdInv
<1> SUFFICES ASSUME IInit PROVE IdInv
  OBVIOUS
<1>1. Resting \in Call /\ CallOf(Resting)
  BY IdentitiesAssumption DEF Resting, Call, CallOf
<1>2. DiskInv
  BY DEF IInit, DiskInv
<1> QED BY <1>1, <1>2 DEF IInit, IdInv

----------------------------------------------------------------------------

LEMMA OfStartInv == ASSUME IdInv, NEW c \in Callers, NEW p \in Asked, OfStart(c, p) PROVE IdInv'
<1>1. UNCHANGED <<file, at, leads, known, past>>
  BY DEF OfStart
<1>2. CASE p \in InStore
  <2> DEFINE y == [Resting EXCEPT !.pc = "resolve", !.path = p]
  <2>1. y \in Call /\ y.pc = "resolve" /\ y.path = p /\ y.real = NoId
    BY DEF Resting, Call
  <2>2. of' = [of EXCEPT ![c] = y]
    BY <1>2 DEF OfStart
  <2> HIDE DEF y
  <2>3. CallOf(y)
    BY <1>2, <2>1, IdentitiesAssumption DEF CallOf
  <2> QED BY <1>1, <2>1, <2>2, <2>3, SameDisk, OneCall
<1>3. CASE p \notin InStore
  <2>1. Resting \in Call /\ CallOf(Resting)
    BY IdentitiesAssumption DEF Resting, Call, CallOf
  <2>2. of' = [of EXCEPT ![c] = Resting]
    BY <1>3 DEF OfStart
  <2> QED BY <1>1, <2>1, <2>2, SameDisk, OneCall
<1> QED BY <1>2, <1>3

\* What a real path holds is a record of a file.
LEMMA FoundType == ASSUME DiskInv, NEW n \in RealPaths PROVE Found(n) \subseteq [stamp : Stamps, text : Texts]
<1> SUFFICES ASSUME at[n] # 0 PROVE Record(file[at[n]], at[n]) \in [stamp : Stamps, text : Texts]
  BY DEF Found
<1>1. at[n] \in Inodes /\ file[at[n]] \in FileRec
  BY DEF DiskInv, Recorded
<1> QED BY <1>1, StampType DEF Record, FileRec

LEMMA OfResolveInv == ASSUME IdInv, NEW c \in Callers, OfResolve(c) PROVE IdInv'
<1> DEFINE n == leads[of[c].path]
           x == [of[c] EXCEPT !.pc = "open", !.real = n, !.seen = Found(n)]
<1>1. UNCHANGED <<file, at, leads, known, past>> /\ of[c].pc = "resolve"
  BY DEF OfResolve
<1>2. CASE Ends(c, NoId)
  BY <1>1, <1>2, SameDisk, EndsInv
<1>3. CASE n # NoId /\ of' = [of EXCEPT ![c].pc = "open", ![c].real = n, ![c].seen = Found(n)]
  <2>1. of[c] \in Call /\ of[c].path \in InStore
    BY <1>1 DEF IdInv, CallOf
  <2>2. n \in RealPaths
    BY <1>3, <2>1 DEF IdInv, DiskInv
  <2>3. Found(n) \subseteq [stamp : Stamps, text : Texts]
    BY <2>2, FoundType DEF IdInv
  <2>4. of' = [of EXCEPT ![c] = x]
    BY <1>3, <2>1 DEF IdInv, Call
  <2> HIDE DEF n
  <2>5. x \in Call /\ x.pc = "open" /\ x.real = n /\ x.path = of[c].path /\ x.seen = Found(n)
    BY <2>1, <2>2, <2>3 DEF Call
  <2> HIDE DEF x
  <2>6. CallOf(x)
    BY <2>1, <2>2, <2>5 DEF CallOf
  <2> QED BY <1>1, <2>4, <2>5, <2>6, SameDisk, OneCall
<1> QED BY <1>2, <1>3 DEF OfResolve

LEMMA OfOpenInv == ASSUME IdInv, NEW c \in Callers, OfOpen(c) PROVE IdInv'
<1> DEFINE i == at[of[c].real]
           x == [of[c] EXCEPT !.pc = "look", !.ino = i]
<1>1. UNCHANGED <<file, at, leads, known, past>> /\ of[c].pc = "open"
  BY DEF OfOpen
<1>2. CASE Ends(c, NoId)
  BY <1>1, <1>2, SameDisk, EndsInv
<1>3. CASE ~(i = 0 \/ file[i].place # "store") /\ of' = [of EXCEPT ![c].pc = "look", ![c].ino = i]
  <2>1. /\ of[c] \in Call /\ of[c].path \in InStore /\ of[c].real \in RealPaths
        /\ Found(of[c].real) \subseteq of[c].seen
    BY <1>1 DEF IdInv, CallOf
  <2>2. i \in Inodes /\ Recorded(i)
    BY <1>3, <2>1 DEF IdInv, DiskInv
  <2>3. Record(file[i], i) \in of[c].seen
    BY <1>3, <2>1 DEF Found
  <2>4. of' = [of EXCEPT ![c] = x]
    BY <1>3, <2>1 DEF IdInv, Call
  <2> HIDE DEF i
  <2>5. /\ x \in Call /\ x.pc = "look" /\ x.ino = i /\ x.path = of[c].path /\ x.real = of[c].real
        /\ x.seen = of[c].seen
    BY <2>1, <2>2 DEF Call
  <2> HIDE DEF x
  <2>6. CallOf(x)
    BY <2>1, <2>2, <2>3, <2>5 DEF CallOf
  <2> QED BY <1>1, <2>4, <2>5, <2>6, SameDisk, OneCall
<1> QED BY <1>2, <1>3 DEF OfOpen

\* A file that was seen judges the text of any file with its stamp.
LEMMA JudgedBy ==
  ASSUME NEW f, NEW i, NEW id, NEW seen, Record(f, i) \in seen, Was(StampOf(f, i), id)
  PROVE  Judged(id, seen)
<1> DEFINE a == [stamp |-> StampOf(f, i), text |-> id]
<1>1. a \in past /\ a.stamp = Record(f, i).stamp /\ a.text = id
  BY DEF Was, Record
<1> HIDE DEF a
<1> QED BY <1>1 DEF Judged

LEMMA OfLookInv == ASSUME IdInv, NEW c \in Callers, OfLook(c) PROVE IdInv'
<1> DEFINE e == known[of[c].path]
           f == file[of[c].ino]
<1>1. UNCHANGED <<file, at, leads, known, past>> /\ of[c].pc = "look"
  BY DEF OfLook
<1>2. CASE Goes(c, "read")
  BY <1>1, <1>2, GoesInv
<1>3. CASE e.stamp = StampOf(f, of[c].ino) /\ Ends(c, e.id)
  <2>1. /\ of[c].path \in InStore /\ of[c].ino \in Inodes /\ Recorded(of[c].ino)
        /\ Record(f, of[c].ino) \in of[c].seen
    BY <1>1 DEF IdInv, CallOf
  <2>2. e.stamp \in Stamps
    BY <1>3, <2>1, StampType DEF Recorded
  <2>3. e.id \in Texts /\ Was(e.stamp, e.id)
    BY <2>1, <2>2, NoIdStamp DEF IdInv, DiskInv
  <2> HIDE DEF e, f
  <2>4. Judged(e.id, of[c].seen)
    BY <1>3, <2>1, <2>3, JudgedBy
  <2> QED BY <1>1, <1>3, <2>3, <2>4, SameDisk, EndsInv
<1> QED BY <1>2, <1>3 DEF OfLook

LEMMA OfReadInv == ASSUME IdInv, NEW c \in Callers, OfRead(c) PROVE IdInv'
<1>1. UNCHANGED <<file, at, leads, known, past>> /\ of[c].pc = "read"
  BY DEF OfRead
<1>2. CASE Ends(c, NoId)
  BY <1>1, <1>2, SameDisk, EndsInv
<1>3. CASE Goes(c, "memo")
  BY <1>1, <1>3, GoesInv
<1> QED BY <1>2, <1>3 DEF OfRead

LEMMA OfMemoInv == ASSUME IdInv, NEW c \in Callers, OfMemo(c) PROVE IdInv'
<1> DEFINE f == file[of[c].ino]
           e == [stamp |-> StampOf(f, of[c].ino), id |-> f.text]
<1>1. UNCHANGED <<file, at, leads, past>> /\ of[c].pc = "memo" /\ Ends(c, f.text)
      /\ known' = [known EXCEPT ![of[c].path] = e]
  BY DEF OfMemo
<1>2. /\ of[c].path \in InStore /\ of[c].ino \in Inodes /\ Recorded(of[c].ino)
      /\ Record(f, of[c].ino) \in of[c].seen
  BY <1>1 DEF IdInv, CallOf
<1>3. e.stamp \in Stamps /\ e.id \in Texts /\ Was(e.stamp, e.id) /\ e.id = f.text /\ Judged(f.text, of[c].seen)
  BY <1>2, StampType, JudgedBy DEF Recorded, FileRec
<1> HIDE DEF e, f
<1>4. DiskInv'
  <2>1. DOMAIN known' = InStore /\ known'[of[c].path] = e
        /\ \A q \in InStore : q # of[c].path => known'[q] = known[q]
    BY <1>1, <1>2 DEF IdInv, DiskInv
  <2>2. \A q \in InStore : \/ known'[q] = [stamp |-> NoId]
                           \/ /\ known'[q].stamp \in Stamps /\ known'[q].id \in Texts
                              /\ Was(known'[q].stamp, known'[q].id)
    BY <1>3, <2>1 DEF IdInv, DiskInv
  <2> QED BY <1>1, <2>1, <2>2 DEF IdInv, DiskInv, Recorded, Was, StampOf
<1> QED BY <1>1, <1>2, <1>3, <1>4, EndsInv

----------------------------------------------------------------------------
(* The world *)

\* What was on disk still is, if its inode was left alone.
LEMMA StaysRecorded ==
  ASSUME NEW i \in Inodes, Recorded(i), file'[i] = file[i], past \subseteq past' PROVE Recorded(i)'
BY DEF Recorded, Was, StampOf

\* Real path n comes to hold inode i, with the file f, new or there before.
LEMMA HoldsInv ==
  ASSUME IdInv, NEW n \in RealPaths, NEW i \in Inodes \cup {0}, NEW f, Holds(n, i, f),
         UNCHANGED <<leads, known>>, past \subseteq past', DOMAIN file' = Inodes,
         i # 0 => file'[i] = f /\ Recorded(i)',
         \A m \in RealPaths : at[m] # 0 => file'[at[m]] = file[at[m]],
         \A c \in Callers : of[c].pc \in {"look", "read", "memo"} => file'[of[c].ino] = file[of[c].ino]
  PROVE  IdInv'
<1>1. at' \in [RealPaths -> Inodes \cup {0}] /\ at'[n] = i /\ \A m \in RealPaths : m # n => at'[m] = at[m]
  BY DEF IdInv, DiskInv, Holds
<1>2. ASSUME NEW m \in RealPaths, at'[m] # 0 PROVE Recorded(at[m])'
  <2>1. CASE m = n
    BY <1>1, <1>2, <2>1 DEF Recorded, Was, StampOf
  <2>2. CASE m # n
    <3>1. PICK j \in Inodes : j = at[m] /\ Recorded(j) /\ file'[j] = file[j]
      BY <1>1, <1>2, <2>2 DEF IdInv, DiskInv
    <3>2. Recorded(j)' /\ at'[m] = j
      BY <1>1, <2>2, <3>1, StaysRecorded
    <3> QED BY <3>2 DEF Recorded, Was, StampOf
  <2> QED BY <2>1, <2>2
<1>3. DiskInv'
  BY <1>1, <1>2 DEF IdInv, DiskInv, Was
<1>4. ASSUME NEW m \in RealPaths, m # n PROVE Found(m)' = Found(m)
  <2>1. at'[m] = at[m] /\ (at[m] # 0 => file'[at[m]] = file[at[m]])
    BY <1>1, <1>4
  <2> QED BY <2>1 DEF Found, Record, StampOf
<1>5. Found(n)' = IF i # 0 /\ f.place = "store" THEN {Record(f, i)} ELSE {}
  BY <1>1 DEF Found, Record, StampOf
<1>6. ASSUME NEW d \in Callers PROVE of'[d] \in Call /\ CallOf(of[d])'
  <2> DEFINE r == of[d]
             g == Record(f, i)
             hit == r.real = n /\ i # 0 /\ f.place = "store"
  <2>1. PICK x : /\ r \in Call /\ CallOf(r) /\ of'[d] = x
                 /\ x = IF hit THEN [r EXCEPT !.seen = @ \cup {g}] ELSE r
    BY DEF IdInv, Holds
  <2>2. hit => g \in [stamp : Stamps, text : Texts]
    <3>1. i # 0 => i \in Inodes /\ f \in FileRec
      BY DEF Recorded
    <3> QED BY <3>1, StampType DEF Record, FileRec
  <2> HIDE DEF g
  <2>3. /\ x \in Call /\ x.pc = r.pc /\ x.path = r.path /\ x.real = r.real /\ x.ino = r.ino
        /\ x.answer = r.answer /\ x.seen = IF hit THEN r.seen \cup {g} ELSE r.seen
    BY <2>1, <2>2 DEF Call
  <2>4. x.real \in RealPaths => Found(x.real)' \subseteq x.seen
    BY <1>4, <1>5, <2>1, <2>3 DEF CallOf, g
  <2>5. x.pc \in {"look", "read", "memo"} =>
          x.ino \in Inodes /\ Recorded(x.ino)' /\ Record(file'[x.ino], x.ino) \in x.seen
    <3> SUFFICES ASSUME x.pc \in {"look", "read", "memo"}
                 PROVE  x.ino \in Inodes /\ Recorded(x.ino)' /\ Record(file'[x.ino], x.ino) \in x.seen
      OBVIOUS
    <3>1. /\ r.ino \in Inodes /\ Recorded(r.ino) /\ Record(file[r.ino], r.ino) \in r.seen
          /\ file'[r.ino] = file[r.ino]
      BY <2>1, <2>3 DEF CallOf
    <3>2. file'[x.ino] \in FileRec /\ [stamp |-> StampOf(file'[x.ino], x.ino), text |-> file'[x.ino].text] \in past'
      BY <2>3, <3>1 DEF Recorded, Was, StampOf
    <3>3. Record(file'[x.ino], x.ino) \in x.seen
      BY <2>3, <3>1
    <3> QED BY <2>3, <3>1, <3>2, <3>3 DEF Recorded, Was, StampOf
  <2>6. x.pc = "done" => x.real = NoId /\ (x.answer # NoId => Judged(x.answer, x.seen)')
    <3> SUFFICES ASSUME x.pc = "done" PROVE x.real = NoId /\ (x.answer # NoId => Judged(x.answer, x.seen)')
      OBVIOUS
    <3>1. x.real = NoId /\ ~hit
      BY <2>1, <2>3, IdentitiesAssumption DEF CallOf
    <3>2. x.seen = r.seen /\ (r.answer # NoId => Judged(r.answer, r.seen))
      BY <2>1, <2>3, <3>1 DEF CallOf
    <3> QED BY <2>3, <3>1, <3>2 DEF Judged
  <2>7. CallOf(x)'
    <3>1. x.pc # "done" => x.path \in InStore
      BY <2>1, <2>3 DEF CallOf
    <3>2. x.pc \in {"open", "look", "read", "memo"} => x.real \in RealPaths
      BY <2>1, <2>3 DEF CallOf
    <3> QED BY <2>4, <2>5, <2>6, <3>1, <3>2 DEF CallOf, Record, StampOf
  <2> QED BY <2>1, <2>3, <2>7 DEF CallOf, Found, Recorded, Was, StampOf, Record, Judged
<1>7. of' \in [Callers -> Call]
  BY <1>6 DEF Holds
<1> QED BY <1>3, <1>6, <1>7 DEF IdInv

LEMMA FileMadeInv == ASSUME IdInv, NEW n \in RealPaths, FileMade(n) PROVE IdInv'
<1>1. PICK i \in Inodes, text \in Texts, mtime \in Mtimes, place \in Places :
        LET f == [text |-> text, mtime |-> mtime, place |-> place]
        IN /\ \A m \in RealPaths : at[m] # i
           /\ \A c \in Callers : of[c].pc \in {"look", "read", "memo"} => of[c].ino # i
           /\ file' = [file EXCEPT ![i] = f]
           /\ past' = past \cup {Record(f, i)}
           /\ Holds(n, i, f)
  BY DEF FileMade, Places
<1> DEFINE f == [text |-> text, mtime |-> mtime, place |-> place]
<1>2. f \in FileRec
  BY DEF FileRec
<1> HIDE DEF f
<1>3. /\ \A m \in RealPaths : at[m] # i
      /\ \A c \in Callers : of[c].pc \in {"look", "read", "memo"} => of[c].ino # i
      /\ file' = [file EXCEPT ![i] = f] /\ past' = past \cup {Record(f, i)}
      /\ Holds(n, i, f)
  BY <1>1 DEF f
<1>4. DOMAIN file' = Inodes /\ file'[i] = f /\ \A j \in Inodes : j # i => file'[j] = file[j]
  BY <1>3 DEF IdInv, DiskInv
<1>5. Recorded(i)'
  BY <1>2, <1>3, <1>4 DEF Recorded, Was, StampOf, Record
<1>6. \A m \in RealPaths : at[m] # 0 => file'[at[m]] = file[at[m]]
  BY <1>3, <1>4 DEF IdInv, DiskInv
<1>7. \A c \in Callers : of[c].pc \in {"look", "read", "memo"} => file'[of[c].ino] = file[of[c].ino]
  BY <1>3, <1>4 DEF IdInv, CallOf
<1>8. UNCHANGED <<leads, known>> /\ past \subseteq past'
  BY <1>3 DEF FileMade
<1> QED BY <1>3, <1>4, <1>5, <1>6, <1>7, <1>8, HoldsInv

LEMMA FileGoneInv == ASSUME IdInv, NEW n \in RealPaths, FileGone(n) PROVE IdInv'
<1>1. UNCHANGED <<file, leads, known, past>>
  BY DEF FileGone
<1>2. PICK i \in {0} \cup {at[m] : m \in RealPaths} : Holds(n, i, IF i = 0 THEN NoFileYet ELSE file[i])
  BY DEF FileGone
<1>3. i \in Inodes \cup {0} /\ (i # 0 => Recorded(i))
  BY <1>2 DEF IdInv, DiskInv
<1>4. i # 0 => Recorded(i)'
  BY <1>1, <1>3 DEF Recorded, Was, StampOf
<1> DEFINE f == IF i = 0 THEN NoFileYet ELSE file[i]
<1>5. i # 0 => file'[i] = f
  BY <1>1
<1>6. Holds(n, i, f)
  BY <1>2
<1> HIDE DEF f
<1> QED BY <1>1, <1>3, <1>4, <1>5, <1>6, HoldsInv DEF IdInv, DiskInv

LEMMA RepointedInv == ASSUME IdInv, NEW p \in InStore, Repointed(p) PROVE IdInv'
<1>1. UNCHANGED <<file, at, known, of, past>> /\ leads' \in [InStore -> RealPaths \cup {NoId}]
  BY DEF Repointed, IdInv, DiskInv
<1>2. DiskInv'
  BY <1>1 DEF IdInv, DiskInv, Recorded, Was, StampOf
<1> QED BY <1>1, <1>2 DEF IdInv, CallOf, Found, Recorded, Was, StampOf, Record, Judged

\* IdentityCurrent (Identities.Of), for any number of handlers, paths and files: the
\* memo never answers for a file whose inode, size and time the name that the path
\* was resolved to has not held during the call.
THEOREM MemoIsCurrent == ISpec => []IdentityCurrent
<1>1. IdInv /\ [INext]_ivars => IdInv'
  <2> SUFFICES ASSUME IdInv, [INext]_ivars PROVE IdInv'
    OBVIOUS
  <2>1. CASE UNCHANGED ivars
    BY <2>1 DEF ivars, IdInv, DiskInv, CallOf, Found, Recorded, Was, StampOf, Record, Judged
  <2>2. CASE INext
    BY <2>2, OfStartInv, OfResolveInv, OfOpenInv, OfLookInv, OfReadInv, OfMemoInv, FileMadeInv,
       FileGoneInv, RepointedInv DEF INext
  <2> QED BY <2>1, <2>2
<1>2. IdInv => IdentityCurrent
  BY DEF IdInv, CallOf, IdentityCurrent, Judged
<1> QED BY IInitInv, <1>1, <1>2, PTL DEF ISpec

------------------------------------------------------------------------------
(* GoCache: any number of builds, actions and outputs *)

Answers ==
  {None, [hit |-> FALSE], [put |-> TRUE], [err |-> TRUE]}
  \cup [hit : {TRUE}, action : Actions, output : Outputs, size : {"whole"}]

SessionRec ==
  [pc : {"idle", "getAction", "getOutput", "getFile", "put", "putOutput", "putAction"},
   action : Actions \cup {None}, output : Outputs \cup {None}, body : {None, "whole", "torn"},
   live : BOOLEAN, answer : Answers]

\* Of one session, given the claims c: past the first step of a get it holds a
\* pair go has claimed, before writing it holds a whole body, and what it last
\* answered was claimed.
Honest(r, c) ==
  /\ r.pc # "idle" => r.action \in Actions
  /\ r.pc \in {"getOutput", "getFile", "put", "putOutput", "putAction"} => r.output \in Outputs
  /\ r.pc \in {"getOutput", "getFile", "putOutput", "putAction"} => <<r.action, r.output>> \in c
  /\ r.pc \in {"getFile", "putOutput", "putAction"} => r.body = "whole"
  /\ r.pc = "put" => r.body \in {"whole", "torn"} /\ (r.body = "whole" => <<r.action, r.output>> \in c)
  /\ r.answer # None /\ r.answer \in [hit : {TRUE}, action : Actions, output : Outputs, size : {"whole"}] =>
       <<r.answer.action, r.answer.output>> \in c

\* The directory and the daemon hold whole bodies only, and every action names
\* an output go has claimed for it.
GInv ==
  /\ session \in [Sessions -> SessionRec]
  /\ disk \in [Outputs -> {None, "whole"}] /\ outputs \in [Outputs -> {None, "whole"}]
  /\ actions \in [Actions -> Outputs \cup {None}]
  /\ \A a \in Actions : actions[a] # None => <<a, actions[a]>> \in claimed
  /\ \A s \in Sessions : Honest(session[s], claimed)

\* A step of one session that takes back no claim: what remains to be shown.
LEMMA OneSession ==
  ASSUME GInv, NEW s \in Sessions, NEW x \in SessionRec, session' = [session EXCEPT ![s] = x],
         claimed \subseteq claimed', Honest(x, claimed'),
         disk' \in [Outputs -> {None, "whole"}], outputs' \in [Outputs -> {None, "whole"}],
         actions' \in [Actions -> Outputs \cup {None}],
         \A a \in Actions : actions'[a] # None => <<a, actions'[a]>> \in claimed'
  PROVE  GInv'
<1>1. session' \in [Sessions -> SessionRec] /\ session'[s] = x /\ \A d \in Sessions : d # s => session'[d] = session[d]
  BY DEF GInv
<1>2. ASSUME NEW d \in Sessions PROVE Honest(session'[d], claimed')
  <2>1. CASE d = s
    BY <1>1, <2>1
  <2>2. CASE d # s
    BY <1>1, <2>2 DEF GInv, Honest
  <2> QED BY <2>1, <2>2
<1>3. (\A d \in Sessions : Honest(session[d], claimed))'
  BY <1>2 DEF Honest
<1> QED BY <1>1, <1>3 DEF GInv

LEMMA FreshRec ==
  ASSUME NEW live \in BOOLEAN, NEW ans \in Answers
  PROVE  LET x == [Fresh(live) EXCEPT !.answer = ans]
         IN x \in SessionRec /\ x.pc = "idle" /\ x.answer = ans
BY DEF Fresh, SessionRec

\* An answer ends the request; a hit must be of a claimed pair.
LEMMA AnswerInv ==
  ASSUME GInv, NEW s \in Sessions, NEW ans \in Answers, GoAnswer(s, ans),
         ans # None /\ ans \in [hit : {TRUE}, action : Actions, output : Outputs, size : {"whole"}] =>
           <<ans.action, ans.output>> \in claimed,
         UNCHANGED <<outputs, claimed>>,
         disk' \in [Outputs -> {None, "whole"}], actions' \in [Actions -> Outputs \cup {None}],
         \A a \in Actions : actions'[a] # None => <<a, actions'[a]>> \in claimed
  PROVE  GInv'
<1> DEFINE x == [Fresh(session[s].live) EXCEPT !.answer = ans]
<1>1. session[s].live \in BOOLEAN
  BY DEF GInv, SessionRec
<1>2. x \in SessionRec /\ x.pc = "idle" /\ x.answer = ans
  BY <1>1, FreshRec
<1>3. session' = [session EXCEPT ![s] = x]
  BY DEF GoAnswer
<1> HIDE DEF x
<1>4. Honest(x, claimed')
  BY <1>2 DEF Honest
<1> QED BY <1>2, <1>3, <1>4, OneSession DEF GInv

\* The other answers are no hits.
LEMMA NoHit ==
  ASSUME NEW ans \in {[hit |-> FALSE], [put |-> TRUE], [err |-> TRUE]}
  PROVE  ans \in Answers /\ ans \notin [hit : {TRUE}, action : Actions, output : Outputs, size : {"whole"}]
<1>1. ans \in Answers
  BY DEF Answers
<1>2. ASSUME ans \in [hit : {TRUE}, action : Actions, output : Outputs, size : {"whole"}] PROVE FALSE
  <2>1. ans.hit = TRUE /\ DOMAIN ans = {"hit", "action", "output", "size"}
    BY <1>2
  <2>2. DOMAIN [hit |-> FALSE] = {"hit"} /\ DOMAIN [put |-> TRUE] = {"put"} /\ DOMAIN [err |-> TRUE] = {"err"}
    OBVIOUS
  <2>3. "size" \in DOMAIN ans
    BY <2>1
  <2>4. "size" \notin {"hit"} /\ "size" \notin {"put"} /\ "size" \notin {"err"}
    OBVIOUS
  <2> QED BY <2>2, <2>3, <2>4
<1> QED BY <1>1, <1>2

\* The directory after a write of a whole body, or of a failed one.
LEMMA WrittenWhole ==
  ASSUME GInv, NEW s \in Sessions, Written(s), session[s].body = "whole"
  PROVE  disk' \in [Outputs -> {None, "whole"}]
BY DEF GInv, Written

LEMMA GInitInv == GInit => GInv
<1> SUFFICES ASSUME GInit PROVE GInv
  OBVIOUS
<1>1. \A live \in BOOLEAN : Fresh(live) \in SessionRec /\ Honest(Fresh(live), {})
  BY DEF Fresh, SessionRec, Honest, Answers
<1> QED BY <1>1 DEF GInit, GStart, GInv

----------------------------------------------------------------------------

LEMMA GoRequestInv == ASSUME GInv, NEW s \in Sessions, GoRequest(s) PROVE GInv'
<1>1. session[s].live \in BOOLEAN
  BY DEF GInv, SessionRec
<1>2. UNCHANGED <<disk, actions, outputs>>
  BY DEF GoRequest
<1>3. ASSUME NEW a \in Actions, UNCHANGED claimed,
             session' = [session EXCEPT ![s] = [Fresh(@.live) EXCEPT !.pc = "getAction", !.action = a]]
      PROVE  GInv'
  <2> DEFINE x == [Fresh(session[s].live) EXCEPT !.pc = "getAction", !.action = a]
  <2>1. x \in SessionRec /\ Honest(x, claimed')
    BY <1>1 DEF Fresh, SessionRec, Honest, Answers
  <2>2. session' = [session EXCEPT ![s] = x]
    BY <1>3
  <2> HIDE DEF x
  <2> QED BY <1>2, <1>3, <2>1, <2>2, OneSession DEF GInv
<1>4. ASSUME NEW a \in Actions, NEW o \in Outputs, NEW body \in {"whole", "torn"},
             session' = [session EXCEPT ![s] =
               [Fresh(@.live) EXCEPT !.pc = "put", !.action = a, !.output = o, !.body = body]],
             claimed' = IF body = "whole" THEN claimed \cup {<<a, o>>} ELSE claimed
      PROVE  GInv'
  <2> DEFINE x == [Fresh(session[s].live) EXCEPT !.pc = "put", !.action = a, !.output = o, !.body = body]
  <2>1. x \in SessionRec /\ x.pc = "put" /\ x.action = a /\ x.output = o /\ x.body = body /\ x.answer = None
    BY <1>1 DEF Fresh, SessionRec, Answers
  <2>2. session' = [session EXCEPT ![s] = x]
    BY <1>4
  <2> HIDE DEF x
  <2>3. Honest(x, claimed')
    BY <1>4, <2>1 DEF Honest
  <2>4. claimed \subseteq claimed'
    BY <1>4
  <2> QED BY <1>2, <2>1, <2>2, <2>3, <2>4, OneSession DEF GInv
<1> QED BY <1>3, <1>4 DEF GoRequest

LEMMA GetActionInv == ASSUME GInv, NEW s \in Sessions, GetAction(s) PROVE GInv'
<1> DEFINE o == actions[session[s].action]
           x == [session[s] EXCEPT !.pc = "getOutput", !.output = o]
<1>1. session[s] \in SessionRec /\ Honest(session[s], claimed) /\ session[s].pc = "getAction"
  BY DEF GInv, GetAction, At
<1>2. UNCHANGED <<disk, actions, outputs, claimed>>
  BY DEF GetAction
<1>3. CASE GoAnswer(s, [hit |-> FALSE])
  BY <1>2, <1>3, NoHit, AnswerInv DEF GInv
<1>4. CASE o # None /\ session' = [session EXCEPT ![s].pc = "getOutput", ![s].output = o]
  <2>1. session[s].action \in Actions
    BY <1>1 DEF Honest
  <2>2. o \in Outputs /\ <<session[s].action, o>> \in claimed
    BY <1>4, <2>1 DEF GInv
  <2> HIDE DEF o
  <2>3. x \in SessionRec /\ x.pc = "getOutput" /\ x.output = o /\ x.action = session[s].action
        /\ x.answer = session[s].answer
    BY <1>1, <2>2 DEF SessionRec
  <2>4. session' = [session EXCEPT ![s] = x]
    BY <1>1, <1>4 DEF GInv, SessionRec
  <2> HIDE DEF x
  <2>5. Honest(x, claimed')
    BY <1>1, <1>2, <2>1, <2>2, <2>3 DEF Honest
  <2> QED BY <1>2, <2>3, <2>4, <2>5, OneSession DEF GInv
<1> QED BY <1>3, <1>4 DEF GetAction

LEMMA GetOutputInv == ASSUME GInv, NEW s \in Sessions, GetOutput(s) PROVE GInv'
<1> DEFINE v == outputs[session[s].output]
           x == [session[s] EXCEPT !.pc = "getFile", !.body = v]
<1>1. session[s] \in SessionRec /\ Honest(session[s], claimed) /\ session[s].pc = "getOutput"
  BY DEF GInv, GetOutput, At
<1>2. UNCHANGED <<disk, actions, outputs, claimed>>
  BY DEF GetOutput
<1>3. CASE GoAnswer(s, [hit |-> FALSE])
  BY <1>2, <1>3, NoHit, AnswerInv DEF GInv
<1>4. CASE v # None /\ session' = [session EXCEPT ![s].pc = "getFile", ![s].body = v]
  <2>1. session[s].output \in Outputs
    BY <1>1 DEF Honest
  <2>2. v = "whole"
    BY <1>4, <2>1 DEF GInv
  <2> HIDE DEF v
  <2>3. x \in SessionRec /\ x.pc = "getFile" /\ x.body = v /\ x.output = session[s].output
        /\ x.action = session[s].action /\ x.answer = session[s].answer
    BY <1>1, <2>2 DEF SessionRec
  <2>4. session' = [session EXCEPT ![s] = x]
    BY <1>1, <1>4 DEF GInv, SessionRec
  <2> HIDE DEF x
  <2>5. Honest(x, claimed')
    BY <1>1, <1>2, <2>2, <2>3 DEF Honest
  <2> QED BY <1>2, <2>3, <2>4, <2>5, OneSession DEF GInv
<1> QED BY <1>3, <1>4 DEF GetOutput

LEMMA GetFileInv == ASSUME GInv, NEW s \in Sessions, GetFile(s) PROVE GInv'
<1> DEFINE h == Hit(s)
<1>1. session[s] \in SessionRec /\ Honest(session[s], claimed) /\ session[s].pc = "getFile"
  BY DEF GInv, GetFile, At
<1>2. UNCHANGED <<actions, outputs, claimed>> /\ GoAnswer(s, h)
  BY DEF GetFile
<1>3. /\ session[s].action \in Actions /\ session[s].output \in Outputs /\ session[s].body = "whole"
      /\ <<session[s].action, session[s].output>> \in claimed
  BY <1>1 DEF Honest
<1>4. h \in [hit : {TRUE}, action : Actions, output : Outputs, size : {"whole"}]
      /\ h.action = session[s].action /\ h.output = session[s].output
  BY <1>3 DEF Hit
<1>5. disk' \in [Outputs -> {None, "whole"}]
  BY <1>3, WrittenWhole DEF GetFile, GInv
<1> HIDE DEF h
<1>6. h \in Answers
  BY <1>4 DEF Answers
<1> QED BY <1>2, <1>3, <1>4, <1>5, <1>6, AnswerInv DEF GInv

\* A put whose body is whole goes on.
LEMMA PutOn ==
  ASSUME GInv, NEW s \in Sessions, NEW to \in {"putOutput", "putAction"}, Goto(s, to),
         session[s].pc \in {"put", "putOutput"}, session[s].body = "whole",
         UNCHANGED <<actions, claimed>>,
         disk' \in [Outputs -> {None, "whole"}], outputs' \in [Outputs -> {None, "whole"}]
  PROVE  GInv'
<1> DEFINE x == [session[s] EXCEPT !.pc = to]
<1>1. session[s] \in SessionRec /\ Honest(session[s], claimed)
  BY DEF GInv
<1>2. x \in SessionRec /\ x.pc = to /\ x.body = session[s].body /\ x.output = session[s].output
      /\ x.action = session[s].action /\ x.answer = session[s].answer
  BY <1>1 DEF SessionRec
<1>3. session' = [session EXCEPT ![s] = x]
  BY DEF Goto
<1> HIDE DEF x
<1>4. Honest(x, claimed')
  BY <1>1, <1>2 DEF Honest
<1> QED BY <1>2, <1>3, <1>4, OneSession DEF GInv

LEMMA GoPutInv == ASSUME GInv, NEW s \in Sessions, GoPut(s) PROVE GInv'
<1>1. Honest(session[s], claimed) /\ session[s].pc = "put" /\ UNCHANGED <<actions, outputs, claimed>>
  BY DEF GInv, GoPut, At
<1>2. CASE session[s].body = "torn"
  <2>1. GoAnswer(s, [err |-> TRUE]) /\ UNCHANGED disk
    BY <1>2 DEF GoPut
  <2> QED BY <1>1, <2>1, NoHit, AnswerInv DEF GInv
<1>3. CASE session[s].body # "torn"
  <2>1. session[s].body = "whole"
    BY <1>1, <1>3 DEF Honest
  <2>2. disk' \in [Outputs -> {None, "whole"}]
    BY <1>3, <2>1, WrittenWhole DEF GoPut
  <2>3. CASE Goto(s, "putOutput")
    BY <1>1, <2>1, <2>2, <2>3, PutOn DEF GInv
  <2>4. CASE GoAnswer(s, [put |-> TRUE])
    BY <1>1, <2>2, <2>4, NoHit, AnswerInv DEF GInv
  <2> QED BY <1>3, <2>3, <2>4 DEF GoPut
<1> QED BY <1>2, <1>3

LEMMA PutOutputInv == ASSUME GInv, NEW s \in Sessions, PutOutput(s) PROVE GInv'
<1>1. Honest(session[s], claimed) /\ session[s].pc = "putOutput" /\ UNCHANGED <<disk, actions, claimed>>
  BY DEF GInv, PutOutput, At
<1>2. session[s].body = "whole" /\ session[s].output \in Outputs
  BY <1>1 DEF Honest
<1>3. outputs' \in [Outputs -> {None, "whole"}]
  BY <1>2 DEF GInv, PutOutput
<1>4. Goto(s, "putAction")
  BY DEF PutOutput
<1> QED BY <1>1, <1>2, <1>3, <1>4, PutOn DEF GInv

LEMMA PutActionInv == ASSUME GInv, NEW s \in Sessions, PutAction(s) PROVE GInv'
<1>1. Honest(session[s], claimed) /\ session[s].pc = "putAction" /\ UNCHANGED <<disk, outputs, claimed>>
  BY DEF GInv, PutAction, At
<1>2. /\ session[s].action \in Actions /\ session[s].output \in Outputs
      /\ <<session[s].action, session[s].output>> \in claimed
  BY <1>1 DEF Honest
<1>3. /\ actions' \in [Actions -> Outputs \cup {None}]
      /\ \A a \in Actions : actions'[a] # None => <<a, actions'[a]>> \in claimed
  BY <1>2 DEF GInv, PutAction
<1>4. GoAnswer(s, [put |-> TRUE])
  BY DEF PutAction
<1> QED BY <1>1, <1>3, <1>4, NoHit, AnswerInv DEF GInv

LEMMA WorldInv == ASSUME GInv, NEW s \in Sessions, Killed(s) \/ Lost(s) PROVE GInv'
<1>1. session[s] \in SessionRec /\ Honest(session[s], claimed) /\ UNCHANGED <<disk, actions, outputs, claimed>>
  BY DEF GInv, Killed, Lost
<1>2. ASSUME NEW live \in BOOLEAN, session' = [session EXCEPT ![s] = Fresh(live)] PROVE GInv'
  <2>1. Fresh(live) \in SessionRec /\ Honest(Fresh(live), claimed')
    BY DEF Fresh, SessionRec, Honest, Answers
  <2> QED BY <1>1, <1>2, <2>1, OneSession DEF GInv
<1>3. CASE session' = [session EXCEPT ![s].live = FALSE]
  <2> DEFINE x == [session[s] EXCEPT !.live = FALSE]
  <2>1. x \in SessionRec /\ x.pc = session[s].pc /\ x.body = session[s].body /\ x.output = session[s].output
        /\ x.action = session[s].action /\ x.answer = session[s].answer
    BY <1>1 DEF SessionRec
  <2>2. session' = [session EXCEPT ![s] = x]
    BY <1>3
  <2> HIDE DEF x
  <2>3. Honest(x, claimed')
    BY <1>1, <2>1 DEF Honest
  <2> QED BY <1>1, <2>1, <2>2, <2>3, OneSession DEF GInv
<1> QED BY <1>2, <1>3 DEF Killed, Lost

LEMMA EvictedInv == GInv /\ Evicted => GInv'
<1> SUFFICES ASSUME GInv, Evicted PROVE GInv'
  OBVIOUS
<1>1. UNCHANGED <<session, disk, claimed>>
  BY DEF Evicted
<1>2. /\ outputs' \in [Outputs -> {None, "whole"}] /\ actions' \in [Actions -> Outputs \cup {None}]
      /\ \A a \in Actions : actions'[a] # None => <<a, actions'[a]>> \in claimed
  BY DEF Evicted, GInv
<1> QED BY <1>1, <1>2 DEF GInv, Honest

\* GoServed (HandleGet, HandlePut), for any number of go builds that share the
\* directory, whatever is killed, evicted or lost between two of their calls: a hit
\* names an output go put whole for that action, and the files are whole.
THEOREM ServedWhole == GSpec => []GoServed
<1>1. GInv /\ [GNext]_gvars => GInv'
  <2> SUFFICES ASSUME GInv, [GNext]_gvars PROVE GInv'
    OBVIOUS
  <2>1. CASE UNCHANGED gvars
    BY <2>1 DEF gvars, GInv, Honest
  <2>2. CASE GNext
    BY <2>2, GoRequestInv, GetActionInv, GetOutputInv, GetFileInv, GoPutInv, PutOutputInv,
       PutActionInv, WorldInv, EvictedInv DEF GNext
  <2> QED BY <2>1, <2>2
<1>2. GInv => GoServed
  <2> SUFFICES ASSUME GInv, NEW s \in Sessions, session[s].answer # None,
                      "hit" \in DOMAIN session[s].answer, session[s].answer.hit
               PROVE  /\ session[s].answer.size = "whole"
                      /\ <<session[s].answer.action, session[s].answer.output>> \in claimed
    BY DEF GInv, GoServed
  <2>1. session[s].answer \in Answers /\ Honest(session[s], claimed)
    BY DEF GInv, SessionRec
  <2>2. session[s].answer \in [hit : {TRUE}, action : Actions, output : Outputs, size : {"whole"}]
    <3> DEFINE r == session[s].answer
    <3>1. CASE r = [hit |-> FALSE]
      <4>1. [hit |-> FALSE].hit = FALSE
        OBVIOUS
      <4> QED BY <3>1, <4>1, Zenon
    <3>2. CASE r \in {[put |-> TRUE], [err |-> TRUE]}
      <4>1. "hit" \notin DOMAIN [put |-> TRUE] /\ "hit" \notin DOMAIN [err |-> TRUE]
        OBVIOUS
      <4> QED BY <3>2, <4>1, Zenon
    <3> QED BY <2>1, <3>1, <3>2, Zenon DEF Answers
  <2> QED BY <2>1, <2>2 DEF Honest
<1> QED BY GInitInv, <1>1, <1>2, PTL DEF GSpec

=============================================================================
