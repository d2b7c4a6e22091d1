---------------------------- MODULE SlotsProofs ----------------------------
(***************************************************************************)
(* The safety properties of Slots for every finite set of clients, every   *)
(* assignment of clients to builds and every limit.                        *)
(***************************************************************************)
EXTENDS Slots, FiniteSetTheorems, TLAPS

----------------------------------------------------------------------------
(* Counting tokens *)

LEMMA TokensElt ==
  ASSUME NEW f \in [Clients -> Nat]
  PROVE  /\ \A u \in Tokens(f) : \E d \in Clients, k \in Nat : u = <<d, k>>
         /\ \A d \in Clients, k \in Nat : <<d, k>> \in Tokens(f) <=> 1 <= k /\ k <= f[d]
<1>1. ASSUME NEW u \in Tokens(f)
      PROVE  \E d \in Clients, k \in Nat : u = <<d, k>>
  BY <1>1 DEF Tokens
<1>2. ASSUME NEW d \in Clients, NEW k \in Nat
      PROVE  <<d, k>> \in Tokens(f) <=> 1 <= k /\ k <= f[d]
  <2>1. ASSUME <<d, k>> \in Tokens(f) PROVE 1 <= k /\ k <= f[d]
    <3>1. PICK e \in Clients : <<d, k>> \in {e} \X (1..f[e])
      BY <2>1 DEF Tokens
    <3> QED BY <3>1
  <2>2. ASSUME 1 <= k, k <= f[d] PROVE <<d, k>> \in Tokens(f)
    <3>1. <<d, k>> \in {d} \X (1..f[d])
      BY <2>2
    <3> QED BY <3>1 DEF Tokens
  <2> QED BY <2>1, <2>2
<1> QED BY <1>1, <1>2

\* g counts one token of c more than f.
OneMore(f, g, c) ==
  /\ f \in [Clients -> Nat]
  /\ g \in [Clients -> Nat]
  /\ g[c] = f[c] + 1
  /\ \A d \in Clients : d # c => g[d] = f[d]

\* f stands for n tokens, h[b] of them of build b.
Sized(f, n, h) ==
  /\ IsFiniteSet(Tokens(f))
  /\ Cardinality(Tokens(f)) = n
  /\ \A b \in Builds : Cardinality(TokensOf(f, b)) = h[b]

LEMMA SizedNat ==
  ASSUME NEW f, NEW n, NEW h, Sized(f, n, h)
  PROVE  n \in Nat /\ \A b \in Builds : h[b] \in Nat
<1>1. n \in Nat
  BY FS_CardinalityType DEF Sized
<1>2. ASSUME NEW b \in Builds PROVE h[b] \in Nat
  <2>1. IsFiniteSet(TokensOf(f, b))
    BY FS_Subset DEF TokensOf, Sized
  <2> QED BY <2>1, FS_CardinalityType DEF Sized
<1> QED BY <1>1, <1>2

LEMMA OneMoreTokens ==
  ASSUME NEW f, NEW g, NEW c \in Clients, OneMore(f, g, c), BuildOf[c] \in Builds,
         IsFiniteSet(Tokens(f)) \/ IsFiniteSet(Tokens(g))
  PROVE  /\ IsFiniteSet(Tokens(f)) /\ IsFiniteSet(Tokens(g))
         /\ Cardinality(Tokens(g)) = Cardinality(Tokens(f)) + 1
         /\ \A b \in Builds :
              IF b = BuildOf[c]
              THEN Cardinality(TokensOf(g, b)) = Cardinality(TokensOf(f, b)) + 1
              ELSE Cardinality(TokensOf(g, b)) = Cardinality(TokensOf(f, b))
<1> DEFINE t == <<c, f[c] + 1>>
<1>1. t[1] = c
  OBVIOUS
<1>2. t \notin Tokens(f)
  <2>1. f \in [Clients -> Nat] /\ f[c] + 1 \in Nat /\ ~(f[c] + 1 <= f[c])
    BY DEF OneMore
  <2> QED BY <2>1, TokensElt
<1>3. Tokens(g) = Tokens(f) \cup {t}
  <2>0. f \in [Clients -> Nat] /\ g \in [Clients -> Nat]
    BY DEF OneMore
  <2>1. ASSUME NEW u \in Tokens(g) PROVE u \in Tokens(f) \cup {t}
    <3>1. PICK d \in Clients, k \in Nat : u = <<d, k>>
      BY <2>0, TokensElt
    <3>2. 1 <= k /\ k <= g[d]
      BY <2>0, <3>1, TokensElt
    <3>3. (1 <= k /\ k <= f[d]) \/ u = t
      BY <3>1, <3>2 DEF OneMore
    <3> QED BY <2>0, <3>1, <3>3, TokensElt
  <2>2. ASSUME NEW u \in Tokens(f) PROVE u \in Tokens(g)
    <3>1. PICK d \in Clients, k \in Nat : u = <<d, k>>
      BY <2>0, TokensElt
    <3>2. 1 <= k /\ k <= f[d]
      BY <2>0, <3>1, TokensElt
    <3>3. 1 <= k /\ k <= g[d]
      BY <3>2 DEF OneMore
    <3> QED BY <2>0, <3>1, <3>3, TokensElt
  <2>3. t \in Tokens(g)
    <3>1. f[c] + 1 \in Nat /\ 1 <= f[c] + 1 /\ f[c] + 1 <= g[c]
      BY DEF OneMore
    <3> QED BY <2>0, <3>1, TokensElt
  <2> QED BY <2>1, <2>2, <2>3
<1> HIDE DEF t
<1>4. IsFiniteSet(Tokens(f))
  BY <1>3, FS_Subset
<1>5. /\ IsFiniteSet(Tokens(f) \cup {t})
      /\ Cardinality(Tokens(f) \cup {t}) = Cardinality(Tokens(f)) + 1
  BY <1>2, <1>4, FS_AddElement
<1>6. ASSUME NEW b \in Builds
      PROVE  IF b = BuildOf[c]
             THEN Cardinality(TokensOf(g, b)) = Cardinality(TokensOf(f, b)) + 1
             ELSE Cardinality(TokensOf(g, b)) = Cardinality(TokensOf(f, b))
  <2>1. IsFiniteSet(TokensOf(f, b)) /\ t \notin TokensOf(f, b)
    BY <1>2, <1>4, FS_Subset DEF TokensOf
  <2>2. CASE b = BuildOf[c]
    <3>1. TokensOf(g, b) = TokensOf(f, b) \cup {t}
      BY <1>1, <1>3, <2>2 DEF TokensOf
    <3> QED BY <2>1, <2>2, <3>1, FS_AddElement
  <2>3. CASE b # BuildOf[c]
    <3>1. TokensOf(g, b) = TokensOf(f, b)
      BY <1>1, <1>3, <2>3 DEF TokensOf
    <3> QED BY <2>3, <3>1
  <2> QED BY <2>2, <2>3
<1> QED BY <1>3, <1>4, <1>5, <1>6

\* Giving a token to c.
LEMMA SizedInc ==
  ASSUME NEW f, NEW g, NEW c \in Clients, OneMore(f, g, c), BuildOf[c] \in Builds,
         NEW n, NEW h \in [Builds -> Int], Sized(f, n, h)
  PROVE  Sized(g, n + 1, [h EXCEPT ![BuildOf[c]] = @ + 1])
<1> DEFINE k == [h EXCEPT ![BuildOf[c]] = @ + 1]
<1>1. \A b \in Builds : k[b] = IF b = BuildOf[c] THEN h[b] + 1 ELSE h[b]
  OBVIOUS
<1> HIDE DEF k
<1>2. /\ IsFiniteSet(Tokens(g))
      /\ Cardinality(Tokens(g)) = Cardinality(Tokens(f)) + 1
      /\ \A b \in Builds :
           IF b = BuildOf[c]
           THEN Cardinality(TokensOf(g, b)) = Cardinality(TokensOf(f, b)) + 1
           ELSE Cardinality(TokensOf(g, b)) = Cardinality(TokensOf(f, b))
  BY OneMoreTokens DEF Sized
<1>3. Sized(g, n + 1, k)
  BY <1>1, <1>2 DEF Sized
<1> QED BY <1>3 DEF k

\* Taking a token from c.
LEMMA SizedDec ==
  ASSUME NEW f, NEW g, NEW c \in Clients, OneMore(g, f, c), BuildOf[c] \in Builds,
         NEW n, NEW h \in [Builds -> Int], Sized(f, n, h)
  PROVE  Sized(g, n - 1, [h EXCEPT ![BuildOf[c]] = @ - 1])
<1> DEFINE k == [h EXCEPT ![BuildOf[c]] = @ - 1]
<1>1. \A b \in Builds : k[b] = IF b = BuildOf[c] THEN h[b] - 1 ELSE h[b]
  OBVIOUS
<1> HIDE DEF k
<1>2. /\ IsFiniteSet(Tokens(g))
      /\ Cardinality(Tokens(f)) = Cardinality(Tokens(g)) + 1
      /\ \A b \in Builds :
           IF b = BuildOf[c]
           THEN Cardinality(TokensOf(f, b)) = Cardinality(TokensOf(g, b)) + 1
           ELSE Cardinality(TokensOf(f, b)) = Cardinality(TokensOf(g, b))
  BY OneMoreTokens DEF Sized
<1>3. Cardinality(Tokens(g)) = n - 1
  <2>1. Cardinality(Tokens(g)) \in Nat
    BY <1>2, FS_CardinalityType
  <2> QED BY <1>2, <2>1 DEF Sized
<1>4. ASSUME NEW b \in Builds PROVE Cardinality(TokensOf(g, b)) = k[b]
  <2>1. IsFiniteSet(TokensOf(g, b))
    BY <1>2, FS_Subset DEF TokensOf
  <2>2. Cardinality(TokensOf(g, b)) \in Nat /\ Cardinality(TokensOf(f, b)) = h[b]
    BY <2>1, FS_CardinalityType DEF Sized
  <2>3. CASE b = BuildOf[c]
    BY <1>1, <1>2, <2>2, <2>3
  <2>4. CASE b # BuildOf[c]
    BY <1>1, <1>2, <2>2, <2>4
  <2> QED BY <2>3, <2>4
<1>5. Sized(g, n - 1, k)
  BY <1>2, <1>3, <1>4 DEF Sized
<1> QED BY <1>5 DEF k

LEMMA SizedNone ==
  ASSUME NEW f \in [Clients -> Nat], \A c \in Clients : f[c] = 0,
         NEW h, \A b \in Builds : h[b] = 0
  PROVE  Sized(f, 0, h)
<1>1. ASSUME NEW u \in Tokens(f) PROVE FALSE
  <2>1. PICK d \in Clients, k \in Nat : u = <<d, k>>
    BY TokensElt
  <2> QED BY <2>1, TokensElt
<1>2. \A b \in Builds : TokensOf(f, b) = {} /\ Tokens(f) = {}
  BY <1>1 DEF TokensOf
<1> QED BY <1>1, <1>2, FS_EmptySet DEF Sized

----------------------------------------------------------------------------
(* The inductive invariant *)

\* What ties a handler, the line it has not read and its client together.
ConnOf(c) ==
  /\ serve[c] = "none" => tok[c] = 0 /\ line[c] = ""
  /\ serve[c] \in {"queued", "granted"} => line[c] = "" /\ client[c] \in {"asked", "off"}
  /\ serve[c] = "hangup" => client[c] = "off"
  /\ client[c] = "running" /\ serve[c] # "none" =>
       serve[c] = "read" /\ tok[c] > 0 /\ line[c] = ""
  /\ line[c] = "SLOT" => client[c] \in {"asked", "off"}
  /\ line[c] = "DONE" => client[c] \in {"ending", "off"}

Conn == \A c \in Clients : ConnOf(c)

Counted == Sized(Owned, out, held)

\* The part of the invariant that is about slots.go alone.
SlotInv ==
  /\ out \in Nat
  /\ held \in [Builds -> Nat]
  /\ waiting \in Seq(Clients)
  /\ out <= Limit
  /\ NoIdleToken
  /\ QueueExact
  /\ Counted

IInv == TypeOK /\ SlotInv /\ Conn

LEMMA OwnedType ==
  ASSUME tok \in [Clients -> Nat]
  PROVE  Owned \in [Clients -> Nat]
<1>1. ASSUME NEW c \in Clients
      PROVE  tok[c] + (IF serve[c] = "granted" THEN 1 ELSE 0) \in Nat
  <2>1. tok[c] \in Nat /\ tok[c] + 1 \in Nat /\ tok[c] + 0 \in Nat
    OBVIOUS
  <2> QED BY <2>1
<1> QED BY <1>1 DEF Owned

LEMMA LimitType == Limit \in Nat /\ Limit > 0
BY SlotsAssumption

LEMMA NoneWaiting ==
  ASSUME NEW S, NEW s \in Seq(S), s = <<>>
  PROVE  DOMAIN s = {}
<1>1. DOMAIN s = 1..Len(s)
  OBVIOUS
<1>2. Len(s) = 0
  OBVIOUS
<1> QED BY <1>1, <1>2

LEMMA NoneIsSeq == ASSUME NEW S PROVE <<>> \in Seq(S)
OBVIOUS

LEMMA ConcatSeq ==
  ASSUME NEW S, NEW a \in Seq(S), NEW b \in Seq(S)
  PROVE  /\ a \o b \in Seq(S) /\ Len(a \o b) = Len(a) + Len(b)
         /\ \A j \in 1..(Len(a) + Len(b)) : (a \o b)[j] = IF j <= Len(a) THEN a[j] ELSE b[j - Len(a)]
<1>1. a \o b \in Seq(S)
  OBVIOUS
<1>2. Len(a \o b) = Len(a) + Len(b)
  OBVIOUS
<1>3. ASSUME NEW j \in 1..(Len(a) + Len(b)) PROVE (a \o b)[j] = IF j <= Len(a) THEN a[j] ELSE b[j - Len(a)]
  OBVIOUS
<1> QED BY <1>1, <1>2, <1>3

LEMMA RemoveAtFacts ==
  ASSUME NEW S, NEW s \in Seq(S), NEW i \in DOMAIN s
  PROVE  /\ RemoveAt(s, i) \in Seq(S)
         /\ DOMAIN RemoveAt(s, i) = 1..(Len(s) - 1)
         /\ \A j \in 1..(Len(s) - 1) : RemoveAt(s, i)[j] = IF j < i THEN s[j] ELSE s[j + 1]
<1> DEFINE a == SubSeq(s, 1, i - 1)
           b == SubSeq(s, i + 1, Len(s))
<1>1. Len(s) \in Nat /\ DOMAIN s = 1..Len(s)
  OBVIOUS
<1>2. i \in 1..Len(s)
  BY <1>1
<1>3. /\ a \in Seq(S) /\ Len(a) = i - 1
      /\ \A j \in 1..(i - 1) : a[j] = s[j]
  BY <1>1, <1>2
<1>4. /\ b \in Seq(S) /\ Len(b) = Len(s) - i
      /\ \A j \in 1..(Len(s) - i) : b[j] = s[i + j]
  BY <1>1, <1>2
<1>5. RemoveAt(s, i) = a \o b
  BY DEF RemoveAt
<1> HIDE DEF a, b
<1>6. /\ a \o b \in Seq(S) /\ Len(a \o b) = Len(s) - 1
      /\ \A j \in 1..(Len(s) - 1) :
           (a \o b)[j] = IF j <= i - 1 THEN a[j] ELSE b[j - (i - 1)]
  <2>1. /\ a \o b \in Seq(S) /\ Len(a \o b) = Len(a) + Len(b)
        /\ \A j \in 1..(Len(a) + Len(b)) :
             (a \o b)[j] = IF j <= Len(a) THEN a[j] ELSE b[j - Len(a)]
    <3>1. a \in Seq(S) /\ b \in Seq(S)
      BY <1>3, <1>4
    <3> QED BY <3>1, ConcatSeq
  <2>2. Len(a) = i - 1 /\ Len(a) + Len(b) = Len(s) - 1
    BY <1>1, <1>2, <1>3, <1>4
  <2> QED BY <2>1, <2>2
<1>7. DOMAIN (a \o b) = 1..(Len(s) - 1)
  BY <1>6
<1>8. ASSUME NEW j \in 1..(Len(s) - 1)
      PROVE  (a \o b)[j] = IF j < i THEN s[j] ELSE s[j + 1]
  <2>1. CASE j < i
    BY <1>1, <1>2, <1>3, <1>6, <2>1
  <2>2. CASE ~(j < i)
    <3>1. j - (i - 1) \in 1..(Len(s) - i) /\ i + (j - (i - 1)) = j + 1
      BY <1>1, <1>2, <2>2
    <3>2. b[j - (i - 1)] = s[j + 1]
      BY <1>4, <3>1
    <3>3. ~(j <= i - 1)
      BY <1>1, <1>2, <2>2
    <3> QED BY <1>6, <2>2, <3>2, <3>3
  <2> QED BY <2>1, <2>2
<1> QED BY <1>5, <1>6, <1>7, <1>8

\* Init establishes the invariant.
LEMMA InitInv == Init => IInv
<1> SUFFICES ASSUME Init PROVE IInv
  OBVIOUS
<1> USE SlotsAssumption
<1>1. TypeOK
  <2>1. waiting \in Seq(Clients)
    BY NoneIsSeq DEF Init
  <2> QED BY <2>1 DEF Init, TypeOK, ServeStates, ClientStates, Requests
<1>2. Owned \in [Clients -> Nat] /\ \A c \in Clients : Owned[c] = 0
  <2>1. \A c \in Clients : tok[c] = 0 /\ serve[c] # "granted"
    BY DEF Init
  <2>2. \A c \in Clients : Owned[c] = 0
    BY <2>1 DEF Owned
  <2> QED BY <1>1, <2>2, OwnedType DEF TypeOK
<1>3. Counted
  <2>1. out = 0 /\ \A b \in Builds : held[b] = 0
    BY DEF Init
  <2> QED BY <1>2, <2>1, SizedNone DEF Counted
<1>4. NoIdleToken /\ QueueExact
  <2>1. waiting = <<>> /\ DOMAIN waiting = {}
    BY <1>1, NoneWaiting DEF Init, TypeOK
  <2>2. \A c \in Clients : serve[c] # "queued"
    BY DEF Init
  <2> QED BY <2>1, <2>2 DEF NoIdleToken, QueueExact
<1>5. Conn
  BY DEF Init, Conn, ConnOf
<1>6. out <= Limit
  <2>1. out = 0
    BY DEF Init
  <2> QED BY <2>1, LimitType
<1> QED BY <1>1, <1>3, <1>4, <1>5, <1>6 DEF IInv, SlotInv, TypeOK

----------------------------------------------------------------------------
(* The operations of slots.go preserve SlotInv *)

LEMMA AppendFacts ==
  ASSUME NEW S, NEW s \in Seq(S), NEW x \in S
  PROVE  /\ Append(s, x) \in Seq(S) /\ Append(s, x) # <<>>
         /\ Len(s) \in Nat /\ DOMAIN s = 1..Len(s)
         /\ DOMAIN Append(s, x) = 1..(Len(s) + 1)
         /\ \A j \in 1..Len(s) : Append(s, x)[j] = s[j]
         /\ Append(s, x)[Len(s) + 1] = x
<1>1. Len(s) \in Nat /\ DOMAIN s = 1..Len(s)
  OBVIOUS
<1>2. /\ Append(s, x) \in Seq(S) /\ Append(s, x) # <<>>
      /\ Len(Append(s, x)) = Len(s) + 1
      /\ \A j \in 1..Len(s) : Append(s, x)[j] = s[j]
      /\ Append(s, x)[Len(s) + 1] = x
  OBVIOUS
<1>3. DOMAIN Append(s, x) = 1..(Len(s) + 1)
  BY <1>2
<1> QED BY <1>1, <1>2, <1>3

Once(s) == \A i, j \in DOMAIN s : s[i] = s[j] => i = j
InQueue(s, d) == \E i \in DOMAIN s : s[i] = d

LEMMA QueueExactAlt ==
  QueueExact <=> Once(waiting) /\ \A c \in Clients : serve[c] = "queued" <=> InQueue(waiting, c)
BY DEF QueueExact, Once, InQueue

LEMMA QueueAppend ==
  ASSUME NEW s \in Seq(Clients), NEW c \in Clients, Once(s), ~InQueue(s, c)
  PROVE  /\ Once(Append(s, c))
         /\ \A d \in Clients : InQueue(Append(s, c), d) <=> d = c \/ InQueue(s, d)
<1> DEFINE n == Len(s)
           t == Append(s, c)
<1>1. /\ n \in Nat /\ DOMAIN s = 1..n /\ DOMAIN t = 1..(n + 1)
      /\ \A j \in 1..n : t[j] = s[j]
      /\ t[n + 1] = c
  BY AppendFacts
<1> HIDE DEF n, t
<1>2. \A j \in 1..n : j \in 1..(n + 1)
  BY <1>1
<1>3. n + 1 \in 1..(n + 1) /\ \A j \in 1..(n + 1) : j \in 1..n \/ j = n + 1
  BY <1>1
<1>4. Once(t)
  BY <1>1, <1>3 DEF Once, InQueue
<1>5. \A d \in Clients : InQueue(t, d) <=> d = c \/ InQueue(s, d)
  BY <1>1, <1>2, <1>3 DEF InQueue
<1> QED BY <1>4, <1>5 DEF t

LEMMA QueueRemove ==
  ASSUME NEW s \in Seq(Clients), NEW i \in DOMAIN s, Once(s)
  PROVE  /\ Once(RemoveAt(s, i))
         /\ \A d \in Clients : InQueue(RemoveAt(s, i), d) <=> d # s[i] /\ InQueue(s, d)
<1> DEFINE n == Len(s)
           t == RemoveAt(s, i)
<1>1. n \in Nat /\ DOMAIN s = 1..n
  OBVIOUS
<1>2. /\ DOMAIN t = 1..(n - 1)
      /\ \A j \in 1..(n - 1) : t[j] = IF j < i THEN s[j] ELSE s[j + 1]
  BY RemoveAtFacts
<1> HIDE DEF n, t
<1>3. \A j \in 1..(n - 1) : j \in 1..n /\ j + 1 \in 1..n
  BY <1>1
<1>4. Once(t)
  <2> SUFFICES ASSUME NEW j \in 1..(n - 1), NEW k \in 1..(n - 1), t[j] = t[k], j < k
               PROVE  FALSE
    BY <1>2 DEF Once
  <2>1. PICK p \in 1..n : s[p] = t[j] /\ p \in {j, j + 1} /\ (p = j + 1 => ~(j < i))
    BY <1>2, <1>3
  <2>2. PICK q \in 1..n : s[q] = t[k] /\ q \in {k, k + 1} /\ (q = k => k < i)
    BY <1>2, <1>3
  <2>3. p = q
    BY <1>1, <2>1, <2>2 DEF Once
  <2> QED BY <2>1, <2>2, <2>3
<1>5. ASSUME NEW d \in Clients, InQueue(t, d) PROVE d # s[i] /\ InQueue(s, d)
  <2>1. PICK j \in 1..(n - 1) : t[j] = d
    BY <1>2, <1>5 DEF InQueue
  <2>2. CASE j < i
    BY <1>1, <1>2, <1>3, <2>1, <2>2 DEF InQueue, Once
  <2>3. CASE ~(j < i)
    BY <1>1, <1>2, <1>3, <2>1, <2>3 DEF InQueue, Once
  <2> QED BY <2>2, <2>3
<1>6. ASSUME NEW d \in Clients, InQueue(s, d), d # s[i] PROVE InQueue(t, d)
  <2>1. PICK j \in 1..n : s[j] = d
    BY <1>1, <1>6 DEF InQueue
  <2>2. CASE j < i
    <3>1. j \in 1..(n - 1) /\ t[j] = d
      BY <1>1, <1>2, <2>1, <2>2
    <3> QED BY <1>2, <3>1 DEF InQueue
  <2>3. CASE j > i
    <3>1. j - 1 \in 1..(n - 1) /\ ~(j - 1 < i) /\ (j - 1) + 1 = j
      BY <1>1, <2>3
    <3>2. t[j - 1] = d
      BY <1>2, <2>1, <3>1
    <3> QED BY <1>2, <3>1, <3>2 DEF InQueue
  <2>4. j # i
    BY <1>6, <2>1
  <2> QED BY <1>1, <2>2, <2>3, <2>4
<1> QED BY <1>4, <1>5, <1>6 DEF t

\* Acquire: a token to the caller, or the caller to the end of the queue.
LEMMA AcquireInv ==
  ASSUME IInv, NEW c \in Clients, serve[c] = "read", Acquire(c), UNCHANGED tok
  PROVE  /\ SlotInv'
         /\ serve' \in [Clients -> ServeStates]
         /\ serve'[c] \in {"queued", "granted"}
         /\ \A d \in Clients \ {c} : serve'[d] = serve[d]
<1>1. /\ out \in Nat /\ out <= Limit /\ held \in [Builds -> Nat] /\ waiting \in Seq(Clients)
      /\ serve \in [Clients -> ServeStates] /\ tok \in [Clients -> Nat]
  BY DEF IInv, SlotInv, TypeOK
<1>2. BuildOf[c] \in Builds
  BY SlotsAssumption
<1>3. NoIdleToken /\ QueueExact /\ Counted
  BY DEF IInv, SlotInv
<1>4. Owned \in [Clients -> Nat] /\ Owned' \in [Clients -> Nat]
  BY <1>1, OwnedType DEF Owned
<1>5. CASE out < Limit /\ waiting = <<>>
  <2>1. /\ out' = out + 1 /\ UNCHANGED waiting
        /\ held' = [held EXCEPT ![BuildOf[c]] = @ + 1]
        /\ serve' = [serve EXCEPT ![c] = "granted"]
    BY <1>5 DEF Acquire
  <2>2. out' \in Nat /\ out' <= Limit
    BY <1>1, <1>5, <2>1, LimitType
  <2>3. held' \in [Builds -> Nat]
    BY <1>1, <1>2, <2>1
  <2>4. serve' \in [Clients -> ServeStates]
    BY <1>1, <2>1 DEF ServeStates
  <2>5. NoIdleToken'
    BY <1>5, <2>1 DEF NoIdleToken
  <2>6. QueueExact'
    BY <1>1, <1>3, <2>1 DEF QueueExact
  <2>7. OneMore(Owned, Owned', c)
    BY <1>1, <1>4, <2>1 DEF Owned, OneMore
  <2>8. Counted'
    <3>1. held \in [Builds -> Int] /\ Sized(Owned, out, held)
      BY <1>1, <1>3 DEF Counted
    <3>2. Sized(Owned', out + 1, [held EXCEPT ![BuildOf[c]] = @ + 1])
      BY <1>2, <2>7, <3>1, SizedInc
    <3> QED BY <2>1, <3>2 DEF Counted
  <2>9. serve'[c] = "granted" /\ \A d \in Clients \ {c} : serve'[d] = serve[d]
    BY <1>1, <2>1
  <2> QED BY <1>1, <2>1, <2>2, <2>3, <2>4, <2>5, <2>6, <2>8, <2>9 DEF SlotInv
<1>6. CASE ~(out < Limit /\ waiting = <<>>)
  <2>1. /\ UNCHANGED <<out, held>>
        /\ waiting' = Append(waiting, c)
        /\ serve' = [serve EXCEPT ![c] = "queued"]
    BY <1>6 DEF Acquire
  <2>2. waiting' \in Seq(Clients)
    BY <1>1, <2>1, AppendFacts
  <2>3. serve' \in [Clients -> ServeStates]
    BY <1>1, <2>1 DEF ServeStates
  <2>4. out = Limit
    BY <1>1, <1>3, <1>6, LimitType DEF NoIdleToken
  <2>5. serve'[c] = "queued" /\ \A d \in Clients \ {c} : serve'[d] = serve[d]
    BY <1>1, <2>1
  <2>6. QueueExact'
    <3>1. /\ Once(waiting) /\ ~InQueue(waiting, c)
          /\ \A d \in Clients : serve[d] = "queued" <=> InQueue(waiting, d)
      BY <1>3, QueueExactAlt
    <3>2. /\ Once(waiting')
          /\ \A d \in Clients : InQueue(waiting', d) <=> d = c \/ InQueue(waiting, d)
      BY <1>1, <2>1, <3>1, QueueAppend
    <3>3. \A d \in Clients : serve'[d] = "queued" <=> InQueue(waiting', d)
      BY <2>5, <3>1, <3>2
    <3> QED BY <3>2, <3>3 DEF QueueExact, Once, InQueue
  <2>7. Owned' = Owned
    BY <1>1, <2>1 DEF Owned
  <2>8. Counted'
    BY <1>3, <2>1, <2>7 DEF Counted
  <2> QED BY <1>1, <2>1, <2>2, <2>3, <2>4, <2>5, <2>6, <2>8 DEF SlotInv, NoIdleToken
<1> QED BY <1>5, <1>6

\* Release by a handler that counts a token, and grant: the token goes to one
\* waiter, or back to the counter when nobody waits.
LEMMA ReleaseInv ==
  ASSUME IInv, NEW c \in Clients, NEW st \in {"read", "hangup"},
         serve[c] \in {"read", "hangup"}, tok[c] > 0,
         Release(c, st), tok' = [tok EXCEPT ![c] = @ - 1]
  PROVE  /\ SlotInv'
         /\ serve' \in [Clients -> ServeStates]
         /\ tok' \in [Clients -> Nat]
         /\ serve'[c] = st
         /\ \A d \in Clients \ {c} :
              serve'[d] = serve[d] \/ (serve[d] = "queued" /\ serve'[d] = "granted")
<1> DEFINE h == [held EXCEPT ![BuildOf[c]] = @ - 1]
<1>1. /\ out \in Nat /\ out <= Limit /\ held \in [Builds -> Nat] /\ waiting \in Seq(Clients)
      /\ serve \in [Clients -> ServeStates] /\ tok \in [Clients -> Nat]
  BY DEF IInv, SlotInv, TypeOK
<1>2. BuildOf \in [Clients -> Builds]
  BY SlotsAssumption
<1>3. NoIdleToken /\ QueueExact /\ Counted
  BY DEF IInv, SlotInv
<1>4. tok' \in [Clients -> Nat]
  BY <1>1
<1>5. Owned \in [Clients -> Nat] /\ Owned' \in [Clients -> Nat]
  <2>1. Owned \in [Clients -> Nat]
    BY <1>1, OwnedType
  <2>2. ASSUME NEW d \in Clients
        PROVE  tok'[d] + (IF serve'[d] = "granted" THEN 1 ELSE 0) \in Nat
    <3>1. tok'[d] \in Nat /\ tok'[d] + 1 \in Nat /\ tok'[d] + 0 \in Nat
      BY <1>4
    <3> QED BY <3>1
  <2>3. Owned' \in [Clients -> Nat]
    BY <2>2 DEF Owned
  <2> QED BY <2>1, <2>3
<1>6. Owned[c] = tok[c] /\ Owned[c] > 0
  BY <1>1 DEF Owned
<1>7. h \in [Builds -> Int]
  BY <1>1, <1>2
<1>8. CASE out - 1 < Limit /\ waiting # <<>>
  <2>1. PICK i \in DOMAIN waiting :
          /\ held' = [h EXCEPT ![BuildOf[waiting[i]]] = @ + 1]
          /\ waiting' = RemoveAt(waiting, i)
          /\ serve' = [serve EXCEPT ![c] = st, ![waiting[i]] = "granted"]
          /\ UNCHANGED out
    BY <1>8 DEF Release
  <2> DEFINE w == waiting[i]
  <2>2. w \in Clients
    BY <1>1
  <2>3. /\ Once(waiting)
        /\ \A d \in Clients : serve[d] = "queued" <=> InQueue(waiting, d)
    BY <1>3, QueueExactAlt
  <2>4. serve[w] = "queued" /\ w # c
    BY <2>2, <2>3 DEF InQueue
  <2>5. /\ waiting' \in Seq(Clients)
        /\ Once(waiting')
        /\ \A d \in Clients : InQueue(waiting', d) <=> d # w /\ InQueue(waiting, d)
    BY <1>1, <2>1, <2>3, QueueRemove, RemoveAtFacts
  <2> HIDE DEF w, h
  <2>6. serve' = [serve EXCEPT ![c] = st, ![w] = "granted"]
    BY <2>1 DEF w
  <2>7. serve' \in [Clients -> ServeStates]
    BY <1>1, <2>2, <2>6 DEF ServeStates
  <2>8. /\ serve'[c] = st /\ serve'[w] = "granted"
        /\ \A d \in Clients : d # c /\ d # w => serve'[d] = serve[d]
    BY <1>1, <2>2, <2>4, <2>6
  <2>9. QueueExact'
    <3>1. \A d \in Clients : serve'[d] = "queued" <=> InQueue(waiting', d)
      BY <2>2, <2>3, <2>4, <2>5, <2>8
    <3> QED BY <2>5, <3>1 DEF QueueExact, Once, InQueue
  <2>10. out = Limit
    BY <1>3, <1>8 DEF NoIdleToken
  <2>11. Counted'
    <3> DEFINE m == [Owned EXCEPT ![c] = @ - 1]
    <3>1. OneMore(m, Owned, c)
      BY <1>5, <1>6 DEF OneMore
    <3>2. OneMore(m, Owned', w)
      <4>1. m \in [Clients -> Nat]
        BY <1>5, <1>6
      <4>2. Owned'[w] = m[w] + 1
        <5>1. m[w] = Owned[w] /\ tok'[w] = tok[w] /\ tok[w] \in Nat
          BY <1>1, <1>5, <2>2, <2>4
        <5>2. Owned[w] = tok[w] + 0
          BY <2>2, <2>4 DEF Owned
        <5>3. Owned'[w] = tok'[w] + 1
          BY <2>2, <2>8 DEF Owned
        <5> QED BY <5>1, <5>2, <5>3
      <4>3. ASSUME NEW d \in Clients, d # w PROVE Owned'[d] = m[d]
        <5>1. CASE d = c
          BY <1>1, <1>5, <2>8, <4>3, <5>1 DEF Owned
        <5>2. CASE d # c
          BY <1>1, <1>5, <2>8, <4>3, <5>2 DEF Owned
        <5> QED BY <5>1, <5>2
      <4> QED BY <1>5, <4>1, <4>2, <4>3 DEF OneMore
    <3> HIDE DEF m
    <3>3. held \in [Builds -> Int] /\ Sized(Owned, out, held)
      BY <1>1, <1>3 DEF Counted
    <3>4. BuildOf[c] \in Builds /\ BuildOf[w] \in Builds
      BY <1>2, <2>2
    <3>5. Sized(m, out - 1, h)
      BY <3>1, <3>3, <3>4, SizedDec DEF h
    <3>6. Sized(Owned', (out - 1) + 1, [h EXCEPT ![BuildOf[w]] = @ + 1])
      BY <1>7, <2>2, <3>2, <3>4, <3>5, SizedInc
    <3>7. (out - 1) + 1 = out' /\ held' = [h EXCEPT ![BuildOf[w]] = @ + 1]
      BY <1>1, <2>1 DEF w
    <3> QED BY <3>6, <3>7 DEF Counted
  <2>12. held' \in [Builds -> Nat]
    <3>1. \A b \in Builds : held'[b] \in Nat
      BY <2>11, SizedNat DEF Counted
    <3>2. held' \in [Builds -> Int]
      BY <1>2, <1>7, <2>1, <2>2 DEF w
    <3> QED BY <3>1, <3>2
  <2>13. out' \in Nat /\ out' <= Limit /\ NoIdleToken'
    BY <1>1, <2>1, <2>10 DEF NoIdleToken
  <2> QED BY <1>4, <2>4, <2>5, <2>7, <2>8, <2>9, <2>11, <2>12, <2>13 DEF SlotInv
<1>9. CASE ~(out - 1 < Limit /\ waiting # <<>>)
  <2>1. /\ out' = out - 1 /\ held' = h /\ UNCHANGED waiting
        /\ serve' = [serve EXCEPT ![c] = st]
    BY <1>9 DEF Release
  <2>2. waiting = <<>>
    BY <1>1, <1>9, LimitType
  <2>3. serve' \in [Clients -> ServeStates]
    BY <1>1, <2>1 DEF ServeStates
  <2>4. serve'[c] = st /\ \A d \in Clients : d # c => serve'[d] = serve[d]
    BY <1>1, <2>1
  <2>5. QueueExact'
    BY <1>3, <2>1, <2>4 DEF QueueExact
  <2>6. OneMore(Owned', Owned, c)
    <3>1. Owned[c] = Owned'[c] + 1
      BY <1>1, <1>6, <2>4 DEF Owned
    <3>2. \A d \in Clients : d # c => Owned[d] = Owned'[d]
      BY <1>1, <2>4 DEF Owned
    <3> QED BY <1>5, <3>1, <3>2 DEF OneMore
  <2>7. Counted'
    <3>1. held \in [Builds -> Int] /\ Sized(Owned, out, held)
      BY <1>1, <1>3 DEF Counted
    <3>2. BuildOf[c] \in Builds
      BY <1>2
    <3>3. Sized(Owned', out - 1, h)
      BY <2>6, <3>1, <3>2, SizedDec
    <3> QED BY <2>1, <3>3 DEF Counted
  <2>8. out' \in Nat /\ \A b \in Builds : held'[b] \in Nat
    BY <2>7, SizedNat DEF Counted
  <2>9. held' \in [Builds -> Nat]
    BY <1>7, <2>1, <2>8
  <2>10. out' <= Limit /\ NoIdleToken'
    BY <1>1, <2>1, <2>2, LimitType DEF NoIdleToken
  <2> QED BY <1>1, <1>4, <2>1, <2>3, <2>4, <2>5, <2>7, <2>8, <2>9, <2>10 DEF SlotInv
<1> QED BY <1>8, <1>9

----------------------------------------------------------------------------
(* Every step preserves the invariant *)

\* A step that leaves slots.go, the handlers and their counts alone.
LEMMA SlotSame ==
  ASSUME SlotInv, UNCHANGED <<out, held, waiting>>, Owned' = Owned,
         \A c \in Clients : serve'[c] = "queued" <=> serve[c] = "queued"
  PROVE  SlotInv'
BY DEF SlotInv, NoIdleToken, QueueExact, Counted

LEMMA NextInv == IInv /\ [Next]_vars => IInv'
<1> SUFFICES ASSUME IInv, [Next]_vars PROVE IInv'
  OBVIOUS
<1>0. TypeOK /\ SlotInv /\ Conn
  BY DEF IInv
<1>1. ASSUME NEW c \in Clients, ReadSlot(c) PROVE IInv'
  <2>1. /\ SlotInv' /\ serve' \in [Clients -> ServeStates]
        /\ serve'[c] \in {"queued", "granted"}
        /\ \A d \in Clients \ {c} : serve'[d] = serve[d]
    BY <1>1, AcquireInv DEF ReadSlot
  <2>2. TypeOK'
    BY <1>0, <1>1, <2>1 DEF TypeOK, ReadSlot, SlotInv, Requests
  <2>3. Conn'
    BY <1>0, <1>1, <2>1 DEF TypeOK, Conn, ConnOf, ReadSlot
  <2> QED BY <2>1, <2>2, <2>3 DEF IInv
<1>2. ASSUME NEW c \in Clients, Granted(c) PROVE IInv'
  <2>1. Owned' = Owned
    <3>1. ASSUME NEW d \in Clients
          PROVE  tok'[d] + (IF serve'[d] = "granted" THEN 1 ELSE 0)
                   = tok[d] + (IF serve[d] = "granted" THEN 1 ELSE 0)
      <4>1. /\ tok[d] \in Nat
            /\ tok'[d] = IF d = c THEN tok[d] + 1 ELSE tok[d]
            /\ serve'[d] = IF d = c THEN AfterReply(c) ELSE serve[d]
            /\ serve[c] = "granted"
        BY <1>0, <1>2 DEF Granted, TypeOK
      <4>2. AfterReply(c) # "granted"
        BY DEF AfterReply
      <4>3. CASE d = c
        BY <4>1, <4>2, <4>3
      <4>4. CASE d # c
        BY <4>1, <4>4
      <4> QED BY <4>3, <4>4
    <3> QED BY <3>1 DEF Owned
  <2>2. SlotInv'
    <3>1. \A d \in Clients : serve'[d] = "queued" <=> serve[d] = "queued"
      BY <1>0, <1>2 DEF Granted, TypeOK, AfterReply
    <3> QED BY <1>0, <1>2, <2>1, <3>1, SlotSame DEF Granted
  <2>3. TypeOK'
    <3>1. tok' \in [Clients -> Nat]
      <4>1. tok \in [Clients -> Nat] /\ tok' = [tok EXCEPT ![c] = @ + 1]
        BY <1>0, <1>2 DEF TypeOK, Granted
      <4> QED BY <4>1
    <3>2. serve' \in [Clients -> ServeStates] /\ client' \in [Clients -> ClientStates]
      BY <1>0, <1>2 DEF TypeOK, Granted, AfterReply, ServeStates, ClientStates
    <3> QED BY <1>0, <1>2, <3>1, <3>2 DEF TypeOK, Granted
  <2>4. Conn'
    <3> SUFFICES ASSUME NEW d \in Clients PROVE ConnOf(d)'
      BY DEF Conn
    <3>1. ConnOf(d) /\ ConnOf(c)
      BY <1>0 DEF Conn
    <3>2. CASE d = c
      <4>1. /\ serve[c] = "granted" /\ tok[c] \in Nat
            /\ tok'[c] = tok[c] + 1 /\ serve'[c] = AfterReply(c) /\ line'[c] = line[c]
            /\ client'[c] = IF client[c] = "off" THEN "off" ELSE "running"
        BY <1>0, <1>2 DEF TypeOK, Granted, Gone
      <4>2. line[c] = "" /\ client[c] \in {"asked", "off"} /\ tok'[c] > 0
        <5>1. line[c] = "" /\ client[c] \in {"asked", "off"}
          BY <3>1, <4>1 DEF ConnOf
        <5>2. tok'[c] > 0
          BY <4>1
        <5> QED BY <5>1, <5>2
      <4>3. serve'[c] = IF client[c] = "off" THEN "hangup" ELSE "read"
        BY <4>1 DEF AfterReply, Gone
      <4> QED BY <3>2, <4>1, <4>2, <4>3 DEF ConnOf
    <3>3. CASE d # c
      <4>1. /\ tok'[d] = tok[d] /\ serve'[d] = serve[d] /\ line'[d] = line[d]
            /\ client'[d] = client[d]
        BY <1>0, <1>2, <3>3 DEF TypeOK, Granted
      <4> QED BY <3>1, <4>1 DEF ConnOf
    <3> QED BY <3>2, <3>3
  <2> QED BY <2>2, <2>3, <2>4 DEF IInv
<1>3. ASSUME NEW c \in Clients, ReadDone(c) PROVE IInv'
  <2>1. CASE tok[c] > 0
    <3>1. AfterReply(c) \in {"read", "hangup"} /\ (AfterReply(c) = "hangup" => Gone(c))
      BY DEF AfterReply
    <3>2. /\ SlotInv' /\ serve' \in [Clients -> ServeStates] /\ tok' \in [Clients -> Nat]
          /\ serve'[c] = AfterReply(c)
          /\ \A d \in Clients \ {c} :
               serve'[d] = serve[d] \/ (serve[d] = "queued" /\ serve'[d] = "granted")
      BY <1>3, <2>1, <3>1, ReleaseInv DEF ReadDone
    <3>3. TypeOK'
      BY <1>0, <1>3, <3>2 DEF TypeOK, ReadDone, Leaves, SlotInv, Requests, ClientStates
    <3>4. Conn'
      <4> SUFFICES ASSUME NEW d \in Clients PROVE ConnOf(d)'
        BY DEF Conn
      <4>1. ConnOf(d) /\ ConnOf(c)
        BY <1>0 DEF Conn
      <4>2. CASE d = c
        <5>1. /\ serve'[c] = AfterReply(c) /\ line'[c] = "" /\ client'[c] = "off"
          BY <1>0, <1>3, <3>2 DEF TypeOK, ReadDone, Leaves
        <5> QED BY <3>1, <4>2, <5>1 DEF ConnOf
      <4>3. CASE d # c
        <5>1. /\ tok'[d] = tok[d] /\ line'[d] = line[d] /\ client'[d] = client[d]
          BY <1>0, <1>3, <2>1, <4>3 DEF TypeOK, ReadDone, Leaves
        <5>2. serve'[d] = serve[d] \/ (serve[d] = "queued" /\ serve'[d] = "granted")
          BY <3>2, <4>3
        <5> QED BY <4>1, <5>1, <5>2 DEF ConnOf
      <4> QED BY <4>2, <4>3
    <3> QED BY <3>2, <3>3, <3>4 DEF IInv
  <2>2. CASE ~(tok[c] > 0)
    <3>1. Owned' = Owned
      BY <1>0, <1>3, <2>2 DEF ReadDone, Owned, TypeOK, AfterReply
    <3>2. \A d \in Clients : serve'[d] = "queued" <=> serve[d] = "queued"
      BY <1>0, <1>3, <2>2 DEF ReadDone, TypeOK, AfterReply
    <3>3. SlotInv'
      BY <1>0, <1>3, <2>2, <3>1, <3>2, SlotSame DEF ReadDone
    <3>4. TypeOK'
      BY <1>0, <1>3, <2>2
         DEF TypeOK, ReadDone, Leaves, AfterReply, ServeStates, Requests, ClientStates
    <3>5. Conn'
      <4> SUFFICES ASSUME NEW d \in Clients PROVE ConnOf(d)'
        BY DEF Conn
      <4>1. ConnOf(d) /\ ConnOf(c)
        BY <1>0 DEF Conn
      <4>2. CASE d = c
        <5>1. /\ serve'[c] = AfterReply(c) /\ line'[c] = "" /\ client'[c] = "off"
          BY <1>0, <1>3, <2>2 DEF TypeOK, ReadDone, Leaves
        <5> QED BY <4>2, <5>1 DEF ConnOf, AfterReply
      <4>3. CASE d # c
        <5>1. /\ tok'[d] = tok[d] /\ line'[d] = line[d] /\ client'[d] = client[d]
              /\ serve'[d] = serve[d]
          BY <1>0, <1>3, <2>2, <4>3 DEF TypeOK, ReadDone, Leaves
        <5> QED BY <4>1, <5>1 DEF ConnOf
      <4> QED BY <4>2, <4>3
    <3> QED BY <3>3, <3>4, <3>5 DEF IInv
  <2> QED BY <2>1, <2>2
<1>4. ASSUME NEW c \in Clients, ReadEof(c) PROVE IInv'
  <2>1. Owned' = Owned /\ \A d \in Clients : serve'[d] = "queued" <=> serve[d] = "queued"
    BY <1>0, <1>4 DEF ReadEof, Owned, TypeOK
  <2>2. SlotInv'
    BY <1>0, <1>4, <2>1, SlotSame DEF ReadEof
  <2>3. TypeOK' /\ Conn'
    BY <1>0, <1>4 DEF TypeOK, Conn, ConnOf, ReadEof, Gone, ServeStates
  <2> QED BY <2>2, <2>3 DEF IInv
<1>5. ASSUME NEW c \in Clients, HangUp(c) PROVE IInv'
  <2>1. CASE tok[c] > 0
    <3>1. /\ SlotInv' /\ serve' \in [Clients -> ServeStates] /\ tok' \in [Clients -> Nat]
          /\ serve'[c] = "hangup"
          /\ \A d \in Clients \ {c} :
               serve'[d] = serve[d] \/ (serve[d] = "queued" /\ serve'[d] = "granted")
      BY <1>5, <2>1, ReleaseInv DEF HangUp
    <3>2. TypeOK'
      BY <1>0, <1>5, <2>1, <3>1 DEF TypeOK, HangUp, SlotInv
    <3>3. Conn'
      <4> SUFFICES ASSUME NEW d \in Clients PROVE ConnOf(d)'
        BY DEF Conn
      <4>1. ConnOf(d) /\ ConnOf(c)
        BY <1>0 DEF Conn
      <4>2. CASE d = c
        <5>1. serve[c] = "hangup" /\ line'[c] = line[c] /\ client'[c] = client[c]
          BY <1>5, <2>1 DEF HangUp
        <5> QED BY <3>1, <4>1, <4>2, <5>1 DEF ConnOf
      <4>3. CASE d # c
        <5>1. /\ tok'[d] = tok[d] /\ line'[d] = line[d] /\ client'[d] = client[d]
          BY <1>0, <1>5, <2>1, <4>3 DEF TypeOK, HangUp
        <5>2. serve'[d] = serve[d] \/ (serve[d] = "queued" /\ serve'[d] = "granted")
          BY <3>1, <4>3
        <5> QED BY <4>1, <5>1, <5>2 DEF ConnOf
      <4> QED BY <4>2, <4>3
    <3> QED BY <3>1, <3>2, <3>3 DEF IInv
  <2>2. CASE ~(tok[c] > 0)
    <3>1. Owned' = Owned /\ \A d \in Clients : serve'[d] = "queued" <=> serve[d] = "queued"
      BY <1>0, <1>5, <2>2 DEF HangUp, Owned, TypeOK
    <3>2. SlotInv'
      BY <1>0, <1>5, <2>2, <3>1, SlotSame DEF HangUp
    <3>3. TypeOK'
      BY <1>0, <1>5, <2>2 DEF TypeOK, HangUp, ServeStates, Requests
    <3>4. Conn'
      <4> SUFFICES ASSUME NEW d \in Clients PROVE ConnOf(d)'
        BY DEF Conn
      <4>1. ConnOf(d) /\ ConnOf(c)
        BY <1>0 DEF Conn
      <4>2. CASE d = c
        <5>1. /\ serve[c] = "hangup" /\ serve'[c] = "none" /\ tok'[c] = 0
              /\ line'[c] = "" /\ client'[c] = client[c]
          <6>1. tok[c] = 0
            <7>1. tok[c] \in Nat
              BY <1>0 DEF TypeOK
            <7> QED BY <2>2, <7>1
          <6> QED BY <1>0, <1>5, <2>2, <6>1 DEF TypeOK, HangUp
        <5> QED BY <4>1, <4>2, <5>1 DEF ConnOf
      <4>3. CASE d # c
        <5>1. /\ tok'[d] = tok[d] /\ line'[d] = line[d] /\ client'[d] = client[d]
              /\ serve'[d] = serve[d]
          BY <1>0, <1>5, <2>2, <4>3 DEF TypeOK, HangUp
        <5> QED BY <4>1, <5>1 DEF ConnOf
      <4> QED BY <4>2, <4>3
    <3> QED BY <3>2, <3>3, <3>4 DEF IInv
  <2> QED BY <2>1, <2>2
<1>6. ASSUME NEW c \in Clients, NEW connects \in BOOLEAN, NEW p \in Clients \cup {NoParent},
             Start(c, connects, p)
      PROVE  IInv'
  <2>1. ConnOf(c) /\ tok[c] = 0 /\ line[c] = "" /\ serve[c] = "none"
    BY <1>0, <1>6 DEF Conn, ConnOf, Start
  <2>2. serve' \in [Clients -> ServeStates] /\ serve'[c] \in {"none", "read"}
    BY <1>0, <1>6 DEF TypeOK, Start, ServeStates
  <2>3. \A d \in Clients : d # c => serve'[d] = serve[d] /\ client'[d] = client[d]
    BY <1>0, <1>6 DEF TypeOK, Start
  <2>4. Owned' = Owned /\ \A d \in Clients : serve'[d] = "queued" <=> serve[d] = "queued"
    <3>1. \A d \in Clients : serve'[d] = "queued" <=> serve[d] = "queued"
      BY <2>1, <2>2, <2>3
    <3>2. \A d \in Clients : serve'[d] = "granted" <=> serve[d] = "granted"
      BY <2>1, <2>2, <2>3
    <3> QED BY <1>6, <3>1, <3>2 DEF Owned, Start
  <2>5. SlotInv'
    BY <1>0, <1>6, <2>4, SlotSame DEF Start
  <2>6. env' \in [Clients -> {"", "1"}]
    BY <1>0, <1>6 DEF TypeOK, Start
  <2>7. parent' \in [Clients -> Clients \cup {NoParent}] /\ client' \in [Clients -> ClientStates]
    BY <1>0, <1>6 DEF TypeOK, Start, ClientStates
  <2>8. TypeOK'
    BY <1>0, <1>6, <2>2, <2>6, <2>7 DEF TypeOK, Start
  <2>9. Conn'
    <3> SUFFICES ASSUME NEW d \in Clients PROVE ConnOf(d)'
      BY DEF Conn
    <3>1. ConnOf(d) /\ tok' = tok /\ line' = line
      BY <1>0, <1>6 DEF Conn, Start
    <3>2. CASE d = c
      <4>1. client'[c] = "idle"
        BY <1>0, <1>6 DEF TypeOK, Start
      <4> QED BY <2>1, <2>2, <3>1, <3>2, <4>1 DEF ConnOf
    <3>3. CASE d # c
      BY <2>3, <3>1, <3>3 DEF ConnOf
    <3> QED BY <3>2, <3>3
  <2> QED BY <2>5, <2>8, <2>9 DEF IInv
<1>7. ASSUME NEW c \in Clients, EnterSlot(c) PROVE IInv'
  <2>1. Owned' = Owned /\ \A d \in Clients : serve'[d] = "queued" <=> serve[d] = "queued"
    BY <1>7 DEF EnterSlot, Owned
  <2>2. SlotInv'
    BY <1>0, <1>7, <2>1, SlotSame DEF EnterSlot
  <2>3. TypeOK'
    BY <1>0, <1>7 DEF TypeOK, EnterSlot, ClientStates, Requests
  <2>4. Conn'
    <3> SUFFICES ASSUME NEW d \in Clients PROVE ConnOf(d)'
      BY DEF Conn
    <3>1. ConnOf(d) /\ ConnOf(c) /\ tok' = tok /\ serve' = serve
      BY <1>0, <1>7 DEF Conn, EnterSlot
    <3>2. CASE d = c
      <4>1. /\ client[c] = "idle"
            /\ \/ client'[c] = "asked" /\ line'[c] = "SLOT" /\ serve[c] # "none"
               \/ client'[c] \in {"covered", "free"} /\ line'[c] = ""
        BY <1>0, <1>7 DEF TypeOK, EnterSlot
      <4> QED BY <3>1, <3>2, <4>1 DEF ConnOf
    <3>3. CASE d # c
      <4>1. client'[d] = client[d] /\ line'[d] = line[d]
        BY <1>0, <1>7, <3>3 DEF TypeOK, EnterSlot
      <4> QED BY <3>1, <4>1 DEF ConnOf
    <3> QED BY <3>2, <3>3
  <2> QED BY <2>2, <2>3, <2>4 DEF IInv
<1>8. ASSUME NEW c \in Clients, LeaveSlot(c) PROVE IInv'
  <2>1. Owned' = Owned /\ \A d \in Clients : serve'[d] = "queued" <=> serve[d] = "queued"
    BY <1>8 DEF LeaveSlot, Owned
  <2>2. SlotInv'
    BY <1>0, <1>8, <2>1, SlotSame DEF LeaveSlot
  <2>3. TypeOK'
    BY <1>0, <1>8 DEF TypeOK, LeaveSlot, Leaves, ClientStates, Requests
  <2>4. Conn'
    <3> SUFFICES ASSUME NEW d \in Clients PROVE ConnOf(d)'
      BY DEF Conn
    <3>1. ConnOf(d) /\ ConnOf(c) /\ tok' = tok /\ serve' = serve
      BY <1>0, <1>8 DEF Conn, LeaveSlot
    <3>2. CASE d = c
      <4>1. \/ /\ client[c] = "running" /\ serve[c] # "none"
               /\ client'[c] = "ending" /\ line'[c] = "DONE"
            \/ client'[c] = "off" /\ line'[c] = line[c]
        BY <1>0, <1>8 DEF TypeOK, LeaveSlot, Leaves
      <4> QED BY <3>1, <3>2, <4>1 DEF ConnOf
    <3>3. CASE d # c
      <4>1. client'[d] = client[d] /\ line'[d] = line[d]
        BY <1>0, <1>8, <3>3 DEF TypeOK, LeaveSlot, Leaves
      <4> QED BY <3>1, <4>1 DEF ConnOf
    <3> QED BY <3>2, <3>3
  <2> QED BY <2>2, <2>3, <2>4 DEF IInv
<1>9. ASSUME NEW c \in Clients, Kill(c) PROVE IInv'
  <2>1. Owned' = Owned /\ \A d \in Clients : serve'[d] = "queued" <=> serve[d] = "queued"
    BY <1>9 DEF Kill, Owned
  <2>2. SlotInv'
    BY <1>0, <1>9, <2>1, SlotSame DEF Kill
  <2>3. TypeOK'
    BY <1>0, <1>9 DEF TypeOK, Kill, Leaves, ClientStates
  <2>4. Conn'
    <3> SUFFICES ASSUME NEW d \in Clients PROVE ConnOf(d)'
      BY DEF Conn
    <3>1. ConnOf(d) /\ tok' = tok /\ serve' = serve /\ line' = line
      BY <1>0, <1>9 DEF Conn, Kill
    <3>2. client'[d] = IF d = c THEN "off" ELSE client[d]
      BY <1>0, <1>9 DEF TypeOK, Kill, Leaves
    <3> QED BY <3>1, <3>2 DEF ConnOf
  <2> QED BY <2>2, <2>3, <2>4 DEF IInv
<1>10. CASE Restart
  <2>1. TypeOK'
    <3>1. /\ serve' \in [Clients -> ServeStates] /\ tok' \in [Clients -> Nat]
          /\ line' \in [Clients -> Requests] /\ held' \in [Builds -> Nat] /\ out' \in Nat
      BY <1>10 DEF Restart, ServeStates, Requests
    <3>2. client' \in [Clients -> ClientStates]
      BY <1>0, <1>10 DEF Restart, TypeOK, ClientStates
    <3>3. parent' \in [Clients -> Clients \cup {NoParent}]
      BY <1>0, <1>10 DEF Restart, TypeOK
    <3>4. waiting' \in Seq(Clients)
      BY <1>10, NoneIsSeq DEF Restart
    <3> QED BY <1>0, <1>10, <3>1, <3>2, <3>3, <3>4 DEF TypeOK, Restart
  <2>2. \A c \in Clients : tok'[c] = 0 /\ serve'[c] = "none" /\ line'[c] = ""
    BY <1>10 DEF Restart
  <2>3. Counted'
    <3>1. Owned' \in [Clients -> Nat] /\ \A c \in Clients : Owned'[c] = 0
      <4>1. ASSUME NEW c \in Clients
            PROVE  tok'[c] + (IF serve'[c] = "granted" THEN 1 ELSE 0) = 0
        <5>1. tok'[c] = 0 /\ serve'[c] # "granted"
          BY <2>2
        <5> QED BY <5>1
      <4>2. Owned' = [c \in Clients |-> 0]
        BY <4>1 DEF Owned
      <4> QED BY <4>2
    <3>2. out' = 0 /\ \A b \in Builds : held'[b] = 0
      BY <1>10 DEF Restart
    <3> QED BY <3>1, <3>2, SizedNone DEF Counted
  <2>4. QueueExact' /\ NoIdleToken'
    <3>1. waiting' = <<>> /\ DOMAIN waiting' = {}
      BY <1>10, <2>1, NoneWaiting DEF Restart, TypeOK
    <3> QED BY <2>2, <3>1 DEF QueueExact, NoIdleToken
  <2>5. out' <= Limit
    <3>1. out' = 0
      BY <1>10 DEF Restart
    <3> QED BY <3>1, LimitType
  <2>6. Conn'
    <3>1. \A c \in Clients : client'[c] # "running" \/ serve'[c] = "none"
      BY <2>2
    <3> QED BY <2>2, <3>1 DEF Conn, ConnOf
  <2> QED BY <2>1, <2>3, <2>4, <2>5, <2>6 DEF IInv, SlotInv, TypeOK
<1>11. CASE UNCHANGED vars
  <2>1. SlotInv'
    BY <1>0, <1>11, SlotSame DEF vars, Owned
  <2>2. TypeOK'
    BY <1>0, <1>11 DEF vars, TypeOK
  <2>3. Conn'
    BY <1>0, <1>11 DEF vars, Conn, ConnOf
  <2> QED BY <2>1, <2>2, <2>3 DEF IInv
<1> QED
  BY <1>1, <1>2, <1>3, <1>4, <1>5, <1>6, <1>7, <1>8, <1>9, <1>10, <1>11
     DEF Next, Handler, Process

----------------------------------------------------------------------------
(* The theorems *)

LEMMA Inductive == Spec => []IInv
BY InitInv, NextInv, PTL DEF Spec

\* Whatever clients, handlers and the daemon do, every variable keeps its type;
\* out and held in particular never become negative (slots.go Release).
THEOREM TypeCorrect == Spec => []TypeOK
<1>1. IInv => TypeOK
  BY DEF IInv
<1> QED BY <1>1, Inductive, PTL

\* out and held always count exactly the tokens that live handlers own
\* (slots.go out and held, serve's deferred release).
THEOREM TokensConserved == Spec => []Conservation
<1>1. IInv => Conservation
  BY DEF IInv, SlotInv, Counted, Sized, Conservation
<1> QED BY <1>1, Inductive, PTL

\* Nobody waits while a token is free (slots.go grant).
THEOREM NoLostWakeup == Spec => []NoIdleToken
<1>1. IInv => NoIdleToken
  BY DEF IInv, SlotInv
<1> QED BY <1>1, Inductive, PTL

\* The queue holds each blocked handler once and nobody else (slots.go Acquire
\* and grant).
THEOREM QueueIsExact == Spec => []QueueExact
<1>1. IInv => QueueExact
  BY DEF IInv, SlotInv
<1> QED BY <1>1, Inductive, PTL

\* At most Limit tokens are out, and at most Limit clients of this daemon run a
\* compiler on its OK (slots.go Acquire, process.cc Slot).
THEOREM LimitHolds == Spec => []Admission
<1>1. ASSUME IInv PROVE Admission
  <2>1. out \in Nat /\ out <= Limit /\ Sized(Owned, out, held)
    BY <1>1 DEF IInv, SlotInv, Counted
  <2>2. Owned \in [Clients -> Nat]
    BY <1>1, OwnedType DEF IInv, TypeOK
  <2>3. ASSUME NEW c \in Admitted PROVE c \in Clients /\ <<c, 1>> \in Tokens(Owned)
    <3>1. c \in Clients /\ client[c] = "running" /\ serve[c] # "none"
      BY DEF Admitted
    <3>2. tok[c] > 0 /\ serve[c] = "read" /\ tok[c] \in Nat
      BY <1>1, <3>1 DEF IInv, Conn, ConnOf, TypeOK
    <3>3. Owned[c] = tok[c] + 0
      BY <3>1, <3>2 DEF Owned
    <3>4. 1 \in Nat /\ 1 <= 1 /\ 1 <= Owned[c]
      BY <3>2, <3>3, SMTT(30)
    <3> QED BY <2>2, <3>1, <3>4, TokensElt
  <2> DEFINE first == [c \in Admitted |-> <<c, 1>>]
  <2>4. first \in Injection(Admitted, Tokens(Owned))
    <3>1. first \in [Admitted -> Tokens(Owned)]
      BY <2>3
    <3>2. \A c, d \in Admitted : first[c] = first[d] => c = d
      OBVIOUS
    <3> QED BY <3>1, <3>2 DEF Injection, IsInjective
  <2>5. Cardinality(Admitted) <= Cardinality(Tokens(Owned)) /\ IsFiniteSet(Admitted)
    BY <2>1, <2>4, FS_Injection DEF Sized
  <2>6. Cardinality(Admitted) \in Nat /\ Cardinality(Tokens(Owned)) = out
    BY <2>1, <2>5, FS_CardinalityType DEF Sized
  <2>7. Cardinality(Admitted) <= Limit
    BY <2>1, <2>5, <2>6, LimitType
  <2> QED BY <2>1, <2>7 DEF Admission
<1> QED BY <1>1, Inductive, PTL

----------------------------------------------------------------------------
(* Slots implements SlotService and grants to probes first *)

\* A connection carries one request: a handler that counts a token has no other
\* granted, queued or asked for.
SingleOf(c) ==
  /\ tok[c] \in {0, 1}
  /\ tok[c] = 1 => serve[c] \in {"read", "hangup"} /\ line[c] # "SLOT" /\ client[c] # "idle"
Single == \A c \in Clients : SingleOf(c)

RInv == IInv /\ Single

----------------------------------------------------------------------------

\* What Release does to the other handlers: at most one, a queued one, is granted.
LEMMA ReleaseServe ==
  ASSUME IInv, NEW c \in Clients, NEW st \in {"read", "hangup"},
         serve[c] \in {"read", "hangup"}, Release(c, st)
  PROVE  /\ serve'[c] = st
         /\ \/ Want = {} /\ \A d \in Clients \ {c} : serve'[d] = serve[d]
            \/ \E w \in Want : /\ serve'[w] = "granted"
                               /\ \A d \in Clients \ {c, w} : serve'[d] = serve[d]
<1>1. /\ serve \in [Clients -> ServeStates] /\ waiting \in Seq(Clients) /\ out \in Nat /\ out <= Limit
      /\ QueueExact /\ Limit \in Nat
  BY LimitType DEF IInv, TypeOK, SlotInv
<1>2. CASE waiting = <<>>
  <2>1. serve' = [serve EXCEPT ![c] = st]
    BY <1>2 DEF Release
  <2>2. Want = {}
    <3>1. DOMAIN waiting = {}
      BY <1>1, <1>2, NoneWaiting
    <3> QED BY <1>1, <3>1 DEF QueueExact, Want
  <2> QED BY <1>1, <2>1, <2>2
<1>3. CASE waiting # <<>>
  <2>1. out - 1 < Limit
    BY <1>1
  <2>2. PICK i \in DOMAIN waiting : serve' = [serve EXCEPT ![c] = st, ![waiting[i]] = "granted"]
    BY <1>3, <2>1 DEF Release
  <2>3. PICK w \in Clients : w = waiting[i]
    BY <1>1, <2>2
  <2>4. serve[w] = "queued"
    BY <1>1, <2>2, <2>3 DEF QueueExact
  <2>5. w \in Want /\ w # c
    BY <2>4 DEF Want
  <2> QED BY <1>1, <2>2, <2>3, <2>5
<1> QED BY <1>2, <1>3

LEMMA RInitInv == Init => RInv
<1>1. ASSUME Init, NEW c \in Clients PROVE SingleOf(c)
  <2>1. tok[c] = 0
    BY <1>1 DEF Init
  <2> QED BY <2>1 DEF SingleOf
<1> QED BY <1>1, InitInv DEF RInv, Single

LEMMA ReleaseSingle ==
  ASSUME RInv, NEW c \in Clients, NEW st \in {"read", "hangup"}, serve[c] \in {"read", "hangup"},
         tok[c] > 0, Release(c, st), tok' = [tok EXCEPT ![c] = @ - 1]
  PROVE  /\ tok'[c] = 0 /\ serve'[c] = st
         /\ \A d \in Clients \ {c} : tok'[d] = tok[d] /\ (tok[d] = 1 => serve'[d] = serve[d])
<1>1. tok \in [Clients -> Nat] /\ Single /\ IInv
  BY DEF RInv, IInv, TypeOK
<1>2. tok'[c] = 0 /\ \A d \in Clients \ {c} : tok'[d] = tok[d]
  BY <1>1 DEF Single, SingleOf
<1>3. \A w \in Want : tok[w] = 0
  BY <1>1 DEF Single, SingleOf, Want
<1>4. serve'[c] = st /\ \A d \in Clients \ {c} : tok[d] = 1 => serve'[d] = serve[d]
  BY <1>1, <1>3, ReleaseServe
<1> QED BY <1>2, <1>4

\* A step after which c counts no token, and others that count one are as before.
LEMMA OneSingle ==
  ASSUME Single, NEW c \in Clients, tok'[c] = 0,
         \A d \in Clients \ {c} : /\ tok'[d] = tok[d]
                                  /\ tok[d] = 1 => serve'[d] = serve[d] /\ line'[d] = line[d] /\ client'[d] = client[d]
  PROVE  Single'
<1> SUFFICES ASSUME NEW d \in Clients PROVE SingleOf(d)'
  BY DEF Single
<1>1. CASE d = c
  BY <1>1 DEF SingleOf
<1>2. CASE d # c
  BY <1>2 DEF Single, SingleOf
<1> QED BY <1>1, <1>2

LEMMA RNextInv == RInv /\ [Next]_vars => RInv'
<1> SUFFICES ASSUME RInv, [Next]_vars PROVE Single'
  BY NextInv DEF RInv
<1>0. TypeOK /\ Conn /\ Single /\ IInv
  BY DEF RInv, IInv
<1>1. ASSUME NEW c \in Clients, ReadSlot(c) PROVE Single'
  <2>1. /\ \A d \in Clients \ {c} : serve'[d] = serve[d] /\ line'[d] = line[d]
        /\ UNCHANGED <<tok, client>> /\ tok[c] = 0
    <3>1. line[c] = "SLOT" /\ \A d \in Clients \ {c} : line'[d] = line[d]
      BY <1>0, <1>1 DEF ReadSlot, TypeOK
    <3>2. \A d \in Clients \ {c} : serve'[d] = serve[d]
      BY <1>0, <1>1 DEF ReadSlot, Acquire, TypeOK
    <3> QED BY <1>0, <1>1, <3>1, <3>2 DEF ReadSlot, Single, SingleOf
  <2> QED BY <1>0, <2>1 DEF Single, SingleOf
<1>2. ASSUME NEW c \in Clients, Granted(c) PROVE Single'
  <2>1. line[c] = "" /\ client[c] \in {"asked", "off"} /\ tok[c] = 0
    BY <1>0, <1>2 DEF Granted, Conn, ConnOf, Single, SingleOf
  <2>2. tok'[c] = 1 /\ serve'[c] \in {"read", "hangup"} /\ line'[c] = "" /\ client'[c] # "idle"
    <3>1. tok'[c] = tok[c] + 1 /\ line'[c] = line[c]
      BY <1>0, <1>2 DEF Granted, TypeOK
    <3>2. serve'[c] = AfterReply(c) /\ client'[c] = IF Gone(c) THEN client[c] ELSE "running"
      BY <1>0, <1>2 DEF Granted, TypeOK
    <3>3. AfterReply(c) \in {"read", "hangup"}
      BY DEF AfterReply
    <3>4. client'[c] # "idle"
      BY <2>1, <3>2
    <3>5. tok'[c] = 1
      <4>1. tok'[c] = tok[c] + 1 /\ tok[c] = 0
        BY <2>1, <3>1
      <4>2. tok'[c] = 0 + 1
        BY <4>1
      <4> QED BY <4>2
    <3> QED BY <2>1, <3>1, <3>2, <3>3, <3>4, <3>5
  <2>3. \A d \in Clients \ {c} : tok'[d] = tok[d] /\ serve'[d] = serve[d] /\ line'[d] = line[d] /\ client'[d] = client[d]
    BY <1>0, <1>2 DEF Granted, TypeOK
  <2> QED BY <1>0, <2>2, <2>3 DEF Single, SingleOf
<1>3. ASSUME NEW c \in Clients, ReadDone(c) PROVE Single'
  <2>1. \A d \in Clients \ {c} : line'[d] = line[d] /\ client'[d] = client[d]
    BY <1>0, <1>3 DEF ReadDone, Leaves, TypeOK
  <2>2. CASE tok[c] > 0
    <3>1. AfterReply(c) \in {"read", "hangup"}
      BY DEF AfterReply
    <3>2. /\ tok'[c] = 0 /\ serve'[c] = AfterReply(c)
          /\ \A d \in Clients \ {c} : tok'[d] = tok[d] /\ (tok[d] = 1 => serve'[d] = serve[d])
      BY <1>3, <2>2, <3>1, ReleaseSingle DEF ReadDone
    <3> QED BY <1>0, <2>1, <3>2 DEF Single, SingleOf
  <2>3. CASE tok[c] = 0
    <3>1. serve' = [serve EXCEPT ![c] = AfterReply(c)] /\ UNCHANGED tok
      <4>1. ~(tok[c] > 0)
        BY <2>3
      <4> QED BY <1>3, <4>1, Zenon DEF ReadDone
    <3>2. \A d \in Clients \ {c} : serve'[d] = serve[d]
      BY <1>0, <3>1 DEF TypeOK
    <3> QED BY <3>2, <1>0, <2>1, <2>3, <3>1 DEF Single, SingleOf
  <2> QED BY <1>0, <2>2, <2>3 DEF Single, SingleOf
<1>4. ASSUME NEW c \in Clients, ReadEof(c) PROVE Single'
  BY <1>0, <1>4 DEF ReadEof, TypeOK, Single, SingleOf
<1>5. ASSUME NEW c \in Clients, HangUp(c) PROVE Single'
  <2>1. UNCHANGED client
    BY <1>5 DEF HangUp
  <2>2. CASE tok[c] > 0
    <3>1. /\ tok'[c] = 0 /\ UNCHANGED line
          /\ \A d \in Clients \ {c} : tok'[d] = tok[d] /\ (tok[d] = 1 => serve'[d] = serve[d])
      BY <1>5, <2>2, ReleaseSingle DEF HangUp
    <3> QED BY <1>0, <2>1, <3>1, OneSingle
  <2>3. CASE tok[c] = 0
    <3>1. serve' = [serve EXCEPT ![c] = "none"] /\ line' = [line EXCEPT ![c] = ""] /\ UNCHANGED tok
      <4>1. ~(tok[c] > 0)
        BY <2>3
      <4> QED BY <1>5, <4>1, Zenon DEF HangUp
    <3>2. \A d \in Clients \ {c} : serve'[d] = serve[d] /\ line'[d] = line[d]
      BY <1>0, <3>1 DEF TypeOK
    <3> QED BY <1>0, <2>1, <2>3, <3>1, <3>2, OneSingle
  <2> QED BY <1>0, <2>2, <2>3 DEF Single, SingleOf
<1>6. ASSUME NEW c \in Clients, NEW connects \in BOOLEAN, NEW p \in Clients \cup {NoParent}, Start(c, connects, p)
      PROVE  Single'
  <2>1. tok[c] = 0 /\ UNCHANGED <<tok, line>>
    BY <1>0, <1>6 DEF Start, Conn, ConnOf
  <2>2. \A d \in Clients \ {c} : serve'[d] = serve[d] /\ client'[d] = client[d]
    BY <1>0, <1>6 DEF Start, TypeOK
  <2> QED BY <1>0, <2>1, <2>2 DEF Single, SingleOf
<1>7. ASSUME NEW c \in Clients, EnterSlot(c) PROVE Single'
  <2>1. tok[c] = 0 /\ UNCHANGED <<tok, serve>>
    BY <1>0, <1>7 DEF EnterSlot, Single, SingleOf
  <2>2. \A d \in Clients \ {c} : line'[d] = line[d] /\ client'[d] = client[d]
    BY <1>0, <1>7 DEF EnterSlot, TypeOK
  <2> QED BY <1>0, <2>1, <2>2 DEF Single, SingleOf
<1>8. ASSUME NEW c \in Clients, LeaveSlot(c) PROVE Single'
  <2>1. UNCHANGED <<tok, serve>> /\ client'[c] # "idle" /\ (line'[c] = "SLOT" => line[c] = "SLOT")
    BY <1>0, <1>8 DEF LeaveSlot, Leaves, TypeOK
  <2>2. \A d \in Clients \ {c} : line'[d] = line[d] /\ client'[d] = client[d]
    BY <1>0, <1>8 DEF LeaveSlot, Leaves, TypeOK
  <2> QED BY <1>0, <2>1, <2>2 DEF Single, SingleOf
<1>9. ASSUME NEW c \in Clients, Kill(c) PROVE Single'
  BY <1>0, <1>9 DEF Kill, Leaves, TypeOK, Single, SingleOf
<1>10. CASE Restart
  <2> SUFFICES ASSUME NEW c \in Clients PROVE SingleOf(c)'
    BY DEF Single
  <2>1. tok'[c] = 0
    BY <1>10 DEF Restart
  <2> QED BY <2>1 DEF SingleOf
<1>11. CASE UNCHANGED vars
  BY <1>0, <1>11 DEF vars, Single, SingleOf
<1> QED BY <1>1, <1>2, <1>3, <1>4, <1>5, <1>6, <1>7, <1>8, <1>9, <1>10, <1>11 DEF Next, Handler, Process

LEMMA AlwaysSingle == Spec => []RInv
BY RInitInv, RNextInv, PTL DEF Spec

----------------------------------------------------------------------------

\* out is the number of clients that have a token.
LEMMA HasCount == ASSUME RInv PROVE Cardinality(Has) = out
<1>1. tok \in [Clients -> Nat] /\ Single /\ Sized(Owned, out, held)
  BY DEF RInv, IInv, TypeOK, SlotInv, Counted
<1>2. Owned \in [Clients -> Nat]
  BY <1>1, OwnedType
<1>3. ASSUME NEW c \in Clients PROVE Owned[c] = IF c \in Has THEN 1 ELSE 0
  <2>1. Owned[c] = tok[c] + (IF serve[c] = "granted" THEN 1 ELSE 0)
    BY DEF Owned
  <2>2. CASE tok[c] = 1
    <3>1. c \in Has /\ serve[c] # "granted"
      BY <1>1, <2>2 DEF Single, SingleOf, Has
    <3> QED BY <2>1, <2>2, <3>1
  <2>3. CASE tok[c] = 0
    <3>1. c \in Has <=> serve[c] = "granted"
      BY <2>3 DEF Has
    <3> QED BY <2>1, <2>3, <3>1
  <2> QED BY <1>1, <2>2, <2>3 DEF Single, SingleOf
<1>4. \A c \in Has : c \in Clients
  BY DEF Has
<1> DEFINE first == [c \in Has |-> <<c, 1>>]
<1>5. first \in [Has -> Tokens(Owned)]
  <2>1. ASSUME NEW c \in Has PROVE <<c, 1>> \in Tokens(Owned)
    BY <1>2, <1>3, <1>4, TokensElt
  <2> QED BY <2>1
<1>6. first \in Injection(Has, Tokens(Owned))
  <2>1. \A c, d \in Has : first[c] = first[d] => c = d
    OBVIOUS
  <2> QED BY <1>5, <2>1 DEF Injection, IsInjective
<1>7. first \in Surjection(Has, Tokens(Owned))
  <2>1. ASSUME NEW u \in Tokens(Owned) PROVE \E c \in Has : first[c] = u
    <3>1. PICK c \in Clients, k \in Nat : u = <<c, k>>
      BY <1>2, TokensElt
    <3>2. 1 <= k /\ k <= Owned[c]
      BY <1>2, <3>1, TokensElt
    <3>3. c \in Has /\ k = 1
      BY <1>3, <3>2
    <3> QED BY <3>1, <3>3
  <2> QED BY <1>5, <2>1 DEF Surjection
<1> QED BY <1>1, <1>6, <1>7, FS_Injection DEF Sized

\* Nobody wants a token exactly when the queue is empty.
LEMMA WantEmpty == ASSUME IInv PROVE waiting = <<>> <=> Want = {}
<1>1. waiting \in Seq(Clients) /\ QueueExact
  BY DEF IInv, SlotInv
<1>2. CASE waiting = <<>>
  <2>1. DOMAIN waiting = {}
    BY <1>1, <1>2, NoneWaiting
  <2> QED BY <1>1, <1>2, <2>1 DEF QueueExact, Want
<1>3. CASE waiting # <<>>
  <2>1. 1 \in DOMAIN waiting /\ waiting[1] \in Clients
    BY <1>1, <1>3
  <2>2. serve[waiting[1]] = "queued"
    BY <1>1, <2>1 DEF QueueExact
  <2> QED BY <1>3, <2>1, <2>2 DEF Want
<1> QED BY <1>2, <1>3

\* A step that leaves everybody's place alone is a stutter of the service.
LEMMA Stutters ==
  ASSUME \A d \in Clients : /\ serve'[d] = "queued" <=> serve[d] = "queued"
                            /\ (tok'[d] > 0 \/ serve'[d] = "granted") <=> (tok[d] > 0 \/ serve[d] = "granted")
  PROVE  Want' = Want /\ Has' = Has
BY DEF Want, Has

\* Release is Free of the service.
LEMMA ReleaseFrees ==
  ASSUME RInv, NEW c \in Clients, NEW st \in {"read", "hangup"}, serve[c] \in {"read", "hangup"},
         tok[c] > 0, Release(c, st), tok' = [tok EXCEPT ![c] = @ - 1]
  PROVE  /\ c \in Has
         /\ \/ Want = {} /\ Has' = Has \ {c} /\ Want' = Want
            \/ \E d \in Want : Has' = (Has \ {c}) \cup {d} /\ Want' = Want \ {d}
<1>1. IInv
  BY DEF RInv
<1>2. tok'[c] = 0 /\ serve'[c] = st /\ \A d \in Clients \ {c} : tok'[d] = tok[d]
  BY ReleaseSingle
<1>3. c \in Has /\ c \notin Want /\ c \notin Has' /\ c \notin Want'
  BY <1>2 DEF Has, Want
<1>4. CASE Want = {} /\ \A d \in Clients \ {c} : serve'[d] = serve[d]
  <2>1. \A d \in Clients \ {c} : (d \in Has' <=> d \in Has) /\ (d \in Want' <=> d \in Want)
    BY <1>2, <1>4 DEF Has, Want
  <2>2. Has' \subseteq Clients /\ Has \subseteq Clients /\ Want \subseteq Clients /\ Want' \subseteq Clients
    BY DEF Has, Want
  <2> QED BY <1>3, <1>4, <2>1, <2>2
<1>5. ASSUME NEW w \in Want, serve'[w] = "granted", \A d \in Clients \ {c, w} : serve'[d] = serve[d]
      PROVE  Has' = (Has \ {c}) \cup {w} /\ Want' = Want \ {w}
  <2>1. \A d \in Clients \ {c, w} : (d \in Has' <=> d \in Has) /\ (d \in Want' <=> d \in Want)
    BY <1>2, <1>5 DEF Has, Want
  <2>2. Has' \subseteq Clients /\ Has \subseteq Clients /\ Want \subseteq Clients /\ Want' \subseteq Clients
    BY DEF Has, Want
  <2>3. w \in Has' /\ w \notin Want'
    BY <1>5 DEF Has, Want
  <2> QED BY <1>3, <1>5, <2>1, <2>2, <2>3
<1> QED BY <1>1, <1>3, <1>4, <1>5, ReleaseServe

\* The service counts with its own copy of the operator.
LEMMA SameCardinality == Service!Cardinality(Has) = Cardinality(Has)
BY DEF Service!Cardinality, Cardinality

LEMMA StepRefines == ASSUME RInv, RInv', [Next]_vars PROVE [Service!Next]_<<Want, Has>>
<1> USE DEF Service!Next
<1>0. TypeOK /\ Conn /\ Single /\ IInv
  BY DEF RInv, IInv
<1>1. ASSUME NEW c \in Clients, ReadSlot(c) PROVE Service!Request(c)
  <2>1. serve[c] = "read" /\ line[c] = "SLOT" /\ UNCHANGED tok /\ Acquire(c)
    BY <1>1 DEF ReadSlot
  <2>2. tok[c] = 0
    BY <1>0, <2>1 DEF Single, SingleOf
  <2>3. c \notin Want \cup Has
    BY <2>1, <2>2 DEF Want, Has
  <2>4. (out < Limit /\ waiting = <<>>) <=> (Cardinality(Has) < Limit /\ Want = {})
    BY <1>0, HasCount, WantEmpty
  <2>5. CASE out < Limit /\ waiting = <<>>
    <3>1. serve' = [serve EXCEPT ![c] = "granted"]
      BY <2>1, <2>5 DEF Acquire
    <3>2. Has' = Has \cup {c} /\ Want' = Want
      BY <1>0, <2>1, <3>1 DEF Has, Want, TypeOK
    <3>3. Cardinality(Has) < Limit /\ Want = {}
      BY <2>4, <2>5
    <3> QED BY <2>3, <3>2, <3>3, SameCardinality, Zenon DEF Service!Request
  <2>6. CASE ~(out < Limit /\ waiting = <<>>)
    <3>1. serve' = [serve EXCEPT ![c] = "queued"]
      BY <2>1, <2>6 DEF Acquire
    <3>2. Want' = Want \cup {c} /\ Has' = Has
      BY <1>0, <2>1, <2>2, <3>1 DEF Has, Want, TypeOK
    <3>3. ~(Cardinality(Has) < Limit /\ Want = {})
      BY <2>4, <2>6
    <3> QED BY <2>3, <3>2, <3>3, SameCardinality, Zenon DEF Service!Request
  <2> QED BY <2>5, <2>6
<1>2. ASSUME NEW c \in Clients, Granted(c) PROVE UNCHANGED <<Want, Has>>
  <2>1. serve[c] = "granted" /\ tok'[c] > 0 /\ serve'[c] \in {"read", "hangup"}
    <3>1. tok'[c] = tok[c] + 1 /\ tok[c] \in Nat /\ serve'[c] = AfterReply(c) /\ serve[c] = "granted"
      BY <1>0, <1>2 DEF Granted, TypeOK
    <3>2. tok'[c] > 0
      BY <3>1
    <3> QED BY <3>1, <3>2 DEF AfterReply
  <2>2. \A d \in Clients \ {c} : serve'[d] = serve[d] /\ tok'[d] = tok[d]
    BY <1>0, <1>2 DEF Granted, TypeOK
  <2> QED BY <2>1, <2>2, Stutters
<1>3. ASSUME NEW c \in Clients, NEW st \in {"read", "hangup"}, serve[c] \in {"read", "hangup"},
             tok[c] > 0, Release(c, st), tok' = [tok EXCEPT ![c] = @ - 1]
      PROVE  Service!Free(c)
  <2>1. /\ c \in Has
        /\ \/ Want = {} /\ Has' = Has \ {c} /\ Want' = Want
           \/ \E d \in Want : Has' = (Has \ {c}) \cup {d} /\ Want' = Want \ {d}
    BY <1>3, ReleaseFrees
  <2> QED BY <2>1 DEF Service!Free
<1>4. ASSUME NEW c \in Clients, serve[c] \in {"read", "hangup"}, NEW st \in {"none", "read", "hangup"},
             serve' = [serve EXCEPT ![c] = st], UNCHANGED tok
      PROVE  UNCHANGED <<Want, Has>>
  <2>1. \A d \in Clients : serve'[d] = serve[d] \/ (d = c /\ serve'[d] = st)
    BY <1>0, <1>4 DEF TypeOK
  <2> QED BY <1>4, <2>1, Stutters
<1>5. ASSUME NEW c \in Clients, ReadDone(c) PROVE Service!Free(c) \/ UNCHANGED <<Want, Has>>
  <2>1. AfterReply(c) \in {"read", "hangup"} /\ serve[c] = "read"
    BY <1>5 DEF AfterReply, ReadDone
  <2>2. CASE tok[c] > 0
    <3>1. Release(c, AfterReply(c)) /\ tok' = [tok EXCEPT ![c] = @ - 1]
      BY <1>5, <2>2, Zenon DEF ReadDone
    <3> QED BY <1>3, <2>1, <2>2, <3>1
  <2>3. CASE ~(tok[c] > 0)
    <3>1. serve' = [serve EXCEPT ![c] = AfterReply(c)] /\ UNCHANGED tok
      BY <1>5, <2>3, Zenon DEF ReadDone
    <3> QED BY <1>4, <2>1, <3>1
  <2> QED BY <2>2, <2>3
<1>6. ASSUME NEW c \in Clients, ReadEof(c) PROVE UNCHANGED <<Want, Has>>
  BY <1>4, <1>6 DEF ReadEof
<1>7. ASSUME NEW c \in Clients, HangUp(c) PROVE Service!Free(c) \/ UNCHANGED <<Want, Has>>
  <2>1. serve[c] = "hangup"
    BY <1>7 DEF HangUp
  <2>2. CASE tok[c] > 0
    <3>1. Release(c, "hangup") /\ tok' = [tok EXCEPT ![c] = @ - 1]
      BY <1>7, <2>2, Zenon DEF HangUp
    <3> QED BY <1>3, <2>1, <2>2, <3>1
  <2>3. CASE ~(tok[c] > 0)
    <3>1. serve' = [serve EXCEPT ![c] = "none"] /\ UNCHANGED tok
      BY <1>7, <2>3, Zenon DEF HangUp
    <3> QED BY <1>4, <2>1, <3>1
  <2> QED BY <2>2, <2>3
<1>8. ASSUME NEW c \in Clients, NEW connects \in BOOLEAN, NEW p \in Clients \cup {NoParent}, Start(c, connects, p)
      PROVE  UNCHANGED <<Want, Has>>
  <2>1. UNCHANGED tok /\ serve[c] = "none" /\ serve'[c] \in {"none", "read"}
        /\ \A d \in Clients \ {c} : serve'[d] = serve[d]
    BY <1>0, <1>8 DEF Start, TypeOK
  <2> QED BY <2>1, Stutters
<1>9. ASSUME NEW c \in Clients, EnterSlot(c) \/ LeaveSlot(c) \/ Kill(c) PROVE UNCHANGED <<Want, Has>>
  BY <1>9 DEF EnterSlot, LeaveSlot, Kill, Want, Has
<1>10. CASE Restart
  <2>1. \A d \in Clients : serve'[d] = "none" /\ tok'[d] = 0
    BY <1>10 DEF Restart
  <2>2. Want' = {} /\ Has' = {}
    BY <2>1 DEF Want, Has
  <2> QED BY <2>2 DEF Service!Forget
<1>11. CASE UNCHANGED vars
  BY <1>11 DEF vars, Want, Has
<1> QED BY <1>1, <1>2, <1>5, <1>6, <1>7, <1>8, <1>9, <1>10, <1>11 DEF Next, Handler, Process

\* Implements (slots.go as its callers see it), for any clients, builds and limit: the
\* queue, the counters, the handlers and the daemon's restarts together are the plain
\* service, in which a token that is returned goes straight to one who waits.
THEOREM SlotsImplementService == Spec => Implements
<1>1. Init => Service!Init
  <2> SUFFICES ASSUME Init PROVE Service!Init
    OBVIOUS
  <2>1. \A c \in Clients : serve[c] = "none" /\ tok[c] = 0
    BY DEF Init
  <2>2. Want = {} /\ Has = {}
    BY <2>1 DEF Want, Has
  <2> QED BY <2>2 DEF Service!Init
<1>2. RInv /\ RInv' /\ [Next]_vars => [Service!Next]_<<Want, Has>>
  BY StepRefines
<1> QED BY <1>1, <1>2, AlwaysSingle, PTL DEF Spec, Implements, Service!Spec

----------------------------------------------------------------------------
(* The order of grants *)

\* A build whose handler counts a token holds one.
LEMMA HeldLess ==
  ASSUME IInv, NEW c \in Clients, serve[c] # "granted", tok[c] > 0
  PROVE  /\ held \in [Builds -> Nat] /\ BuildOf[c] \in Builds
         /\ [held EXCEPT ![BuildOf[c]] = @ - 1] \in [Builds -> Nat]
<1> DEFINE m == [Owned EXCEPT ![c] = @ - 1]
           h == [held EXCEPT ![BuildOf[c]] = @ - 1]
<1>1. held \in [Builds -> Nat] /\ BuildOf \in [Clients -> Builds] /\ tok \in [Clients -> Nat] /\ Sized(Owned, out, held)
  BY SlotsAssumption DEF IInv, TypeOK, SlotInv, Counted
<1>2. Owned \in [Clients -> Nat] /\ Owned[c] > 0
  <2>1. Owned \in [Clients -> Nat]
    BY <1>1, OwnedType
  <2>2. Owned[c] = tok[c] + 0
    BY DEF Owned
  <2> QED BY <1>1, <2>1, <2>2
<1>3. OneMore(m, Owned, c)
  BY <1>2 DEF OneMore
<1>4. h \in [Builds -> Int] /\ held \in [Builds -> Int]
  BY <1>1
<1> HIDE DEF m
<1>5. Sized(m, out - 1, h)
  BY <1>1, <1>3, <1>4, SizedDec
<1> HIDE DEF h
<1>6. \A b \in Builds : h[b] \in Nat
  BY <1>5, SizedNat
<1>7. h \in [Builds -> Nat]
  BY <1>4, <1>6
<1> QED BY <1>1, <1>7 DEF h

\* Whom a release passes over.
LEMMA ReleaseProbes ==
  ASSUME IInv, NEW c \in Clients, NEW st \in {"read", "hangup"}, serve[c] \in {"read", "hangup"}, tok[c] > 0,
         Release(c, st), NEW p \in Clients, NEW d \in Clients,
         serve[p] = "queued", serve'[p] = "queued", held[BuildOf[p]] = 0,
         serve[d] # "granted", serve'[d] = "granted"
  PROVE  held'[BuildOf[d]] = 1
<1> DEFINE h == [held EXCEPT ![BuildOf[c]] = @ - 1]
<1>1. /\ serve \in [Clients -> ServeStates] /\ waiting \in Seq(Clients) /\ out \in Nat /\ out <= Limit
      /\ QueueExact /\ Limit \in Nat /\ BuildOf \in [Clients -> Builds]
  BY LimitType, SlotsAssumption DEF IInv, TypeOK, SlotInv
<1>2. held \in [Builds -> Nat] /\ h \in [Builds -> Nat]
  BY HeldLess
<1>3. PICK j \in DOMAIN waiting : waiting[j] = p
  BY <1>1 DEF QueueExact
<1>4. waiting # <<>> /\ out - 1 < Limit
  BY <1>1, <1>3, NoneWaiting
<1>5. PICK i \in DOMAIN waiting : /\ IsBest(i, h) /\ held' = [h EXCEPT ![BuildOf[waiting[i]]] = @ + 1]
                                  /\ serve' = [serve EXCEPT ![c] = st, ![waiting[i]] = "granted"]
  BY <1>4 DEF Release
<1>6. waiting[i] \in Clients
  BY <1>1, <1>5
<1>7. d = waiting[i]
  BY <1>1, <1>5, <1>6
<1>8. BuildOf[p] # BuildOf[c]
  <2>1. h[BuildOf[c]] = held[BuildOf[c]] - 1 /\ h[BuildOf[c]] \in Nat /\ held[BuildOf[c]] \in Nat
    BY <1>1, <1>2
  <2>2. held[BuildOf[c]] # 0
    BY <2>1
  <2> QED BY <2>2
<1>9. h[BuildOf[p]] = 0
  BY <1>1, <1>2, <1>8
<1> HIDE DEF h
<1>10. h[BuildOf[d]] <= h[BuildOf[p]] /\ h[BuildOf[d]] \in Nat /\ BuildOf[d] \in Builds
  <2>1. h[BuildOf[d]] \in Nat /\ h[BuildOf[p]] \in Nat
    BY <1>1, <1>2
  <2>2. h[BuildOf[d]] < h[BuildOf[p]] \/ h[BuildOf[d]] = h[BuildOf[p]]
    BY <1>3, <1>5, <1>7 DEF IsBest
  <2> QED BY <1>1, <2>1, <2>2
<1>11. h[BuildOf[d]] = 0
  BY <1>9, <1>10
<1>12. held'[BuildOf[d]] = h[BuildOf[d]] + 1
  BY <1>2, <1>5, <1>7, <1>10
<1> QED BY <1>11, <1>12

\* ProbesFirst (slots.go grant), for any clients, builds and limit: a queued request of
\* a build that holds nothing is passed over only for a build that held nothing.
THEOREM ProbesGoFirst == Spec => ProbesFirst
<1> DEFINE Passed(p, d) ==
      /\ serve[p] = "queued" /\ serve'[p] = "queued" /\ held[BuildOf[p]] = 0
      /\ serve[d] # "granted" /\ serve'[d] = "granted"
<1>1. ASSUME IInv, [Next]_vars, NEW p \in Clients, NEW d \in Clients, Passed(p, d) PROVE held'[BuildOf[d]] = 1
  <2>0. TypeOK /\ QueueExact /\ waiting \in Seq(Clients)
    BY <1>1 DEF IInv, SlotInv
  <2>1. ASSUME NEW c \in Clients, ReadSlot(c) PROVE FALSE
    <3>1. CASE waiting = <<>>
      <4>1. DOMAIN waiting = {}
        BY <2>0, <3>1, NoneWaiting
      <4> QED BY <1>1, <2>0, <4>1 DEF QueueExact
    <3>2. CASE waiting # <<>>
      <4>1. serve' = [serve EXCEPT ![c] = "queued"]
        BY <2>1, <3>2 DEF ReadSlot, Acquire
      <4> QED BY <1>1, <2>0, <4>1 DEF TypeOK
    <3> QED BY <3>1, <3>2
  <2>2. ASSUME NEW c \in Clients, NEW st \in {"none", "read", "hangup"}, serve' = [serve EXCEPT ![c] = st] PROVE FALSE
    BY <1>1, <2>0, <2>2 DEF TypeOK
  <2>3. ASSUME NEW c \in Clients, Granted(c) PROVE FALSE
    <3>1. AfterReply(c) \in {"none", "read", "hangup"}
      BY DEF AfterReply
    <3> QED BY <2>2, <2>3, <3>1 DEF Granted
  <2>4. ASSUME NEW c \in Clients, ReadDone(c) PROVE held'[BuildOf[d]] = 1
    <3>1. AfterReply(c) \in {"read", "hangup"} /\ serve[c] = "read"
      BY <2>4 DEF AfterReply, ReadDone
    <3>2. CASE tok[c] > 0
      <4>1. Release(c, AfterReply(c))
        BY <2>4, <3>2, Zenon DEF ReadDone
      <4> QED BY <1>1, <3>1, <3>2, <4>1, ReleaseProbes
    <3>3. CASE ~(tok[c] > 0)
      <4>1. serve' = [serve EXCEPT ![c] = AfterReply(c)]
        BY <2>4, <3>3, Zenon DEF ReadDone
      <4> QED BY <2>2, <3>1, <4>1
    <3> QED BY <3>2, <3>3
  <2>5. ASSUME NEW c \in Clients, HangUp(c) PROVE held'[BuildOf[d]] = 1
    <3>1. serve[c] = "hangup"
      BY <2>5 DEF HangUp
    <3>2. CASE tok[c] > 0
      <4>1. Release(c, "hangup")
        BY <2>5, <3>2, Zenon DEF HangUp
      <4> QED BY <1>1, <3>1, <3>2, <4>1, ReleaseProbes
    <3>3. CASE ~(tok[c] > 0)
      <4>1. serve' = [serve EXCEPT ![c] = "none"]
        BY <2>5, <3>3, Zenon DEF HangUp
      <4> QED BY <2>2, <4>1
    <3> QED BY <3>2, <3>3
  <2>6. ASSUME NEW c \in Clients, ReadEof(c) PROVE FALSE
    BY <2>2, <2>6 DEF ReadEof
  <2>7. ASSUME NEW c \in Clients, Process(c) PROVE FALSE
    <3>1. ASSUME NEW connects \in BOOLEAN, NEW q \in Clients \cup {NoParent}, Start(c, connects, q) PROVE FALSE
      BY <2>2, <3>1 DEF Start
    <3>2. ASSUME EnterSlot(c) \/ LeaveSlot(c) \/ Kill(c) PROVE FALSE
      BY <1>1, <3>2 DEF EnterSlot, LeaveSlot, Kill
    <3> QED BY <2>7, <3>1, <3>2 DEF Process
  <2>8. CASE Restart \/ UNCHANGED vars
    BY <1>1, <2>8 DEF Restart, vars
  <2> QED BY <1>1, <2>1, <2>3, <2>4, <2>5, <2>6, <2>7, <2>8 DEF Next, Handler
<1>2. IInv /\ [Next]_vars =>
        [\A c, d \in Clients :
           /\ serve[c] = "queued" /\ serve'[c] = "queued" /\ held[BuildOf[c]] = 0
           /\ serve[d] # "granted" /\ serve'[d] = "granted"
           => held'[BuildOf[d]] = 1]_vars
  BY <1>1
<1> QED BY <1>2, Inductive, PTL DEF Spec, ProbesFirst
============================================================================
