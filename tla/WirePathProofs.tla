----------------------------- MODULE WirePathProofs -----------------------------
(***************************************************************************)
(* The connection of a jig process to jigd, for any operations, batches    *)
(* and room in the buffers; and the relative references of reloc-fixup,    *)
(* for paths of any depth.                                                 *)
(***************************************************************************)
EXTENDS CacheClient, Paths, SequenceTheorems, WellFoundedInduction, TLAPS

------------------------------------------------------------------------------
(* The wire: any operations, batches and room in the buffers *)

\* The units on their way back; a value goes before the body that completes it.
Unit == [ans : {"value", "body", "MISS", "1", "0", "OK", "id"}, key : Keys \cup Nat]
Asks == [verb : {"GET", "HAS", "PUT", "body", "IDS", "path"}, key : Keys \cup Nat]
Piped == down \o (server.todo \o server.out)

\* p carries the answers r in order: f[j] is where the j-th is, and between them
\* there are values only, each with its body behind it.
Positions(p, r, f) ==
  /\ f \in [1..Len(r) -> 1..Len(p)]
  /\ \A j \in 1..Len(r) : p[f[j]] = r[j] /\ r[j].ans # "value"
  /\ \A i, j \in 1..Len(r) : i < j => f[i] < f[j]
  /\ \A m \in 1..Len(p) : p[m].ans # "value" => \E j \in 1..Len(r) : f[j] = m
  /\ \A m \in 1..Len(p) : p[m].ans = "value" => m + 1 \in 1..Len(p) /\ p[m + 1].ans # "value"
Carries(p, r) == \E f : Positions(p, r, f)

\* What is got and what p carries is together what was served.
Owed(g, s, p) == \E r \in Seq(Unit) : s = g \o r /\ Carries(p, r)

\* The answers to the first h units of a request.
Answers(o, h) == CASE o.verb = "PUT" -> h \div 2
                   [] o.verb = "IDS" -> IF h = 0 THEN 0 ELSE h - 1
                   [] OTHER -> h
Width(o) == IF o.verb = "GET" THEN 2 ELSE 1

TypeC ==
  /\ script \in Seq(Operation) /\ sent \in Nat /\ got \in Seq(Unit) /\ served \in Seq(Unit) /\ down \in Seq(Unit)
  /\ up \in Seq(Asks)
  /\ server.todo \in Seq(Unit) /\ server.out \in Seq(Unit)
  /\ server = [todo |-> server.todo, out |-> server.out, ids |-> server.ids, put |-> server.put]

\* Between two operations nothing is under way in either direction.
Clear == up = <<>> /\ Piped = <<>>

\* Operation o is under way: of the n units sent of its request, u are not read yet.
Under(o, n, u, g, s, p) ==
  /\ n <= Len(Request(o)) /\ Len(u) <= n
  /\ \A j \in 1..Len(u) : u[j] = Request(o)[(n - Len(u)) + j]
  /\ Len(s) = Answers(o, n - Len(u))
  /\ Owed(g, s, p)
  /\ Len(p) <= Width(o) * Len(s)

\* The daemon has hung up: what is left to read, d, is the front of what it owed, or
\* belongs to an earlier operation and is not read any more.
Cut(n, g, s, d) ==
  \/ n = 0 /\ g = <<>>
  \/ \E q \in Seq(Unit) : Owed(g, s, d \o q)

WireInv ==
  /\ TypeC
  /\ broken => hung /\ script # <<>> /\ script[1].verb = "PUT"
  /\ hung => up = <<>>
  /\ ~hung /\ script = <<>> => Clear
  /\ ~hung /\ script # <<>> => Under(script[1], sent, up, got, served, Piped)
  /\ hung /\ script # <<>> => Cut(sent, got, served, down)

\* The same of any functions p and r on 1..l and 1..n.
Lies(p, l, r, n, f) ==
  /\ \A j \in 1..n : f[j] \in 1..l /\ p[f[j]] = r[j] /\ r[j].ans # "value"
  /\ \A i, j \in 1..n : i < j => f[i] < f[j]
  /\ \A m \in 1..l : p[m].ans # "value" => \E j \in 1..n : f[j] = m
  /\ \A m \in 1..l : p[m].ans = "value" => m + 1 \in 1..l /\ p[m + 1].ans # "value"

LEMMA PositionsAt == ASSUME NEW p, NEW r, NEW f PROVE Positions(p, r, f) <=> f \in [1..Len(r) -> 1..Len(p)] /\ Lies(p, Len(p), r, Len(r), f)
BY Zenon DEF Positions, Lies

Longer(p, l, q, d, x) == (\A m \in 1..l : q[m] = p[m]) /\ q[l + d] = x /\ (d = 2 => q[l + 1].ans = "value")
Shifted(p, l, q, d) == \A m \in 1..l : q[m] = p[m + d]
Lowered(f, n, g, d) == \A j \in 1..n : g[j] = f[j + d] - 1

\* An answer comes in behind, on its own or behind its value.
LEMMA LiesMore ==
  ASSUME NEW p, NEW l \in Nat, NEW r, NEW n \in Nat, NEW f, Lies(p, l, r, n, f), NEW x, x.ans # "value", NEW d \in {1, 2},
         NEW q, Longer(p, l, q, d, x), NEW s, Longer(r, n, s, 1, x), NEW g, Longer(f, n, g, 1, l + d)
  PROVE  Lies(q, l + d, s, n + 1, g)
<1> USE DEF Longer
<1>1. \A j \in 1..n : f[j] \in 1..l /\ p[f[j]] = r[j] /\ r[j].ans # "value"
  BY Zenon DEF Lies
<1>2. ASSUME NEW j \in 1..(n + 1) PROVE g[j] \in 1..(l + d) /\ q[g[j]] = s[j] /\ s[j].ans # "value"
  <2>1. CASE j = n + 1
    BY <2>1
  <2>2. CASE j # n + 1
    <3>1. j \in 1..n
      BY <2>2
    <3>2. g[j] \in 1..l /\ q[g[j]] = s[j] /\ s[j].ans # "value"
      BY <1>1, <3>1, Zenon
    <3> QED BY <3>2
  <2> QED BY <2>1, <2>2
<1>3. ASSUME NEW i \in 1..(n + 1), NEW j \in 1..(n + 1), i < j PROVE g[i] < g[j]
  <2>1. i \in 1..n /\ g[i] = f[i] /\ f[i] \in 1..l
    BY <1>1, <1>3
  <2>2. CASE j = n + 1
    BY <2>1, <2>2
  <2>3. CASE j # n + 1
    <3>1. j \in 1..n
      BY <2>3
    <3>2. f[i] < f[j]
      BY <1>3, <2>1, <3>1, Zenon DEF Lies
    <3> QED BY <2>1, <3>1, <3>2, Zenon
  <2> QED BY <2>2, <2>3
<1>4. ASSUME NEW m \in 1..(l + d), q[m].ans # "value" PROVE \E j \in 1..(n + 1) : g[j] = m
  <2>1. CASE m \in 1..l
    <3>1. PICK j \in 1..n : f[j] = m
      BY <1>4, <2>1, Zenon DEF Lies
    <3>2. j \in 1..(n + 1)
      OBVIOUS
    <3> QED BY <3>1, <3>2, Zenon
  <2>2. CASE m = l + d
    <3>1. n + 1 \in 1..(n + 1)
      OBVIOUS
    <3> QED BY <2>2, <3>1, Zenon
  <2>3. m \in 1..l \/ m = l + d \/ (d = 2 /\ m = l + 1)
    OBVIOUS
  <2> QED BY <1>4, <2>1, <2>2, <2>3, Zenon
<1>5. ASSUME NEW m \in 1..(l + d), q[m].ans = "value" PROVE m + 1 \in 1..(l + d) /\ q[m + 1].ans # "value"
  <2>1. CASE m \in 1..l
    <3>1. m + 1 \in 1..l /\ p[m + 1].ans # "value"
      BY <1>5, <2>1, Zenon DEF Lies
    <3>2. q[m + 1] = p[m + 1] /\ m + 1 \in 1..(l + d)
      BY <3>1
    <3> QED BY <3>1, <3>2, Zenon
  <2>2. CASE d = 2 /\ m = l + 1
    <3>1. m + 1 = l + d /\ m + 1 \in 1..(l + d)
      BY <2>2
    <3> QED BY <3>1, Zenon
  <2>3. m \in 1..l \/ m = l + d \/ (d = 2 /\ m = l + 1)
    OBVIOUS
  <2> QED BY <1>5, <2>1, <2>2, <2>3, Zenon
<1> QED BY <1>2, <1>3, <1>4, <1>5, Zenon DEF Lies

LEMMA CarriesMore ==
  ASSUME NEW p \in Seq(Unit), NEW r \in Seq(Unit), Carries(p, r), NEW x \in Unit, x.ans # "value",
         NEW d \in {1, 2}, NEW q, Len(q) = Len(p) + d, Longer(p, Len(p), q, d, x)
  PROVE  Carries(q, Append(r, x))
<1>1. PICK f : f \in [1..Len(r) -> 1..Len(p)] /\ Lies(p, Len(p), r, Len(r), f)
  BY PositionsAt, Zenon DEF Carries
<1>2. PICK s, l, n : s = Append(r, x) /\ l = Len(p) /\ n = Len(r)
  BY Zenon
<1>3. l \in Nat /\ n \in Nat /\ Len(s) = n + 1 /\ Longer(r, n, s, 1, x)
  BY <1>2 DEF Longer
<1>4. PICK g : g = [j \in 1..(n + 1) |-> IF j = n + 1 THEN l + d ELSE f[j]]
  BY Zenon
<1>5. Longer(f, n, g, 1, l + d)
  BY <1>3, <1>4 DEF Longer
<1>6. Lies(q, l + d, s, n + 1, g)
  <2>1. Lies(p, l, r, n, f) /\ Longer(p, l, q, d, x)
    BY <1>1, <1>2, Zenon
  <2> QED BY <1>3, <1>5, <2>1, LiesMore, Zenon
<1>7. g \in [1..(n + 1) -> 1..(l + d)]
  BY <1>4, <1>6, Zenon DEF Lies
<1> QED BY <1>2, <1>3, <1>6, <1>7, PositionsAt, Zenon DEF Carries

\* The first unit is taken: a value, or the first answer.
LEMMA LiesTail ==
  ASSUME NEW p, NEW l \in Nat, NEW r, NEW n \in Nat, NEW f, Lies(p, l + 1, r, n, f),
         NEW q, Shifted(p, l, q, 1), NEW d \in {0, 1}, d = 0 <=> p[1].ans = "value",
         NEW s, Shifted(r, n - d, s, d), NEW g, Lowered(f, n - d, g, d)
  PROVE  /\ d = 1 => n # 0 /\ r[1] = p[1]
         /\ Lies(q, l, s, n - d, g)
<1> USE DEF Shifted, Lowered
<1>1. \A j \in 1..n : f[j] \in 1..(l + 1) /\ p[f[j]] = r[j] /\ r[j].ans # "value"
  BY Zenon DEF Lies
<1>2. ASSUME d = 1 PROVE n # 0 /\ f[1] = 1 /\ 1 \in 1..n
  <2>1. 1 \in 1..(l + 1) /\ p[1].ans # "value"
    BY <1>2
  <2>2. PICK j \in 1..n : f[j] = 1
    BY <2>1, Zenon DEF Lies
  <2>3. 1 \in 1..n /\ n # 0
    BY <2>2
  <2>4. 1 < j => f[1] < f[j]
    BY <2>3, Zenon DEF Lies
  <2>5. f[1] \in 1..(l + 1)
    BY <1>1, <2>3
  <2> QED BY <2>2, <2>3, <2>4, <2>5
<1>3. d = 1 => n # 0 /\ r[1] = p[1]
  BY <1>1, <1>2, Zenon
<1>4. ASSUME NEW j \in 1..(n - d) PROVE j + d \in 1..n /\ f[j + d] \in 2..(l + 1) /\ g[j] = f[j + d] - 1
  <2>1. j + d \in 1..n
    OBVIOUS
  <2>2. f[j + d] \in 1..(l + 1) /\ p[f[j + d]].ans # "value"
    BY <1>1, <2>1, Zenon
  <2>3. f[j + d] # 1
    <3>1. CASE d = 0
      BY <2>2, <3>1
    <3>2. CASE d = 1
      <4>1. 1 < j + d
        BY <3>2
      <4>2. f[1] < f[j + d]
        BY <1>2, <2>1, <3>2, <4>1, Zenon DEF Lies
      <4> QED BY <1>2, <2>2, <3>2, <4>2
    <3> QED BY <3>1, <3>2
  <2> QED BY <2>1, <2>2, <2>3
<1>5. ASSUME NEW j \in 1..(n - d) PROVE g[j] \in 1..l /\ q[g[j]] = s[j] /\ s[j].ans # "value"
  <2>1. g[j] \in 1..l /\ g[j] + 1 = f[j + d]
    BY <1>4
  <2>2. q[g[j]] = p[f[j + d]] /\ s[j] = r[j + d]
    BY <2>1, Zenon
  <2> QED BY <1>1, <1>4, <2>1, <2>2, Zenon
<1>6. ASSUME NEW i \in 1..(n - d), NEW j \in 1..(n - d), i < j PROVE g[i] < g[j]
  <2>1. i + d \in 1..n /\ j + d \in 1..n /\ i + d < j + d
    BY <1>4, <1>6
  <2>2. f[i + d] < f[j + d]
    BY <2>1, Zenon DEF Lies
  <2> QED BY <1>4, <2>2
<1>7. ASSUME NEW m \in 1..l, q[m].ans # "value" PROVE \E j \in 1..(n - d) : g[j] = m
  <2>1. m + 1 \in 1..(l + 1) /\ p[m + 1].ans # "value"
    BY <1>7
  <2>2. PICK j \in 1..n : f[j] = m + 1
    BY <2>1, Zenon DEF Lies
  <2>3. j - d \in 1..(n - d)
    BY <1>2, <2>2
  <2>4. (j - d) + d = j
    BY <2>2
  <2>5. g[j - d] = (m + 1) - 1
    BY <2>2, <2>3, <2>4, Zenon
  <2>6. (m + 1) - 1 = m
    OBVIOUS
  <2> QED BY <2>3, <2>5, <2>6, Zenon
<1>8. ASSUME NEW m \in 1..l, q[m].ans = "value" PROVE m + 1 \in 1..l /\ q[m + 1].ans # "value"
  <2>1. m + 1 \in 1..(l + 1) /\ p[m + 1].ans = "value"
    BY <1>8
  <2>2. (m + 1) + 1 \in 1..(l + 1) /\ p[(m + 1) + 1].ans # "value"
    BY <2>1, Zenon DEF Lies
  <2>3. m + 1 \in 1..l
    BY <2>2
  <2> QED BY <2>2, <2>3, Zenon
<1> QED BY <1>3, <1>5, <1>6, <1>7, <1>8, Zenon DEF Lies

LEMMA CarriesTail ==
  ASSUME NEW p \in Seq(Unit), NEW r \in Seq(Unit), Carries(p, r), p # <<>>
  PROVE  /\ p[1].ans = "value" => Carries(Tail(p), r)
         /\ p[1].ans # "value" => r # <<>> /\ r[1] = p[1] /\ Carries(Tail(p), Tail(r))
<1>1. PICK f : f \in [1..Len(r) -> 1..Len(p)] /\ Lies(p, Len(p), r, Len(r), f)
  BY PositionsAt, Zenon DEF Carries
<1>2. PICK q, l, n : q = Tail(p) /\ l = Len(p) - 1 /\ n = Len(r)
  BY Zenon
<1>3. l \in Nat /\ n \in Nat /\ Len(p) = l + 1 /\ Len(q) = l /\ Shifted(p, l, q, 1)
  BY <1>2 DEF Shifted
<1>4. Lies(p, l + 1, r, n, f)
  BY <1>1, <1>2, <1>3, Zenon
<1>5. CASE p[1].ans = "value"
  <2>1. PICK g : g = [j \in 1..n |-> f[j] - 1]
    BY Zenon
  <2>2. /\ 0 \in {0, 1} /\ (0 = 0 <=> p[1].ans = "value") /\ n - 0 = n
        /\ Shifted(r, n - 0, r, 0) /\ Lowered(f, n - 0, g, 0)
    BY <1>3, <1>5, <2>1 DEF Shifted, Lowered
  <2>3. Lies(q, l, r, n - 0, g)
    BY <1>3, <1>4, <2>2, LiesTail, Zenon
  <2>4. Lies(q, l, r, n, g)
    BY <2>2, <2>3, Zenon
  <2>5. g \in [1..n -> 1..l]
    BY <2>1, <2>4, Zenon DEF Lies
  <2>6. Carries(q, r)
    BY <1>2, <1>3, <2>4, <2>5, PositionsAt, Zenon DEF Carries
  <2> QED BY <1>2, <1>5, <2>6, Zenon
<1>6. CASE p[1].ans # "value"
  <2>1. PICK g : g = [j \in 1..(n - 1) |-> f[j + 1] - 1]
    BY Zenon
  <2>2. /\ 1 \in {0, 1} /\ (1 = 0 <=> p[1].ans = "value") /\ 1 = 1
        /\ Lowered(f, n - 1, g, 1)
    BY <1>3, <1>6, <2>1 DEF Lowered
  <2>3. n # 0 /\ r[1] = p[1]
    <3>1. PICK s : Shifted(r, n - 1, s, 1)
      <4>1. PICK s : s = [j \in 1..(n - 1) |-> r[j + 1]]
        BY Zenon
      <4>2. Shifted(r, n - 1, s, 1)
        BY <4>1 DEF Shifted
      <4> QED BY <4>2, Zenon
    <3> QED BY <1>3, <1>4, <2>2, <3>1, LiesTail, Zenon
  <2>4. PICK s : s = Tail(r)
    BY Zenon
  <2>5. r # <<>> /\ Len(s) = n - 1 /\ Shifted(r, n - 1, s, 1)
    BY <1>2, <1>3, <2>3, <2>4 DEF Shifted
  <2>6. Lies(q, l, s, n - 1, g)
    BY <1>3, <1>4, <2>2, <2>5, LiesTail, Zenon
  <2>7. g \in [1..(n - 1) -> 1..l]
    BY <2>1, <2>6, Zenon DEF Lies
  <2>8. Carries(q, s)
    BY <1>3, <2>5, <2>6, <2>7, PositionsAt, Zenon DEF Carries
  <2> QED BY <1>2, <1>6, <2>3, <2>4, <2>5, <2>8, Zenon
<1> QED BY <1>5, <1>6, Zenon

\* Where no answer is owed nothing is under way.
LEMMA CarriesNone == ASSUME NEW p \in Seq(Unit), Carries(p, <<>>) PROVE p = <<>>
<1> SUFFICES ASSUME p # <<>> PROVE FALSE
  OBVIOUS
<1>1. PICK f : Positions(p, <<>>, f)
  BY DEF Carries
<1>2. Len(p) \in Nat \ {0} /\ Len(p) \in 1..Len(p) /\ Len(p) + 1 \notin 1..Len(p)
  OBVIOUS
<1>3. p[Len(p)].ans # "value"
  BY <1>1, <1>2 DEF Positions
<1> QED BY <1>1, <1>2, <1>3 DEF Positions

Assoc(s, t, u) == (s \o t) \o u = s \o (t \o u)

LEMMA UnitConcat ==
  ASSUME NEW s \in Seq(Unit), NEW t \in Seq(Unit), NEW u \in Seq(Unit) PROVE Assoc(s, t, u)
BY ConcatAssociative, SMT DEF Assoc

LEMMA OwedMore ==
  ASSUME NEW g \in Seq(Unit), NEW s \in Seq(Unit), NEW p \in Seq(Unit), Owed(g, s, p), NEW x \in Unit, x.ans # "value",
         NEW d \in {1, 2}, NEW q, Len(q) = Len(p) + d, Longer(p, Len(p), q, d, x)
  PROVE  Owed(g, Append(s, x), q)
<1>1. PICK r \in Seq(Unit) : s = g \o r /\ Carries(p, r)
  BY Zenon DEF Owed
<1>2. Append(r, x) \in Seq(Unit) /\ Append(s, x) = g \o Append(r, x)
  <2>1. <<x>> \in Seq(Unit)
    OBVIOUS
  <2>2. Append(s, x) = (g \o r) \o <<x>> /\ Append(r, x) = r \o <<x>> /\ Append(r, x) \in Seq(Unit)
    BY <1>1, AppendIsConcat, AppendProperties, Zenon
  <2>3. Assoc(g, r, <<x>>)
    BY <1>1, <2>1, UnitConcat, Zenon
  <2> QED BY <2>2, <2>3, Zenon DEF Assoc
<1>3. Carries(q, Append(r, x))
  BY <1>1, CarriesMore, Zenon
<1> QED BY <1>2, <1>3, Zenon DEF Owed

LEMMA OwedTail ==
  ASSUME NEW g \in Seq(Unit), NEW s \in Seq(Unit), NEW p \in Seq(Unit), Owed(g, s, p), p # <<>>
  PROVE  Owed(IF p[1].ans = "value" THEN g ELSE Append(g, p[1]), s, Tail(p))
<1>1. PICK r \in Seq(Unit) : s = g \o r /\ Carries(p, r)
  BY Zenon DEF Owed
<1>2. CASE p[1].ans = "value"
  <2>1. Carries(Tail(p), r)
    BY <1>1, <1>2, CarriesTail, Zenon
  <2> QED BY <1>1, <1>2, <2>1, Zenon DEF Owed
<1>3. CASE p[1].ans # "value"
  <2>1. r # <<>> /\ r[1] = p[1] /\ Carries(Tail(p), Tail(r))
    BY <1>1, <1>3, CarriesTail, Zenon
  <2>2. Tail(r) \in Seq(Unit) /\ s = Append(g, r[1]) \o Tail(r)
    BY <1>1, <2>1
  <2> QED BY <1>3, <2>1, <2>2, Zenon DEF Owed
<1> QED BY <1>2, <1>3, Zenon

LEMMA OwedLen ==
  ASSUME NEW g \in Seq(Unit), NEW s \in Seq(Unit), NEW p \in Seq(Unit), Owed(g, s, p)
  PROVE  /\ Len(g) <= Len(s) /\ g = SubSeq(s, 1, Len(g))
         /\ Len(s) <= Len(g) => s = g /\ p = <<>>
<1>1. PICK r \in Seq(Unit) : s = g \o r /\ Carries(p, r)
  BY Zenon DEF Owed
<1>2. Len(s) = Len(g) + Len(r) /\ Len(g) \in Nat /\ Len(r) \in Nat
  BY <1>1
<1>3. g = SubSeq(s, 1, Len(g))
  BY <1>1, <1>2
<1>4. ASSUME Len(s) <= Len(g) PROVE s = g /\ p = <<>>
  <2>1. r = <<>>
    BY <1>1, <1>2, <1>4
  <2>2. s = g
    BY <1>1, <2>1
  <2> QED BY <1>1, <2>1, <2>2, CarriesNone, Zenon
<1> QED BY <1>2, <1>3, <1>4

LEMMA LineAsks ==
  ASSUME NEW v \in {"GET", "HAS", "PUT", "body", "IDS", "path"}, NEW k \in Keys \cup Nat
  PROVE  Line(v, k) \in Asks /\ Line(v, k).verb = v
BY DEF Line, Asks

\* What an operation writes, and when each of its answers comes.
LEMMA RequestLen ==
  ASSUME NEW o \in Operation
  PROVE  /\ Len(o.keys) \in Nat \ {0} /\ Request(o) \in Seq(Asks)
         /\ Len(Request(o)) = CASE o.verb = "PUT" -> 2 * Len(o.keys)
                                [] o.verb = "IDS" -> Len(o.keys) + 1
                                [] OTHER -> Len(o.keys)
         /\ o.verb = "PUT" => \A i \in 1..(2 * Len(o.keys)) : Request(o)[i].verb = IF i % 2 = 1 THEN "PUT" ELSE "body"
         /\ o.verb = "IDS" => \A i \in 1..(Len(o.keys) + 1) : Request(o)[i].verb = IF i = 1 THEN "IDS" ELSE "path"
         /\ o.verb \in {"GET", "HAS"} => \A i \in 1..Len(o.keys) : Request(o)[i].verb = o.verb
<1>1. PICK n : n = Len(o.keys)
  BY Zenon
<1>2. o.verb \in {"GET", "HAS", "PUT", "IDS"} /\ o.keys \in Seq(Keys) /\ n \in Nat \ {0} /\ \A i \in 1..n : o.keys[i] \in Keys
  BY <1>1 DEF Operation
<1>3. CASE o.verb = "PUT"
  <2>1. Request(o) = [i \in 1..(2 * n) |-> Line(IF i % 2 = 1 THEN "PUT" ELSE "body", o.keys[(i + 1) \div 2])]
    BY <1>1, <1>3 DEF Request
  <2>2. ASSUME NEW i \in 1..(2 * n) PROVE Line(IF i % 2 = 1 THEN "PUT" ELSE "body", o.keys[(i + 1) \div 2]) \in Asks
    <3>1. (i + 1) \div 2 \in 1..n
      BY <1>2
    <3>2. o.keys[(i + 1) \div 2] \in Keys \cup Nat
      BY <1>2, <3>1, Zenon
    <3> QED BY <3>2, LineAsks
  <2>3. Request(o) \in Seq(Asks) /\ Len(Request(o)) = 2 * n
    BY <1>2, <2>1, <2>2
  <2>4. \A i \in 1..(2 * n) : Request(o)[i].verb = IF i % 2 = 1 THEN "PUT" ELSE "body"
    BY <2>1 DEF Line
  <2> QED BY <1>1, <1>2, <1>3, <2>3, <2>4
<1>4. CASE o.verb = "IDS"
  <2>1. Request(o) = <<Line("IDS", n)>> \o [i \in 1..n |-> Line("path", o.keys[i])]
    BY <1>1, <1>4 DEF Request
  <2>2. PICK l : l = [i \in 1..n |-> Line("path", o.keys[i])]
    BY Zenon
  <2>3. l \in Seq(Asks) /\ Len(l) = n /\ \A i \in 1..n : l[i].verb = "path"
    <3>1. \A i \in 1..n : Line("path", o.keys[i]) \in Asks /\ Line("path", o.keys[i]).verb = "path"
      BY <1>2, LineAsks
    <3> QED BY <1>2, <2>2, <3>1
  <2>4. <<Line("IDS", n)>> \in Seq(Asks) /\ Line("IDS", n).verb = "IDS"
    BY <1>2, LineAsks
  <2>5. Request(o) \in Seq(Asks) /\ Len(Request(o)) = n + 1
    BY <1>2, <2>1, <2>2, <2>3, <2>4
  <2>6. \A i \in 1..(n + 1) : Request(o)[i].verb = IF i = 1 THEN "IDS" ELSE "path"
    BY <1>2, <2>1, <2>2, <2>3, <2>4
  <2> QED BY <1>1, <1>2, <1>4, <2>5, <2>6
<1>5. CASE o.verb \in {"GET", "HAS"}
  <2>1. Request(o) = [i \in 1..n |-> Line(o.verb, o.keys[i])]
    BY <1>1, <1>5 DEF Request
  <2>2. Request(o) \in Seq(Asks) /\ Len(Request(o)) = n /\ \A i \in 1..n : Request(o)[i].verb = o.verb
    <3>1. \A i \in 1..n : Line(o.verb, o.keys[i]) \in Asks /\ Line(o.verb, o.keys[i]).verb = o.verb
      BY <1>2, <1>5, LineAsks
    <3> QED BY <1>2, <2>1, <3>1
  <2> QED BY <1>1, <1>2, <1>5, <2>2
<1> QED BY <1>2, <1>3, <1>4, <1>5

LEMMA RequestSome == ASSUME NEW o \in Operation PROVE Len(Request(o)) \in Nat \ {0}
<1>1. PICK n, l : n = Len(o.keys) /\ l = Len(Request(o))
  BY Zenon
<1>2. n \in Nat \ {0} /\ (l = 2 * n \/ l = n + 1 \/ l = n)
  BY <1>1, RequestLen
<1> QED BY <1>1, <1>2

LEMMA AnswersLen ==
  ASSUME NEW o \in Operation, NEW h \in 0..Len(Request(o))
  PROVE  /\ Answers(o, h) \in Nat /\ Answers(o, h) <= Len(o.keys) /\ Answers(o, 0) = 0
         /\ Answers(o, h) = Len(o.keys) => h = Len(Request(o))
         /\ ~broken /\ sent = Len(Request(o)) => Awaited(o) = Len(o.keys)
<1>1. PICK n, l : n = Len(o.keys) /\ l = Len(Request(o))
  BY Zenon
<1>2. n \in Nat \ {0} /\ o.verb \in {"GET", "HAS", "PUT", "IDS"}
  BY <1>1, RequestLen DEF Operation
<1>3. CASE o.verb = "PUT"
  <2>1. l = 2 * n
    BY <1>1, <1>3, RequestLen
  <2> QED BY <1>1, <1>2, <1>3, <2>1 DEF Answers, Awaited
<1>4. CASE o.verb = "IDS"
  <2>1. l = n + 1
    BY <1>1, <1>4, RequestLen
  <2> QED BY <1>1, <1>2, <1>4, <2>1 DEF Answers, Awaited
<1>5. CASE o.verb \in {"GET", "HAS"}
  <2>1. l = n
    BY <1>1, <1>5, RequestLen
  <2> QED BY <1>1, <1>2, <1>5, <2>1 DEF Answers, Awaited
<1> QED BY <1>2, <1>3, <1>4, <1>5

Answering(o, u) ==
  \E x \in Unit : /\ x.ans # "value"
                  /\ \/ Reply(u) = <<x>>
                     \/ o.verb = "GET" /\ \E v \in Unit : v.ans = "value" /\ Reply(u) = <<v, x>>

LEMMA Replies == ASSUME NEW o, NEW u, Answering(o, u) PROVE Reply(u) \in Seq(Unit) /\ Reply(u) # <<>>
<1>1. PICK x \in Unit : Reply(u) = <<x>> \/ \E v \in Unit : Reply(u) = <<v, x>>
  BY Zenon DEF Answering
<1>2. CASE Reply(u) = <<x>>
  BY <1>2
<1>3. ASSUME NEW v \in Unit, Reply(u) = <<v, x>> PROVE Reply(u) \in Seq(Unit) /\ Reply(u) # <<>>
  BY <1>3
<1> QED BY <1>1, <1>2, <1>3, Zenon

LEMMA ReplyAt ==
  ASSUME NEW o \in Operation, NEW h \in Nat, h < Len(Request(o)), NEW u, u = Request(o)[h + 1]
  PROVE  \/ Reply(u) = <<>> /\ Answers(o, h + 1) = Answers(o, h)
         \/ Answers(o, h + 1) = Answers(o, h) + 1 /\ Answering(o, u)
<1>1. PICK n : n = Len(o.keys)
  BY Zenon
<1>2. n \in Nat \ {0} /\ o.verb \in {"GET", "HAS", "PUT", "IDS"} /\ u \in Asks
  BY <1>1, RequestLen DEF Operation
<1>3. u.key \in Keys \cup Nat
  BY <1>2 DEF Asks
<1>4. \A a \in {"value", "body", "MISS", "1", "0", "OK", "id"} : Answer(a, u.key) \in Unit /\ Answer(a, u.key).ans = a
  BY <1>3 DEF Answer, Unit
<1>5. CASE o.verb = "PUT"
  <2>1. h + 1 \in 1..(2 * n) /\ u.verb = IF (h + 1) % 2 = 1 THEN "PUT" ELSE "body"
    <3>1. Len(Request(o)) = 2 * n
      BY <1>1, <1>5, RequestLen
    <3>2. \A i \in 1..(2 * n) : Request(o)[i].verb = IF i % 2 = 1 THEN "PUT" ELSE "body"
      BY <1>1, <1>5, RequestLen, Zenon
    <3>3. h + 1 \in 1..(2 * n)
      BY <1>2, <3>1
    <3> QED BY <3>2, <3>3, Zenon
  <2>2. CASE (h + 1) % 2 = 1
    <3>1. u.verb = "PUT" /\ Reply(u) = <<>>
      BY <2>1, <2>2 DEF Reply
    <3>2. (h + 1) \div 2 = h \div 2
      BY <2>2
    <3> QED BY <1>5, <3>1, <3>2 DEF Answers
  <2>3. CASE (h + 1) % 2 # 1
    <3>1. u.verb = "body" /\ Reply(u) = <<Answer("OK", u.key)>>
      BY <2>1, <2>3 DEF Reply
    <3>2. (h + 1) \div 2 = (h \div 2) + 1
      BY <2>3
    <3> QED BY <1>4, <1>5, <3>1, <3>2 DEF Answers, Answering
  <2> QED BY <2>2, <2>3
<1>6. CASE o.verb = "IDS"
  <2>1. h + 1 \in 1..(n + 1) /\ u.verb = IF h + 1 = 1 THEN "IDS" ELSE "path"
    BY <1>1, <1>6, RequestLen
  <2>2. CASE h = 0
    <3>1. Reply(u) = <<>>
      BY <2>1, <2>2 DEF Reply
    <3> QED BY <1>6, <2>2, <3>1 DEF Answers
  <2>3. CASE h # 0
    <3>1. Reply(u) = <<Answer("id", u.key)>>
      BY <2>1, <2>3 DEF Reply
    <3>2. Answers(o, h + 1) = Answers(o, h) + 1
      BY <1>6, <2>3 DEF Answers
    <3> QED BY <1>4, <3>1, <3>2 DEF Answering
  <2> QED BY <2>2, <2>3
<1>7. CASE o.verb \in {"GET", "HAS"}
  <2>1. h + 1 \in 1..n /\ u.verb = o.verb
    BY <1>1, <1>7, RequestLen
  <2>2. Answers(o, h + 1) = Answers(o, h) + 1
    BY <1>7 DEF Answers
  <2>3. CASE o.verb = "GET"
    <3>1. \/ Reply(u) = <<Answer("value", u.key), Answer("body", u.key)>>
          \/ Reply(u) = <<Answer("MISS", u.key)>>
      BY <2>1, <2>3 DEF Reply
    <3> QED BY <1>4, <2>2, <2>3, <3>1 DEF Answering
  <2>4. CASE o.verb = "HAS"
    <3>1. Reply(u) = <<Answer("1", u.key)>> \/ Reply(u) = <<Answer("0", u.key)>>
      BY <2>1, <2>4 DEF Reply
    <3> QED BY <1>4, <2>2, <3>1 DEF Answering
  <2> QED BY <1>7, <2>3, <2>4
<1> QED BY <1>2, <1>5, <1>6, <1>7

\* The three places of the units on their way back, as one sequence.
LEMMA PipeSame ==
  ASSUME NEW d \in Seq(Unit), NEW t \in Seq(Unit), NEW u \in Seq(Unit), t # <<>>
  PROVE  Append(d, Head(t)) \o (Tail(t) \o u) = d \o (t \o u)
<1>1. PICK h, r : h = Head(t) /\ r = Tail(t)
  BY Zenon
<1>2. h \in Unit /\ r \in Seq(Unit) /\ t = <<h>> \o r /\ <<h>> \in Seq(Unit)
  BY <1>1
<1>3. r \o u \in Seq(Unit)
  BY <1>2, ConcatProperties, Zenon
<1>4. Assoc(d, <<h>>, r \o u)
  BY <1>2, <1>3, UnitConcat, Zenon
<1>5. Assoc(<<h>>, r, u)
  BY <1>2, UnitConcat, Zenon
<1>6. Append(d, h) = d \o <<h>>
  BY <1>2, AppendIsConcat, Zenon
<1> QED BY <1>1, <1>2, <1>4, <1>5, <1>6, Zenon DEF Assoc

LEMMA PipeTail ==
  ASSUME NEW d \in Seq(Unit), NEW x \in Seq(Unit), d # <<>>
  PROVE  d \o x \in Seq(Unit) /\ d \o x # <<>> /\ (d \o x)[1] = Head(d) /\ Tail(d \o x) = Tail(d) \o x
<1>1. PICK q : q = d \o x
  BY Zenon
<1>2. q \in Seq(Unit) /\ Len(q) = Len(d) + Len(x) /\ Len(d) \in Nat \ {0} /\ Len(x) \in Nat
  BY <1>1
<1>3. q # <<>> /\ q[1] = Head(d)
  BY <1>1, <1>2
<1>4. Tail(q) = Tail(d) \o x
  BY <1>1, <1>2, <1>3
<1> QED BY <1>1, <1>2, <1>3, <1>4, Zenon

Joined(d, u, y, p, q) == p = d \o u /\ q = d \o (u \o y)

LEMMA PipeOne ==
  ASSUME NEW d \in Seq(Unit), NEW u \in Seq(Unit), NEW x \in Unit,
         NEW p, NEW q, Joined(d, u, <<x>>, p, q)
  PROVE  Len(q) = Len(p) + 1 /\ Longer(p, Len(p), q, 1, x)
<1>1. p = d \o u /\ p \in Seq(Unit) /\ <<x>> \in Seq(Unit)
  BY DEF Joined
<1>2. q = p \o <<x>>
  <2>1. Assoc(d, u, <<x>>)
    BY <1>1, UnitConcat, Zenon
  <2> QED BY <2>1, Zenon DEF Joined, Assoc
<1> QED BY <1>1, <1>2 DEF Longer

LEMMA PipeTwo ==
  ASSUME NEW d \in Seq(Unit), NEW u \in Seq(Unit), NEW x \in Unit, NEW v \in Unit, v.ans = "value",
         NEW p, NEW q, Joined(d, u, <<v, x>>, p, q)
  PROVE  Len(q) = Len(p) + 2 /\ Longer(p, Len(p), q, 2, x)
<1>1. p = d \o u /\ p \in Seq(Unit) /\ <<v, x>> \in Seq(Unit)
  BY DEF Joined
<1>2. q = p \o <<v, x>>
  <2>1. Assoc(d, u, <<v, x>>)
    BY <1>1, UnitConcat, Zenon
  <2> QED BY <2>1, Zenon DEF Joined, Assoc
<1> QED BY <1>1, <1>2 DEF Longer

LEMMA PipedType ==
  ASSUME TypeC PROVE Piped \in Seq(Unit) /\ server.todo \o server.out \in Seq(Unit)
BY ConcatProperties DEF TypeC, Piped

LEMMA FirstOperation == TypeC /\ script # <<>> => script[1] \in Operation /\ Tail(script) \in Seq(Operation)
BY DEF TypeC

\* An operation starts with nothing under way.
LEMMA Starts ==
  ASSUME NEW o \in Operation PROVE Under(o, 0, <<>>, <<>>, <<>>, <<>>)
<1>1. Len(Request(o)) \in Nat /\ Answers(o, 0) = 0
  <2>1. Len(Request(o)) \in Nat
    BY RequestLen
  <2>2. 0 \in 0..Len(Request(o))
    BY <2>1
  <2> QED BY <2>1, <2>2, AnswersLen, Zenon
<1>2. Owed(<<>>, <<>>, <<>>)
  <2>1. PICK f : f = [j \in 1..0 |-> j]
    OBVIOUS
  <2>2. Positions(<<>>, <<>>, f)
    BY <2>1 DEF Positions
  <2>3. <<>> \in Seq(Unit) /\ <<>> = <<>> \o <<>>
    BY ConcatEmptySeq
  <2> QED BY <2>2, <2>3, Zenon DEF Owed, Carries
<1> QED BY <1>1, <1>2 DEF Under, Width

LEMMA WireInit == CInit => WireInv
<1> SUFFICES ASSUME CInit PROVE WireInv
  OBVIOUS
<1>1. /\ script \in Seq(Operation) /\ sent = 0 /\ got = <<>> /\ broken = FALSE /\ up = <<>> /\ down = <<>>
      /\ server = Serving /\ hung = FALSE /\ served = <<>>
  BY ScriptAssumption DEF CInit, CStart
<1>2. TypeC
  BY <1>1 DEF TypeC, Serving
<1>3. Piped = <<>>
  BY <1>1 DEF Piped, Serving
<1>4. script # <<>> => Under(script[1], sent, up, got, served, Piped)
  <2>1. script # <<>> => script[1] \in Operation
    BY <1>1
  <2> QED BY <1>1, <1>3, <2>1, Starts, Zenon
<1> QED BY <1>1, <1>2, <1>3, <1>4, Zenon DEF WireInv, Clear

\* SendAll: one more unit of the request.
LEMMA SendInv == ASSUME WireInv, Send PROVE WireInv'
<1>1. PICK o, n, u, u2 : o = script[1] /\ n = sent /\ u = up /\ u2 = up'
  OBVIOUS
<1>2. /\ script # <<>> /\ ~hung /\ ~broken /\ o \in Operation /\ n \in Nat /\ u \in Seq(Asks) /\ TypeC
      /\ Under(o, n, u, got, served, Piped)
  BY <1>1, FirstOperation, Zenon DEF WireInv, Send, TypeC
<1>3. PICK r : r = Request(o)
  OBVIOUS
<1>4. r \in Seq(Asks) /\ n < Len(r) /\ Len(u) <= n
  BY <1>1, <1>2, <1>3, RequestLen DEF Send, AllSent, Under
<1>5. u2 = Append(u, r[n + 1]) /\ r[n + 1] \in Asks /\ u2 \in Seq(Asks) /\ Len(u2) = Len(u) + 1
  BY <1>1, <1>2, <1>3, <1>4 DEF Send
<1>6. ASSUME NEW j \in 1..Len(u2) PROVE u2[j] = r[((n + 1) - Len(u2)) + j]
  <2>1. CASE j \in 1..Len(u)
    <3>1. u2[j] = u[j] /\ ((n + 1) - Len(u2)) + j = (n - Len(u)) + j
      BY <1>2, <1>5, <2>1
    <3>2. u[j] = r[(n - Len(u)) + j]
      BY <1>2, <1>3, <2>1, Zenon DEF Under
    <3> QED BY <3>1, <3>2, Zenon
  <2>2. CASE j = Len(u) + 1
    BY <1>2, <1>4, <1>5, <2>2
  <2> QED BY <1>2, <1>5, <2>1, <2>2
<1>7. Under(o, n + 1, u2, got, served, Piped)
  <2>1. (n + 1) - Len(u2) = n - Len(u) /\ n + 1 <= Len(r) /\ Len(u2) <= n + 1
    BY <1>2, <1>4, <1>5
  <2> QED BY <1>2, <1>3, <1>6, <2>1, Zenon DEF Under
<1>8. UNCHANGED <<script, got, broken, down, server, hung, stored, served>> /\ sent' = n + 1 /\ up' = u2 /\ Piped' = Piped
  BY <1>1 DEF Send, Piped
<1>9. TypeC'
  BY <1>2, <1>5, <1>8 DEF TypeC
<1> QED BY <1>1, <1>2, <1>7, <1>8, <1>9, Zenon DEF WireInv

\* The operation is over: nothing is under way, or nothing is read any more.
LEMMA FinishInv ==
  ASSUME WireInv, Finish, down' = down, script # <<>>, hung \/ Clear
  PROVE  WireInv'
<1>1. /\ script' = Tail(script) /\ sent' = 0 /\ got' = <<>> /\ broken' = FALSE /\ served' = <<>> /\ up' = up
      /\ server' = server /\ hung' = hung /\ Piped' = Piped
  BY DEF Finish, Piped
<1>2. TypeC'
  BY <1>1, FirstOperation DEF WireInv, TypeC
<1>3. ASSUME ~hung, script' # <<>> PROVE Under(script'[1], sent', up', got', served', Piped')
  <2>1. script'[1] \in Operation
    BY <1>1, <1>2, <1>3 DEF TypeC
  <2> QED BY <1>1, <1>3, <2>1, Starts, Zenon DEF Clear
<1>4. Cut(sent', got', served', down')
  BY <1>1, Zenon DEF Cut
<1>5. ~hung => Clear'
  BY <1>1, Zenon DEF Clear
<1>6. hung => up' = <<>>
  BY <1>1, Zenon DEF WireInv
<1> QED BY <1>1, <1>2, <1>3, <1>4, <1>5, <1>6, Zenon DEF WireInv

LEMMA SendFailsInv == ASSUME WireInv, SendFails PROVE WireInv'
<1>1. script # <<>> /\ hung /\ down' = down
  BY Zenon DEF SendFails
<1>2. CASE script[1].verb = "PUT"
  <2>1. broken' = TRUE /\ UNCHANGED <<script, sent, got, up, down, server, hung, stored, served>>
    BY <1>2, Zenon DEF SendFails
  <2> QED BY <1>1, <1>2, <2>1 DEF WireInv, TypeC, Clear, Piped
<1>3. CASE script[1].verb # "PUT"
  <2>1. Finish
    BY <1>3, Zenon DEF SendFails
  <2> QED BY <1>1, <2>1, FinishInv, Zenon
<1> QED BY <1>2, <1>3, Zenon

LEMMA ReceiveFailsInv == ASSUME WireInv, ReceiveFails PROVE WireInv'
BY FinishInv, Zenon DEF ReceiveFails, Reading

\* A whole request has all its answers once it has as many as it waits for.
LEMMA AllGot ==
  ASSUME WireInv, script # <<>>, AllSent, ~hung, Len(got) = Awaited(script[1])
  PROVE  got = served /\ Clear
<1>1. PICK o, h : o = script[1] /\ h = sent - Len(up)
  OBVIOUS
<1>2. o \in Operation /\ Under(o, sent, up, got, served, Piped) /\ ~broken /\ TypeC
  BY <1>1, FirstOperation, Zenon DEF WireInv
<1>3. sent = Len(Request(o)) /\ sent \in Nat /\ Len(up) \in Nat /\ Len(up) <= sent /\ Len(got) \in Nat /\ Len(served) \in Nat
  BY <1>1, <1>2 DEF AllSent, Under, TypeC
<1>4. h \in 0..Len(Request(o)) /\ sent \in 0..Len(Request(o))
  BY <1>1, <1>3
<1>5. /\ Len(got) = Len(o.keys) /\ Len(served) = Answers(o, h) /\ Answers(o, h) <= Len(o.keys)
      /\ Answers(o, h) = Len(o.keys) => h = Len(Request(o))
  BY <1>1, <1>2, <1>3, <1>4, AnswersLen, Zenon DEF Under
<1>6. /\ got \in Seq(Unit) /\ served \in Seq(Unit) /\ Piped \in Seq(Unit) /\ Owed(got, served, Piped)
  BY <1>2, PipedType, Zenon DEF TypeC, Under
<1>7. Len(got) <= Len(served) /\ (Len(served) <= Len(got) => served = got /\ Piped = <<>>)
  BY <1>6, OwedLen, Zenon
<1>8. served = got /\ Piped = <<>> /\ Answers(o, h) = Len(o.keys)
  BY <1>3, <1>5, <1>7
<1>9. up = <<>>
  <2>1. Len(up) = 0
    BY <1>1, <1>3, <1>5, <1>8
  <2> QED BY <1>2, <2>1 DEF TypeC
<1> QED BY <1>8, <1>9, Zenon DEF Clear

LEMMA DoneInv == ASSUME WireInv, Done PROVE WireInv'
<1>1. script # <<>> /\ AllSent /\ Len(got) = Awaited(script[1]) /\ Finish /\ down' = down
  BY Zenon DEF Done
<1>2. hung \/ Clear
  BY <1>1, AllGot, Zenon
<1> QED BY <1>1, <1>2, FinishInv, Zenon

\* RecvLine: the unit read is the first the daemon still owes.
LEMMA ReceiveInv == ASSUME WireInv, Receive PROVE WireInv'
<1>1. /\ script # <<>> /\ AllSent /\ Len(got) < Awaited(script[1]) /\ down # <<>> /\ down' = Tail(down)
      /\ got' = IF Head(down).ans = "value" THEN got ELSE Append(got, Head(down))
      /\ UNCHANGED <<script, sent, broken, up, server, hung, stored, served>>
  BY Zenon DEF Receive, Reading
<1>2. PICK o, d, g, g2, y : o = script[1] /\ d = down /\ g = got /\ g2 = got' /\ y = server.todo \o server.out
  BY Zenon
<1>3. TypeC /\ o \in Operation /\ d \in Seq(Unit) /\ g \in Seq(Unit) /\ served \in Seq(Unit) /\ y \in Seq(Unit)
  BY <1>1, <1>2, FirstOperation, PipedType, Zenon DEF WireInv, TypeC
<1>4. Head(d) \in Unit /\ g2 \in Seq(Unit) /\ Tail(d) \in Seq(Unit)
  BY <1>1, <1>2, <1>3
<1>5. TypeC'
  BY <1>1, <1>2, <1>3, <1>4 DEF TypeC
<1>6. ASSUME NEW q \in Seq(Unit), Owed(g, served, d \o q) PROVE Owed(g2, served, Tail(d) \o q)
  <2>1. PICK p : p = d \o q
    BY Zenon
  <2>2. p \in Seq(Unit) /\ p # <<>> /\ p[1] = Head(d) /\ Tail(p) = Tail(d) \o q
    BY <1>1, <1>2, <1>3, <2>1, PipeTail, Zenon
  <2>3. Owed(IF p[1].ans = "value" THEN g ELSE Append(g, p[1]), served, Tail(p))
    BY <1>3, <1>6, <2>1, <2>2, OwedTail, Zenon
  <2> QED BY <1>1, <1>2, <2>2, <2>3, Zenon
<1>7. CASE ~hung
  <2>1. Under(o, sent, up, g, served, d \o y)
    BY <1>1, <1>2, <1>7, Zenon DEF WireInv, Piped
  <2>2. Owed(g2, served, Tail(d) \o y)
    BY <1>3, <1>6, <2>1, Zenon DEF Under
  <2>3. Len(Tail(d) \o y) <= Len(d \o y)
    <3>1. Len(Tail(d) \o y) = Len(Tail(d)) + Len(y) /\ Len(d \o y) = Len(d) + Len(y)
      BY <1>3, <1>4, ConcatProperties, Zenon
    <3>2. d # <<>>
      BY <1>1, <1>2, Zenon
    <3>3. Len(Tail(d)) = Len(d) - 1 /\ Len(d) \in Nat /\ Len(y) \in Nat
      BY <1>3, <3>2, HeadTailProperties, LenProperties, Zenon
    <3> QED BY <3>1, <3>3
  <2>4. Len(Tail(d) \o y) <= Width(o) * Len(served)
    <3>1. Len(Tail(d) \o y) \in Nat /\ Len(d \o y) \in Nat /\ Len(served) \in Nat
      BY <1>3, <1>4
    <3>2. Len(d \o y) <= Width(o) * Len(served)
      BY <2>1, Zenon DEF Under
    <3> QED BY <2>3, <3>1, <3>2 DEF Width
  <2>5. Under(o, sent, up, g2, served, Tail(d) \o y)
    BY <2>1, <2>2, <2>4, Zenon DEF Under
  <2>6. Piped' = Tail(d) \o y
    BY <1>1, <1>2, Zenon DEF Piped
  <2> QED BY <1>1, <1>2, <1>5, <1>7, <2>5, <2>6, Zenon DEF WireInv
<1>8. CASE hung
  <2>1. ~(sent = 0 /\ got = <<>>)
    <3>1. SUFFICES ASSUME sent = 0, got = <<>> PROVE FALSE
      OBVIOUS
    <3>2. broken
      <4>1. Len(Request(o)) # 0
        BY <1>3, RequestSome
      <4> QED BY <1>1, <1>2, <3>1, <4>1, Zenon DEF AllSent
    <3>3. o.verb = "PUT"
      BY <1>2, <3>2, Zenon DEF WireInv
    <3>4. Awaited(o) = 0
      BY <3>1, <3>3 DEF Awaited
    <3> QED BY <1>1, <1>2, <3>1, <3>4
  <2>2. PICK q \in Seq(Unit) : Owed(g, served, d \o q)
    BY <1>1, <1>2, <1>8, <2>1, Zenon DEF WireInv, Cut
  <2>3. Owed(g2, served, Tail(d) \o q)
    BY <1>6, <2>2, Zenon
  <2>4. Cut(sent', got', served', down')
    BY <1>1, <1>2, <2>2, <2>3, Zenon DEF Cut
  <2> QED BY <1>1, <1>2, <1>5, <1>8, <2>4, Zenon DEF WireInv
<1> QED BY <1>7, <1>8, Zenon

\* serve reads the next unit, a, and answers it: the answers s2 and the units q on
\* their way back are what they were, or longer by the reply.
Replied(o, a, s, p, s2, q) ==
  \/ Reply(a) = <<>> /\ s2 = s /\ q = p
  \/ \E x \in Unit, d \in {1, 2} :
       /\ x.ans # "value" /\ d <= Width(o) /\ Reply(a) # <<>>
       /\ s2 = Append(s, x) /\ Len(q) = Len(p) + d /\ Longer(p, Len(p), q, d, x)

LEMMA ReadOn ==
  ASSUME NEW o \in Operation, NEW n \in Nat, NEW u \in Seq(Asks), u # <<>>, NEW g \in Seq(Unit), NEW s \in Seq(Unit),
         NEW p \in Seq(Unit), Under(o, n, u, g, s, p), NEW s2, NEW q, Replied(o, Head(u), s, p, s2, q)
  PROVE  Under(o, n, Tail(u), g, s2, q)
<1>1. PICK r, u2, h, a : r = Request(o) /\ u2 = Tail(u) /\ h = n - Len(u) /\ a = Head(u)
  BY Zenon
<1>2. /\ n <= Len(r) /\ Len(u) <= n /\ Len(s) = Answers(o, h) /\ Owed(g, s, p) /\ Len(p) <= Width(o) * Len(s)
      /\ \A j \in 1..Len(u) : u[j] = r[h + j]
  BY <1>1, Zenon DEF Under
<1>3. /\ Len(u) \in Nat \ {0} /\ Len(u2) = Len(u) - 1 /\ a = u[1] /\ Len(r) \in Nat
      /\ \A j \in 1..(Len(u) - 1) : u2[j] = u[j + 1]
  BY <1>1, RequestSome
<1>4. h \in Nat /\ h < Len(r) /\ n - Len(u2) = h + 1 /\ Len(u2) <= n /\ 1 \in 1..Len(u)
  BY <1>1, <1>2, <1>3
<1>5. a = r[h + 1]
  BY <1>2, <1>3, <1>4, Zenon
<1>6. ASSUME NEW j \in 1..Len(u2) PROVE u2[j] = r[(n - Len(u2)) + j]
  <2>1. j \in 1..(Len(u) - 1)
    BY <1>3, Zenon
  <2>2. u2[j] = u[j + 1] /\ j + 1 \in 1..Len(u)
    BY <1>3, <2>1
  <2>3. h + (j + 1) = (h + 1) + j
    BY <1>4, <2>1
  <2>4. u[j + 1] = r[h + (j + 1)]
    BY <1>2, <2>2, Zenon
  <2> QED BY <1>4, <2>2, <2>3, <2>4, Zenon
<1>7. \/ Reply(a) = <<>> /\ Answers(o, h + 1) = Answers(o, h)
      \/ Reply(a) # <<>> /\ Answers(o, h + 1) = Answers(o, h) + 1
  <2>1. \/ Reply(a) = <<>> /\ Answers(o, h + 1) = Answers(o, h)
        \/ Answers(o, h + 1) = Answers(o, h) + 1 /\ Answering(o, a)
    BY <1>1, <1>4, <1>5, ReplyAt, Zenon
  <2> QED BY <2>1, Replies, Zenon
<1>8. CASE Reply(a) = <<>>
  <2>1. s2 = s /\ q = p /\ Answers(o, h + 1) = Answers(o, h)
    <3>1. s2 = s /\ q = p
      BY <1>1, <1>8, Zenon DEF Replied
    <3> QED BY <1>2, <1>4, <1>7, <1>8, <3>1, Zenon
  <2> QED BY <1>1, <1>2, <1>4, <1>6, <2>1, Zenon DEF Under
<1>9. CASE Reply(a) # <<>>
  <2>1. PICK x \in Unit, d \in {1, 2} :
          /\ x.ans # "value" /\ d <= Width(o) /\ s2 = Append(s, x) /\ Len(q) = Len(p) + d /\ Longer(p, Len(p), q, d, x)
    BY <1>1, <1>9, Zenon DEF Replied
  <2>2. Owed(g, s2, q)
    BY <1>2, <2>1, OwedMore, Zenon
  <2>3. Answers(o, h + 1) = Answers(o, h) + 1
    BY <1>7, <1>9, Zenon
  <2>4. Len(s2) = Len(s) + 1 /\ Len(s) \in Nat /\ Len(p) \in Nat
    BY <2>1
  <2>5. Len(q) <= Width(o) * Len(s2)
    <3>1. Len(p) <= Width(o) * Len(s) /\ Len(q) = Len(p) + d /\ d <= Width(o)
      BY <1>2, <2>1, Zenon
    <3> QED BY <2>4, <3>1 DEF Width
  <2>6. Len(s2) = Answers(o, h + 1)
    BY <1>2, <2>3, <2>4, Zenon
  <2> QED BY <1>1, <1>2, <1>4, <1>6, <2>2, <2>5, <2>6, Zenon DEF Under
<1> QED BY <1>8, <1>9, Zenon

LEMMA HandleInv == ASSUME WireInv, Handle PROVE WireInv'
<1>1. PICK d, t, a, w : d = down /\ t = server.out /\ a = Head(up) /\ w = t \o Reply(a)
  BY Zenon
<1>2. /\ ~hung /\ server.todo = <<>> /\ up # <<>> /\ up' = Tail(up)
      /\ UNCHANGED <<script, sent, got, broken, down, hung>>
      /\ served' = IF Reply(a) = <<>> THEN served ELSE Append(served, LastUnit(Reply(a)))
  BY <1>1, Zenon DEF Handle
<1>3. PICK i, m : server' = [todo |-> IF Flushed(a, w) THEN w ELSE <<>>, out |-> IF Flushed(a, w) THEN <<>> ELSE w,
                             ids |-> i, put |-> m]
  BY <1>1, Zenon DEF Handle
<1>4. PICK o : o = script[1]
  OBVIOUS
<1>5. script # <<>> /\ Under(o, sent, up, got, served, Piped) /\ ~broken /\ TypeC
  BY <1>2, <1>4, Zenon DEF WireInv, Clear
<1>6. /\ o \in Operation /\ d \in Seq(Unit) /\ t \in Seq(Unit) /\ got \in Seq(Unit) /\ served \in Seq(Unit)
      /\ sent \in Nat /\ up \in Seq(Asks) /\ Piped \in Seq(Unit)
  BY <1>1, <1>4, <1>5, FirstOperation, PipedType, Zenon DEF TypeC
<1>7. Piped = d \o t
  BY <1>1, <1>2, <1>6 DEF Piped
<1>8. Reply(a) = <<>> \/ Answering(o, a)
  <2>1. PICK h : h = sent - Len(up)
    OBVIOUS
  <2>2. 1 \in 1..Len(up) /\ a = up[1] /\ Len(up) \in Nat /\ Len(up) # 0 /\ Len(Request(o)) \in Nat
    BY <1>1, <1>2, <1>6, RequestSome
  <2>3. sent <= Len(Request(o)) /\ Len(up) <= sent /\ a = Request(o)[h + 1]
    BY <1>5, <2>1, <2>2, Zenon DEF Under
  <2>4. h \in Nat /\ h < Len(Request(o))
    BY <1>6, <2>1, <2>2, <2>3
  <2> QED BY <1>6, <2>3, <2>4, ReplyAt, Zenon
<1>9. Reply(a) \in Seq(Unit) /\ w \in Seq(Unit)
  <2>1. Reply(a) \in Seq(Unit)
    BY <1>8, Replies, EmptySeq, Zenon
  <2> QED BY <1>1, <1>6, <2>1, ConcatProperties, Zenon
<1>10. PICK q, s2 : q = Piped' /\ s2 = served'
  OBVIOUS
<1>11. q = d \o w
  <2>1. server'.todo \o server'.out = w
    <3>1. w \o <<>> = w /\ <<>> \o w = w
      BY <1>9, ConcatEmptySeq, Zenon
    <3>2. CASE Flushed(a, w)
      BY <1>3, <3>1, <3>2
    <3>3. CASE ~Flushed(a, w)
      BY <1>3, <3>1, <3>3
    <3> QED BY <3>2, <3>3, Zenon
  <2> QED BY <1>1, <1>2, <1>10, <2>1, Zenon DEF Piped
<1>12. Replied(o, a, served, Piped, s2, q) /\ s2 \in Seq(Unit)
  <2>1. CASE Reply(a) = <<>>
    <3>1. w = t
      BY <1>1, <1>6, <2>1, ConcatEmptySeq, Zenon
    <3> QED BY <1>2, <1>6, <1>7, <1>10, <1>11, <2>1, <3>1, Zenon DEF Replied
  <2>2. CASE Reply(a) # <<>>
    <3>1. PICK x \in Unit : /\ x.ans # "value"
                            /\ \/ Reply(a) = <<x>>
                               \/ o.verb = "GET" /\ \E v \in Unit : v.ans = "value" /\ Reply(a) = <<v, x>>
      BY <1>8, <2>2, Zenon DEF Answering
    <3>2. LastUnit(Reply(a)) = x
      BY <3>1 DEF LastUnit
    <3>3. s2 = Append(served, x) /\ s2 \in Seq(Unit)
      BY <1>2, <1>6, <1>10, <2>2, <3>2
    <3>4. CASE Reply(a) = <<x>>
      <4>1. Len(q) = Len(Piped) + 1 /\ Longer(Piped, Len(Piped), q, 1, x)
        <5>1. q = d \o (t \o <<x>>)
          BY <1>1, <1>11, <3>4, Zenon
        <5>2. Joined(d, t, <<x>>, Piped, q)
          BY <1>7, <5>1, Zenon DEF Joined
        <5> QED BY <1>6, <3>1, <5>2, PipeOne, Zenon
      <4>2. 1 \in {1, 2} /\ 1 <= Width(o)
        BY DEF Width
      <4> QED BY <2>2, <3>1, <3>3, <4>1, <4>2, Zenon DEF Replied
    <3>5. ASSUME o.verb = "GET", NEW v \in Unit, v.ans = "value", Reply(a) = <<v, x>>
          PROVE  Replied(o, a, served, Piped, s2, q)
      <4>1. Len(q) = Len(Piped) + 2 /\ Longer(Piped, Len(Piped), q, 2, x)
        <5>1. q = d \o (t \o <<v, x>>)
          BY <1>1, <1>11, <3>5, Zenon
        <5>2. Joined(d, t, <<v, x>>, Piped, q)
          BY <1>7, <5>1, Zenon DEF Joined
        <5> QED BY <1>6, <3>1, <3>5, <5>2, PipeTwo, Zenon
      <4>2. 2 \in {1, 2} /\ 2 <= Width(o)
        BY <3>5 DEF Width
      <4> QED BY <2>2, <3>1, <3>3, <4>1, <4>2, Zenon DEF Replied
    <3> QED BY <3>1, <3>3, <3>4, <3>5, Zenon
  <2> QED BY <2>1, <2>2, Zenon
<1>13. Under(o, sent, Tail(up), got, s2, q)
  BY <1>1, <1>2, <1>5, <1>6, <1>12, ReadOn, Zenon
<1>14. TypeC'
  <2>1. /\ server'.todo \in Seq(Unit) /\ server'.out \in Seq(Unit)
        /\ server' = [todo |-> server'.todo, out |-> server'.out, ids |-> server'.ids, put |-> server'.put]
    BY <1>3, <1>9
  <2>2. Tail(up) \in Seq(Asks)
    BY <1>2, <1>6
  <2> QED BY <1>2, <1>5, <1>10, <1>12, <2>1, <2>2, Zenon DEF TypeC
<1> QED BY <1>2, <1>4, <1>5, <1>10, <1>13, <1>14, Zenon DEF WireInv

LEMMA WriteInv == ASSUME WireInv, Write PROVE WireInv'
<1>1. PICK d, t, u : d = down /\ t = server.todo /\ u = server.out
  OBVIOUS
<1>2. /\ ~hung /\ t # <<>> /\ down' = Append(d, Head(t)) /\ server' = [server EXCEPT !.todo = Tail(@)]
      /\ UNCHANGED <<script, sent, got, broken, up, hung, stored, served>>
  BY <1>1, Zenon DEF Write
<1>3. TypeC /\ d \in Seq(Unit) /\ t \in Seq(Unit) /\ u \in Seq(Unit) /\ ~broken
  BY <1>1, <1>2, Zenon DEF WireInv, TypeC
<1>4. /\ server'.todo = Tail(t) /\ server'.out = u
      /\ server' = [todo |-> server'.todo, out |-> server'.out, ids |-> server'.ids, put |-> server'.put]
  BY <1>1, <1>2, <1>3, Zenon DEF TypeC
<1>5. down' \in Seq(Unit) /\ Tail(t) \in Seq(Unit)
  BY <1>2, <1>3
<1>6. Piped' = Piped
  <2>1. Append(d, Head(t)) \o (Tail(t) \o u) = d \o (t \o u)
    BY <1>2, <1>3, PipeSame, Zenon
  <2> QED BY <1>1, <1>2, <1>4, <2>1, Zenon DEF Piped
<1>7. TypeC'
  BY <1>2, <1>3, <1>4, <1>5, Zenon DEF TypeC
<1> QED BY <1>2, <1>3, <1>6, <1>7, Zenon DEF WireInv, Clear

LEMMA HangUpInv == ASSUME WireInv, HangUp PROVE WireInv'
<1>1. /\ ~hung /\ hung' = TRUE /\ up' = <<>> /\ server' = Serving
      /\ UNCHANGED <<script, sent, got, broken, down, stored, served>>
  BY Zenon DEF HangUp
<1>2. TypeC'
  BY <1>1 DEF WireInv, TypeC, Serving
<1>3. script # <<>> => Cut(sent, got, served, down)
  <2>1. server.todo \o server.out \in Seq(Unit)
    BY PipedType, Zenon DEF WireInv
  <2> QED BY <1>1, <2>1, Zenon DEF WireInv, Under, Cut, Piped
<1> QED BY <1>1, <1>2, <1>3, Zenon DEF WireInv

LEMMA WireNext == WireInv /\ [CNext]_cvars => WireInv'
<1> SUFFICES ASSUME WireInv, [CNext]_cvars PROVE WireInv'
  OBVIOUS
<1>1. CASE Others \/ UNCHANGED cvars
  <2>1. UNCHANGED <<script, sent, got, broken, up, down, server, hung, served>>
    BY <1>1, Zenon DEF Others, cvars
  <2>2. TypeC' /\ Piped' = Piped /\ (Clear <=> Clear')
    BY <2>1 DEF WireInv, TypeC, Piped, Clear
  <2> QED BY <2>1, <2>2, Zenon DEF WireInv
<1> QED BY <1>1, SendInv, SendFailsInv, ReceiveInv, ReceiveFailsInv, DoneInv, HandleInv, WriteInv, HangUpInv, Zenon
        DEF CNext, ClientStep, ServerStep

\* AnswersMatch (GetMany, HasMany, PutMany, Identities against serve): whatever the
\* operations, the batches and the room in the buffers, and wherever the daemon hangs
\* up, the client takes for the answer to a request what the daemon answered to it.
THEOREM AnswersMatch == CSpec => []Answered
<1>1. WireInv => Answered
  <2> SUFFICES ASSUME WireInv, script # <<>>
               PROVE  /\ Len(got) <= Len(served) /\ got = SubSeq(served, 1, Len(got))
                      /\ AllSent /\ ~hung /\ Len(got) = Awaited(script[1]) => got = served
    BY Zenon DEF Answered
  <2>1. got \in Seq(Unit) /\ served \in Seq(Unit) /\ down \in Seq(Unit) /\ Piped \in Seq(Unit)
    BY PipedType, Zenon DEF WireInv, TypeC
  <2>2. CASE ~hung
    <3>1. Owed(got, served, Piped)
      BY <2>2, Zenon DEF WireInv, Under
    <3> QED BY <2>1, <2>2, <3>1, OwedLen, AllGot, Zenon
  <2>3. CASE hung
    <3>1. CASE got = <<>>
      <4>1. Len(got) = 0 /\ 0 <= Len(served) /\ SubSeq(served, 1, 0) = <<>>
        BY <2>1, <3>1
      <4> QED BY <2>3, <3>1, <4>1, Zenon
    <3>2. CASE \E q \in Seq(Unit) : Owed(got, served, down \o q)
      BY <2>1, <2>3, <3>2, OwedLen, ConcatProperties, Zenon
    <3> QED BY <2>3, <3>1, <3>2, Zenon DEF WireInv, Cut
  <2> QED BY <2>2, <2>3, AllGot, Zenon
<1> QED BY <1>1, WireInit, WireNext, PTL DEF CSpec

\* SidesNeverBlock (SendAll against serve's answers): for any room in the buffers and
\* any operations, the client and the daemon never both wait for the other to read,
\* whenever the request fits the one buffer or its answers the other.
THEOREM SidesNeverBlock == CSpec => []NoStandoff
<1>1. WireInv => NoStandoff
  <2> SUFFICES ASSUME WireInv, script # <<>>, ~AllSent, ~hung, Len(up) = UpRoom, server.todo # <<>>,
                      Len(down) = DownRoom, Fits(script[1])
               PROVE  FALSE
    BY Zenon DEF NoStandoff
  <2>1. PICK o, l, n, k : o = script[1] /\ l = Len(Request(o)) /\ n = sent /\ k = Len(o.keys)
    BY Zenon
  <2>2. o \in Operation /\ Under(o, n, up, got, served, Piped) /\ TypeC /\ ~broken
    BY <2>1, FirstOperation, Zenon DEF WireInv
  <2>3. n <= l /\ n # l /\ Len(up) <= n /\ n \in Nat /\ l \in Nat /\ Len(up) \in Nat
    BY <2>1, <2>2, RequestSome DEF Under, AllSent, TypeC
  <2>4. n - Len(up) \in 0..l
    BY <2>3
  <2>5. Len(served) <= k /\ Len(served) \in Nat /\ k \in Nat
    <3>1. Len(served) = Answers(o, n - Len(up))
      BY <2>2, Zenon DEF Under
    <3>2. Answers(o, n - Len(up)) <= Len(o.keys) /\ Answers(o, n - Len(up)) \in Nat
      BY <2>1, <2>2, <2>4, AnswersLen, Zenon
    <3>3. k \in Nat
      BY <2>1, <2>2, RequestLen
    <3> QED BY <2>1, <3>1, <3>2, <3>3, Zenon
  <2>6. Len(Piped) > DownRoom
    BY <2>2 DEF Piped, TypeC
  <2>7. Len(Piped) <= Width(o) * Len(served)
    BY <2>2, Zenon DEF Under
  <2>8. l <= UpRoom \/ k * Width(o) <= DownRoom
    BY <2>1, Zenon DEF Fits, Width
  <2>9. ~(l <= UpRoom)
    BY <2>3
  <2>10. Len(Piped) \in Nat
    BY <2>2, PipedType
  <2> QED BY <2>5, <2>6, <2>7, <2>8, <2>9, <2>10, RoomAssumption DEF Width
<1> QED BY <1>1, WireInit, WireNext, PTL DEF CSpec

------------------------------------------------------------------------------
(* Relative references of reloc-fixup, for paths of any depth: what makes a *)
(* tree work wherever it is moved.                                          *)

LEMMA LeastNat ==
  ASSUME NEW T \in SUBSET Nat, T # {}
  PROVE  \E n \in T : \A m \in T : n <= m
<1> DEFINE less == {ss \in Nat \X Nat : ss[1] < ss[2]}
<1>1. IsWellFoundedOn(less, Nat)
  BY NatLessThanWellFounded DEF OpToRel
<1> HIDE DEF less
<1>2. PICK n \in T : \A m \in T : ~(<<m, n>> \in less)
  BY <1>1, WFMin, Zenon
<1>3. ASSUME NEW m \in T PROVE n <= m
  <2>1. m \in Nat /\ n \in Nat
    OBVIOUS
  <2>2. ~(m < n)
    <3>1. m < n => <<m, n>> \in less
      BY <2>1 DEF less
    <3> QED BY <1>2, <3>1
  <2> QED BY <2>1, <2>2
<1> QED BY <1>3

\* There is a number of leading components as CommonLen wants it.
LEMMA CommonLenProp ==
  ASSUME NEW C, NEW p \in Seq(C), NEW q \in Seq(C)
  PROVE  LET n == CommonLen(p, q)
         IN /\ n \in 0..Len(p) /\ n <= Len(q)
            /\ SubSeq(p, 1, n) = SubSeq(q, 1, n)
            /\ n < Len(p) /\ n < Len(q) => p[n + 1] # q[n + 1]
<1> DEFINE T == {i \in Nat : i >= Len(p) \/ i >= Len(q) \/ p[i + 1] # q[i + 1]}
           Is(n) == /\ n <= Len(q) /\ SubSeq(p, 1, n) = SubSeq(q, 1, n)
                    /\ n < Len(p) /\ n < Len(q) => p[n + 1] # q[n + 1]
<1>0. Len(p) \in Nat /\ Len(q) \in Nat
  OBVIOUS
<1>1. T \in SUBSET Nat /\ Len(p) \in T /\ Len(q) \in T
  BY <1>0
<1>2. PICK n \in T : \A m \in T : n <= m
  BY <1>1, LeastNat, Zenon
<1>3. n \in Nat /\ n <= Len(p) /\ n <= Len(q)
  BY <1>1, <1>2
<1>4. ASSUME NEW i \in 1..n PROVE p[i] = q[i]
  <2>1. i - 1 \in Nat /\ i - 1 < n /\ (i - 1) + 1 = i
    BY <1>3
  <2>2. i - 1 \notin T
    <3>1. i - 1 \in T => n <= i - 1
      BY <1>2, Zenon
    <3>2. ~(n <= i - 1)
      BY <1>3, <2>1
    <3> QED BY <3>1, <3>2, Zenon
  <2> QED BY <2>1, <2>2
<1>5. SubSeq(p, 1, n) = SubSeq(q, 1, n)
  <2>1. ASSUME NEW s \in Seq(C), n <= Len(s)
        PROVE  /\ SubSeq(s, 1, n) \in Seq(C) /\ Len(SubSeq(s, 1, n)) = n
               /\ \A i \in 1..n : SubSeq(s, 1, n)[i] = s[i]
    BY <1>3, <2>1
  <2> QED BY <1>3, <1>4, <2>1, SeqEqual
<1>6. n < Len(p) /\ n < Len(q) => p[n + 1] # q[n + 1]
  BY <1>0, <1>2, <1>3
<1>7. n \in 0..Len(p) /\ Is(n)
  BY <1>0, <1>3, <1>5, <1>6
<1> HIDE DEF Is, T
<1>8. CommonLen(p, q) = CHOOSE m \in 0..Len(p) : Is(m)
  BY DEF CommonLen, Is
<1>9. CommonLen(p, q) \in 0..Len(p) /\ Is(CommonLen(p, q))
  BY <1>7, <1>8
<1> QED BY <1>9 DEF Is

\* The relative reference RelativeTo makes from dir to target, both in a tree at
\* old, leads to the same target once the tree is at new: every RUNPATH, interpreter
\* and NEEDED entry reloc-fixup rewrites is of this form.  Nothing is assumed of the
\* two places, which may share components with each other and with the paths inside.
THEOREM Relocates ==
  ASSUME NEW C, NEW old \in Seq(C), NEW new \in Seq(C), NEW dir \in Seq(C), NEW target \in Seq(C)
  PROVE  Follow(new \o dir, RelativeTo(old \o dir, old \o target)) = new \o target
<1> DEFINE p == old \o dir
           q == old \o target
           n == CommonLen(p, q)
           k == n - Len(old)
           head == SubSeq(new \o dir, 1, Len(new) + k)
           tail == SubSeq(q, n + 1, Len(q))
<1>1. /\ p \in Seq(C) /\ Len(p) = Len(old) + Len(dir)
      /\ \A i \in 1..Len(old) : p[i] = old[i]
      /\ \A i \in 1..Len(dir) : p[Len(old) + i] = dir[i]
  OBVIOUS
<1>2. /\ q \in Seq(C) /\ Len(q) = Len(old) + Len(target)
      /\ \A i \in 1..Len(old) : q[i] = old[i]
      /\ \A i \in 1..Len(target) : q[Len(old) + i] = target[i]
  OBVIOUS
<1>3. /\ new \o dir \in Seq(C) /\ Len(new \o dir) = Len(new) + Len(dir)
      /\ \A i \in 1..Len(new) : (new \o dir)[i] = new[i]
      /\ \A i \in 1..Len(dir) : (new \o dir)[Len(new) + i] = dir[i]
  OBVIOUS
<1>4. Len(old) \in Nat /\ Len(new) \in Nat /\ Len(dir) \in Nat /\ Len(target) \in Nat
  OBVIOUS
<1> HIDE DEF p, q
<1>5. /\ n \in 0..Len(p) /\ n <= Len(q) /\ SubSeq(p, 1, n) = SubSeq(q, 1, n)
      /\ n < Len(p) /\ n < Len(q) => p[n + 1] # q[n + 1]
  BY <1>1, <1>2, CommonLenProp, ZenonT(30)
<1> HIDE DEF n
<1>6. n \in Nat /\ Len(old) <= n
  <2>1. n \in Nat
    BY <1>5
  <2>2. ASSUME n < Len(old) PROVE FALSE
    <3>1. n + 1 \in 1..Len(old) /\ n < Len(p) /\ n < Len(q)
      BY <1>1, <1>2, <1>4, <2>1, <2>2
    <3>2. p[n + 1] = q[n + 1]
      BY <1>1, <1>2, <3>1
    <3> QED BY <1>5, <3>1, <3>2
  <2> QED BY <1>4, <2>1, <2>2
<1>7. k \in Nat /\ k <= Len(dir) /\ k <= Len(target) /\ n = Len(old) + k
  BY <1>1, <1>2, <1>4, <1>5, <1>6
<1>8. ASSUME NEW i \in 1..k PROVE dir[i] = target[i]
  <2>1. Len(old) + i \in 1..n /\ i \in 1..Len(dir) /\ i \in 1..Len(target)
    BY <1>4, <1>7
  <2>2. \A j \in 1..n : SubSeq(p, 1, n)[j] = p[j] /\ SubSeq(q, 1, n)[j] = q[j]
    BY <1>1, <1>2, <1>5, <1>6
  <2>3. p[Len(old) + i] = q[Len(old) + i]
    BY <1>5, <2>1, <2>2
  <2> QED BY <1>1, <1>2, <2>1, <2>3
<1>9. Follow(new \o dir, RelativeTo(p, q)) = head \o tail
  <2>1. RelativeTo(p, q) = [anchor |-> "origin", up |-> Len(p) - n, down |-> tail]
    BY DEF RelativeTo, n
  <2>2. Len(new \o dir) - (Len(p) - n) = Len(new) + k
    BY <1>1, <1>3, <1>4, <1>6, <1>7
  <2> DEFINE r == RelativeTo(p, q)
  <2> HIDE DEF tail, k
  <2>3. r.anchor = "origin" /\ r.up = Len(p) - n /\ r.down = tail
    BY <2>1
  <2> HIDE DEF r
  <2>4. Follow(new \o dir, r) = SubSeq(new \o dir, 1, Len(new \o dir) - r.up) \o r.down
    BY <2>3, Zenon DEF Follow
  <2> QED BY <2>2, <2>3, <2>4, Zenon DEF r
<1> HIDE DEF k
<1>10. /\ head \in Seq(C) /\ Len(head) = Len(new) + k
       /\ \A i \in 1..(Len(new) + k) : head[i] = (new \o dir)[i]
  <2>1. Len(new) + k \in 0..Len(new \o dir)
    BY <1>3, <1>4, <1>7
  <2> HIDE DEF head
  <2> DEFINE w == new \o dir
  <2>2. w \in Seq(C) /\ Len(new) + k \in 0..Len(w) /\ head = SubSeq(w, 1, Len(new) + k)
    BY <1>3, <2>1 DEF head
  <2> HIDE DEF w
  <2>3. head \in Seq(C) /\ Len(head) = Len(new) + k /\ \A i \in 1..(Len(new) + k) : head[i] = w[i]
    BY <2>2
  <2> QED BY <2>3, Zenon DEF w
<1>11. /\ tail \in Seq(C) /\ Len(tail) = Len(target) - k
       /\ \A i \in 1..(Len(target) - k) : tail[i] = q[n + i]
  <2>1. n + 1 \in Int /\ Len(q) \in Int /\ \A i \in (n + 1)..Len(q) : q[i] \in C
    BY <1>2, <1>4, <1>6
  <2>2. /\ tail \in Seq(C) /\ Len(tail) = IF n + 1 <= Len(q) THEN Len(q) - (n + 1) + 1 ELSE 0
        /\ \A i \in 1..(Len(q) - (n + 1) + 1) : tail[i] = q[n + 1 + i - 1]
    BY <2>1, SubSeqProperties
  <2> HIDE DEF tail
  <2>3. Len(q) - (n + 1) + 1 = Len(target) - k /\ (IF n + 1 <= Len(q) THEN Len(q) - (n + 1) + 1 ELSE 0) = Len(target) - k
    BY <1>2, <1>4, <1>6, <1>7
  <2>4. ASSUME NEW i \in 1..(Len(target) - k) PROVE n + 1 + i - 1 = n + i
    BY <1>4, <1>6, <1>7
  <2> QED BY <2>2, <2>3, <2>4
<1> HIDE DEF head, tail
<1>12. head \o tail = new \o target
  <2>1. /\ head \o tail \in Seq(C) /\ Len(head \o tail) = Len(new) + Len(target)
        /\ new \o target \in Seq(C) /\ Len(new \o target) = Len(new) + Len(target)
    <3>1. head \o tail \in Seq(C) /\ Len(head \o tail) = Len(head) + Len(tail)
      BY <1>10, <1>11, ConcatProperties, ZenonT(30)
    <3>2. new \o target \in Seq(C) /\ Len(new \o target) = Len(new) + Len(target)
      BY ConcatProperties
    <3>3. Len(head) + Len(tail) = Len(new) + Len(target)
      BY <1>4, <1>7, <1>10, <1>11
    <3> QED BY <3>1, <3>2, <3>3
  <2>2. ASSUME NEW i \in 1..(Len(new) + Len(target)) PROVE (head \o tail)[i] = (new \o target)[i]
    <3>1. CASE i <= Len(new)
      <4>1. (head \o tail)[i] = head[i] /\ (new \o target)[i] = new[i]
        BY <1>4, <1>7, <1>10, <1>11, <3>1
      <4> QED BY <1>3, <1>4, <1>7, <1>10, <3>1, <4>1
    <3>2. CASE i > Len(new) /\ i <= Len(new) + k
      <4> DEFINE j == i - Len(new)
      <4>1. j \in 1..k /\ j \in 1..Len(dir) /\ i = Len(new) + j
        BY <1>4, <1>7, <3>2
      <4>2. (head \o tail)[i] = head[i] /\ (new \o target)[i] = target[j]
        BY <1>4, <1>7, <1>10, <1>11, <3>2
      <4> HIDE DEF j
      <4>3. head[i] = (new \o dir)[i]
        BY <1>4, <1>7, <1>10, <3>2
      <4>4. (new \o dir)[i] = dir[j]
        BY <1>3, <4>1
      <4>5. dir[j] = target[j]
        BY <1>8, <4>1
      <4> QED BY <4>2, <4>3, <4>4, <4>5
    <3>3. CASE i > Len(new) + k
      <4> DEFINE j == i - (Len(new) + k)
      <4>1. j \in 1..(Len(target) - k) /\ k + j \in 1..Len(target) /\ n + j = Len(old) + (k + j)
        BY <1>4, <1>7, <3>3
      <4>2. (head \o tail)[i] = tail[j]
        <5>1. i \in 1..(Len(head) + Len(tail)) /\ ~(i <= Len(head)) /\ i - Len(head) = j
          BY <1>4, <1>7, <1>10, <1>11, <3>3
        <5> HIDE DEF j
        <5> QED BY <1>10, <1>11, <5>1, ConcatProperties
      <4>3. (new \o target)[i] = target[k + j]
        BY <1>4, <1>7, <3>3
      <4> HIDE DEF j
      <4> QED BY <1>2, <1>11, <4>1, <4>2, <4>3, Zenon
    <3>4. i <= Len(new) \/ (i > Len(new) /\ i <= Len(new) + k) \/ i > Len(new) + k
      BY <1>4, <1>7
    <3> QED BY <3>1, <3>2, <3>3, <3>4, Zenon
  <2> QED BY <2>1, <2>2, SeqEqual, Zenon
<1> QED BY <1>9, <1>12 DEF p, q

=============================================================================
