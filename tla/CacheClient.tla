----------------------------- MODULE CacheClient -----------------------------
(***************************************************************************)
(* One connection of a jig process to jigd, unit by unit: the client       *)
(* writes a whole request batch and only then reads the answers            *)
(* (cache_client.cc); jigd's serve loop (main.go) answers each request     *)
(* before it reads the next one.  Both directions are socket buffers of    *)
(* bounded room, so each side can block on the other.  A unit is a request *)
(* line, a PUT body, an answer line or the body of a value.                *)
(***************************************************************************)
EXTENDS Naturals, Sequences

CONSTANTS Keys,       \* keys and paths (a value is told by its key)
          Scripts,    \* the operations a process performs, in order
          UpRoom,     \* units the daemon's side buffers: socket + bufio.Reader
          DownRoom,   \* units the client's side buffers: socket + buf_
          OutRoom     \* answers bufio.Writer holds before it writes

ASSUME RoomAssumption == UpRoom \in Nat \ {0} /\ DownRoom \in Nat \ {0} /\ OutRoom \in Nat \ {0}

\* An operation: every one of the client's returns at once when it is given no keys.
Operation == [verb : {"GET", "HAS", "PUT", "IDS"}, keys : Seq(Keys) \ {<<>>}]

ASSUME ScriptAssumption == Scripts \subseteq Seq(Operation)

VARIABLES script,  \* operations still to come; the first is under way
          sent,    \* units of its request written
          got,     \* answers of its request read
          broken,  \* SendAll failed: the rest of the request is not written
          up, down,
          server,  \* todo: units being written; out: buffered ids; ids, put: mid-request
          hung,    \* the daemon closed the connection
          stored,  \* keys the daemon has
          served   \* answers the daemon gave to the requests of this operation

cvars == <<script, sent, got, broken, up, down, server, hung, stored, served>>

Serving == [todo |-> <<>>, out |-> <<>>, ids |-> 0, put |-> "no"]

CStart ==
  /\ sent = 0 /\ got = <<>> /\ broken = FALSE
  /\ up = <<>> /\ down = <<>> /\ server = Serving /\ hung = FALSE /\ served = <<>>
CInit == script \in Scripts /\ stored \in SUBSET Keys /\ CStart

Line(verb, key) == [verb |-> verb, key |-> key]

\* what Get/GetMany, HasMany, Put/PutMany and Identities write for an operation
Request(o) ==
  LET n == Len(o.keys)
  IN CASE o.verb = "PUT" -> [i \in 1..(2 * n) |-> Line(IF i % 2 = 1 THEN "PUT" ELSE "body", o.keys[(i + 1) \div 2])]
       [] o.verb = "IDS" -> <<Line("IDS", n)>> \o [i \in 1..n |-> Line("path", o.keys[i])]
       [] OTHER -> [i \in 1..n |-> Line(o.verb, o.keys[i])]

\* mutant: PutMany reads one answer too few
AwaitedFewer(o) == IF o.verb = "PUT" THEN (sent \div 2) - (IF sent > 2 THEN 1 ELSE 0) ELSE Len(o.keys)

\* answers the operation waits for: PutMany only those of the items it sent whole
Awaited(o) == IF o.verb = "PUT" THEN sent \div 2 ELSE Len(o.keys)

AllSent == broken \/ sent = Len(Request(script[1]))

\* SendAll: blocks while the socket has no room
Send ==
  /\ script # <<>> /\ ~AllSent /\ ~hung /\ Len(up) < UpRoom
  /\ up' = Append(up, Request(script[1])[sent + 1])
  /\ sent' = sent + 1
  /\ UNCHANGED <<script, got, broken, down, server, hung, stored, served>>

\* the next operation starts where the answers of this one end
Finish ==
  /\ script' = Tail(script) /\ sent' = 0 /\ got' = <<>> /\ broken' = FALSE /\ served' = <<>>
  /\ UNCHANGED <<up, server, hung, stored>>

\* send() fails: only PutMany goes on to read, the others report all missing
SendFails ==
  /\ script # <<>> /\ ~AllSent /\ hung
  /\ IF script[1].verb = "PUT"
     THEN broken' = TRUE /\ UNCHANGED <<script, sent, got, up, server, hung, stored, served>>
     ELSE Finish
  /\ UNCHANGED down

Reading == script # <<>> /\ AllSent /\ Len(got) < Awaited(script[1])

\* RecvLine, and after "OK <len>" RecvExactly: the value is there with its body
Receive ==
  /\ Reading /\ down # <<>>
  /\ got' = IF Head(down).ans = "value" THEN got ELSE Append(got, Head(down))
  /\ down' = Tail(down)
  /\ UNCHANGED <<script, sent, broken, up, server, hung, stored, served>>

\* read() returns 0: this answer and every later one is a miss; Identities gives up at once
ReceiveFails ==
  /\ Reading /\ hung /\ down = <<>>
  /\ Finish
  /\ UNCHANGED down

Done ==
  /\ script # <<>> /\ AllSent /\ Len(got) = Awaited(script[1])
  /\ Finish
  /\ UNCHANGED down

Answer(ans, key) == [ans |-> ans, key |-> key]

\* mutant: the line of a PUT is acknowledged too
ReplyEager(u) ==
  CASE u.verb = "GET"  -> IF u.key \in stored THEN <<Answer("value", u.key), Answer("body", u.key)>>
                                              ELSE <<Answer("MISS", u.key)>>
    [] u.verb = "HAS"  -> <<Answer(IF u.key \in stored THEN "1" ELSE "0", u.key)>>
    [] u.verb \in {"PUT", "body"} -> <<Answer("OK", u.key)>>
    [] u.verb = "path" -> <<Answer("id", u.key)>>
    [] OTHER -> <<>>

\* serve, get, put, ids: the answer to the unit just read
Reply(u) ==
  CASE u.verb = "GET"  -> IF u.key \in stored THEN <<Answer("value", u.key), Answer("body", u.key)>>
                                              ELSE <<Answer("MISS", u.key)>>
    [] u.verb = "HAS"  -> <<Answer(IF u.key \in stored THEN "1" ELSE "0", u.key)>>
    [] u.verb = "body" -> <<Answer("OK", u.key)>>
    [] u.verb = "path" -> <<Answer("id", u.key)>>
    [] OTHER -> <<>>

\* the unit that completes an answer
LastUnit(reply) == reply[Len(reply)]

\* answers of an IDS request collect in bufio.Writer until it is full or the request ends
Flushed(u, out) == u.verb # "path" \/ server.ids = 1 \/ Len(out) >= OutRoom

Expected(u) == IF server.ids > 0 THEN u.verb = "path"
               ELSE IF server.put # "no" THEN u.verb = "body" ELSE u.verb \notin {"path", "body"}

Handle ==
  /\ ~hung /\ server.todo = <<>> /\ up # <<>> /\ Expected(Head(up))
  /\ \E out \in {server.out \o Reply(Head(up))} :
       server' = [todo |-> IF Flushed(Head(up), out) THEN out ELSE <<>>,
                  out  |-> IF Flushed(Head(up), out) THEN <<>> ELSE out,
                  ids  |-> IF Head(up).verb = "IDS" THEN Head(up).key
                           ELSE IF Head(up).verb = "path" THEN server.ids - 1 ELSE 0,
                  put  |-> IF Head(up).verb = "PUT" THEN "yes" ELSE "no"]
  /\ served' = IF Reply(Head(up)) = <<>> THEN served ELSE Append(served, LastUnit(Reply(Head(up))))
  /\ stored' = IF Head(up).verb = "body" THEN stored \cup {Head(up).key} ELSE stored
  /\ up' = Tail(up)
  /\ UNCHANGED <<script, sent, got, broken, down, hung>>

Write ==
  /\ ~hung /\ server.todo # <<>> /\ Len(down) < DownRoom
  /\ down' = Append(down, Head(server.todo))
  /\ server' = [server EXCEPT !.todo = Tail(@)]
  /\ UNCHANGED <<script, sent, got, broken, up, hung, stored, served>>

\* a failed store.Put or a short value, a request that is not understood, the daemon's exit
HangUp ==
  /\ ~hung
  /\ hung' = TRUE /\ up' = <<>> /\ server' = Serving
  /\ UNCHANGED <<script, sent, got, broken, down, stored, served>>

\* other processes store and evict
Others ==
  /\ \E k \in Keys : stored' \in {stored \cup {k}, stored \ {k}} \ {stored}
  /\ UNCHANGED <<script, sent, got, broken, up, down, server, hung, served>>

ClientStep == Send \/ SendFails \/ Receive \/ ReceiveFails \/ Done
ServerStep == Handle \/ Write
CNext == ClientStep \/ ServerStep \/ HangUp \/ Others
CSpec == CInit /\ [][CNext]_cvars /\ WF_cvars(ClientStep) /\ WF_cvars(ServerStep)

(***************************************************************************)
(* What the client reads for a request is what the daemon answered to that *)
(* very request, through every batch a connection carries: pipelined       *)
(* answers are told apart by their place alone (cache_client.h:6).         *)
(***************************************************************************)
Answered ==
  script # <<>> =>
    /\ Len(got) <= Len(served) /\ got = SubSeq(served, 1, Len(got))
    /\ AllSent /\ ~hung /\ Len(got) = Awaited(script[1]) => got = served

\* a batch whose request fits the daemon's buffer, or its answers the client's
Fits(o) == Len(Request(o)) <= UpRoom
           \/ Len(o.keys) * (IF o.verb = "GET" THEN 2 ELSE 1) <= DownRoom

(***************************************************************************)
(* The two sides never block on each other: a client that writes its whole *)
(* batch before it reads, against a daemon that answers before it reads    *)
(* on, cannot both be out of room, for batches that fit (kBatch = 256).    *)
(***************************************************************************)
NoStandoff ==
  ~ /\ script # <<>> /\ ~AllSent /\ ~hung /\ Len(up) = UpRoom
    /\ server.todo # <<>> /\ Len(down) = DownRoom
    /\ Fits(script[1])

==============================================================================
