------------------------------- MODULE NixStore -------------------------------
(***************************************************************************)
(* jig nix-store (nix_store_mode.cc): the builder-rpc subset of the nix    *)
(* worker protocol.  Both directions are streams of words and strings with *)
(* nothing to resynchronise on: each side must read exactly what the other *)
(* wrote.  Client and daemon each hold the list of what they read next.    *)
(***************************************************************************)
EXTENDS Naturals, Sequences, SequencesExt

CONSTANTS Commands,   \* [verb, items]: what the process is asked to add or submit
          Chatter,    \* log traffic the daemon may send before an answer
          Versions    \* protocol versions daemons speak; ours is kProtocolVersion

kProtocolVersion == 2

VARIABLES command, offline,
          done,      \* items added or submitted
          printed,   \* store paths answered
          need,      \* what the client reads next
          toDaemon, fromDaemon,
          want,      \* what the daemon reads next, and the item it is reading
          reading,
          valid,     \* store objects the daemon registered
          exit,      \* the client's exit status
          desync     \* somebody read something else than was written

nvars == <<command, offline, done, printed, need, toDaemon, fromDaemon, want, reading, valid, exit, desync>>

Word(v) == [kind |-> "word", v |-> v, n |-> 0]
Num(n) == [kind |-> "word", v |-> "num", n |-> n]
Str(v) == [kind |-> "str", v |-> v, n |-> 0]
Strs(s) == <<Num(Len(s))>> \o [i \in DOMAIN s |-> Str(s[i])]

kFeatures == <<"path-not-hash", "no-set-options", "scanning", "submit-output">>

\* Store::Open, DaemonConnection::Connect and the first flush of Handshake
NStart ==
  /\ done = 0 /\ printed = <<>> /\ valid = {} /\ exit = "none" /\ desync = FALSE
  /\ toDaemon = IF offline THEN <<>> ELSE <<Word("magic1"), Num(kProtocolVersion)>>
  /\ need = IF offline THEN <<>> ELSE <<"magic", "version", "features", "strs", "post", "str", "word", "drain">>
  /\ fromDaemon = <<>> /\ want = <<"word", "word">> /\ reading = "hello"
NInit == command \in Commands /\ offline \in BOOLEAN /\ NStart

-----------------------------------------------------------------------------
(* The client *)

\* AddToStore: references sorted (a set here), then the contents as one frame and a terminator
AddToStore(item) ==
  <<Word("add"), Str(item.name), Str("text:sha256")>> \o Strs(SetToSeq(item.refs)) \o <<Num(0), Num(item.size)>>
  \o (IF item.size = 0 THEN <<>> ELSE <<[kind |-> "bytes", v |-> item.name, n |-> 0]>>) \o <<Num(0)>>
SubmitOutput(item) == <<Word("submit"), Num(0), Str(item.name), Str("out")>>

\* what a ValidPathInfo and the answer to SubmitOutput consist of
PathInfo == <<"drain", "path", "str", "str", "strs", "word", "word", "word", "strs", "str">>
Submitted == <<"drain", "word">>

Exits(status) == exit' = status /\ need' = <<>> /\ UNCHANGED <<command, offline, done, printed, toDaemon>>

\* RunNixStoreMode: the next item, or the end; offline, TextPath answers
Proceed ==
  /\ exit = "none" /\ need = <<>>
  /\ \/ /\ done = Len(command.items) /\ Exits("ok")
     \/ /\ done < Len(command.items)
        /\ \E item \in {command.items[done + 1]} :
             \/ /\ ~item.parses /\ Exits("failed")   \* "derivation JSON did not parse"
             \/ /\ item.parses /\ offline
                /\ done' = done + 1 /\ printed' = Append(printed, item.name)
                /\ UNCHANGED <<command, offline, need, toDaemon, exit>>
             \/ /\ item.parses /\ ~offline
                /\ toDaemon' = toDaemon \o (IF command.verb = "submit" THEN SubmitOutput(item) ELSE AddToStore(item))
                /\ need' = IF command.verb = "submit" THEN Submitted ELSE PathInfo
                /\ done' = done + 1
                /\ UNCHANGED <<command, offline, printed, exit>>
  /\ UNCHANGED <<fromDaemon, want, reading, valid, desync>>

Times(n, what) == [i \in 1..n |-> what]

\* mutant: STDERR_START_ACTIVITY without its parent
DrainStderrShort(m) ==
  CASE m = "last"   -> <<>>
    [] m = "next"   -> <<"str", "drain">>
    [] m = "start"  -> <<"word", "word", "word", "str", "fields", "drain">>
    [] m = "stop"   -> <<"word", "drain">>
    [] m = "result" -> <<"word", "word", "fields", "drain">>
    [] m = "error"  -> <<"str", "word", "str", "str", "fail">>
    [] OTHER -> <<"fail">>

\* DrainStderr: what follows a log message of each kind
DrainStderr(m) ==
  CASE m = "last"   -> <<>>
    [] m = "next"   -> <<"str", "drain">>
    [] m = "start"  -> <<"word", "word", "word", "str", "fields", "word", "drain">>
    [] m = "stop"   -> <<"word", "drain">>
    [] m = "result" -> <<"word", "word", "fields", "drain">>
    [] m = "error"  -> <<"str", "word", "str", "str", "fail">>
    [] OTHER -> <<"fail">>

\* what the client reads after a unit: ReadWord, ReadString, SkipStrings, SkipFields, DrainStderr
After(what, u, rest) ==
  CASE what \in {"word", "str", "path"} -> rest
    [] what = "magic"   -> IF u.v = "magic2" THEN rest ELSE <<"fail">>
    [] what = "version" -> IF u.n < kProtocolVersion THEN <<"fail">> ELSE rest
    [] what = "strs"    -> Times(u.n, "str") \o rest
    [] what = "fields"  -> Times(u.n, "field") \o rest
    [] what = "field"   -> <<IF u.v = "string" THEN "str" ELSE "word">> \o rest
    [] what = "drain"   -> DrainStderr(u.v) \o rest

\* a unit that is what its reader takes it for
Understood(what, u) ==
  CASE what \in {"str", "path"} -> u.kind = "str"
    [] what = "bytes" -> u.kind = "bytes"
    [] what \in {"strs", "fields", "frames", "version"} -> u.v = "num"
    [] what = "drain" -> u.v \in {"last", "next", "start", "stop", "result", "error"}
    [] what = "op" -> u.v \in {"add", "submit"}
    [] OTHER -> u.kind = "word"

Read ==
  /\ exit = "none" /\ need # <<>> /\ Head(need) \notin {"fail", "features", "post"} /\ fromDaemon # <<>>
  /\ \E u \in {Head(fromDaemon)}, what \in {Head(need)} :
       IF ~Understood(what, u)
       THEN desync' = TRUE /\ Exits("failed")
       ELSE /\ need' = After(what, u, Tail(need))
            /\ printed' = IF what = "path" THEN Append(printed, u.v) ELSE printed
            /\ UNCHANGED <<command, offline, done, toDaemon, exit, desync>>
  /\ fromDaemon' = Tail(fromDaemon)
  /\ UNCHANGED <<want, reading, valid>>

\* Handshake: our features once the version is known, then the obsolete options
Greet ==
  /\ exit = "none" /\ need # <<>> /\ Head(need) \in {"features", "post"}
  /\ toDaemon' = toDaemon \o (IF Head(need) = "features" THEN Strs(kFeatures) ELSE <<Num(0), Num(0)>>)
  /\ need' = Tail(need)
  /\ UNCHANGED <<command, offline, done, printed, fromDaemon, want, reading, valid, exit, desync>>

\* STDERR_ERROR read to its end, a daemon too old, an unknown message, or the daemon gone
Fails ==
  /\ exit = "none" /\ need # <<>>
  /\ \/ Head(need) = "fail"
     \/ fromDaemon = <<>> /\ want = <<"gone">>
  /\ Exits("failed")
  /\ UNCHANGED <<fromDaemon, want, reading, valid, desync>>

-----------------------------------------------------------------------------
(* The daemon, as this client uses it *)

DaemonAfter(what, u, rest) ==
  CASE what = "strs"   -> Times(u.n, "str") \o rest
    [] what = "frames" -> IF u.n = 0 THEN rest ELSE <<"bytes", "frames">> \o rest
    [] what = "op"     -> IF u.v = "add" THEN <<"str", "str", "strs", "word", "frames">> ELSE <<"word", "str", "str">>
    [] OTHER -> rest

DaemonRead ==
  /\ toDaemon # <<>> /\ want # <<>> /\ want # <<"gone">>
  /\ \E u \in {Head(toDaemon)}, what \in {Head(want)} :
       IF ~Understood(what, u)
       THEN desync' = TRUE /\ want' = <<"gone">> /\ UNCHANGED reading
       ELSE /\ want' = DaemonAfter(what, u, Tail(want))
            /\ reading' = IF what = "op" THEN u.v ELSE reading
            /\ UNCHANGED desync
  /\ toDaemon' = Tail(toDaemon)
  /\ UNCHANGED <<command, offline, done, printed, need, fromDaemon, valid, exit>>

Info(item) == <<Str(item.name), Str("deriver"), Str("hash")>> \o Strs(SetToSeq(item.refs))
              \o <<Word("time"), Word("narsize"), Word("ultimate")>> \o Strs(<<>>) \o <<Str("ca")>>
StderrLast == <<Word("last")>>
Error == <<Word("error"), Str("Error"), Word("level"), Str("name"), Str("message")>>

\* a whole request is read: log traffic, then the answer or an error
DaemonAnswer ==
  /\ want = <<>>
  /\ \/ /\ reading = "hello" /\ \E v \in Versions : fromDaemon' = fromDaemon \o <<Word("magic2"), Num(v)>>
        /\ want' = <<"strs">> /\ reading' = "features" /\ UNCHANGED valid
     \/ /\ reading = "features" /\ fromDaemon' = fromDaemon \o Strs(<<"submit-output">>)
        /\ want' = <<"word", "word">> /\ reading' = "post" /\ UNCHANGED valid
     \/ /\ reading = "post" /\ \E log \in Chatter : fromDaemon' = fromDaemon \o <<Str("2.x"), Word("trust")>> \o log \o StderrLast
        /\ want' = <<"op">> /\ reading' = "idle" /\ UNCHANGED valid
     \/ /\ reading \in {"add", "submit"}
        /\ \E log \in Chatter, item \in {command.items[done]} :
             \/ fromDaemon' = fromDaemon \o log \o Error /\ UNCHANGED valid
             \/ /\ fromDaemon' = fromDaemon \o log \o StderrLast
                                 \o (IF reading = "add" THEN Info(item) ELSE <<Word("done")>>)
                /\ valid' = valid \cup {item}
        /\ want' = <<"op">> /\ reading' = "idle"
  /\ UNCHANGED <<command, offline, done, printed, need, toDaemon, exit, desync>>

\* the daemon dies: what it already sent can still be read
DaemonGone ==
  /\ want # <<"gone">> /\ ~offline /\ exit = "none"
  /\ want' = <<"gone">> /\ \E n \in 0..Len(fromDaemon) : fromDaemon' = SubSeq(fromDaemon, 1, n)
  /\ UNCHANGED <<command, offline, done, printed, need, toDaemon, reading, valid, exit, desync>>

NNext == Proceed \/ Read \/ Greet \/ Fails \/ DaemonRead \/ DaemonAnswer \/ DaemonGone
NSpec == NInit /\ [][NNext]_nvars

(***************************************************************************)
(* Client and daemon stay in step through handshake, log traffic, answers  *)
(* and errors, and the process ends with 0 only when every item was added  *)
(* (or submitted), having printed the path of each in order.  The stray    *)
(* word after an empty frame (nix_store_mode.cc:359) does no harm: only    *)
(* add-text sends one, and the daemon meets it when all is answered.       *)
(***************************************************************************)
InStep ==
  /\ desync => done > 0 /\ command.items[done].size = 0 /\ done = Len(command.items) /\ reading = "idle"
  /\ exit = "ok" =>
       /\ done = Len(command.items)
       /\ \/ command.verb = "submit"
          \/ printed = [i \in DOMAIN command.items |-> command.items[i].name]
       /\ offline \/ ToSet(command.items) \subseteq valid

==============================================================================
