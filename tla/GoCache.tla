------------------------------- MODULE GoCache -------------------------------
(***************************************************************************)
(* gocacheprog (gocache_mode.cc): go build processes that share one cache  *)
(* directory and one jigd.  A session answers go's requests one at a time; *)
(* sessions, evictions, a lost daemon and a killed go build interleave     *)
(* between its calls.  An output id names its body; a body on the wire may *)
(* be torn off by a go build that dies while writing it.                   *)
(***************************************************************************)
EXTENDS TLC

CONSTANTS Sessions, Actions, Outputs, None

VARIABLES session,  \* [pc, action, output, body, live] and the last answer
          disk,     \* GOCACHEPROG_DIR: output -> body (WriteFile renames: always as written)
          actions,  \* jigd's go actions: action -> output id or None
          outputs,  \* jigd's go outputs: output -> body or None
          claimed   \* <<action, output>> pairs go sent with a whole body

gvars == <<session, disk, actions, outputs, claimed>>

Fresh(live) == [pc |-> "idle", action |-> None, output |-> None, body |-> None, live |-> live, answer |-> None]

GStart ==
  /\ disk = [o \in Outputs |-> None] /\ outputs = [o \in Outputs |-> None]
  /\ actions = [a \in Actions |-> None] /\ claimed = {}
GInit == session \in [Sessions -> {Fresh(TRUE), Fresh(FALSE)}] /\ GStart

At(s, pc) == session[s].pc = pc
Goto(s, pc) == session' = [session EXCEPT ![s].pc = pc]
GoAnswer(s, answer) == session' = [session EXCEPT ![s] = [Fresh(@.live) EXCEPT !.answer = answer]]

\* RunGoCacheProg reads a request line: "get", or "put" with the body's line after it.  Request lines
\* are whole: one that lacks its BodySize counts as that of an empty body, whose length is not checked
GoRequest(s) ==
  /\ At(s, "idle")
  /\ \E a \in Actions :
       \/ session' = [session EXCEPT ![s] = [Fresh(@.live) EXCEPT !.pc = "getAction", !.action = a]] /\ UNCHANGED claimed
       \/ \E o \in Outputs, body \in {"whole", "torn"} :
            /\ session' = [session EXCEPT ![s] =
                 [Fresh(@.live) EXCEPT !.pc = "put", !.action = a, !.output = o, !.body = body]]
            /\ claimed' = IF body = "whole" THEN claimed \cup {<<a, o>>} ELSE claimed
  /\ UNCHANGED <<disk, actions, outputs>>

\* HandleGet: the action's output id
GetAction(s) ==
  /\ At(s, "getAction")
  /\ IF session[s].live /\ actions[session[s].action] # None
     THEN session' = [session EXCEPT ![s].pc = "getOutput", ![s].output = actions[session[s].action]]
     ELSE GoAnswer(s, [hit |-> FALSE])
  /\ UNCHANGED <<disk, actions, outputs, claimed>>

\* HandleGet: its body, which may be gone by now
GetOutput(s) ==
  /\ At(s, "getOutput")
  /\ IF session[s].live /\ outputs[session[s].output] # None
     THEN session' = [session EXCEPT ![s].pc = "getFile", ![s].body = outputs[session[s].output]]
     ELSE GoAnswer(s, [hit |-> FALSE])
  /\ UNCHANGED <<disk, actions, outputs, claimed>>

\* WriteFile, whose failure nobody looks at
Written(s) == disk' \in {disk, [disk EXCEPT ![session[s].output] = session[s].body]}

Hit(s) == [hit |-> TRUE, action |-> session[s].action, output |-> session[s].output, size |-> session[s].body]

\* HandleGet: the file, unless some session wrote it before
GetFile(s) ==
  /\ At(s, "getFile")
  /\ IF disk[session[s].output] # None THEN UNCHANGED disk ELSE Written(s)
  /\ GoAnswer(s, Hit(s))
  /\ UNCHANGED <<actions, outputs, claimed>>

\* mutant: the body is stored as it came
GoPutUnchecked(s) ==
  /\ At(s, "put")
  /\ Written(s)
  /\ IF session[s].live THEN Goto(s, "putOutput") ELSE GoAnswer(s, [put |-> TRUE])
  /\ UNCHANGED <<actions, outputs, claimed>>

\* HandlePut: a torn body is refused, a whole one written
GoPut(s) ==
  /\ At(s, "put")
  /\ IF session[s].body = "torn" THEN GoAnswer(s, [err |-> TRUE]) /\ UNCHANGED disk
     ELSE /\ Written(s)
          /\ IF session[s].live THEN Goto(s, "putOutput") ELSE GoAnswer(s, [put |-> TRUE])
  /\ UNCHANGED <<actions, outputs, claimed>>

\* HandlePut: the output before the action that names it; a dead daemon ignores both
PutOutput(s) ==
  /\ At(s, "putOutput")
  /\ outputs' = IF session[s].live THEN [outputs EXCEPT ![session[s].output] = session[s].body] ELSE outputs
  /\ Goto(s, "putAction")
  /\ UNCHANGED <<disk, actions, claimed>>

PutAction(s) ==
  /\ At(s, "putAction")
  /\ actions' = IF session[s].live THEN [actions EXCEPT ![session[s].action] = session[s].output] ELSE actions
  /\ GoAnswer(s, [put |-> TRUE])
  /\ UNCHANGED <<disk, outputs, claimed>>

\* the build is killed; another go build starts a session on the same directory
Killed(s) ==
  /\ \E live \in BOOLEAN : session' = [session EXCEPT ![s] = Fresh(live)] /\ session' # session
  /\ UNCHANGED <<disk, actions, outputs, claimed>>

\* the daemon hangs up on a session, or evicts
Lost(s) ==
  /\ session[s].live /\ session' = [session EXCEPT ![s].live = FALSE]
  /\ UNCHANGED <<disk, actions, outputs, claimed>>
Evicted ==
  /\ \/ \E a \in Actions : actions[a] # None /\ actions' = [actions EXCEPT ![a] = None] /\ UNCHANGED outputs
     \/ \E o \in Outputs : outputs[o] # None /\ outputs' = [outputs EXCEPT ![o] = None] /\ UNCHANGED actions
  /\ UNCHANGED <<session, disk, claimed>>

GNext ==
  \/ \E s \in Sessions : \/ GoRequest(s) \/ GetAction(s) \/ GetOutput(s) \/ GetFile(s)
                         \/ GoPut(s) \/ PutOutput(s) \/ PutAction(s) \/ Killed(s) \/ Lost(s)
  \/ Evicted
GSpec == GInit /\ [][GNext]_gvars

(***************************************************************************)
(* A hit answers an output that go once put for that action with its whole *)
(* body, and the file at its DiskPath, when there is one, holds that body: *)
(* no interleaving of sessions, killed builds and evictions poisons an     *)
(* action for a later build (gocache_mode.cc:142).                         *)
(***************************************************************************)
GoServed ==
  /\ \A s \in Sessions :
       LET r == session[s].answer
       IN r # None /\ "hit" \in DOMAIN r => (r.hit => r.size = "whole" /\ <<r.action, r.output>> \in claimed)
  /\ \A o \in Outputs : disk[o] \in {None, "whole"}

==============================================================================
