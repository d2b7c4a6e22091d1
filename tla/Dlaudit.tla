------------------------------- MODULE Dlaudit -------------------------------
(***************************************************************************)
(* The rtld-audit module (pkgs/dl/dlaudit/src/dlaudit.cc) that names every *)
(* dlopen which found nothing: one action per callback of the loader.      *)
(***************************************************************************)
EXTENDS Naturals, Sequences

CONSTANTS Names,      \* what a program dlopens by soname
          Own,        \* the names Ignored() skips: with a '/', or glibc's own
          Alias,      \* name -> the names an object opened for it may carry
          MaxLoads    \* bound on the searches of one process

VARIABLES open,       \* g_state.out is a file
          pending,    \* <<soname>> searched and not yet opened, or <<>>
          report,     \* lines of $DLAUDIT_OUT
          asked,      \* ghost: names searched, with whether each was opened
          loader      \* "off", "idle", "search", "done"

avars == <<open, pending, report, asked, loader>>

Ignored(n) == n \in Own

(* Flush(): the pending name was never opened                              *)
Flush ==
  /\ report' = IF pending # <<>> /\ open THEN Append(report, Head(pending)) ELSE report
  /\ pending' = <<>>

AuditInit ==
  /\ open = FALSE /\ pending = <<>> /\ report = <<>> /\ asked = <<>> /\ loader = "off"

(* la_version: $DLAUDIT_OUT is set and can be opened, or not               *)
la_version(o) ==
  /\ loader = "off" /\ loader' = "idle"
  /\ open' = o
  /\ UNCHANGED <<pending, report, asked>>

(* la_objsearch with LA_SER_ORIG: a name as dlopen or DT_NEEDED gave it    *)
la_objsearchDirty(n) ==
  /\ loader = "idle" /\ Len(asked) < MaxLoads /\ loader' = "search"
  /\ pending' = IF Ignored(n) THEN pending ELSE <<n>>
  /\ asked' = Append(asked, [name |-> n, opened |-> FALSE])
  /\ UNCHANGED <<open, report>>

la_objsearch(n) ==
  /\ loader = "idle" /\ Len(asked) < MaxLoads /\ loader' = "search"
  /\ report' = IF pending # <<>> /\ open THEN Append(report, Head(pending)) ELSE report
  /\ pending' = IF Ignored(n) THEN <<>> ELSE <<n>>
  /\ asked' = Append(asked, [name |-> n, opened |-> FALSE])
  /\ UNCHANGED open

(* la_objopen: the object found for the last search, under some alias; the *)
(* callback compares with whatever is pending                              *)
la_objopen(as) ==
  LET last == asked[Len(asked)]
  IN  /\ loader = "search" /\ as \in Alias[last.name] /\ loader' = "idle"
      /\ pending' = IF pending # <<>> /\ as \in Alias[Head(pending)] THEN <<>> ELSE pending
      /\ asked' = [asked EXCEPT ![Len(asked)].opened = TRUE]
      /\ UNCHANGED <<open, report>>

(* external: every directory was tried, the dlopen returns NULL            *)
NotFound == loader = "search" /\ loader' = "idle" /\ UNCHANGED <<open, pending, report, asked>>

la_preinit == loader = "idle" /\ Flush /\ UNCHANGED <<open, asked, loader>>
dlaudit_fini == loader = "idle" /\ loader' = "done" /\ Flush /\ UNCHANGED <<open, asked>>

AuditNext ==
  \/ \E o \in BOOLEAN : la_version(o)
  \/ \E n \in Names : la_objsearch(n) \/ \E as \in Alias[n] : la_objopen(as)
  \/ NotFound \/ la_preinit \/ dlaudit_fini

Missing == SelectSeq(asked, LAMBDA a : ~a.opened /\ ~Ignored(a.name))

(* Once the process has run its destructors, $DLAUDIT_OUT lists exactly    *)
(* the sonames that were searched and never opened, in order: none is lost *)
(* when another search follows, none is reported that a later alias opened.*)
ReportsMissing ==
  loader = "done" /\ open => report = [i \in DOMAIN Missing |-> Missing[i].name]
=============================================================================
