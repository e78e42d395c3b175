------------------------------- MODULE ClientApp -------------------------------
(***************************************************************************)
(* The client program: internal/client/app (Runtime: the local server, the  *)
(* configuration it runs and the sync sessions it asks for) under the tray  *)
(* of internal/client/gui, from launch to exit.                             *)
(*                                                                          *)
(* Who runs: main (NewRuntime, Start, the tray's event loop, shutdown), one *)
(* action started from the tray's menu, the goroutine of "Quit ZenHub", the *)
(* goroutine that serves HTTP, and requests.  They meet in the file, the    *)
(* sync state, the installed service, the `busy` flag and `shutdownOnce`.   *)
(*                                                                          *)
(* A sync session reads at its begin and writes at its end, with whatever   *)
(* result the manager can give in between; how it comes to a result is the  *)
(* subject of SyncManager.  So does a switch of the Codex provider, which   *)
(* CodexSwitch follows step by step.  ApplyConfigEdits has no caller in the *)
(* program.                                                                 *)
(***************************************************************************)
EXTENDS Integers

CONSTANTS
  None,
  Content,     \* what a configuration file can hold
  Valid,       \* accepted by File.Runtime, and so by the server's Validate
  Sound,       \* also accepted by router.New and balancer.New
  Gateway,     \* what of each content the gateway is built from: all but the
               \* Codex settings
  Slot,        \* requests to the local server
  MaxLaunches, \* bound: how often the program is launched
  MaxClicks    \* bound: menu clicks per launch

ASSUME ClientAssumption ==
  /\ None \notin Content
  /\ Sound \subseteq Valid /\ Valid \subseteq Content
  /\ \A f \in Content, x \in Content :
       Gateway[f] = Gateway[x] => (f \in Valid <=> x \in Valid) /\ (f \in Sound <=> x \in Sound)
  /\ {MaxLaunches, MaxClicks} \subseteq Nat

VARIABLES
  file,      \* the configuration file
  conflict,  \* the conflict in the sync state file
  launches,
  main,      \* where main is
  service,   \* the configuration of the service installed in serviceHost
  loaded,    \* Runtime.runtimeConfig
  report,    \* Runtime.syncReport.HasConflict
  http,      \* the local server
  requests,  \* the configuration each request in flight is served with
  busy,      \* trayController.busy
  clicks,
  task,      \* the action started from the menu
  quitter,   \* the goroutine of the menu's Quit
  stop       \* the body of shutdownOnce

disk == <<file, conflict, launches>>
running == <<service, loaded>>
tray == <<busy, clicks, task, quitter>>
vars == <<disk, main, running, report, http, requests, tray, stop>>

Dispute == [local : Content, cloud : Content]

\* What the menu starts; "push" is the second session of "sync now".
Kind == {"sync now", "sync providers", "keep local", "keep cloud", "switch codex", "push"}

\* A session: what it read, then what came of it.
Session(pcs) ==
  [pc : pcs, file : Content \cup {None}, conflict : Dispute \cup {None},
   reported : BOOLEAN, ok : BOOLEAN]

Begun(pc) ==
  [pc |-> pc, file |-> None, conflict |-> None, reported |-> FALSE, ok |-> FALSE]

Idle == [kind |-> None, session |-> Begun("none")]
Unstopped == [late |-> FALSE, session |-> Begun("new")]

Init ==
  /\ file \in Sound
  /\ conflict \in {None} \cup {d \in Dispute : d.cloud \in Valid \ {d.local}}
  /\ launches = 0
  /\ main = "off"
  /\ service = None /\ loaded = None
  /\ report = FALSE
  /\ http = "none"
  /\ requests = [s \in Slot |-> None]
  /\ busy = FALSE /\ clicks = 0
  /\ task = Idle
  /\ quitter = "none"
  /\ stop = Unstopped

-------------------------------------------------------------------------------
(* What an action can make of a file f and a stored conflict c.              *)

\* The state is written: the file, the conflict, the report, and whether the
\* session succeeded.
Wrote(f, c, reported, ok) ==
  [file |-> f, written |-> TRUE, conflict |-> c, reported |-> reported, ok |-> ok]

Unwritten(f, reported, ok) ==
  [file |-> f, written |-> FALSE, conflict |-> None, reported |-> reported, ok |-> ok]

\* persistState at the end of a session that went well; it may fail.
Persisted(f, c, reported) ==
  {Wrote(f, c, reported, TRUE), Unwritten(f, reported, FALSE)}

\* withError keeps the stored conflict, but the report is without one.
Failed(f, c) == {Wrote(f, c, FALSE, FALSE), Unwritten(f, FALSE, FALSE)}

\* buildConflictState; the server's snapshot is another one, and valid.
Disputed(local) == {[local |-> local, cloud |-> x] : x \in Valid \ {local}}

Conflicts(f) == UNION {Persisted(f, d, TRUE) : d \in Disputed(f)}

\* ResolveSync: the file's sync is off, or its settings are wrong, and then the
\* state is written anew, without a conflict.
Unconfigured(f) == {Unwritten(f, FALSE, TRUE)} \cup Failed(f, None)

\* A push of f: applied or already synced, a conflict, or an error.
Pushed(f, c) ==
  Failed(f, c) \cup IF f \in Valid THEN Persisted(f, None, FALSE) \cup Conflicts(f) ELSE {}

\* SyncOnShutdown
Pushes(f, c) == Unconfigured(f) \cup Pushed(f, c)

\* SyncBeforeStart: nothing new, the file replaced, a conflict, or an error.
Pulls(f, c) ==
  Unconfigured(f) \cup Failed(f, c) \cup Conflicts(f)
    \cup UNION {Persisted(x, None, FALSE) : x \in Valid \cup {f}}

\* SyncProviders: the file gets the server's providers; the state, and with it
\* a conflict, is left alone.
Providers(f, c) ==
  Unconfigured(f) \cup Failed(f, c) \cup {Unwritten(x, c # None, TRUE) : x \in Valid}

\* resolveWithCloud
CloudKept(f, c) == Persisted(c.cloud, None, FALSE) \cup {Unwritten(f, FALSE, FALSE)}

\* resolveWithLocal: the snapshot kept with the conflict is saved, then pushed;
\* with the sync off or misconfigured, the conflict is dropped all the same.
LocalKept(f, c) ==
  Pushed(c.local, c) \cup Persisted(c.local, None, FALSE) \cup Failed(c.local, None)
    \cup {Unwritten(f, FALSE, FALSE)}

\* SwitchCodexProvider, which saves the file with other Codex settings or fails,
\* and knows nothing of the state.
CodexSwitched(f) ==
  {Unwritten(x, FALSE, TRUE) : x \in {y \in Content : Gateway[y] = Gateway[f]}}
    \cup {Unwritten(f, FALSE, FALSE)}

Results(kind, f, c) ==
  CASE kind = "sync now" -> Pulls(f, c)
    [] kind = "push" -> Pushes(f, c)
    [] kind = "sync providers" -> Providers(f, c)
    [] kind = "keep cloud" -> CloudKept(f, c)
    [] kind = "keep local" -> LocalKept(f, c)
    [] kind = "switch codex" -> CodexSwitched(f)

\* The result is on disk.
Write(outcome) ==
  /\ file' = outcome.file
  /\ conflict' = IF outcome.written THEN outcome.conflict ELSE conflict

-------------------------------------------------------------------------------
(* Launch *)

\* A new process.
Launch ==
  /\ main \in {"off", "failed", "no port", "killed"}
  /\ launches < MaxLaunches
  /\ launches' = launches + 1
  /\ main' = "sync"
  /\ UNCHANGED <<file, conflict, running, report, http, requests, tray, stop>>

\* What SyncBeforeStart hands back: the file, or what was to replace it and
\* could not be saved.
Returned(outcome) ==
  IF outcome.file = file /\ ~outcome.ok /\ ~outcome.reported
    THEN {file} \cup Valid ELSE {outcome.file}

\* What was handed back is run without a look.
Starts_Unchecked(content, ok) == "listen"

\* Sync at startup is best effort; then the configuration decides.
Starts(content, ok) == IF content \in Sound THEN "listen" ELSE "failed"

\* NewRuntime
NewRuntime ==
  /\ main = "sync"
  /\ \E outcome \in Pulls(file, conflict) : \E content \in Returned(outcome) :
       /\ Write(outcome)
       /\ main' = Starts(content, outcome.ok)
       /\ IF main' = "failed"
            THEN UNCHANGED <<running, report>>
            ELSE /\ service' = content
                 /\ loaded' = content
                 /\ report' = outcome.reported
  /\ UNCHANGED <<launches, http, requests, tray, stop>>

\* What a process that ends leaves of its memory.
Gone ==
  /\ service' = None /\ loaded' = None /\ report' = FALSE
  /\ http' = "none"
  /\ requests' = [s \in Slot |-> None]
  /\ busy' = FALSE /\ clicks' = 0
  /\ task' = Idle /\ quitter' = "none" /\ stop' = Unstopped

\* Start, and gui.Run if the port is free.
Start ==
  /\ main = "listen"
  /\ \/ /\ main' = "run"
        /\ http' = "open"
        /\ UNCHANGED <<running, report, requests, tray, stop>>
     \/ /\ main' = "no port"
        /\ Gone
  /\ UNCHANGED disk

-------------------------------------------------------------------------------
(* The local server *)

\* serviceHost.ExecuteChat and StreamChat: a request keeps the service it found.
RequestArrives(s) ==
  /\ http = "open"
  /\ requests[s] = None
  /\ requests' = [requests EXCEPT ![s] = service]
  /\ UNCHANGED <<disk, main, running, report, http, tray, stop>>

RequestEnds(s) ==
  /\ requests[s] # None
  /\ requests' = [requests EXCEPT ![s] = None]
  /\ UNCHANGED <<disk, main, running, report, http, tray, stop>>

\* Serve returns with an error, and its goroutine drops the listener.
ServeFails ==
  /\ http = "open"
  /\ http' = "none"
  /\ UNCHANGED <<disk, main, running, report, requests, tray, stop>>

-------------------------------------------------------------------------------
(* The menu's actions *)

\* Every click goes ahead.
BeginAction_Unguarded == TRUE

\* beginAction
BeginAction == ~busy

Click(kind) ==
  /\ main = "run"
  /\ clicks < MaxClicks
  /\ clicks' = clicks + 1
  /\ IF BeginAction
       THEN /\ busy' = TRUE
            /\ task' = [kind |-> kind, session |-> Begun("begin")]
       ELSE UNCHANGED <<busy, task>>
  /\ UNCHANGED <<disk, main, running, report, http, requests, quitter, stop>>

\* SyncNow is not begun while the last report has a conflict, and without a
\* stored conflict there is nothing to resolve.
Refused(kind) ==
  \/ kind = "sync now" /\ report
  \/ kind \in {"keep local", "keep cloud"} /\ conflict = None

\* The action reaches the manager, which reads file and state; a Codex switch
\* reads the file.
Begin ==
  /\ task.session.pc = "begin"
  /\ task' = [task EXCEPT !.session.pc = IF Refused(task.kind) THEN "end" ELSE "call",
                          !.session.file = file, !.session.conflict = conflict]
  /\ UNCHANGED <<disk, main, running, report, http, requests, busy, clicks, quitter, stop>>

\* There is a result.  A Codex switch is over with it: the service stays.
Reply ==
  /\ task.session.pc = "call"
  /\ \E outcome \in Results(task.kind, task.session.file, task.session.conflict) :
       /\ Write(outcome)
       /\ task' = [task EXCEPT !.session =
            [@ EXCEPT !.pc = IF task.kind = "switch codex" THEN "end" ELSE "report",
                      !.file = outcome.file, !.conflict = None,
                      !.reported = outcome.reported, !.ok = outcome.ok]]
  /\ UNCHANGED <<launches, main, running, report, http, requests, busy, clicks, quitter, stop>>

\* SyncNow: nothing to pull, so the local snapshot is pushed.
NothingNewer ==
  /\ task.session.pc = "call" /\ task.kind = "sync now"
  /\ Write(Wrote(task.session.file, None, FALSE, TRUE))
  /\ task' = [kind |-> "push", session |-> Begun("begin")]
  /\ UNCHANGED <<launches, main, running, report, http, requests, busy, clicks, quitter, stop>>

Resolves(kind) == kind \in {"keep local", "keep cloud"}

\* syncReport is set by SyncNow and SyncProviders at once, whatever it is.
Report ==
  /\ task.session.pc = "report"
  /\ report' = IF Resolves(task.kind) THEN report ELSE task.session.reported
  /\ task' = [task EXCEPT !.session.pc = IF task.session.ok THEN "apply" ELSE "end"]
  /\ UNCHANGED <<disk, main, running, http, requests, busy, clicks, quitter, stop>>

\* The service stays the old one.
Installed_Not(content) == service

\* serviceHost.Replace
Installed(content) == content

\* ResolveSyncConflict takes the report over with the configuration.
ReportNow(session) == IF Resolves(task.kind) THEN session.reported ELSE report

\* File.Runtime and buildProxyRuntime; then the configuration is replaced.
Apply ==
  /\ task.session.pc = "apply"
  /\ IF task.session.file \in Sound
       THEN /\ service' = Installed(task.session.file)
            /\ loaded' = task.session.file
            /\ report' = ReportNow(task.session)
            /\ task' = [task EXCEPT !.session.pc = "end"]
       ELSE /\ task' = [task EXCEPT !.session.pc = "end", !.session.ok = FALSE]
            /\ UNCHANGED <<running, report>>
  /\ UNCHANGED <<disk, main, http, requests, busy, clicks, quitter, stop>>

\* An action that fails returns before its endAction.
EndAction_OnSuccess ==
  /\ task.session.pc = "end" /\ task.session.ok
  /\ busy' = FALSE
  /\ task' = Idle
  /\ UNCHANGED <<disk, main, running, report, http, requests, clicks, quitter, stop>>

\* endAction
EndAction ==
  /\ task.session.pc = "end"
  /\ busy' = FALSE
  /\ task' = Idle
  /\ UNCHANGED <<disk, main, running, report, http, requests, clicks, quitter, stop>>

-------------------------------------------------------------------------------
(* Quitting *)

\* "Quit ZenHub" is an action like the others.
ClickQuit ==
  /\ main = "run"
  /\ clicks < MaxClicks
  /\ clicks' = clicks + 1
  /\ IF BeginAction
       THEN busy' = TRUE /\ quitter' = "stopping"
       ELSE UNCHANGED <<busy, quitter>>
  /\ UNCHANGED <<disk, main, running, report, http, requests, task, stop>>

\* The desktop ends the tray's loop.
OSQuit ==
  /\ main = "run"
  /\ main' = "shutdown"
  /\ UNCHANGED <<disk, running, report, http, requests, tray, stop>>

StopAt(pc) == stop' = [stop EXCEPT !.session.pc = pc]

\* Whoever comes first runs the body of shutdownOnce: Runtime.Shutdown, which
\* stops the server if there is a listener.
Shutdown ==
  /\ stop.session.pc = "new"
  /\ quitter = "stopping" \/ main = "shutdown"
  /\ IF http = "open" THEN http' = "closed" /\ StopAt("drain")
                      ELSE StopAt("read") /\ UNCHANGED http
  /\ UNCHANGED <<disk, main, running, report, requests, tray>>

\* http.Server.Shutdown waits for the requests ...
Drained ==
  /\ stop.session.pc = "drain"
  /\ \A s \in Slot : requests[s] = None
  /\ StopAt("read")
  /\ UNCHANGED <<disk, main, running, report, http, requests, tray>>

\* The context has no deadline.
Overdue_Never == FALSE /\ UNCHANGED vars

\* ... until trayShutdownTimeout, which is the sync's as well.
Overdue ==
  /\ stop.session.pc = "drain"
  /\ stop' = [stop EXCEPT !.late = TRUE, !.session.pc = "read"]
  /\ UNCHANGED <<disk, main, running, report, http, requests, tray>>

\* SyncOnShutdown begins ...
BeginPush ==
  /\ stop.session.pc = "read"
  /\ stop' = [stop EXCEPT !.session =
       [@ EXCEPT !.pc = "push", !.file = file, !.conflict = conflict]]
  /\ UNCHANGED <<disk, main, running, report, http, requests, tray>>

\* ... and has a result; it leaves the file alone.
EndPush ==
  /\ stop.session.pc = "push"
  /\ LET f == stop.session.file
         c == stop.session.conflict
     IN \E outcome \in IF stop.late THEN Unconfigured(f) \cup Failed(f, c)
                                    ELSE Pushes(f, c) :
          /\ conflict' = IF outcome.written THEN outcome.conflict ELSE conflict
          /\ stop' = [stop EXCEPT !.session =
               [@ EXCEPT !.pc = "report", !.file = None, !.conflict = None,
                         !.reported = outcome.reported,
                         !.ok = outcome.ok /\ ~stop.late]]
  /\ UNCHANGED <<file, launches, main, running, report, http, requests, tray>>

ReportPush ==
  /\ stop.session.pc = "report"
  /\ report' = stop.session.reported
  /\ StopAt("done")
  /\ UNCHANGED <<disk, main, running, http, requests, tray>>

\* Only the first caller of shutdown waits.
ShutdownReturns_Once == stop.session.pc # "new"

\* sync.Once.Do returns, to every caller, after its body has.
ShutdownReturns == stop.session.pc = "done"

\* The menu's Quit ends the action if the shutdown failed ...
QuitEnds ==
  /\ quitter = "stopping"
  /\ ShutdownReturns
  /\ quitter' = "quits"
  /\ busy' = (busy /\ stop.session.ok)
  /\ UNCHANGED <<disk, main, running, report, http, requests, clicks, task, stop>>

\* ... and then the tray's loop.
Quit ==
  /\ quitter = "quits"
  /\ quitter' = "gone"
  /\ main' = IF main = "run" THEN "shutdown" ELSE main
  /\ UNCHANGED <<disk, running, report, http, requests, busy, clicks, task, stop>>

\* runTray's own shutdown has returned: the process ends, with all in it.
Exit ==
  /\ main = "shutdown"
  /\ ShutdownReturns
  /\ main' = "off"
  /\ Gone
  /\ UNCHANGED disk

Kill ==
  /\ main \in {"sync", "listen", "run", "shutdown"}
  /\ main' = "killed"
  /\ Gone
  /\ UNCHANGED disk

\* The user edits the file, while no session uses it (SyncManager lets him).
Edit ==
  /\ main # "sync" /\ task.session.pc = "none" /\ stop.session.pc \notin {"push", "report"}
  /\ file' \in Content \ {file}
  /\ UNCHANGED <<conflict, launches, main, running, report, http, requests, tray, stop>>

-------------------------------------------------------------------------------
Serving ==
  \/ ServeFails
  \/ \E s \in Slot : RequestArrives(s) \/ RequestEnds(s)

Acting == Begin \/ Reply \/ NothingNewer \/ Report \/ Apply \/ EndAction

Stopping ==
  Shutdown \/ Drained \/ Overdue \/ BeginPush \/ EndPush \/ ReportPush \/ QuitEnds \/ Quit

Next ==
  \/ Launch \/ NewRuntime \/ Start
  \/ Serving
  \/ \E kind \in Kind \ {"push"} : Click(kind)
  \/ Acting
  \/ ClickQuit \/ OSQuit \/ Stopping \/ Exit \/ Kill
  \/ Edit

Spec == Init /\ [][Next]_vars

\* Actions and shutdown run in goroutines with timeouts of their own; a Codex
\* switch calls nothing but the file system.
FairSpec == Spec /\ WF_vars(Acting) /\ WF_vars(Stopping) /\ WF_vars(Exit)

-------------------------------------------------------------------------------
(* Properties *)

TypeOK ==
  /\ file \in Content
  /\ conflict \in Dispute \cup {None}
  /\ launches \in 0 .. MaxLaunches
  /\ main \in {"off", "sync", "failed", "listen", "no port", "run", "shutdown", "killed"}
  /\ {service, loaded} \subseteq Sound \cup {None}
  /\ {report, busy} \subseteq BOOLEAN
  /\ http \in {"none", "open", "closed"}
  /\ requests \in [Slot -> Sound \cup {None}]
  /\ clicks \in 0 .. MaxClicks
  /\ task \in [kind : Kind \cup {None},
               session : Session({"none", "begin", "call", "report", "apply", "end"})]
  /\ quitter \in {"none", "stopping", "quits", "gone"}
  /\ stop \in [late : BOOLEAN,
               session : Session({"new", "drain", "read", "push", "report", "done"})]

(***************************************************************************)
(* An action of the sync that says it is completed has put to work what is *)
(* in the file then: the service that answers requests, the configuration  *)
(* that the views show and the file agree, whatever failed before.  Not so *)
(* a Codex switch: it says it is completed once the file is saved, and     *)
(* what the user or an action that failed had put there is not put to work *)
(* by it (runtime.go:507-521 replaces no service).                         *)
(***************************************************************************)
CompletedIsRunning ==
  task.session.pc = "end" /\ task.session.ok /\ task.kind # "switch codex"
    => service = file /\ loaded = file

(***************************************************************************)
(* While the menu is there, a conflict that is stored offers two real      *)
(* choices: its local side is what the file holds when it is stored, not   *)
(* what the exit's session read before an action replaced it.              *)
(***************************************************************************)
OfferedLocalIsLocal ==
  [][main = "run" /\ conflict' \notin {None, conflict}
       => conflict'.local = file']_vars

(***************************************************************************)
(* The process ends in order, by whichever way it was asked to: the server *)
(* has stopped, the shutdown's session is over, and a request is cut off   *)
(* only when the time was up or the server had failed before.              *)
(***************************************************************************)
LeavesInOrder ==
  [][main = "shutdown" /\ main' = "off" =>
       /\ http # "open"
       /\ stop.session.pc = "done"
       /\ stop.late \/ http = "none" \/ \A s \in Slot : requests[s] = None]_vars

(***************************************************************************)
(* Whatever the network does, an action that runs is over at some time, or *)
(* the process is: the menu does not stay dead.                            *)
(***************************************************************************)
ActionsEnd == busy ~> ~busy

(***************************************************************************)
(* A shutdown that was begun, from the menu or by the desktop, ends the    *)
(* process: nobody waits for somebody who waits for him.                   *)
(***************************************************************************)
LeavingEnds ==
  quitter = "stopping" \/ main = "shutdown" ~> main \in {"off", "killed"}
===============================================================================
