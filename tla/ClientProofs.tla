------------------------------ MODULE ClientProofs ------------------------------
(***************************************************************************)
(* Proofs about ClientApp, for any configurations, requests and numbers of  *)
(* launches and clicks.                                                     *)
(***************************************************************************)
EXTENDS ClientApp, TLAPS

\* A program that does not run has nothing in flight.
AtRest ==
  main \notin {"run", "shutdown"} =>
    /\ ~busy /\ task = Idle /\ quitter = "none" /\ stop = Unstopped
    /\ http = "none"
    /\ \A s \in Slot : requests[s] = None

\* The busy flag admits one action or one Quit, and while the tray's loop
\* runs only that Quit can be in the middle of the shutdown.
OneAtATime ==
  /\ task.session.pc # "none" => busy
  /\ quitter = "stopping" => busy /\ task.session.pc = "none"
  /\ main = "run" /\ stop.session.pc \notin {"new", "done"} => quitter = "stopping"

\* What an action has in hand is what the disk holds, up to what is put to work.
ActionInHand ==
  LET me == task.session IN
  /\ me.pc # "none" => task.kind \in Kind
  /\ me.pc \in {"begin", "call"} => ~me.ok
  /\ me.pc = "call" =>
       /\ me.file = file
       /\ main = "run" => me.conflict = conflict
       /\ Resolves(task.kind) => me.conflict # None
  /\ me.pc \in {"report", "apply"} => me.file = file
  /\ me.pc = "end" /\ me.ok /\ task.kind # "switch codex" => service = file /\ loaded = file

\* The same of the shutdown's push, as long as the menu is there.
PushInHand ==
  stop.session.pc = "push" =>
    /\ stop.session.file \in Content
    /\ main = "run" => stop.session.file = file /\ stop.session.conflict = conflict

\* The server is closed to new requests first, and then waited for.
Draining ==
  /\ stop.session.pc = "new" => http # "closed"
  /\ stop.session.pc # "new" => http # "open"
  /\ stop.session.pc \in {"read", "push", "report", "done"} =>
       stop.late \/ http = "none" \/ \A s \in Slot : requests[s] = None

\* The types of task and stop.
Doing == {"none", "begin", "call", "report", "apply", "end"}
Ending == {"new", "drain", "read", "push", "report", "done"}
Tasks == [kind : Kind \cup {None}, session : Session(Doing)]
Stops == [late : BOOLEAN, session : Session(Ending)]

IInv == TypeOK /\ AtRest /\ OneAtATime /\ ActionInHand /\ PushInHand /\ Draining

-------------------------------------------------------------------------------
(* Results of the sync manager *)

\* What a session that read conflict c can leave behind: a conflict that is
\* new has for its local side what the file then holds.
Honest(outcome, c) ==
  /\ outcome.file \in Content
  /\ outcome.reported \in BOOLEAN /\ outcome.ok \in BOOLEAN
  /\ outcome.written => outcome.conflict \in Dispute \cup {None}
  /\ outcome.written /\ outcome.conflict \notin {None, c} =>
       outcome.conflict.local = outcome.file

LEMMA UnwrittenIsHonest ==
  ASSUME NEW f \in Content, NEW c, NEW reported \in BOOLEAN, NEW ok \in BOOLEAN
  PROVE  Honest(Unwritten(f, reported, ok), c)
  BY DEF Honest, Unwritten

LEMMA WroteIsHonest ==
  ASSUME NEW f \in Content, NEW c, NEW d \in Dispute \cup {None},
         NEW reported \in BOOLEAN, NEW ok \in BOOLEAN,
         d \notin {None, c} => d.local = f
  PROVE  Honest(Wrote(f, d, reported, ok), c)
  BY DEF Honest, Wrote

LEMMA PersistedIsHonest ==
  ASSUME NEW f \in Content, NEW c, NEW reported \in BOOLEAN,
         NEW d \in Dispute \cup {None}, d # None => d.local = f,
         NEW outcome \in Persisted(f, d, reported)
  PROVE  Honest(outcome, c)
<1>1. CASE outcome = Wrote(f, d, reported, TRUE)
  BY <1>1, WroteIsHonest
<1>2. CASE outcome = Unwritten(f, reported, FALSE)
  BY <1>2, UnwrittenIsHonest
<1> QED
  BY <1>1, <1>2 DEF Persisted

LEMMA FailedIsHonest ==
  ASSUME NEW f \in Content, NEW c \in Dispute \cup {None},
         NEW d \in {c, None}, NEW outcome \in Failed(f, d)
  PROVE  Honest(outcome, c)
<1>1. CASE outcome = Wrote(f, d, FALSE, FALSE)
  BY <1>1, WroteIsHonest
<1>2. CASE outcome = Unwritten(f, FALSE, FALSE)
  BY <1>2, UnwrittenIsHonest
<1> QED
  BY <1>1, <1>2 DEF Failed

LEMMA ConflictsAreHonest ==
  ASSUME NEW f \in Content, NEW c, NEW outcome \in Conflicts(f)
  PROVE  Honest(outcome, c)
<1>1. PICK d \in Disputed(f) : outcome \in Persisted(f, d, TRUE)
  BY DEF Conflicts
<1>2. d \in Dispute /\ d.local = f
  BY ClientAssumption DEF Disputed, Dispute
<1> QED
  BY <1>1, <1>2, PersistedIsHonest

LEMMA UnconfiguredIsHonest ==
  ASSUME NEW f \in Content, NEW c \in Dispute \cup {None},
         NEW outcome \in Unconfigured(f)
  PROVE  Honest(outcome, c)
  BY UnwrittenIsHonest, FailedIsHonest DEF Unconfigured

LEMMA PushedIsHonest ==
  ASSUME NEW f \in Content, NEW c \in Dispute \cup {None},
         NEW outcome \in Pushed(f, c)
  PROVE  Honest(outcome, c)
<1>1. CASE outcome \in Failed(f, c)  BY <1>1, FailedIsHonest
<1>2. CASE outcome \in Persisted(f, None, FALSE)  BY <1>2, PersistedIsHonest
<1>3. CASE outcome \in Conflicts(f)  BY <1>3, ConflictsAreHonest
<1> QED
  BY <1>1, <1>2, <1>3 DEF Pushed

LEMMA PushesAreHonest ==
  ASSUME NEW f \in Content, NEW c \in Dispute \cup {None},
         NEW outcome \in Pushes(f, c)
  PROVE  Honest(outcome, c)
  BY UnconfiguredIsHonest, PushedIsHonest DEF Pushes

LEMMA PullsAreHonest ==
  ASSUME NEW f \in Content, NEW c \in Dispute \cup {None},
         NEW outcome \in Pulls(f, c)
  PROVE  Honest(outcome, c)
<1>1. CASE outcome \in Unconfigured(f)  BY <1>1, UnconfiguredIsHonest
<1>2. CASE outcome \in Failed(f, c)  BY <1>2, FailedIsHonest
<1>3. CASE outcome \in Conflicts(f)  BY <1>3, ConflictsAreHonest
<1>4. ASSUME NEW x \in Valid \cup {f}, outcome \in Persisted(x, None, FALSE)
      PROVE  Honest(outcome, c)
  BY <1>4, ClientAssumption, PersistedIsHonest
<1> QED
  BY <1>1, <1>2, <1>3, <1>4 DEF Pulls

LEMMA ProvidersAreHonest ==
  ASSUME NEW f \in Content, NEW c \in Dispute \cup {None},
         NEW outcome \in Providers(f, c)
  PROVE  Honest(outcome, c)
<1>1. CASE outcome \in Unconfigured(f)  BY <1>1, UnconfiguredIsHonest
<1>2. CASE outcome \in Failed(f, c)  BY <1>2, FailedIsHonest
<1>3. ASSUME NEW x \in Valid, outcome = Unwritten(x, c # None, TRUE)
      PROVE  Honest(outcome, c)
  BY <1>3, ClientAssumption, UnwrittenIsHonest
<1> QED
  BY <1>1, <1>2, <1>3 DEF Providers

LEMMA CloudKeptIsHonest ==
  ASSUME NEW f \in Content, NEW c \in Dispute, NEW outcome \in CloudKept(f, c)
  PROVE  Honest(outcome, c)
<1>1. c.cloud \in Content
  BY DEF Dispute
<1> QED
  BY <1>1, PersistedIsHonest, UnwrittenIsHonest DEF CloudKept

\* Keeping the local side pushes the snapshot kept with the conflict, which is
\* in the file by then.
LEMMA LocalKeptIsHonest ==
  ASSUME NEW f \in Content, NEW c \in Dispute, NEW outcome \in LocalKept(f, c)
  PROVE  Honest(outcome, c)
<1>1. c.local \in Content
  BY DEF Dispute
<1>2. CASE outcome \in Pushed(c.local, c)  BY <1>1, <1>2, PushedIsHonest
<1>3. CASE outcome \in Persisted(c.local, None, FALSE)
  BY <1>1, <1>3, PersistedIsHonest
<1>4. CASE outcome \in Failed(c.local, None)  BY <1>1, <1>4, FailedIsHonest
<1>5. CASE outcome = Unwritten(f, FALSE, FALSE)  BY <1>5, UnwrittenIsHonest
<1> QED
  BY <1>2, <1>3, <1>4, <1>5 DEF LocalKept

LEMMA CodexSwitchedIsHonest ==
  ASSUME NEW f \in Content, NEW c, NEW outcome \in CodexSwitched(f)
  PROVE  Honest(outcome, c)
  BY UnwrittenIsHonest DEF CodexSwitched

LEMMA ResultsAreHonest ==
  ASSUME NEW kind \in Kind, NEW f \in Content, NEW c \in Dispute \cup {None},
         Resolves(kind) => c # None, NEW outcome \in Results(kind, f, c)
  PROVE  Honest(outcome, c)
<1>1. CASE kind = "sync now"  BY <1>1, PullsAreHonest DEF Results
<1>2. CASE kind = "push"  BY <1>2, PushesAreHonest DEF Results
<1>3. CASE kind = "sync providers"  BY <1>3, ProvidersAreHonest DEF Results
<1>4. CASE kind = "keep cloud"
  BY <1>4, CloudKeptIsHonest DEF Results, Resolves
<1>5. CASE kind = "keep local"
  BY <1>5, LocalKeptIsHonest DEF Results, Resolves
<1>6. CASE kind = "switch codex"
  BY <1>6, CodexSwitchedIsHonest DEF Results
<1> QED
  BY <1>1, <1>2, <1>3, <1>4, <1>5, <1>6 DEF Kind

\* An honest result on disk.
LEMMA WriteTypes ==
  ASSUME TypeOK, NEW c \in Dispute \cup {None}, NEW outcome,
         Honest(outcome, c), Write(outcome)
  PROVE  /\ file' = outcome.file /\ file' \in Content
         /\ conflict' \in Dispute \cup {None}
         /\ conflict' \notin {None, c, conflict} => conflict'.local = file'
  BY DEF TypeOK, Honest, Write

-------------------------------------------------------------------------------
(* Types *)

LEMMA SessionTypes ==
  ASSUME TypeOK
  PROVE  /\ task \in Tasks /\ task.session \in Session(Doing)
         /\ stop \in Stops /\ stop.session \in Session(Ending)
  BY DEF TypeOK, Tasks, Stops, Doing, Ending

LEMMA BegunTypes ==
  /\ Begun("none") \in Session(Doing) /\ Begun("begin") \in Session(Doing)
  /\ Begun("new") \in Session(Ending)
  BY DEF Begun, Session, Doing, Ending

\* A session goes on: its place changes, or all of it.
LEMMA GoesOn ==
  ASSUME TypeOK
  PROVE  /\ \A pc \in Doing : [task EXCEPT !.session.pc = pc] \in Tasks
         /\ \A pc \in Ending : [stop EXCEPT !.session.pc = pc] \in Stops
         /\ \A me \in Session(Doing) : [task EXCEPT !.session = me] \in Tasks
         /\ \A me \in Session(Ending) : [stop EXCEPT !.session = me] \in Stops
<1>1. task \in Tasks /\ stop \in Stops
  BY SessionTypes
<1>2. ASSUME NEW pc \in Doing PROVE [task EXCEPT !.session.pc = pc] \in Tasks
  BY <1>1, <1>2 DEF Tasks, Session
<1>3. ASSUME NEW pc \in Ending PROVE [stop EXCEPT !.session.pc = pc] \in Stops
  BY <1>1, <1>3 DEF Stops, Session
<1> QED
  BY <1>1, <1>2, <1>3 DEF Tasks, Stops

LEMMA InitIInv == Init => IInv
<1> SUFFICES ASSUME Init PROVE IInv
  OBVIOUS
<1>1. /\ file \in Content /\ conflict \in Dispute \cup {None}
      /\ launches \in 0 .. MaxLaunches /\ clicks \in 0 .. MaxClicks
  BY ClientAssumption DEF Init
<1>2. task \in Tasks /\ stop \in Stops
  BY BegunTypes DEF Init, Idle, Unstopped, Tasks, Stops
<1>3. TypeOK
  BY <1>1, <1>2 DEF Init, TypeOK, Tasks, Stops, Doing, Ending
<1>4. AtRest /\ OneAtATime
  BY DEF Init, AtRest, OneAtATime, Idle, Unstopped, Begun
<1>5. ActionInHand /\ PushInHand /\ Draining
  BY DEF Init, ActionInHand, PushInHand, Draining, Idle, Unstopped, Begun
<1> QED
  BY <1>3, <1>4, <1>5 DEF IInv

\* The memory of a process that ended.
LEMMA GoneTypes ==
  ASSUME Gone
  PROVE  /\ {service', loaded'} \subseteq Sound \cup {None}
         /\ {report', busy'} \subseteq BOOLEAN
         /\ http' \in {"none", "open", "closed"}
         /\ requests' \in [Slot -> Sound \cup {None}]
         /\ clicks' \in 0 .. MaxClicks
         /\ task' \in Tasks /\ stop' \in Stops
         /\ quitter' \in {"none", "stopping", "quits", "gone"}
<1>1. 0 \in 0 .. MaxClicks
  BY ClientAssumption
<1> QED
  BY <1>1, BegunTypes DEF Gone, Idle, Unstopped, Tasks, Stops

LEMMA ReplyIsHonest ==
  ASSUME TypeOK, ActionInHand, task.session.pc = "call",
         NEW outcome \in Results(task.kind, task.session.file, task.session.conflict)
  PROVE  Honest(outcome, task.session.conflict)
<1>1. /\ task.kind \in Kind
      /\ task.session.file \in Content
      /\ task.session.conflict \in Dispute \cup {None}
      /\ Resolves(task.kind) => task.session.conflict # None
  BY DEF TypeOK, ActionInHand, Session
<1> QED
  BY <1>1, ResultsAreHonest

\* A push leaves the file alone, whatever its result.
LEMMA PushesKeepFile ==
  ASSUME NEW f, NEW c, NEW outcome \in Pushes(f, c)
  PROVE  outcome.file = f
<1>1. \A d, reported, ok : Wrote(f, d, reported, ok).file = f
                           /\ Unwritten(f, reported, ok).file = f
  BY DEF Wrote, Unwritten
<1>2. \A d, reported : \A o \in Persisted(f, d, reported) : o.file = f
  BY <1>1 DEF Persisted
<1>3. \A d : \A o \in Failed(f, d) : o.file = f
  BY <1>1 DEF Failed
<1>4. \A o \in Unconfigured(f) : o.file = f
  BY <1>1, <1>3 DEF Unconfigured
<1>5. \A o \in Conflicts(f) : o.file = f
  BY <1>2 DEF Conflicts
<1> QED
  BY <1>2, <1>3, <1>4, <1>5 DEF Pushes, Pushed

\* A result of the shutdown's push, of one that is late as well.
LEMMA PushEnds ==
  ASSUME TypeOK, PushInHand, EndPush
  PROVE  \E outcome :
           /\ Honest(outcome, stop.session.conflict)
           /\ outcome.file = stop.session.file
           /\ conflict' = IF outcome.written THEN outcome.conflict ELSE conflict
           /\ stop' = [stop EXCEPT !.session =
                [@ EXCEPT !.pc = "report", !.file = None, !.conflict = None,
                          !.reported = outcome.reported,
                          !.ok = outcome.ok /\ ~stop.late]]
<1>1. /\ stop.session.file \in Content
      /\ stop.session.conflict \in Dispute \cup {None}
  BY DEF TypeOK, PushInHand, EndPush, Session
<1>2. Unconfigured(stop.session.file)
        \cup Failed(stop.session.file, stop.session.conflict)
          \subseteq Pushes(stop.session.file, stop.session.conflict)
  BY DEF Pushes, Pushed
<1>3. PICK outcome \in Pushes(stop.session.file, stop.session.conflict) :
        /\ conflict' = IF outcome.written THEN outcome.conflict ELSE conflict
        /\ stop' = [stop EXCEPT !.session =
             [@ EXCEPT !.pc = "report", !.file = None, !.conflict = None,
                       !.reported = outcome.reported,
                       !.ok = outcome.ok /\ ~stop.late]]
  BY <1>2 DEF EndPush
<1> QED
  BY <1>1, <1>3, PushesAreHonest, PushesKeepFile

LEMMA EndPushGoesOn ==
  ASSUME TypeOK, EndPush
  PROVE  stop'.session.pc = "report" /\ stop'.late = stop.late
<1>1. PICK reported, ok : stop' = [stop EXCEPT !.session =
             [@ EXCEPT !.pc = "report", !.file = None, !.conflict = None,
                       !.reported = reported, !.ok = ok]]
  BY DEF EndPush
<1> QED
  BY <1>1, SessionTypes DEF Stops, Session

\* Before the tray runs and after the process has ended.
LEMMA NothingYet ==
  /\ AtRest /\ main \notin {"run", "shutdown"} => task = Idle /\ stop = Unstopped
  /\ Gone => task' = Idle /\ stop' = Unstopped
  /\ Idle.session = Begun("none") /\ Unstopped.session = Begun("new")
  /\ \A pc : Begun(pc).pc = pc /\ Begun(pc).ok = FALSE
  BY DEF AtRest, Gone, Idle, Unstopped, Begun

LEMMA StartOrEnd ==
  ASSUME AtRest, Start \/ Exit \/ Kill
  PROVE  task' = Idle /\ stop' = Unstopped
<1>1. CASE Start
  <2>1. /\ task = Idle /\ stop = Unstopped
        /\ UNCHANGED <<task, stop>> \/ Gone
    BY <1>1, NothingYet DEF Start, tray
  <2> QED
    BY <2>1, NothingYet
<1> QED
  BY <1>1, NothingYet DEF Exit, Kill

LEMMA TypeOKStep ==
  ASSUME TypeOK, ActionInHand, PushInHand, [Next]_vars
  PROVE  TypeOK'
<1> USE DEF TypeOK, disk, running, tray
<1>1. CASE Launch
  <2>1. launches \in 0 .. MaxLaunches /\ launches < MaxLaunches
        /\ launches' = launches + 1
    BY <1>1 DEF Launch
  <2>2. MaxLaunches \in Nat
    BY ClientAssumption
  <2>3. launches' \in 0 .. MaxLaunches
    BY ONLY <2>1, <2>2
  <2> QED
    BY <1>1, <2>3 DEF Launch
<1>2. CASE NewRuntime
  <2> DEFINE Pulled(outcome, content) ==
          /\ Write(outcome)
          /\ main' = Starts(content, outcome.ok)
          /\ IF main' = "failed"
               THEN UNCHANGED <<running, report>>
               ELSE service' = content /\ loaded' = content
                      /\ report' = outcome.reported
  <2>0. PICK outcome \in Pulls(file, conflict) :
          \E content \in Returned(outcome) : Pulled(outcome, content)
    BY <1>2 DEF NewRuntime
  <2>1. PICK content \in Returned(outcome) : Pulled(outcome, content)
    BY <2>0
  <2>2. Honest(outcome, conflict)
    BY <2>1, PullsAreHonest
  <2>3. file' \in Content /\ conflict' \in Dispute \cup {None}
    BY <2>1, <2>2, WriteTypes
  <2>4. /\ main' \in {"listen", "failed"}
        /\ {service', loaded'} \subseteq Sound \cup {None} /\ report' \in BOOLEAN
    BY <2>1, <2>2 DEF Starts, Honest
  <2> QED
    BY <1>2, <2>3, <2>4 DEF NewRuntime
<1>3. CASE Start
  BY <1>3, GoneTypes DEF Start, Tasks, Stops, Doing, Ending
<1>4. CASE ServeFails  BY <1>4 DEF ServeFails
<1>5. ASSUME NEW s \in Slot, RequestArrives(s) PROVE TypeOK'
  BY <1>5 DEF RequestArrives
<1>6. ASSUME NEW s \in Slot, RequestEnds(s) PROVE TypeOK'
  BY <1>6 DEF RequestEnds
<1>7. ASSUME NEW kind \in Kind, Click(kind) PROVE TypeOK'
  <2>1. clicks' \in 0 .. MaxClicks
    BY <1>7, ClientAssumption DEF Click
  <2>2. task' \in Tasks
    BY <1>7, BegunTypes, SessionTypes DEF Click, Tasks
  <2> QED
    BY <1>7, <2>1, <2>2 DEF Click, Tasks, Doing
<1>8. CASE Begin
  <2> DEFINE me == [task.session EXCEPT
               !.pc = IF Refused(task.kind) THEN "end" ELSE "call",
               !.file = file, !.conflict = conflict]
  <2>1. me \in Session(Doing)
    BY SessionTypes DEF Session, Doing
  <2>2. task' = [task EXCEPT !.session = me]
    BY <1>8, SessionTypes DEF Begin, Tasks, Session
  <2>3. task' \in Tasks
    BY <2>1, <2>2, GoesOn
  <2> QED
    BY <1>8, <2>3 DEF Begin, Tasks, Doing
<1>9. CASE Reply
  <2>1. PICK outcome \in Results(task.kind, task.session.file, task.session.conflict) :
          /\ Write(outcome)
          /\ task' = [task EXCEPT !.session =
               [@ EXCEPT !.pc = IF task.kind = "switch codex" THEN "end" ELSE "report",
                         !.file = outcome.file, !.conflict = None,
                         !.reported = outcome.reported, !.ok = outcome.ok]]
    BY <1>9 DEF Reply
  <2>2. Honest(outcome, task.session.conflict)
    BY <1>9, <2>1, ReplyIsHonest DEF Reply
  <2>3. file' \in Content /\ conflict' \in Dispute \cup {None}
    BY <2>1, <2>2, WriteTypes DEF Session
  <2>4. task' \in Tasks
    BY <2>1, <2>2, SessionTypes DEF Honest, Session, Tasks, Doing
  <2> QED
    BY <1>9, <2>3, <2>4 DEF Reply, Tasks, Doing
<1>10. CASE NothingNewer
  <2>1. task' \in Tasks
    BY <1>10, BegunTypes DEF NothingNewer, Tasks, Kind
  <2>2. task.session.file \in Content
    BY <1>10 DEF NothingNewer, ActionInHand
  <2> QED
    BY <1>10, <2>1, <2>2 DEF NothingNewer, Write, Wrote, Tasks, Doing
<1>11. CASE Report
  <2>1. task' \in Tasks
    BY <1>11, GoesOn DEF Report, Doing
  <2>2. report' \in BOOLEAN
    BY <1>11, SessionTypes DEF Report, Session
  <2> QED
    BY <1>11, <2>1, <2>2 DEF Report, Tasks, Doing
<1>12. CASE Apply
  <2> SUFFICES /\ task' \in Tasks
               /\ report' \in BOOLEAN
               /\ {service', loaded'} \subseteq Sound \cup {None}
    BY <1>12 DEF Apply, Tasks, Doing
  <2>1. CASE task.session.file \in Sound
    <3>1. task' = [task EXCEPT !.session.pc = "end"]
      BY <1>12, <2>1 DEF Apply
    <3>2. task' \in Tasks
      BY <3>1, GoesOn DEF Doing
    <3>3. report' \in BOOLEAN
      BY <1>12, <2>1, SessionTypes DEF Apply, ReportNow, Session
    <3> QED
      BY <1>12, <2>1, <3>2, <3>3 DEF Apply, Installed
  <2>2. CASE task.session.file \notin Sound
    <3> DEFINE me == [task.session EXCEPT !.pc = "end", !.ok = FALSE]
    <3>1. me \in Session(Doing)
      BY SessionTypes DEF Session, Doing
    <3>2. task' = [task EXCEPT !.session = me]
      BY <1>12, <2>2, SessionTypes DEF Apply, Tasks, Session
    <3>3. task' \in Tasks
      BY <3>1, <3>2, GoesOn
    <3> QED
      BY <1>12, <2>2, <3>3 DEF Apply
  <2> QED
    BY <2>1, <2>2
<1>13. CASE EndAction
  <2>1. task' \in Tasks
    BY <1>13, BegunTypes DEF EndAction, Idle, Tasks
  <2> QED
    BY <1>13, <2>1 DEF EndAction, Tasks, Doing
<1>14. CASE ClickQuit
  <2>1. clicks' \in 0 .. MaxClicks
    BY <1>14, ClientAssumption DEF ClickQuit
  <2> QED
    BY <1>14, <2>1 DEF ClickQuit
<1>15. CASE OSQuit  BY <1>15 DEF OSQuit
<1>16. CASE Shutdown
  <2>1. stop' \in Stops
    BY <1>16, GoesOn DEF Shutdown, StopAt, Ending
  <2> QED
    BY <1>16, <2>1 DEF Shutdown, Stops, Ending
<1>17. CASE Drained
  <2>1. stop' \in Stops
    BY <1>17, GoesOn DEF Drained, StopAt, Ending
  <2> QED
    BY <1>17, <2>1 DEF Drained, Stops, Ending
<1>18. CASE Overdue
  <2>1. stop' \in Stops
    BY <1>18, SessionTypes DEF Overdue, Stops, Session, Ending
  <2> QED
    BY <1>18, <2>1 DEF Overdue, Stops, Ending
<1>19. CASE BeginPush
  <2>1. stop' \in Stops
    BY <1>19, SessionTypes DEF BeginPush, Stops, Session, Ending
  <2> QED
    BY <1>19, <2>1 DEF BeginPush, Stops, Ending
<1>20. CASE EndPush
  <2>1. PICK outcome :
          /\ Honest(outcome, stop.session.conflict)
          /\ conflict' = IF outcome.written THEN outcome.conflict ELSE conflict
          /\ stop' = [stop EXCEPT !.session =
               [@ EXCEPT !.pc = "report", !.file = None, !.conflict = None,
                         !.reported = outcome.reported,
                         !.ok = outcome.ok /\ ~stop.late]]
    BY <1>20, PushEnds
  <2>2. conflict' \in Dispute \cup {None}
    BY <2>1 DEF Honest
  <2>3. stop' \in Stops
    BY <2>1, SessionTypes DEF Honest, Stops, Session, Ending
  <2> QED
    BY <1>20, <2>2, <2>3 DEF EndPush, Stops, Ending
<1>21. CASE ReportPush
  <2>1. stop' \in Stops
    BY <1>21, GoesOn DEF ReportPush, StopAt, Ending
  <2>2. report' \in BOOLEAN
    BY <1>21, SessionTypes DEF ReportPush, Session
  <2> QED
    BY <1>21, <2>1, <2>2 DEF ReportPush, Stops, Ending
<1>22. CASE QuitEnds  BY <1>22 DEF QuitEnds
<1>23. CASE Quit  BY <1>23 DEF Quit
<1>24. CASE Exit
  BY <1>24, GoneTypes DEF Exit, Tasks, Stops, Doing, Ending
<1>25. CASE Kill
  BY <1>25, GoneTypes DEF Kill, Tasks, Stops, Doing, Ending
<1>26. CASE Edit  BY <1>26 DEF Edit
<1>27. CASE UNCHANGED vars  BY <1>27 DEF vars
<1> QED
  BY <1>1, <1>2, <1>3, <1>4, <1>5, <1>6, <1>7, <1>8, <1>9, <1>10, <1>11, <1>12,
     <1>13, <1>14, <1>15, <1>16, <1>17, <1>18, <1>19, <1>20, <1>21, <1>22, <1>23,
     <1>24, <1>25, <1>26, <1>27
  DEF Next, Serving, Acting, Stopping

-------------------------------------------------------------------------------
(* What is in flight *)

LEMMA AtRestStep ==
  ASSUME TypeOK, AtRest, [Next]_vars
  PROVE  AtRest'
<1> USE DEF AtRest, disk, running, tray
<1>1. CASE Launch \/ NewRuntime
  BY <1>1 DEF Launch, NewRuntime, Starts
<1>2. CASE Start  BY <1>2 DEF Start, Gone
<1>3. CASE Serving
  <2>1. main \in {"run", "shutdown"}
    BY <1>3 DEF Serving, ServeFails, RequestArrives, RequestEnds
  <2> QED
    BY <1>3, <2>1 DEF Serving, ServeFails, RequestArrives, RequestEnds
<1>4. ASSUME NEW kind \in Kind, Click(kind) PROVE AtRest'
  BY <1>4 DEF Click
<1>5. CASE Acting
  <2>1. main \in {"run", "shutdown"}
    <3>1. task.session.pc # "none"
      BY <1>5 DEF Acting, Begin, Reply, NothingNewer, Report, Apply, EndAction
    <3> QED
      BY <3>1 DEF Idle, Begun
  <2> QED
    BY <1>5, <2>1 DEF Acting, Begin, Reply, NothingNewer, Report, Apply, EndAction
<1>6. CASE ClickQuit \/ OSQuit
  BY <1>6 DEF ClickQuit, OSQuit
<1>7. CASE Stopping
  <2>1. main \in {"run", "shutdown"}
    <3>1. \/ stop.session.pc # "new" \/ quitter # "none" \/ main = "shutdown"
      BY <1>7 DEF Stopping, Shutdown, Drained, Overdue, BeginPush, EndPush,
                  ReportPush, QuitEnds, Quit
    <3> QED
      BY <3>1 DEF Unstopped, Begun
  <2> QED
    BY <1>7, <2>1 DEF Stopping, Shutdown, Drained, Overdue, BeginPush, EndPush,
                      ReportPush, QuitEnds, Quit
<1>8. CASE Exit \/ Kill
  BY <1>8 DEF Exit, Kill, Gone
<1>9. CASE Edit \/ UNCHANGED vars
  BY <1>9 DEF Edit, vars
<1> QED
  BY <1>1, <1>2, <1>3, <1>4, <1>5, <1>6, <1>7, <1>8, <1>9 DEF Next

LEMMA OneAtATimeStep ==
  ASSUME TypeOK, AtRest, OneAtATime, [Next]_vars
  PROVE  OneAtATime'
<1> USE DEF OneAtATime, disk, running, tray
<1>1. CASE Launch \/ NewRuntime
  <2>1. main' # "run" /\ UNCHANGED <<busy, task, quitter>>
    BY <1>1 DEF Launch, NewRuntime, Starts
  <2> QED
    BY <2>1
<1>2. CASE Start
  <2>1. task'.session.pc = "none" /\ stop'.session.pc = "new"
    BY <1>2, StartOrEnd, NothingYet
  <2>2. quitter' = "none"
    BY <1>2 DEF Start, AtRest, Gone
  <2> QED
    BY <2>1, <2>2
<1>3. CASE Serving
  BY <1>3 DEF Serving, ServeFails, RequestArrives, RequestEnds
<1>4. ASSUME NEW kind \in Kind, Click(kind) PROVE OneAtATime'
  BY <1>4 DEF Click, BeginAction
<1>5. CASE Begin \/ Reply \/ Report \/ Apply
  <2>1. /\ task.session.pc # "none"
        /\ UNCHANGED <<main, busy, quitter, stop>>
    BY <1>5 DEF Begin, Reply, Report, Apply
  <2> QED
    BY <2>1
<1>6. CASE NothingNewer
  <2>1. task.session.pc # "none" /\ UNCHANGED <<main, busy, quitter, stop>>
    BY <1>6 DEF NothingNewer
  <2> QED
    BY <2>1
<1>13. CASE EndAction
  <2>1. task.session.pc # "none" /\ UNCHANGED <<main, quitter, stop>>
    BY <1>13 DEF EndAction
  <2>2. task'.session.pc = "none"
    BY <1>13 DEF EndAction, Idle, Begun
  <2> QED
    BY <2>1, <2>2
<1>7. CASE ClickQuit \/ OSQuit
  BY <1>7 DEF ClickQuit, OSQuit, BeginAction
<1>8. CASE Shutdown
  BY <1>8 DEF Shutdown
<1>9. CASE Drained \/ Overdue \/ BeginPush \/ EndPush \/ ReportPush
  <2>1. /\ stop.session.pc \notin {"new", "done"}
        /\ UNCHANGED <<main, busy, task, quitter>>
    BY <1>9 DEF Drained, Overdue, BeginPush, EndPush, ReportPush
  <2> QED
    BY <2>1
<1>10. CASE QuitEnds \/ Quit
  BY <1>10 DEF QuitEnds, Quit, ShutdownReturns
<1>11. CASE Exit \/ Kill
  BY <1>11 DEF Exit, Kill, Gone, Idle, Unstopped, Begun
<1>12. CASE Edit \/ UNCHANGED vars
  BY <1>12 DEF Edit, vars
<1> QED
  BY <1>1, <1>2, <1>3, <1>4, <1>5, <1>6, <1>7, <1>8, <1>9, <1>10, <1>11, <1>12,
     <1>13
  DEF Next, Acting, Stopping

LEMMA DrainingStep ==
  ASSUME TypeOK, AtRest, Draining, [Next]_vars
  PROVE  Draining'
<1> USE DEF Draining, disk, running, tray
<1>1. CASE Launch \/ NewRuntime
  BY <1>1 DEF Launch, NewRuntime
<1>2. CASE Start
  <2>1. /\ stop = Unstopped /\ Unstopped.session.pc = "new"
    BY <1>2 DEF Start, AtRest, Unstopped, Begun
  <2>2. stop' = Unstopped /\ http' \in {"none", "open"}
    BY <1>2, <2>1 DEF Start, Gone
  <2> QED
    BY <2>1, <2>2
<1>3. CASE ServeFails
  BY <1>3 DEF ServeFails
<1>4. ASSUME NEW s \in Slot, RequestArrives(s) PROVE Draining'
  <2>1. stop.session.pc = "new" /\ UNCHANGED <<stop, http>>
    BY <1>4, SessionTypes DEF RequestArrives, Session, Ending
  <2> QED
    BY <1>4, <2>1 DEF RequestArrives
<1>5. ASSUME NEW s \in Slot, RequestEnds(s) PROVE Draining'
  <2>1. \A q \in Slot : requests[q] = None => requests'[q] = None
    BY <1>5 DEF RequestEnds, TypeOK
  <2> QED
    BY <1>5, <2>1 DEF RequestEnds
<1>6. ASSUME NEW kind \in Kind, Click(kind) PROVE Draining'
  BY <1>6 DEF Click
<1>7. CASE Acting
  BY <1>7 DEF Acting, Begin, Reply, NothingNewer, Report, Apply, EndAction
<1>8. CASE ClickQuit \/ OSQuit
  BY <1>8 DEF ClickQuit, OSQuit
<1>9. CASE Shutdown
  <2>1. http \in {"none", "open"}
    BY <1>9 DEF Shutdown, TypeOK
  <2>2. stop'.session.pc = IF http = "open" THEN "drain" ELSE "read"
    BY <1>9, SessionTypes DEF Shutdown, StopAt, Stops, Session
  <2> QED
    BY <1>9, <2>1, <2>2 DEF Shutdown
<1>10. CASE Drained
  BY <1>10, SessionTypes DEF Drained, StopAt, Stops, Session
<1>11. CASE Overdue
  BY <1>11, SessionTypes DEF Overdue, Stops, Session
<1>12. CASE BeginPush \/ EndPush \/ ReportPush
  <2>1. stop'.session.pc \in {"push", "report", "done"} /\ stop'.late = stop.late
    <3>1. CASE BeginPush
      BY <3>1, SessionTypes DEF BeginPush, Stops, Session
    <3>2. CASE EndPush
      BY <3>2, EndPushGoesOn
    <3>3. CASE ReportPush
      BY <3>3, SessionTypes DEF ReportPush, StopAt, Stops, Session
    <3> QED
      BY <1>12, <3>1, <3>2, <3>3
  <2>2. /\ stop.session.pc \in {"read", "push", "report"}
        /\ UNCHANGED <<http, requests>>
    BY <1>12 DEF BeginPush, EndPush, ReportPush
  <2> QED
    BY <2>1, <2>2
<1>13. CASE QuitEnds \/ Quit
  BY <1>13 DEF QuitEnds, Quit
<1>14. CASE Exit \/ Kill
  BY <1>14 DEF Exit, Kill, Gone, Unstopped, Begun
<1>15. CASE Edit \/ UNCHANGED vars
  BY <1>15 DEF Edit, vars
<1> QED
  BY <1>1, <1>2, <1>3, <1>4, <1>5, <1>6, <1>7, <1>8, <1>9, <1>10, <1>11, <1>12,
     <1>13, <1>14, <1>15
  DEF Next, Serving, Stopping

-------------------------------------------------------------------------------
(* What is in hand *)

\* The steps of others: they leave the action, the files and the rest alone.
LEMMA OthersKeepAction ==
  ASSUME ActionInHand, UNCHANGED <<task, file, service, loaded>>,
         (main' = main /\ conflict' = conflict) \/ main' # "run"
  PROVE  ActionInHand'
  BY DEF ActionInHand

LEMMA NoActionInHand ==
  ASSUME task'.session = Begun("none") \/ (task'.session = Begun("begin") /\ task'.kind \in Kind)
  PROVE  ActionInHand'
<1>1. task'.session.pc \in {"none", "begin"} /\ task'.session.ok = FALSE
  BY DEF Begun
<1>2. task'.session.pc = "begin" => task'.kind \in Kind
  BY DEF Begun
<1> QED
  BY <1>1, <1>2 DEF ActionInHand

LEMMA ActionInHandStep ==
  ASSUME IInv, [Next]_vars
  PROVE  ActionInHand'
<1> USE DEF IInv, disk, running, tray
<1>1. CASE Launch
  BY <1>1, OthersKeepAction DEF Launch
<1>2. CASE NewRuntime
  <2>1. task'.session = Begun("none")
    BY <1>2 DEF NewRuntime, AtRest, Idle
  <2> QED
    BY <2>1, NoActionInHand
<1>3. CASE Start \/ Exit \/ Kill
  <2>1. task'.session = Begun("none")
    BY <1>3, StartOrEnd, NothingYet
  <2> QED
    BY <2>1, NoActionInHand
<1>4. CASE Serving
  BY <1>4, OthersKeepAction DEF Serving, ServeFails, RequestArrives, RequestEnds
<1>5. ASSUME NEW kind \in Kind, Click(kind) PROVE ActionInHand'
  <2>1. CASE BeginAction
    <3>1. task'.session = Begun("begin") /\ task'.kind \in Kind
      BY <1>5, <2>1 DEF Click
    <3> QED
      BY <3>1, NoActionInHand
  <2>2. CASE ~BeginAction
    BY <1>5, <2>2, OthersKeepAction DEF Click
  <2> QED
    BY <2>1, <2>2
<1>6. CASE Begin
  <2>1. /\ task'.kind = task.kind /\ task.kind \in Kind
        /\ task'.session.pc = IF Refused(task.kind) THEN "end" ELSE "call"
        /\ task'.session.file = file /\ task'.session.conflict = conflict
        /\ task'.session.ok = task.session.ok /\ ~task.session.ok
    BY <1>6, SessionTypes DEF Begin, Tasks, Session, ActionInHand
  <2>2. ~Refused(task.kind) /\ Resolves(task.kind) => conflict # None
    BY DEF Refused, Resolves
  <2>3. UNCHANGED <<file, conflict, main>>
    BY <1>6 DEF Begin
  <2> QED
    BY <2>1, <2>2, <2>3 DEF ActionInHand
<1>7. CASE Reply
  <2>1. PICK outcome : Write(outcome) /\ task' = [task EXCEPT !.session =
               [@ EXCEPT !.pc = IF task.kind = "switch codex" THEN "end" ELSE "report",
                         !.file = outcome.file, !.conflict = None,
                         !.reported = outcome.reported, !.ok = outcome.ok]]
    BY <1>7 DEF Reply
  <2>2. /\ task'.kind = task.kind /\ task.kind \in Kind
        /\ task'.session.pc = IF task.kind = "switch codex" THEN "end" ELSE "report"
        /\ task'.session.file = outcome.file
    BY <1>7, <2>1, SessionTypes DEF Reply, Tasks, Session, ActionInHand
  <2>3. file' = task'.session.file
    BY <2>1, <2>2 DEF Write
  <2>4. CASE task.kind = "switch codex"
    BY <2>2, <2>4 DEF ActionInHand
  <2>5. CASE task.kind # "switch codex"
    BY <2>2, <2>3, <2>5 DEF ActionInHand
  <2> QED
    BY <2>4, <2>5
<1>8. CASE NothingNewer \/ EndAction
  <2>1. ASSUME NothingNewer
        PROVE  task'.session = Begun("begin") /\ task'.kind \in Kind
    <3>1. task' = [kind |-> "push", session |-> Begun("begin")]
      BY <2>1 DEF NothingNewer
    <3> QED
      BY <3>1 DEF Kind
  <2>2. EndAction => task'.session = Begun("none")
    BY NothingYet DEF EndAction
  <2> QED
    BY <1>8, <2>1, <2>2, NoActionInHand
<1>9. CASE Report
  <2>1. /\ task'.kind = task.kind /\ task.kind \in Kind
        /\ task'.session.pc = IF task.session.ok THEN "apply" ELSE "end"
        /\ task'.session.file = task.session.file
        /\ task'.session.ok = task.session.ok
    BY <1>9, SessionTypes DEF Report, Tasks, Session, ActionInHand
  <2>2. file' = file /\ task.session.file = file
    BY <1>9 DEF Report, ActionInHand
  <2> QED
    BY <2>1, <2>2 DEF ActionInHand
<1>10. CASE Apply
  <2>1. task.session.pc = "apply" /\ task.session.file = file /\ task.kind \in Kind
    BY <1>10 DEF Apply, ActionInHand
  <2>2. CASE task.session.file \in Sound
    <3>1. /\ service' = task.session.file /\ loaded' = task.session.file /\ file' = file
          /\ task' = [task EXCEPT !.session.pc = "end"]
      BY <1>10, <2>2 DEF Apply, Installed
    <3>2. task'.kind = task.kind /\ task'.session.pc = "end"
      BY <3>1, SessionTypes DEF Tasks, Session
    <3> QED
      BY <2>1, <3>1, <3>2 DEF ActionInHand
  <2>3. CASE task.session.file \notin Sound
    <3>1. task' = [task EXCEPT !.session.pc = "end", !.session.ok = FALSE]
      BY <1>10, <2>3 DEF Apply
    <3>2. task'.kind = task.kind /\ task'.session.pc = "end"
      BY <3>1, SessionTypes DEF Tasks, Session
    <3>3. task'.session.ok = FALSE
      BY <3>1, SessionTypes DEF Tasks, Session
    <3> QED
      BY <2>1, <3>2, <3>3 DEF ActionInHand
  <2> QED
    BY <2>2, <2>3
<1>11. CASE ClickQuit
  BY <1>11, OthersKeepAction DEF ClickQuit
<1>12. CASE OSQuit
  BY <1>12, OthersKeepAction DEF OSQuit
<1>13. CASE Shutdown \/ Drained \/ Overdue \/ BeginPush \/ ReportPush \/ QuitEnds
  BY <1>13, OthersKeepAction
  DEF Shutdown, Drained, Overdue, BeginPush, ReportPush, QuitEnds
<1>14. CASE EndPush
  <2>1. CASE main = "run"
    <3>1. task.session.pc = "none"
      BY <1>14, <2>1 DEF EndPush, OneAtATime
    <3>2. task' = task
      BY <1>14 DEF EndPush
    <3> QED
      BY <3>1, <3>2 DEF ActionInHand
  <2>2. CASE main # "run"
    BY <1>14, <2>2, OthersKeepAction DEF EndPush
  <2> QED
    BY <2>1, <2>2
<1>15. CASE Quit
  BY <1>15, OthersKeepAction DEF Quit
<1>16. CASE Edit
  <2>1. task.session.pc = "none" /\ task' = task
    BY <1>16 DEF Edit
  <2> QED
    BY <2>1 DEF ActionInHand
<1>17. CASE UNCHANGED vars
  BY <1>17, OthersKeepAction DEF vars
<1> QED
  BY <1>1, <1>2, <1>3, <1>4, <1>5, <1>6, <1>7, <1>8, <1>9, <1>10, <1>11, <1>12,
     <1>13, <1>14, <1>15, <1>16, <1>17
  DEF Next, Acting, Stopping

\* An action that runs with the menu leaves no room for a shutdown's push.
LEMMA ActionsAlone ==
  ASSUME IInv, task.session.pc # "none", stop.session.pc = "push"
  PROVE  main # "run"
  BY DEF IInv, OneAtATime

LEMMA OthersKeepPush ==
  ASSUME PushInHand, stop' = stop,
         UNCHANGED <<file, conflict, main>> \/ main' # "run" \/ stop.session.pc # "push"
  PROVE  PushInHand'
  BY DEF PushInHand

LEMMA PushInHandStep ==
  ASSUME IInv, [Next]_vars
  PROVE  PushInHand'
<1> USE DEF IInv, disk, running, tray
<1>1. CASE Launch
  BY <1>1, OthersKeepPush DEF Launch
<1>2. CASE NewRuntime \/ Start \/ Exit \/ Kill
  <2>1. ASSUME NewRuntime
        PROVE  stop' = Unstopped
    <3>1. stop' = stop /\ main \notin {"run", "shutdown"}
      BY <2>1 DEF NewRuntime
    <3> QED
      BY <3>1, NothingYet
  <2>2. stop'.session.pc = "new"
    BY <1>2, <2>1, StartOrEnd, NothingYet
  <2> QED
    BY <2>2 DEF PushInHand
<1>3. CASE Serving
  BY <1>3, OthersKeepPush DEF Serving, ServeFails, RequestArrives, RequestEnds
<1>4. ASSUME NEW kind \in Kind, Click(kind) PROVE PushInHand'
  BY <1>4, OthersKeepPush DEF Click
<1>5. CASE Acting
  <2>1. task.session.pc # "none" /\ UNCHANGED <<main, stop>>
    BY <1>5 DEF Acting, Begin, Reply, NothingNewer, Report, Apply, EndAction
  <2> QED
    BY <2>1, ActionsAlone, OthersKeepPush
<1>6. CASE ClickQuit \/ OSQuit \/ QuitEnds
  BY <1>6, OthersKeepPush DEF ClickQuit, OSQuit, QuitEnds
<1>7. CASE Quit
  BY <1>7, OthersKeepPush DEF Quit
<1>8. CASE Shutdown \/ Drained \/ Overdue \/ EndPush \/ ReportPush
  <2>1. stop'.session.pc # "push"
    <3>1. CASE Shutdown
      BY <3>1, SessionTypes DEF Shutdown, StopAt, Stops, Session
    <3>2. CASE Drained
      BY <3>2, SessionTypes DEF Drained, StopAt, Stops, Session
    <3>3. CASE Overdue
      BY <3>3, SessionTypes DEF Overdue, Stops, Session
    <3>4. CASE EndPush
      BY <3>4, EndPushGoesOn
    <3>5. CASE ReportPush
      BY <3>5, SessionTypes DEF ReportPush, StopAt, Stops, Session
    <3> QED
      BY <1>8, <3>1, <3>2, <3>3, <3>4, <3>5
  <2> QED
    BY <2>1 DEF PushInHand
<1>9. CASE BeginPush
  <2>1. /\ stop'.session.file = file /\ stop'.session.conflict = conflict
        /\ UNCHANGED <<file, conflict>>
    BY <1>9, SessionTypes DEF BeginPush, Stops, Session
  <2>2. file \in Content
    BY DEF TypeOK
  <2> QED
    BY <2>1, <2>2 DEF PushInHand
<1>10. CASE Edit
  BY <1>10, OthersKeepPush DEF Edit
<1>11. CASE UNCHANGED vars
  BY <1>11, OthersKeepPush DEF vars
<1> QED
  BY <1>1, <1>2, <1>3, <1>4, <1>5, <1>6, <1>7, <1>8, <1>9, <1>10, <1>11
  DEF Next, Stopping

-------------------------------------------------------------------------------
(* The theorems *)

LEMMA Holds == Spec => []IInv
<1>1. Init => IInv
  BY InitIInv
<1>2. IInv /\ [Next]_vars => IInv'
  BY TypeOKStep, AtRestStep, OneAtATimeStep, ActionInHandStep, PushInHandStep,
     DrainingStep DEF IInv
<1> QED
  BY <1>1, <1>2, PTL DEF Spec

(***************************************************************************)
(* Type correctness; in particular the installed service never runs what   *)
(* router.New or balancer.New would refuse.                                *)
(***************************************************************************)
THEOREM TypeCorrect == Spec => []TypeOK
<1>1. IInv => TypeOK
  BY DEF IInv
<1> QED
  BY <1>1, Holds, PTL

(***************************************************************************)
(* An action of the sync that says it is completed (runtime.go: SyncNow,    *)
(* SyncProviders, ResolveSyncConflict, replaceRuntimeConfig; not            *)
(* SwitchCodexProvider, which replaces no service) has put to work what is in *)
(* the file: between its reply and its report no other action writes the    *)
(* file or replaces the service, because of the busy flag.  (The user's own *)
(* edits wait here; SyncManager has those in the middle of a session.)      *)
(***************************************************************************)
THEOREM CompletedRuns == Spec => []CompletedIsRunning
<1>1. IInv => CompletedIsRunning
  BY DEF IInv, ActionInHand, CompletedIsRunning
<1> QED
  BY <1>1, Holds, PTL

(***************************************************************************)
(* While the menu is there, a conflict that is stored has the file's        *)
(* contents for its local side, whichever session found it: the busy flag   *)
(* keeps actions apart, and Quit's shutdown from them.                      *)
(***************************************************************************)
THEOREM OffersAreLocal == Spec => OfferedLocalIsLocal
<1> DEFINE Offer == main = "run" /\ conflict' \notin {None, conflict}
                      => conflict'.local = file'
<1>1. ASSUME IInv, Next PROVE Offer
  <2> SUFFICES ASSUME main = "run", conflict' # conflict, conflict' # None
               PROVE  conflict'.local = file'
    OBVIOUS
  <2> USE DEF disk, running, tray
  <2>1. CASE Reply
    <3>1. PICK outcome \in Results(task.kind, task.session.file, task.session.conflict) :
            Write(outcome)
      BY <2>1 DEF Reply
    <3>2. Honest(outcome, task.session.conflict) /\ task.session.conflict = conflict
      BY <1>1, <2>1, ReplyIsHonest DEF Reply, IInv, ActionInHand
    <3> QED
      BY <3>1, <3>2 DEF Honest, Write
  <2>2. CASE EndPush
    <3>1. PICK outcome :
            /\ Honest(outcome, stop.session.conflict)
            /\ outcome.file = stop.session.file
            /\ conflict' = IF outcome.written THEN outcome.conflict ELSE conflict
      BY <1>1, <2>2, PushEnds DEF IInv
    <3>2. /\ stop.session.conflict = conflict /\ stop.session.file = file
          /\ file' = file
      BY <1>1, <2>2 DEF EndPush, IInv, PushInHand
    <3> QED
      BY <3>1, <3>2 DEF Honest
  <2>3. CASE ~(Reply \/ EndPush)
    BY <1>1, <2>3
    DEF Next, Launch, NewRuntime, Start, Serving, ServeFails, RequestArrives, RequestEnds,
        Click, Acting, Begin, NothingNewer, Report, Apply, EndAction, ClickQuit, OSQuit,
        Stopping, Shutdown, Drained, Overdue, BeginPush, ReportPush, QuitEnds, Quit,
        Exit, Kill, Edit, Write, Wrote
  <2> QED
    BY <2>1, <2>2, <2>3
<1>2. IInv /\ [Next]_vars => [Offer]_vars
  BY <1>1
<1> HIDE DEF Offer
<1>3. Spec => [][Offer]_vars
  BY <1>2, Holds, PTL DEF Spec
<1> QED
  BY <1>3 DEF Offer, OfferedLocalIsLocal

(***************************************************************************)
(* The process ends in order (runTray, shutdownOnce, Runtime.Shutdown): a   *)
(* server that was told to stop takes no request any more, and whoever ends *)
(* the process has waited for the shutdown's body.                          *)
(***************************************************************************)
THEOREM ExitIsOrderly == Spec => LeavesInOrder
<1> DEFINE Leaves == main = "shutdown" /\ main' = "off" =>
               /\ http # "open"
               /\ stop.session.pc = "done"
               /\ stop.late \/ http = "none" \/ \A s \in Slot : requests[s] = None
<1>1. ASSUME IInv, Next PROVE Leaves
  <2> USE DEF disk, running, tray
  <2>1. main = "shutdown" /\ main' = "off" => Exit
    BY <1>1 DEF Next, Launch, NewRuntime, Starts, Start, Serving, ServeFails, RequestArrives,
        RequestEnds, Click, Acting, Begin, Reply, NothingNewer, Report, Apply, EndAction,
        ClickQuit, OSQuit, Stopping, Shutdown, Drained, Overdue, BeginPush, EndPush,
        ReportPush, QuitEnds, Quit, Kill, Edit
  <2>2. Exit => stop.session.pc = "done"
    BY DEF Exit, ShutdownReturns
  <2> QED
    BY <1>1, <2>1, <2>2 DEF IInv, Draining
<1>2. IInv /\ [Next]_vars => [Leaves]_vars
  BY <1>1
<1> HIDE DEF Leaves
<1>3. Spec => [][Leaves]_vars
  BY <1>2, Holds, PTL DEF Spec
<1> QED
  BY <1>3 DEF Leaves, LeavesInOrder
===============================================================================
