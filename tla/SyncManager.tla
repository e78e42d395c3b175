------------------------------ MODULE SyncManager ------------------------------
(***************************************************************************)
(* internal/client/sync: the clients that share a configuration through     *)
(* SyncServer.  A client keeps two files, the configuration, whose          *)
(* modification time it takes for the time of the last local change, and    *)
(* the sync state.  A session is one call of the Manager (SyncBeforeStart,  *)
(* SyncNow, SyncOnShutdown, SyncProviders, ResolveConflict); it loads both  *)
(* files first and works on what it loaded.                                 *)
(*                                                                          *)
(* A file is written atomically (WriteFileAtomic), the two of them are not. *)
(***************************************************************************)
EXTENDS SyncServer

CONSTANTS
  Client,
  OwnerOf,      \* OwnerOf[s]: the client session s belongs to
  Skew,         \* Skew[c]: how far the clock of c is ahead of the server's
  CarefulUser,  \* assumption: no edit during a session or an open conflict
  Faults,       \* whether calls fail and programs crash
  Calls,        \* bound: which calls this instance makes, conflicts apart
  MaxVersions   \* bound: fewer versions when a session starts that pushes;
                \* an override may still start at the bound

ASSUME SyncManagerAssumption ==
  /\ OwnerOf \in [Session -> Client]
  /\ Skew \in [Client -> Int]
  /\ CarefulUser \in BOOLEAN
  /\ Faults \in BOOLEAN
  /\ Calls \subseteq {"start", "now", "shutdown", "providers", "misconfigured"}
  /\ MaxVersions \in Nat

VARIABLES
  file,       \* file[c]: the configuration file
  syncState,  \* syncState[c]: the sync state file, State
  session     \* session[s]

clientVars == <<file, syncState, session>>
vars == <<now, cloud, push, file, syncState, session>>

Conflict == [local : Snapshot, cloud : Snapshot, at : Nat, version : Nat]

File == [snapshot : Snapshot, modifiedAt : Int]

\* The state's hash, status and error message are only shown to the user and
\* are left out.  `seen` is not stored: the version whose time lastSyncAt is.
State == [lastSyncAt : Nat, seen : Nat, conflict : Conflict \cup {None}]

NewState == [lastSyncAt |-> 0, seen |-> 0, conflict |-> None]

SessionState == [
  pc : {"idle", "status", "pull", "catalog", "adopt", "load", "push", "wait",
        "record"},
  op : {"none", "start", "now", "shutdown", "providers", "resolve"},
                                      \* the call, while it matters
  file : File \cup {None},          \* as loaded
  state : State \cup {None},       \* as loaded
  first : BOOLEAN,                    \* differs from the cloud, never synced
  request : PushRequest \cup {None},
  adopt : Snapshot \cup {None}, \* the configuration to be saved
  next : State \cup {None}]        \* the state to be saved

IdleSession == [pc |-> "idle", op |-> "none", file |-> None,
                state |-> None, first |-> FALSE, request |-> None,
                adopt |-> None, next |-> None]

Init ==
  /\ ServerInit
  /\ \E x \in [Client -> Snapshot] :
       file = [c \in Client |-> [snapshot |-> x[c], modifiedAt |-> 1]]
  /\ syncState = [c \in Client |-> NewState]
  /\ session = [s \in Session |-> IdleSession]

Calm(c) == \A s \in Session : OwnerOf[s] = c => session[s].pc = "idle"

-------------------------------------------------------------------------------
(* The files *)

\* SaveFile
Written(c, x) == [snapshot |-> x, modifiedAt |-> now + Skew[c]]

SaveFile(c, x) == file' = [file EXCEPT ![c] = Written(c, x)]

\* The configuration is edited: by the user, or by a switch of the Codex
\* provider (the tray has it while a conflict is open as well).
Edit(c, x) ==
  /\ x # file[c].snapshot
  /\ CarefulUser => Calm(c) /\ syncState[c].conflict = None
  /\ SaveFile(c, x)
  /\ UNCHANGED <<serverVars, syncState, session>>

\* loadConfig and loadState
Loaded(s, op, pc) ==
  LET c == OwnerOf[s] IN
  [IdleSession EXCEPT !.op = op, !.pc = pc, !.file = file[c],
                      !.state = syncState[c]]

\* All that is left to do is to save state `next`, and for "now" to push.
Concluding(op, next) ==
  [IdleSession EXCEPT !.pc = "record", !.op = op, !.next = next]

Conclude(s, next) ==
  session' = [session EXCEPT ![s] = Concluding("none", next)]

\* withError: an error writes the loaded state back.
ConcludeWithError(s) == Conclude(s, session[s].state)

\* persistState, the last step of most sessions.
RecordState(s) ==
  LET me == session[s] IN
  /\ me.pc = "record"
  /\ syncState' = [syncState EXCEPT ![OwnerOf[s]] = me.next]
  /\ session' = [session EXCEPT ![s] =
       IF me.op = "now" THEN [IdleSession EXCEPT !.pc = "load"] ELSE IdleSession]
  /\ UNCHANGED <<serverVars, file>>

-------------------------------------------------------------------------------
(* SyncBeforeStart *)

BeginSync(s, op) ==
  /\ session[s].pc = "idle"
  /\ op = "now" => Len(cloud) < MaxVersions
  /\ session' = [session EXCEPT ![s] = Loaded(s, op, "status")]
  /\ UNCHANGED <<serverVars, file, syncState>>

\* ResolveSync rejects the sync settings (no server, user or password): the
\* conflict and the last sync are forgotten.
Misconfigured(s) ==
  /\ session[s].pc = "idle"
  /\ Conclude(s, NewState)
  /\ UNCHANGED <<serverVars, file, syncState>>

\* login and fetchStatus succeed.
StatusReply(s) ==
  LET me == session[s] IN
  /\ me.pc = "status"
  /\ session' = [session EXCEPT ![s] =
       [me EXCEPT !.pc = "pull",
                  !.first = /\ me.state.lastSyncAt = 0
                            /\ HasSnapshot
                            /\ me.file.snapshot # Current.snapshot]]
  /\ UNCHANGED <<serverVars, file, syncState>>

\* The time of the reply is taken for that of the version.
SyncedAt_Clock(reply) ==
  [lastSyncAt |-> now, seen |-> reply.version, conflict |-> None]

\* The last sync point that a reply about a version sets.
SyncedAt(reply) ==
  [lastSyncAt |-> reply.at, seen |-> reply.version, conflict |-> None]

\* buildConflictState, with the sync point left where it was.
ConflictState(state, local, reply) ==
  [state EXCEPT
     !.conflict = [local |-> local, cloud |-> reply.snapshot, at |-> reply.at,
                   version |-> reply.version]]

\* What SyncBeforeStart saves for a pull reply that changes no configuration.
AfterPull(me, reply) ==
  IF me.first /\ reply.snapshot = None THEN me.state
  ELSE IF me.first \/ reply.status = "conflict"
    THEN ConflictState(me.state, me.file.snapshot, reply)
  ELSE IF reply.status = "up_to_date" THEN SyncedAt(reply)
  ELSE [me.state EXCEPT !.conflict = None]

PullResponseTo(s) ==
  PullResponse(session[s].file.snapshot, session[s].file.modifiedAt,
               session[s].state.lastSyncAt)

\* pull succeeds.  Only "updated" changes the configuration.  SyncNow goes on
\* to push when the cloud is empty or older.
PullReply(s) ==
  LET me == session[s]
      reply == PullResponseTo(s)
      adopts == ~ me.first /\ reply.status = "updated"
      pushes == /\ me.op = "now" /\ ~ me.first
                /\ reply.status \in {"empty", "client_newer"}
  IN /\ me.pc = "pull"
     /\ session' = [session EXCEPT ![s] =
          IF adopts THEN [me EXCEPT !.pc = "adopt", !.adopt = reply.snapshot,
                                    !.next = SyncedAt(reply)]
                    ELSE Concluding(IF pushes THEN "now" ELSE "none",
                                    AfterPull(me, reply))]
     /\ UNCHANGED <<serverVars, file, syncState>>

\* SaveFile of what the cloud sent; the sync state follows, except that
\* SyncProviders leaves it alone.
AdoptCloud(s) ==
  LET me == session[s] IN
  /\ me.pc = "adopt"
  /\ SaveFile(OwnerOf[s], me.adopt)
  /\ session' = [session EXCEPT ![s] =
       IF me.op = "providers" THEN IdleSession
                             ELSE Concluding("none", me.next)]
  /\ UNCHANGED <<serverVars, syncState>>

-------------------------------------------------------------------------------
(* SyncProviders.  Routes and groups follow from the providers, so taking   *)
(* over the providers takes over the snapshot.                              *)

BeginProviders(s) ==
  /\ session[s].pc = "idle"
  /\ session' = [session EXCEPT ![s] = Loaded(s, "providers", "catalog")]
  /\ UNCHANGED <<serverVars, file, syncState>>

CatalogReply(s) ==
  /\ session[s].pc = "catalog"
  /\ HasSnapshot
  /\ session' = [session EXCEPT ![s] =
       [@ EXCEPT !.pc = "adopt", !.adopt = Current.snapshot]]
  /\ UNCHANGED <<serverVars, file, syncState>>

-------------------------------------------------------------------------------
(* SyncOnShutdown *)

\* From the start, or as the second half of SyncNow.
LoadForPush(s) ==
  LET c == OwnerOf[s]
      loaded == Loaded(s, "shutdown", "push")
  IN /\ \/ session[s].pc = "load"
        \/ session[s].pc = "idle" /\ Len(cloud) < MaxVersions
     /\ session' = [session EXCEPT ![s] =
          [loaded EXCEPT !.request = [snapshot |-> file[c].snapshot,
                                      lastSyncAt |-> syncState[c].lastSyncAt,
                                      base |-> syncState[c].seen]]]
     /\ UNCHANGED <<serverVars, file, syncState>>

\* login succeeds and the push is sent.
SendPush(s, h) ==
  /\ session[s].pc = "push"
  /\ AcceptPush(h, s, session[s].request)
  /\ session' = [session EXCEPT ![s].pc = "wait"]
  /\ UNCHANGED <<file, syncState>>

\* Every reply is taken for success.
AfterPush_IgnoresConflict(me, reply) == SyncedAt(reply)

\* What SyncOnShutdown and resolveWithLocal save for a push reply.
AfterPush(me, reply) ==
  IF reply.status = "conflict"
    THEN ConflictState(me.state, me.request.snapshot, reply)
    ELSE SyncedAt(reply)

PushReply(s, h) ==
  /\ session[s].pc = "wait"
  /\ push[h].session = s
  /\ push[h].pc = "reply"
  /\ Conclude(s, AfterPush(session[s], push[h].response))
  /\ push' = [push EXCEPT ![h] = FreeHandler]
  /\ UNCHANGED <<now, cloud, file, syncState>>

-------------------------------------------------------------------------------
(* ResolveConflict *)

ResolveWithCloud(s) ==
  LET c == OwnerOf[s]
      conflict == syncState[c].conflict
  IN /\ session[s].pc = "idle"
     /\ conflict # None
     /\ SaveFile(c, conflict.cloud)
     /\ session' = [session EXCEPT ![s] =
          Concluding("none", [lastSyncAt |-> conflict.at,
                              seen |-> conflict.version, conflict |-> None])]
     /\ UNCHANGED <<serverVars, syncState>>

\* The user has seen the cloud side of the conflict, so the push is based on it.
OverrideRequest(state) ==
  [snapshot |-> state.conflict.local, lastSyncAt |-> state.conflict.at,
   base |-> state.conflict.version]

\* The local side is saved, as it was when the conflict was found, and then
\* pushed, unless sync was switched off or its settings are invalid.
ResolveWithLocal(s) ==
  LET c == OwnerOf[s]
      loaded == Loaded(s, "resolve", "push")
  IN /\ session[s].pc = "idle"
     /\ syncState[c].conflict # None
     /\ Len(cloud) <= MaxVersions
     /\ SaveFile(c, syncState[c].conflict.local)
     /\ session' = [session EXCEPT ![s] =
          [loaded EXCEPT !.request = OverrideRequest(syncState[c])]]
     /\ UNCHANGED <<serverVars, syncState>>

\* Then its ResolveSync fails, or finds sync disabled.
OverrideRefused(s) ==
  /\ "misconfigured" \in Calls
  /\ session[s].pc = "push"
  /\ session[s].op = "resolve"
  /\ Conclude(s, NewState)
  /\ UNCHANGED <<serverVars, file, syncState>>

-------------------------------------------------------------------------------
(* Faults *)

\* The handler goes on; its reply will find nobody.
Abandoned(sessions) ==
  [h \in Handler |-> IF push[h].session \in sessions
                       THEN [push[h] EXCEPT !.session = None] ELSE push[h]]

\* A call of login, status, pull, push or the catalog fails or times out.
CallFails(s) ==
  /\ session[s].pc \in {"status", "pull", "catalog", "push", "wait"}
  /\ Faults \/ (session[s].pc = "catalog" /\ ~ HasSnapshot)
  /\ ConcludeWithError(s)
  /\ push' = Abandoned({s})
  /\ UNCHANGED <<now, cloud, file, syncState>>

\* SaveFile fails.
SaveFails(s) ==
  /\ Faults
  /\ session[s].pc = "adopt"
  /\ ConcludeWithError(s)
  /\ UNCHANGED <<serverVars, file, syncState>>

\* The client dies, or cannot write its sync state.
Crash(c) ==
  LET mine == {s \in Session : OwnerOf[s] = c} IN
  /\ Faults
  /\ ~ Calm(c)
  /\ session' = [s \in Session |-> IF s \in mine THEN IdleSession ELSE session[s]]
  /\ push' = Abandoned(mine)
  /\ UNCHANGED <<now, cloud, file, syncState>>

-------------------------------------------------------------------------------
Begin(s) ==
  \/ \E op \in Calls \cap {"start", "now"} : BeginSync(s, op)
  \/ "misconfigured" \in Calls /\ Misconfigured(s)
  \/ "providers" \in Calls /\ BeginProviders(s)
  \/ "shutdown" \in Calls /\ LoadForPush(s) /\ session[s].pc = "idle"
  \/ ResolveWithCloud(s) \/ ResolveWithLocal(s)

Continue(s) ==
  \/ StatusReply(s) \/ PullReply(s) \/ CatalogReply(s)
  \/ AdoptCloud(s) \/ RecordState(s)
  \/ LoadForPush(s) /\ session[s].pc = "load"
  \/ \E h \in Handler : SendPush(s, h) \/ PushReply(s, h)
  \/ OverrideRefused(s)
  \/ CallFails(s) \/ SaveFails(s)

Serve(h) == (PushRead(h) \/ PushSave(h) \/ DropReply(h)) /\ UNCHANGED clientVars

Next ==
  \/ \E c \in Client, x \in Snapshot : Edit(c, x)
  \/ \E s \in Session : Begin(s) \/ Continue(s)
  \/ \E c \in Client : Crash(c)
  \/ \E h \in Handler : \/ Serve(h)
                        \/ Faults /\ HandlerFails(h) /\ UNCHANGED clientVars

Spec == Init /\ [][Next]_vars

\* http.Client.Timeout bounds every call of a session; the server's
\* goroutines run.  Nothing obliges anyone to edit, sync or crash.
FairSpec ==
  /\ Spec
  /\ \A s \in Session : WF_vars(Continue(s))
  /\ \A h \in Handler : WF_vars(Serve(h))

-------------------------------------------------------------------------------
(* Properties *)

TypeOK ==
  /\ ServerTypeOK
  /\ file \in [Client -> File]
  /\ syncState \in [Client -> State]
  /\ session \in [Session -> SessionState]

(***************************************************************************)
(* No lost update in the cloud: a push that is applied replaces the very   *)
(* version it is based on - the one its client last took, or was shown as  *)
(* the other side of the conflict it overrides - whatever calls failed,    *)
(* timed out or were repeated meanwhile.                                   *)
(***************************************************************************)
CloudReplacedKnowingly ==
  [][\A h \in Handler :
       push[h].pc = "save" /\ push'[h].pc = "reply"
         => push[h].request.base = Len(cloud)]_vars

(***************************************************************************)
(* No lost edit on a client: a pull overwrites a configuration only if the *)
(* cloud holds it as some version; what was never published is kept, or    *)
(* the user is asked.                                                      *)
(***************************************************************************)
LocalReplacedKnowingly ==
  [][\A s \in Session :
       session[s].pc = "adopt" /\ session[s].op \in {"start", "now"}
         /\ session'[s].pc = "record" /\ file' # file
         => Held(file[OwnerOf[s]].snapshot)]_vars

(***************************************************************************)
(* "up to date" is only answered when the contents are equal, so a client  *)
(* that is told so has nothing left to publish and nothing to fetch.       *)
(***************************************************************************)
UpToDateMeansEqual ==
  \A s \in Session :
    session[s].pc = "pull" /\ PullResponseTo(s).status = "up_to_date"
      => session[s].file.snapshot = Current.snapshot

\* The conflict that is kept for the user can be resolved either way: its two
\* sides differ, and the cloud's is a version as it was stored, newer than the
\* one the client last agreed with.
ConflictIsReal(state) ==
  LET conflict == state.conflict IN
  conflict # None =>
    /\ conflict.version \in DOMAIN cloud
    /\ cloud[conflict.version] = [snapshot |-> conflict.cloud, at |-> conflict.at]
    /\ conflict.local # conflict.cloud
    /\ state.lastSyncAt < conflict.at

\* last_sync_at is the time of a stored version: the very one the client agreed
\* with, not its own clock's time or a later version's.
SyncPointIsReal(state) ==
  IF state.lastSyncAt = 0 THEN state.seen = 0
  ELSE state.seen \in DOMAIN cloud /\ cloud[state.seen].at = state.lastSyncAt

(***************************************************************************)
(* What a client remembers of the cloud is true, whichever of its sessions, *)
(* calls and writes failed or were repeated: both the sync point, on which  *)
(* the next push is judged, and the conflict that the user is asked about.  *)
(***************************************************************************)
MemoryIsTrue ==
  \A c \in Client : ConflictIsReal(syncState[c]) /\ SyncPointIsReal(syncState[c])

\* Every call of the manager returns: timeouts, conflicts and the two halves
\* of SyncNow leave no session behind.
SessionsEnd == \A s \in Session : session[s].pc # "idle" ~> session[s].pc = "idle"

(***************************************************************************)
(* While nothing fails, what a session sets out to push is stored by the   *)
(* server in the end, or the client is left with a conflict to show the    *)
(* user.  (Keeping the local side of one may still be refused, if the sync *)
(* settings that it brings back are no good.)                              *)
(***************************************************************************)
PushSettles ==
  \A s \in Session, x \in Snapshot :
    session[s].pc = "push" /\ session[s].op # "resolve"
      /\ session[s].request.snapshot = x
      ~> \/ Held(x)
         \/ syncState[OwnerOf[s]].conflict # None

-------------------------------------------------------------------------------
(* What the requirements document says and the code does not do *)

\* "Only the cloud changed since the last sync: pull it over the local copy"
\* (requirements_CN.md, 13.3 rule 1): a client that still holds exactly what
\* it last synced is not told of a conflict.
UnchangedIsNoConflict ==
  \A s \in Session :
    LET me == session[s] IN
    me.pc = "pull" /\ me.state.seen > 0
      /\ me.file.snapshot = cloud[me.state.seen].snapshot
      => PullResponseTo(s).status # "conflict"
===============================================================================
