------------------------------ MODULE SyncServer ------------------------------
(***************************************************************************)
(* internal/server/community/sync: the service that keeps the shared        *)
(* configuration snapshot, with the store under it.  The store keeps every  *)
(* version; the newest is the current one.                                  *)
(*                                                                          *)
(* A snapshot is a model value that stands for its own hash.  Each HTTP     *)
(* request is a goroutine.  Status, Pull and the provider catalog read the  *)
(* current snapshot once, so each is one step.  Push reads it and saves in  *)
(* two store calls with nothing held in between.                            *)
(***************************************************************************)
EXTENDS Integers, Sequences

CONSTANTS
  None,          \* Go's nil: no snapshot, no conflict, nobody
  Snapshot,      \* configuration contents
  Session,       \* the client calls that may wait for a push
  Handler,       \* bound: pushes the server works on at the same time
  Bootstrapped,  \* whether the server was started with a snapshot
  FreshMillis    \* assumption: no two saves in the same millisecond

ASSUME SyncServerAssumption ==
  /\ None \notin Snapshot \cup Session
  /\ Bootstrapped \in BOOLEAN
  /\ FreshMillis \in BOOLEAN

VARIABLES
  now,    \* the server's clock, Service.now
  cloud,  \* the stored versions; a version's number is its index
  push    \* push[h]: the push that handler h serves

serverVars == <<now, cloud, push>>

Version == [snapshot : Snapshot, at : Nat \ {0}]

\* What a client sends to be pushed.  `base` is not sent: it names the
\* version that last_sync_at is the time of, for the properties.
PushRequest == [snapshot : Snapshot, lastSyncAt : Nat, base : Nat]

\* A response; `version` is sent, and ignored by the client.
Response == [
  status : {"empty", "updated", "up_to_date", "client_newer", "conflict",
            "applied", "already_synced"},
  version : Nat, at : Nat, snapshot : Snapshot \cup {None}]

PushState == [
  pc : {"free", "read", "save", "reply"},
  session : Session \cup {None},         \* whose call is waiting
  request : PushRequest \cup {None},
  readAt : Nat,                            \* when the current version was read
  response : Response \cup {None}]

FreeHandler == [pc |-> "free", session |-> None, request |-> None,
                readAt |-> 0, response |-> None]

ServerTypeOK ==
  /\ now \in Nat \ {0}
  /\ cloud \in Seq(Version)
  /\ push \in [Handler -> PushState]

\* Bootstrap stores the configured snapshot when there is none.
ServerInit ==
  /\ now = 2
  /\ IF Bootstrapped
       THEN \E x \in Snapshot : cloud = <<[snapshot |-> x, at |-> 1]>>
       ELSE cloud = <<>>
  /\ push = [h \in Handler |-> FreeHandler]

HasSnapshot == cloud # <<>>

Current == cloud[Len(cloud)]
Held(x) == \E k \in DOMAIN cloud : cloud[k].snapshot = x

\* Replies do not carry the snapshot.
About_Bare(status, snapshot) ==
  [status |-> status, version |-> Len(cloud), at |-> Current.at, snapshot |-> None]

\* pullResponse and pushResponse for the current version.
About(status, snapshot) ==
  [status |-> status, version |-> Len(cloud), at |-> Current.at,
   snapshot |-> snapshot]

\* A change on the client's side is not looked for.
PullResponse_CloudWins(snapshot, modifiedAt, lastSyncAt) ==
  IF ~ HasSnapshot
    THEN [status |-> "empty", version |-> 0, at |-> 0, snapshot |-> None]
  ELSE IF snapshot # Current.snapshot /\ (lastSyncAt = 0 \/ Current.at > lastSyncAt)
    THEN About("updated", Current.snapshot)
    ELSE About("up_to_date", None)

\* Pull.  A client that never synced has changed nothing since, whatever its
\* file holds, and differing contents with old times on both sides are
\* reported as up to date.
PullResponse(snapshot, modifiedAt, lastSyncAt) ==
  LET same == HasSnapshot /\ snapshot = Current.snapshot
      cloudChanged == lastSyncAt = 0 \/ Current.at > lastSyncAt
      localChanged == lastSyncAt > 0 /\ modifiedAt > lastSyncAt
  IN IF ~ HasSnapshot
       THEN [status |-> "empty", version |-> 0, at |-> 0, snapshot |-> None]
     ELSE IF same THEN About("up_to_date", None)
     ELSE IF localChanged /\ cloudChanged THEN About("conflict", Current.snapshot)
     ELSE IF cloudChanged THEN About("updated", Current.snapshot)
     ELSE IF localChanged THEN About("client_newer", None)
     ELSE About("up_to_date", None)

\* The time of the current version is not compared with the client's.
Outdated_Never(request) == request.lastSyncAt = 0

\* The pushing client has not seen the current version.
Outdated(request) == request.lastSyncAt = 0 \/ Current.at > request.lastSyncAt

\* A handler takes the request of session s.
AcceptPush(h, s, request) ==
  /\ push[h].pc = "free"
  /\ push' = [push EXCEPT ![h] = [@ EXCEPT !.pc = "read", !.session = s,
                                           !.request = request]]
  /\ UNCHANGED <<now, cloud>>

\* A reply that is never sent.
Answered_Dropped(p, response) == FreeHandler

\* The reply of a handler, which is done with the request.
Answered(p, response) ==
  [FreeHandler EXCEPT !.pc = "reply", !.session = p.session,
                      !.response = response]

\* Push, up to its decision: reply, or go on to save.
PushRead(h) ==
  LET p == push[h] IN
  /\ p.pc = "read"
  /\ push' = [push EXCEPT ![h] =
       IF HasSnapshot /\ Current.snapshot = p.request.snapshot
         THEN Answered(p, About("already_synced", None))
       ELSE IF HasSnapshot /\ Outdated(p.request)
         THEN Answered(p, About("conflict", Current.snapshot))
       ELSE [p EXCEPT !.pc = "save", !.readAt = now]]
  /\ UNCHANGED <<now, cloud>>

\* saveSnapshot: the clock is read, then the version is inserted.  RecordPush
\* after it may fail and turn the response into an error: see HandlerFails.
PushSave(h) ==
  LET p == push[h] IN
  /\ p.pc = "save"
  /\ \E at \in IF FreshMillis THEN {now} ELSE p.readAt .. now :
       /\ cloud' = Append(cloud, [snapshot |-> p.request.snapshot, at |-> at])
       /\ push' = [push EXCEPT ![h] =
            Answered(p, [status |-> "applied", at |-> at,
                         version |-> Len(cloud) + 1, snapshot |-> None])]
  /\ now' \in IF FreshMillis THEN {now + 1} ELSE {now, now + 1}

\* None waits for the reply any more.
DropReply(h) ==
  /\ push[h].pc = "reply"
  /\ push[h].session = None
  /\ push' = [push EXCEPT ![h] = FreeHandler]
  /\ UNCHANGED <<now, cloud>>

\* The store fails, the response is lost, or the server restarts: before or
\* after the save.  The versions are durable.
HandlerFails(h) ==
  /\ push[h].pc # "free"
  /\ push' = [push EXCEPT ![h] = FreeHandler]
  /\ UNCHANGED <<now, cloud>>
===============================================================================
