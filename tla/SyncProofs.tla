------------------------------- MODULE SyncProofs -------------------------------
(***************************************************************************)
(* Proofs about SyncManager, for any number of clients, sessions, handlers  *)
(* and versions and whatever fails.  What a client remembers is true under  *)
(* no further condition; what is overwritten, and what "up to date" means,  *)
(* are right under conditions that the theorems name.                       *)
(***************************************************************************)
EXTENDS SyncManager, TLAPS

\* A sync point, as state or request has it: none, or the time of a version.
PointIn(at, version, versions) ==
  IF at = 0 THEN version = 0
  ELSE version \in DOMAIN versions /\ versions[version].at = at

\* What MemoryIsTrue asks of one state, said of any list of versions.
Remembers(state, versions) ==
  /\ PointIn(state.lastSyncAt, state.seen, versions)
  /\ state.conflict # None =>
       /\ state.conflict.version \in DOMAIN versions
       /\ versions[state.conflict.version] =
            [snapshot |-> state.conflict.cloud, at |-> state.conflict.at]
       /\ state.conflict.local # state.conflict.cloud
       /\ state.lastSyncAt < state.conflict.at

\* Where a session keeps the file it loaded, the state it loaded, a request.
KeepsFile == {"status", "pull"}
KeepsState == {"status", "pull", "catalog", "adopt", "push", "wait"}
KeepsRequest == {"push", "wait"}

\* A session whose knowledge of the cloud, read or about to be saved, is true.
Sane(t, versions) ==
  /\ t \in SessionState
  /\ t.pc \in KeepsFile => t.file \in File
  /\ t.pc \in KeepsState => t.state \in State /\ Remembers(t.state, versions)
  /\ t.pc = "pull" /\ t.first => t.state.lastSyncAt = 0
  /\ t.pc = "catalog" => t.op = "providers"
  /\ t.pc = "adopt" => t.adopt \in Snapshot
  /\ t.pc = "record" \/ (t.pc = "adopt" /\ t.op # "providers")
       => t.next \in State /\ Remembers(t.next, versions)
  /\ t.pc \in KeepsRequest =>
       /\ t.request \in PushRequest
       /\ PointIn(t.request.lastSyncAt, t.request.base, versions)
       /\ t.state.lastSyncAt <= t.request.lastSyncAt

\* A reply about a stored version: the one pushed, or one the pusher missed.
Answers(response, request, versions) ==
  /\ response \in Response
  /\ response.version \in DOMAIN versions
  /\ versions[response.version].at = response.at
  /\ IF response.status = "conflict"
       THEN /\ response.snapshot = versions[response.version].snapshot
            /\ response.snapshot # request.snapshot
            /\ request.lastSyncAt < response.at
       ELSE versions[response.version].snapshot = request.snapshot

\* A handler works on the request of the session that waits for it.
Serves(p, sessions, versions) ==
  /\ p.pc = "free" => p.session = None
  /\ p.session # None => p.session \in Session /\ sessions[p.session].pc = "wait"
  /\ p.pc \in {"read", "save"} =>
       /\ p.request \in PushRequest
       /\ PointIn(p.request.lastSyncAt, p.request.base, versions)
       /\ p.session # None => p.request = sessions[p.session].request
  /\ p.pc = "save" => p.readAt # 0
  /\ p.pc = "reply" /\ p.session # None =>
       Answers(p.response, sessions[p.session].request, versions)

MemoryInv == \A c \in Client : Remembers(syncState[c], cloud)
SessionInv == \A s \in Session : Sane(session[s], cloud)
HandlerInv ==
  /\ \A h \in Handler : Serves(push[h], session, cloud)
  /\ \A g, h \in Handler :
       push[g].session = push[h].session /\ push[g].session # None => g = h

IInv == TypeOK /\ MemoryInv /\ SessionInv /\ HandlerInv

-------------------------------------------------------------------------------
(* The stored versions *)

LEMMA CurrentIsVersion ==
  ASSUME cloud \in Seq(Version), HasSnapshot
  PROVE  /\ Len(cloud) \in DOMAIN cloud
         /\ Len(cloud) \in Nat \ {0}
         /\ Current \in Version
         /\ Current.snapshot \in Snapshot
         /\ Current.at \in Nat \ {0}
  <1>1. Len(cloud) \in Nat \ {0}
    BY DEF HasSnapshot
  <1>2. Current \in Version
    BY <1>1 DEF Current
  <1> QED
    BY <1>1, <1>2 DEF Version

\* What was true of the stored versions stays true when one is added.
LEMMA StillThere ==
  ASSUME NEW versions \in Seq(Version), NEW v \in Version
  PROVE  \A k \in DOMAIN versions :
           /\ k \in DOMAIN Append(versions, v)
           /\ Append(versions, v)[k] = versions[k]
  OBVIOUS

LEMMA RememberedStays ==
  ASSUME NEW versions \in Seq(Version), NEW v \in Version
  PROVE  /\ \A at, k : PointIn(at, k, versions) => PointIn(at, k, Append(versions, v))
         /\ \A state : Remembers(state, versions) => Remembers(state, Append(versions, v))
  <1>1. ASSUME NEW at, NEW k, PointIn(at, k, versions)
        PROVE  PointIn(at, k, Append(versions, v))
    BY <1>1, StillThere DEF PointIn
  <1>2. ASSUME NEW state, Remembers(state, versions)
        PROVE  Remembers(state, Append(versions, v))
    <2>1. PointIn(state.lastSyncAt, state.seen, Append(versions, v))
      BY <1>1, <1>2 DEF Remembers
    <2> QED
      BY <2>1, <1>2, StillThere DEF Remembers
  <1> QED
    BY <1>1, <1>2

LEMMA SaneStays ==
  ASSUME NEW versions \in Seq(Version), NEW v \in Version, NEW t, Sane(t, versions)
  PROVE  Sane(t, Append(versions, v))
  BY RememberedStays DEF Sane

LEMMA AnswerStays ==
  ASSUME NEW versions \in Seq(Version), NEW v \in Version,
         NEW response, NEW request, Answers(response, request, versions)
  PROVE  Answers(response, request, Append(versions, v))
  BY StillThere DEF Answers

\* The sync point of a reply about the current version.
LEMMA AboutCurrent ==
  ASSUME cloud \in Seq(Version), HasSnapshot,
         NEW reply, reply.version = Len(cloud), reply.at = Current.at
  PROVE  SyncedAt(reply) \in State /\ Remembers(SyncedAt(reply), cloud)
  <1>1. SyncedAt(reply) = [lastSyncAt |-> Current.at, seen |-> Len(cloud), conflict |-> None]
    BY DEF SyncedAt
  <1>2. SyncedAt(reply) \in State
    BY <1>1, CurrentIsVersion DEF State
  <1>3. PointIn(Current.at, Len(cloud), cloud)
    BY CurrentIsVersion DEF PointIn, Current
  <1> QED
    BY <1>1, <1>2, <1>3 DEF Remembers

-------------------------------------------------------------------------------
(* The parts of a session *)

LEMMA IdleIsSane ==
  IdleSession \in SessionState /\ \A versions : Sane(IdleSession, versions)
  <1>1. IdleSession \in SessionState
    BY DEF IdleSession, SessionState
  <1> QED
    BY <1>1 DEF Sane, IdleSession, KeepsFile, KeepsState, KeepsRequest

LEMMA ConcludingIsSane ==
  ASSUME NEW versions, NEW next \in State, Remembers(next, versions),
         NEW op \in {"none", "now"}
  PROVE  Sane(Concluding(op, next), versions)
  <1>1. Concluding(op, next) \in SessionState
    BY DEF Concluding, IdleSession, SessionState
  <1>2. Concluding(op, next).pc = "record" /\ Concluding(op, next).next = next
    BY DEF Concluding, IdleSession
  <1> QED
    BY <1>1, <1>2 DEF Sane, KeepsFile, KeepsState, KeepsRequest

LEMMA NewStateIsTrue ==
  NewState \in State /\ \A versions : Remembers(NewState, versions)
  BY DEF NewState, State, Remembers, PointIn

\* What a session loads is well typed and true.
LEMMA LoadedTypes ==
  ASSUME IInv, NEW s \in Session
  PROVE  /\ OwnerOf[s] \in Client
         /\ file[OwnerOf[s]] \in File
         /\ file[OwnerOf[s]].snapshot \in Snapshot
         /\ syncState[OwnerOf[s]] \in State
         /\ Remembers(syncState[OwnerOf[s]], cloud)
  <1>1. OwnerOf[s] \in Client
    BY SyncManagerAssumption
  <1> QED
    BY <1>1 DEF IInv, TypeOK, MemoryInv, File

LEMMA LoadedIsTyped ==
  ASSUME IInv, NEW s \in Session,
         NEW op \in {"start", "now", "shutdown", "providers", "resolve"},
         NEW pc \in {"status", "catalog", "push"}
  PROVE  Loaded(s, op, pc) \in SessionState
  <1>1. file[OwnerOf[s]] \in File /\ syncState[OwnerOf[s]] \in State
    BY LoadedTypes
  <1> QED
    BY <1>1 DEF Loaded, IdleSession, SessionState

-------------------------------------------------------------------------------
(* Steps of one session *)

\* A session that no handler works for may go on to any sane state, and write
\* files and states of its own.
LEMMA OwnStep ==
  ASSUME IInv, NEW s \in Session, session[s].pc # "wait",
         NEW t, session' = [session EXCEPT ![s] = t], Sane(t, cloud),
         UNCHANGED serverVars,
         file' \in [Client -> File], syncState' \in [Client -> State],
         MemoryInv'
  PROVE  IInv'
  <1>1. cloud' = cloud /\ push' = push /\ ServerTypeOK'
    BY DEF IInv, TypeOK, ServerTypeOK, serverVars
  <1>2. TypeOK'
    BY <1>1 DEF IInv, TypeOK, Sane
  <1>3. SessionInv'
    BY <1>1 DEF IInv, TypeOK, SessionInv
  <1>4. ASSUME NEW h \in Handler
        PROVE  Serves(push'[h], session', cloud')
    BY <1>1 DEF IInv, TypeOK, HandlerInv, Serves
  <1>5. HandlerInv'
    BY <1>1, <1>4 DEF IInv, HandlerInv
  <1> QED
    BY <1>2, <1>3, <1>5 DEF IInv

\* The same, when files and states stay.
LEMMA QuietStep ==
  ASSUME IInv, NEW s \in Session, session[s].pc # "wait",
         NEW t, session' = [session EXCEPT ![s] = t], Sane(t, cloud),
         UNCHANGED <<serverVars, file, syncState>>
  PROVE  IInv'
  <1>1. MemoryInv'
    BY DEF IInv, MemoryInv, serverVars
  <1>2. file' \in [Client -> File] /\ syncState' \in [Client -> State]
    BY DEF IInv, TypeOK
  <1> QED
    BY <1>1, <1>2, OwnStep

\* The same, when the configuration is saved.
LEMMA SavingStep ==
  ASSUME IInv, NEW s \in Session, session[s].pc # "wait",
         NEW t, session' = [session EXCEPT ![s] = t], Sane(t, cloud),
         NEW x \in Snapshot, SaveFile(OwnerOf[s], x),
         UNCHANGED <<serverVars, syncState>>
  PROVE  IInv'
  <1>1. MemoryInv'
    BY DEF IInv, MemoryInv, serverVars
  <1>2. OwnerOf[s] \in Client
    BY LoadedTypes
  <1>3. now + Skew[OwnerOf[s]] \in Int
    BY <1>2, SyncManagerAssumption DEF IInv, TypeOK, ServerTypeOK
  <1>4. file' \in [Client -> File] /\ syncState' \in [Client -> State]
    BY <1>3 DEF IInv, TypeOK, SaveFile, Written, File
  <1> QED
    BY <1>1, <1>4, OwnStep

\* The answer to a pull, and what was compared to come to it.
LEMMA PullAnswers ==
  ASSUME cloud \in Seq(Version), NEW x \in Snapshot, NEW m \in Int, NEW last \in Nat
  PROVE  LET reply == PullResponse(x, m, last) IN
         /\ reply.status # "empty" =>
              HasSnapshot /\ reply.version = Len(cloud) /\ reply.at = Current.at
         /\ reply.status \in {"updated", "conflict"} =>
              /\ reply.snapshot = Current.snapshot
              /\ x # Current.snapshot
              /\ last = 0 \/ Current.at > last
         /\ reply.status \notin {"updated", "conflict"} => reply.snapshot = None
         /\ reply.status = "updated" => last = 0 \/ m <= last
         /\ reply.status = "conflict" => last > 0
         /\ reply.status = "up_to_date" =>
              x = Current.snapshot \/ (last > 0 /\ Current.at <= last /\ m <= last)
  <1>1. CASE ~ HasSnapshot
    BY <1>1 DEF PullResponse
  <1>2. CASE HasSnapshot
    <2>1. Current.at \in Nat \ {0}
      BY <1>2, CurrentIsVersion
    <2> QED
      BY <1>2, <2>1 DEF PullResponse, About
  <1> QED
    BY <1>1, <1>2

\* A conflict with what the cloud has now, found by a client that does not
\* have it.
LEMMA ConflictIsTrue ==
  ASSUME cloud \in Seq(Version), HasSnapshot,
         NEW state \in State, Remembers(state, cloud), NEW x \in Snapshot,
         NEW reply, reply.snapshot \in Snapshot, reply.snapshot # x,
         reply.version \in Nat, reply.at \in Nat,
         reply.version \in DOMAIN cloud,
         cloud[reply.version].snapshot = reply.snapshot,
         cloud[reply.version].at = reply.at,
         state.lastSyncAt < reply.at
  PROVE  /\ ConflictState(state, x, reply) \in State
         /\ Remembers(ConflictState(state, x, reply), cloud)
  <1> DEFINE next == ConflictState(state, x, reply)
             conflict == [local |-> x, cloud |-> reply.snapshot, at |-> reply.at,
                          version |-> reply.version]
  <1>1. conflict \in Conflict
    BY DEF Conflict
  <1>2. next \in State
    BY <1>1 DEF State, ConflictState
  <1>3. /\ next.lastSyncAt = state.lastSyncAt /\ next.seen = state.seen
        /\ next.conflict = conflict
    BY DEF State, ConflictState
  <1>4. cloud[reply.version] = [snapshot |-> reply.snapshot, at |-> reply.at]
    <2>1. cloud[reply.version] \in Version
      OBVIOUS
    <2> QED
      BY <2>1 DEF Version
  <1> HIDE DEF next
  <1> QED
    BY <1>2, <1>3, <1>4 DEF Remembers, next

-------------------------------------------------------------------------------
(* The actions *)

LEMMA BeginSyncKeeps ==
  ASSUME IInv, NEW s \in Session, NEW op \in {"start", "now"}, BeginSync(s, op)
  PROVE  IInv'
  <1> DEFINE t == Loaded(s, op, "status")
  <1>1. /\ t.pc = "status" /\ t.first = FALSE
        /\ t.file = file[OwnerOf[s]] /\ t.state = syncState[OwnerOf[s]]
    BY DEF Loaded, IdleSession
  <1>2. t \in SessionState
    BY LoadedIsTyped
  <1> HIDE DEF t
  <1>3. Sane(t, cloud)
    BY <1>1, <1>2, LoadedTypes DEF Sane, KeepsFile, KeepsState, KeepsRequest
  <1> QED
    BY <1>3, QuietStep DEF BeginSync, t

LEMMA BeginProvidersKeeps ==
  ASSUME IInv, NEW s \in Session, BeginProviders(s)
  PROVE  IInv'
  <1> DEFINE t == Loaded(s, "providers", "catalog")
  <1>1. /\ t.pc = "catalog" /\ t.op = "providers" /\ t.first = FALSE
        /\ t.file = file[OwnerOf[s]] /\ t.state = syncState[OwnerOf[s]]
    BY DEF Loaded, IdleSession
  <1>2. t \in SessionState
    BY LoadedIsTyped
  <1> HIDE DEF t
  <1>3. Sane(t, cloud)
    BY <1>1, <1>2, LoadedTypes DEF Sane, KeepsFile, KeepsState, KeepsRequest
  <1> QED
    BY <1>3, QuietStep DEF BeginProviders, t

LEMMA MisconfiguredKeeps ==
  ASSUME IInv, NEW s \in Session, Misconfigured(s) \/ OverrideRefused(s)
  PROVE  IInv'
  <1>1. Sane(Concluding("none", NewState), cloud)
    BY ConcludingIsSane, NewStateIsTrue
  <1> QED
    BY <1>1, QuietStep DEF Misconfigured, OverrideRefused, Conclude

LEMMA LoadForPushKeeps ==
  ASSUME IInv, NEW s \in Session, LoadForPush(s)
  PROVE  IInv'
  <1> DEFINE c == OwnerOf[s]
             request == [snapshot |-> file[c].snapshot,
                         lastSyncAt |-> syncState[c].lastSyncAt,
                         base |-> syncState[c].seen]
             loaded == Loaded(s, "shutdown", "push")
             t == [loaded EXCEPT !.request = request]
  <1>1. request \in PushRequest
    BY LoadedTypes DEF PushRequest, State
  <1>2. loaded \in SessionState
    BY LoadedIsTyped
  <1>3. t \in SessionState
    BY <1>1, <1>2 DEF SessionState
  <1>4. /\ t.pc = "push" /\ t.state = syncState[c] /\ t.request = request
    BY DEF Loaded, IdleSession
  <1>5. syncState[c] \in State /\ Remembers(syncState[c], cloud)
    BY LoadedTypes
  <1>6. PointIn(request.lastSyncAt, request.base, cloud)
    BY <1>5 DEF Remembers
  <1>7. syncState[c].lastSyncAt <= request.lastSyncAt
    BY <1>5 DEF State
  <1>8. session' = [session EXCEPT ![s] = t] /\ session[s].pc # "wait"
    BY DEF LoadForPush
  <1> HIDE DEF t, request, loaded
  <1>9. Sane(t, cloud)
    BY <1>1, <1>3, <1>4, <1>5, <1>6, <1>7 DEF Sane, KeepsFile, KeepsState, KeepsRequest
  <1> QED
    BY <1>8, <1>9, QuietStep DEF LoadForPush

\* The conflict that a client shows its user.
LEMMA ConflictFields ==
  ASSUME IInv, NEW s \in Session, syncState[OwnerOf[s]].conflict # None
  PROVE  LET conflict == syncState[OwnerOf[s]].conflict IN
         /\ conflict \in Conflict
         /\ conflict.local \in Snapshot /\ conflict.cloud \in Snapshot
         /\ conflict.at \in Nat \ {0}
         /\ conflict.version \in DOMAIN cloud /\ conflict.version \in Nat
         /\ cloud[conflict.version].at = conflict.at
         /\ cloud[conflict.version].snapshot = conflict.cloud
         /\ syncState[OwnerOf[s]].lastSyncAt < conflict.at
  <1> DEFINE conflict == syncState[OwnerOf[s]].conflict
  <1>1. syncState[OwnerOf[s]] \in State /\ Remembers(syncState[OwnerOf[s]], cloud)
    BY LoadedTypes
  <1>2. conflict \in Conflict
    BY <1>1 DEF State
  <1>3. /\ conflict.version \in DOMAIN cloud
        /\ cloud[conflict.version] = [snapshot |-> conflict.cloud, at |-> conflict.at]
        /\ syncState[OwnerOf[s]].lastSyncAt < conflict.at
    BY <1>1 DEF Remembers
  <1>4. cloud[conflict.version] \in Version
    BY <1>3 DEF IInv, TypeOK, ServerTypeOK
  <1>5. cloud[conflict.version].at = conflict.at
    BY <1>3
  <1>6. conflict.at \in Nat \ {0}
    BY <1>4, <1>5 DEF Version
  <1> QED
    BY <1>2, <1>3, <1>6 DEF Conflict

LEMMA ResolveWithCloudKeeps ==
  ASSUME IInv, NEW s \in Session, ResolveWithCloud(s)
  PROVE  IInv'
  <1> DEFINE conflict == syncState[OwnerOf[s]].conflict
             next == [lastSyncAt |-> conflict.at, seen |-> conflict.version,
                      conflict |-> None]
  <1>1. /\ conflict.cloud \in Snapshot
        /\ conflict.at \in Nat \ {0}
        /\ conflict.version \in DOMAIN cloud /\ conflict.version \in Nat
        /\ cloud[conflict.version].at = conflict.at
    BY ConflictFields DEF ResolveWithCloud
  <1>2. next \in State
    BY <1>1 DEF State
  <1>3. Remembers(next, cloud)
    BY <1>1 DEF Remembers, PointIn
  <1>4. Sane(Concluding("none", next), cloud)
    BY <1>2, <1>3, ConcludingIsSane
  <1> QED
    BY <1>1, <1>4, SavingStep DEF ResolveWithCloud

LEMMA ResolveWithLocalKeeps ==
  ASSUME IInv, NEW s \in Session, ResolveWithLocal(s)
  PROVE  IInv'
  <1> DEFINE c == OwnerOf[s]
             conflict == syncState[c].conflict
             request == OverrideRequest(syncState[c])
             loaded == Loaded(s, "resolve", "push")
             t == [loaded EXCEPT !.request = request]
  <1>1. /\ conflict.local \in Snapshot
        /\ conflict.at \in Nat \ {0}
        /\ conflict.version \in DOMAIN cloud /\ conflict.version \in Nat
        /\ cloud[conflict.version].at = conflict.at
        /\ syncState[c].lastSyncAt < conflict.at
    BY ConflictFields DEF ResolveWithLocal
  <1>2. request = [snapshot |-> conflict.local, lastSyncAt |-> conflict.at,
                   base |-> conflict.version]
    BY DEF OverrideRequest
  <1>3. request \in PushRequest /\ request.lastSyncAt = conflict.at
    BY <1>1, <1>2 DEF PushRequest
  <1>4. PointIn(request.lastSyncAt, request.base, cloud)
    BY <1>1, <1>2 DEF PointIn
  <1>5. loaded \in SessionState
    BY LoadedIsTyped
  <1>6. t \in SessionState
    BY <1>3, <1>5 DEF SessionState
  <1>7. /\ t.pc = "push" /\ t.state = syncState[c] /\ t.request = request
    BY DEF Loaded, IdleSession
  <1>8. syncState[c] \in State /\ Remembers(syncState[c], cloud)
    BY LoadedTypes
  <1>9. syncState[c].lastSyncAt <= request.lastSyncAt
    BY <1>1, <1>3, <1>8 DEF State
  <1>10. /\ session' = [session EXCEPT ![s] = t] /\ session[s].pc # "wait"
         /\ SaveFile(c, conflict.local)
    BY DEF ResolveWithLocal
  <1> HIDE DEF t, request, loaded
  <1>11. Sane(t, cloud)
    BY <1>3, <1>4, <1>6, <1>7, <1>8, <1>9 DEF Sane, KeepsFile, KeepsState, KeepsRequest
  <1> QED
    BY <1>1, <1>10, <1>11, SavingStep DEF ResolveWithLocal

LEMMA StatusReplyKeeps ==
  ASSUME IInv, NEW s \in Session, StatusReply(s)
  PROVE  IInv'
  <1> DEFINE me == session[s]
             first == /\ me.state.lastSyncAt = 0
                      /\ HasSnapshot
                      /\ me.file.snapshot # Current.snapshot
             t == [me EXCEPT !.pc = "pull", !.first = first]
  <1>1. Sane(me, cloud) /\ me.pc = "status"
    BY DEF StatusReply, IInv, SessionInv
  <1>2. me \in SessionState
    BY <1>1 DEF Sane
  <1>3. t \in SessionState
    BY <1>2 DEF SessionState
  <1>4. /\ t.pc = "pull" /\ t.first = first /\ t.file = me.file
        /\ t.state = me.state
    BY <1>2 DEF SessionState
  <1>5. me.file \in File /\ me.state \in State /\ Remembers(me.state, cloud)
    BY <1>1 DEF Sane, KeepsFile, KeepsState
  <1>6. session' = [session EXCEPT ![s] = t]
    BY DEF StatusReply
  <1> HIDE DEF t
  <1>7. Sane(t, cloud)
    BY <1>3, <1>4, <1>5 DEF Sane, KeepsFile, KeepsState, KeepsRequest
  <1> QED
    BY <1>1, <1>6, <1>7, QuietStep DEF StatusReply

\* A session that pulls, its request, and the reply.
LEMMA Pulling ==
  ASSUME IInv, NEW s \in Session, session[s].pc = "pull"
  PROVE  LET me == session[s] IN
         /\ me \in SessionState
         /\ me.file \in File /\ me.file.snapshot \in Snapshot
         /\ me.file.modifiedAt \in Int
         /\ me.state \in State /\ me.state.lastSyncAt \in Nat
         /\ Remembers(me.state, cloud)
         /\ me.first => me.state.lastSyncAt = 0
  <1>1. Sane(session[s], cloud)
    BY DEF IInv, SessionInv
  <1> QED
    BY <1>1 DEF Sane, KeepsFile, KeepsState, File, State

\* What is saved after a pull that changes no configuration.
LEMMA AfterPullIsTrue ==
  ASSUME IInv, NEW s \in Session, session[s].pc = "pull",
         NEW reply, reply = PullResponseTo(s),
         session[s].first \/ reply.status # "updated"
  PROVE  /\ AfterPull(session[s], reply) \in State
         /\ Remembers(AfterPull(session[s], reply), cloud)
  <1> DEFINE me == session[s]
             next == AfterPull(me, reply)
  <1>1. /\ me.file.snapshot \in Snapshot /\ me.file.modifiedAt \in Int
        /\ me.state \in State /\ me.state.lastSyncAt \in Nat
        /\ Remembers(me.state, cloud)
        /\ me.first => me.state.lastSyncAt = 0
    BY Pulling
  <1>2. cloud \in Seq(Version)
    BY DEF IInv, TypeOK, ServerTypeOK
  <1>3. /\ reply.status # "empty" =>
             HasSnapshot /\ reply.version = Len(cloud) /\ reply.at = Current.at
        /\ reply.status \in {"updated", "conflict"} =>
             /\ reply.snapshot = Current.snapshot
             /\ me.file.snapshot # Current.snapshot
             /\ me.state.lastSyncAt = 0 \/ Current.at > me.state.lastSyncAt
        /\ reply.status \notin {"updated", "conflict"} => reply.snapshot = None
    BY <1>1, <1>2, PullAnswers DEF PullResponseTo
  <1>4. CASE reply.status \in {"updated", "conflict"}
    <2>1. HasSnapshot /\ Len(cloud) \in DOMAIN cloud /\ Len(cloud) \in Nat
          /\ Current.snapshot \in Snapshot /\ Current.at \in Nat \ {0}
      BY <1>2, <1>3, <1>4, CurrentIsVersion
    <2>2. me.state.lastSyncAt < reply.at
      BY <1>1, <1>3, <1>4, <2>1
    <2>3. /\ ConflictState(me.state, me.file.snapshot, reply) \in State
          /\ Remembers(ConflictState(me.state, me.file.snapshot, reply), cloud)
      BY <1>1, <1>2, <1>3, <1>4, <2>1, <2>2, ConflictIsTrue DEF Current
    <2>4. reply.snapshot # None
      BY <1>3, <1>4, <2>1, SyncServerAssumption
    <2>5. next = ConflictState(me.state, me.file.snapshot, reply)
      BY <1>4, <2>4 DEF AfterPull
    <2> QED
      BY <2>3, <2>5
  <1>5. CASE reply.status \notin {"updated", "conflict"} /\ me.first
    BY <1>1, <1>3, <1>5 DEF AfterPull
  <1>6. CASE reply.status = "up_to_date" /\ ~ me.first
    <2>1. next = SyncedAt(reply)
      BY <1>6 DEF AfterPull
    <2> QED
      BY <1>2, <1>3, <1>6, <2>1, AboutCurrent
  <1>7. CASE reply.status \notin {"updated", "conflict", "up_to_date"} /\ ~ me.first
    <2>1. next = [me.state EXCEPT !.conflict = None]
      BY <1>7 DEF AfterPull
    <2>2. /\ next.lastSyncAt = me.state.lastSyncAt /\ next.seen = me.state.seen
          /\ next.conflict = None /\ next \in State
      BY <1>1, <2>1 DEF State
    <2> QED
      BY <1>1, <2>2 DEF Remembers
  <1> QED
    BY <1>4, <1>5, <1>6, <1>7

LEMMA PullReplyKeeps ==
  ASSUME IInv, NEW s \in Session, PullReply(s)
  PROVE  IInv'
  <1> DEFINE me == session[s]
             reply == PullResponseTo(s)
             adopts == ~ me.first /\ reply.status = "updated"
             pushes == /\ me.op = "now" /\ ~ me.first
                       /\ reply.status \in {"empty", "client_newer"}
             t == [me EXCEPT !.pc = "adopt", !.adopt = reply.snapshot,
                             !.next = SyncedAt(reply)]
  <1>1. /\ me.pc = "pull"
        /\ session' = [session EXCEPT ![s] =
             IF adopts THEN t
                       ELSE Concluding(IF pushes THEN "now" ELSE "none",
                                       AfterPull(me, reply))]
        /\ UNCHANGED <<serverVars, file, syncState>>
    BY DEF PullReply
  <1>2. /\ me \in SessionState
        /\ me.file.snapshot \in Snapshot /\ me.file.modifiedAt \in Int
        /\ me.state \in State /\ me.state.lastSyncAt \in Nat
        /\ Remembers(me.state, cloud)
    BY <1>1, Pulling
  <1>3. cloud \in Seq(Version)
    BY DEF IInv, TypeOK, ServerTypeOK
  <1>4. CASE adopts
    <2>1. /\ HasSnapshot /\ reply.version = Len(cloud) /\ reply.at = Current.at
          /\ reply.snapshot = Current.snapshot
      BY <1>2, <1>3, <1>4, PullAnswers DEF PullResponseTo
    <2>2. SyncedAt(reply) \in State /\ Remembers(SyncedAt(reply), cloud)
      BY <1>3, <2>1, AboutCurrent
    <2>3. reply.snapshot \in Snapshot
      BY <1>3, <2>1, CurrentIsVersion
    <2>4. t \in SessionState
      BY <1>2, <2>2, <2>3 DEF SessionState
    <2>5. /\ t.pc = "adopt" /\ t.adopt = reply.snapshot /\ t.next = SyncedAt(reply)
          /\ t.state = me.state
      BY <1>2 DEF SessionState
    <2>6. session' = [session EXCEPT ![s] = t]
      BY <1>1, <1>4
    <2> HIDE DEF t, reply
    <2>7. Sane(t, cloud)
      BY <1>2, <2>2, <2>3, <2>4, <2>5 DEF Sane, KeepsFile, KeepsState, KeepsRequest
    <2> QED
      BY <1>1, <2>6, <2>7, QuietStep
  <1>5. CASE ~ adopts
    <2>1. /\ AfterPull(me, reply) \in State
          /\ Remembers(AfterPull(me, reply), cloud)
      BY <1>1, <1>5, AfterPullIsTrue, Zenon
    <2>2. Sane(Concluding(IF pushes THEN "now" ELSE "none", AfterPull(me, reply)), cloud)
      BY <2>1, ConcludingIsSane
    <2> QED
      BY <1>1, <1>5, <2>2, QuietStep
  <1> QED
    BY <1>4, <1>5

LEMMA CatalogReplyKeeps ==
  ASSUME IInv, NEW s \in Session, CatalogReply(s)
  PROVE  IInv'
  <1> DEFINE me == session[s]
             t == [me EXCEPT !.pc = "adopt", !.adopt = Current.snapshot]
  <1>1. Sane(me, cloud) /\ me.pc = "catalog"
    BY DEF CatalogReply, IInv, SessionInv
  <1>2. me \in SessionState /\ me.state \in State /\ Remembers(me.state, cloud)
    BY <1>1 DEF Sane, KeepsState
  <1>3. Current.snapshot \in Snapshot
    BY CurrentIsVersion DEF CatalogReply, IInv, TypeOK, ServerTypeOK
  <1>4. t \in SessionState
    BY <1>2, <1>3 DEF SessionState
  <1>5. /\ t.pc = "adopt" /\ t.adopt = Current.snapshot
        /\ t.state = me.state /\ t.op = me.op
    BY <1>2 DEF SessionState
  <1>6. me.op = "providers"
    BY <1>1 DEF Sane
  <1>7. session' = [session EXCEPT ![s] = t]
    BY <1>2 DEF CatalogReply
  <1> HIDE DEF t
  <1>8. Sane(t, cloud)
    BY <1>2, <1>3, <1>4, <1>5, <1>6 DEF Sane, KeepsFile, KeepsState, KeepsRequest
  <1> QED
    BY <1>1, <1>7, <1>8, QuietStep DEF CatalogReply

\* A session that has something to save has it.
LEMMA AdoptCloudKeeps ==
  ASSUME IInv, NEW s \in Session, AdoptCloud(s)
  PROVE  IInv'
  <1> DEFINE me == session[s]
             t == IF me.op = "providers" THEN IdleSession
                                         ELSE Concluding("none", me.next)
  <1>1. Sane(me, cloud) /\ me.pc = "adopt"
    BY DEF AdoptCloud, IInv, SessionInv
  <1>2. me.adopt \in Snapshot
    BY <1>1 DEF Sane
  <1>3. me.op # "providers" => me.next \in State /\ Remembers(me.next, cloud)
    BY <1>1 DEF Sane
  <1>4. Sane(t, cloud)
    BY <1>3, IdleIsSane, ConcludingIsSane
  <1>5. session' = [session EXCEPT ![s] = t] /\ SaveFile(OwnerOf[s], me.adopt)
    BY DEF AdoptCloud
  <1> QED
    BY <1>1, <1>2, <1>4, <1>5, SavingStep DEF AdoptCloud

LEMMA RecordStateKeeps ==
  ASSUME IInv, NEW s \in Session, RecordState(s)
  PROVE  IInv'
  <1> DEFINE me == session[s]
             loading == [IdleSession EXCEPT !.pc = "load"]
             t == IF me.op = "now" THEN loading ELSE IdleSession
  <1>1. Sane(me, cloud) /\ me.pc = "record"
    BY DEF RecordState, IInv, SessionInv
  <1>2. me.next \in State /\ Remembers(me.next, cloud)
    BY <1>1 DEF Sane
  <1>3. Sane(loading, cloud)
    BY DEF Sane, IdleSession, SessionState, KeepsFile, KeepsState, KeepsRequest
  <1>4. Sane(t, cloud)
    BY <1>3, IdleIsSane
  <1>5. /\ session' = [session EXCEPT ![s] = t]
        /\ syncState' = [syncState EXCEPT ![OwnerOf[s]] = me.next]
        /\ UNCHANGED <<serverVars, file>>
    BY DEF RecordState
  <1>6. syncState' \in [Client -> State] /\ file' \in [Client -> File]
    BY <1>2, <1>5 DEF IInv, TypeOK
  <1>7. MemoryInv'
    BY <1>2, <1>5 DEF IInv, TypeOK, MemoryInv, serverVars
  <1> QED
    BY <1>1, <1>4, <1>5, <1>6, <1>7, OwnStep

LEMMA SaveFailsKeeps ==
  ASSUME IInv, NEW s \in Session, SaveFails(s)
  PROVE  IInv'
  <1> DEFINE me == session[s]
  <1>1. Sane(me, cloud) /\ me.pc = "adopt"
    BY DEF SaveFails, IInv, SessionInv
  <1>2. me.state \in State /\ Remembers(me.state, cloud)
    BY <1>1 DEF Sane, KeepsState
  <1>3. Sane(Concluding("none", me.state), cloud)
    BY <1>2, ConcludingIsSane
  <1> QED
    BY <1>1, <1>3, QuietStep DEF SaveFails, ConcludeWithError, Conclude

LEMMA EditKeeps ==
  ASSUME IInv, NEW c \in Client, NEW x \in Snapshot, Edit(c, x)
  PROVE  IInv'
  <1>1. UNCHANGED <<now, cloud, push, syncState, session>>
    BY DEF Edit, serverVars
  <1>2. now + Skew[c] \in Int
    BY SyncManagerAssumption DEF IInv, TypeOK, ServerTypeOK
  <1>3. file' \in [Client -> File]
    BY <1>2 DEF IInv, TypeOK, Edit, SaveFile, Written, File
  <1>4. TypeOK'
    BY <1>1, <1>3 DEF IInv, TypeOK, ServerTypeOK
  <1>5. MemoryInv' /\ SessionInv'
    BY <1>1 DEF IInv, MemoryInv, SessionInv
  <1>6. HandlerInv'
    BY <1>1 DEF IInv, HandlerInv
  <1> QED
    BY <1>4, <1>5, <1>6 DEF IInv

-------------------------------------------------------------------------------
(* Sessions and handlers *)

\* Steps that leave files, states and versions alone, and sessions but some
\* that go on to sane states.
LEMMA MeetingStep ==
  ASSUME IInv, UNCHANGED <<now, cloud, file, syncState>>,
         session' \in [Session -> SessionState], SessionInv',
         push' \in [Handler -> PushState], HandlerInv'
  PROVE  IInv'
  BY DEF IInv, TypeOK, ServerTypeOK, MemoryInv

LEMMA HandlerTypes ==
  ASSUME IInv, NEW h \in Handler
  PROVE  push[h] \in PushState /\ Serves(push[h], session, cloud)
  BY DEF IInv, TypeOK, ServerTypeOK, HandlerInv

LEMMA FreeServes ==
  FreeHandler \in PushState /\ \A sessions, versions : Serves(FreeHandler, sessions, versions)
  BY DEF FreeHandler, PushState, Serves

LEMMA SendPushKeeps ==
  ASSUME IInv, NEW s \in Session, NEW h \in Handler, SendPush(s, h)
  PROVE  IInv'
  <1> DEFINE me == session[s]
             t == [me EXCEPT !.pc = "wait"]
             p == [push[h] EXCEPT !.pc = "read", !.session = s, !.request = me.request]
  <1>1. Sane(me, cloud) /\ me.pc = "push"
    BY DEF SendPush, IInv, SessionInv
  <1>2. /\ me \in SessionState /\ me.state \in State /\ Remembers(me.state, cloud)
        /\ me.request \in PushRequest
        /\ PointIn(me.request.lastSyncAt, me.request.base, cloud)
        /\ me.state.lastSyncAt <= me.request.lastSyncAt
    BY <1>1 DEF Sane, KeepsState, KeepsRequest
  <1>3. t \in SessionState
    BY <1>2 DEF SessionState
  <1>4. t.pc = "wait" /\ t.state = me.state /\ t.request = me.request
    BY <1>2 DEF SessionState
  <1>5. push[h] \in PushState
    BY HandlerTypes
  <1>6. p \in PushState
    BY <1>2, <1>5 DEF PushState
  <1>7. p.pc = "read" /\ p.session = s /\ p.request = me.request
    BY <1>5 DEF PushState
  <1>8. /\ session' = [session EXCEPT ![s] = t]
        /\ push' = [push EXCEPT ![h] = p]
        /\ UNCHANGED <<now, cloud, file, syncState>>
    BY <1>2, <1>5 DEF SendPush, AcceptPush, SessionState
  <1> HIDE DEF t, p
  <1>9. Sane(t, cloud)
    BY <1>2, <1>3, <1>4 DEF Sane, KeepsFile, KeepsState, KeepsRequest
  <1>10. session' \in [Session -> SessionState] /\ SessionInv'
    BY <1>3, <1>8, <1>9 DEF IInv, TypeOK, SessionInv
  <1>11. push' \in [Handler -> PushState]
    BY <1>6, <1>8 DEF IInv, TypeOK, ServerTypeOK
  <1>12. \A g \in Handler : push[g].session # s
    BY <1>1, HandlerTypes, SyncServerAssumption DEF Serves
  <1>13. session' \in [Session -> SessionState] /\ session'[s] = t
         /\ \A r \in Session : r # s => session'[r] = session[r]
    BY <1>8, <1>10 DEF IInv, TypeOK
  <1>14. push'[h] = p /\ \A g \in Handler : g # h => push'[g] = push[g]
    BY <1>8 DEF IInv, TypeOK, ServerTypeOK
  <1>15. Serves(p, session', cloud)
    BY <1>2, <1>4, <1>7, <1>13 DEF Serves
  <1>16. ASSUME NEW g \in Handler, g # h
         PROVE  Serves(push[g], session', cloud)
    BY <1>12, <1>13, HandlerTypes DEF Serves
  <1>17. \A g \in Handler : Serves(push'[g], session', cloud')
    BY <1>8, <1>14, <1>15, <1>16
  <1>18. ASSUME NEW f \in Handler, NEW g \in Handler,
                push'[f].session = push'[g].session, push'[f].session # None
         PROVE  f = g
    BY <1>7, <1>12, <1>14, <1>18 DEF IInv, HandlerInv
  <1>19. HandlerInv'
    BY <1>17, <1>18 DEF HandlerInv
  <1> QED
    BY <1>8, <1>10, <1>11, <1>19, MeetingStep

\* A reply leads to a state that is true.
LEMMA AfterPushIsTrue ==
  ASSUME cloud \in Seq(Version), NEW me, me.state \in State,
         Remembers(me.state, cloud), me.request \in PushRequest,
         me.state.lastSyncAt <= me.request.lastSyncAt,
         NEW reply, Answers(reply, me.request, cloud)
  PROVE  /\ AfterPush(me, reply) \in State
         /\ Remembers(AfterPush(me, reply), cloud)
  <1>1. /\ reply \in Response /\ reply.version \in Nat /\ reply.at \in Nat
        /\ reply.version \in DOMAIN cloud
        /\ cloud[reply.version].at = reply.at
    BY DEF Answers, Response
  <1>2. cloud[reply.version] \in Version
    BY <1>1
  <1>3. reply.at # 0
    BY <1>1, <1>2 DEF Version
  <1>4. me.request.snapshot \in Snapshot /\ me.request.lastSyncAt \in Nat
        /\ me.state.lastSyncAt \in Nat
    BY DEF PushRequest, State
  <1>5. CASE reply.status = "conflict"
    <2>1. /\ reply.snapshot = cloud[reply.version].snapshot
          /\ reply.snapshot # me.request.snapshot
          /\ me.request.lastSyncAt < reply.at
      BY <1>5 DEF Answers
    <2>2. reply.snapshot \in Snapshot /\ HasSnapshot
      BY <1>1, <1>2, <2>1 DEF Version, HasSnapshot
    <2>3. me.state.lastSyncAt < reply.at
      BY <1>1, <1>4, <2>1
    <2>4. /\ ConflictState(me.state, me.request.snapshot, reply) \in State
          /\ Remembers(ConflictState(me.state, me.request.snapshot, reply), cloud)
      BY <1>1, <1>4, <2>1, <2>2, <2>3, ConflictIsTrue
    <2> QED
      BY <1>5, <2>4 DEF AfterPush
  <1>6. CASE reply.status # "conflict"
    <2>1. AfterPush(me, reply) =
            [lastSyncAt |-> reply.at, seen |-> reply.version, conflict |-> None]
      BY <1>6 DEF AfterPush, SyncedAt
    <2>2. AfterPush(me, reply) \in State
      BY <1>1, <2>1 DEF State
    <2>3. PointIn(reply.at, reply.version, cloud)
      BY <1>1, <1>3 DEF PointIn
    <2> QED
      BY <2>1, <2>2, <2>3 DEF Remembers
  <1> QED
    BY <1>5, <1>6

LEMMA PushReplyKeeps ==
  ASSUME IInv, NEW s \in Session, NEW h \in Handler, PushReply(s, h)
  PROVE  IInv'
  <1> DEFINE me == session[s]
             t == Concluding("none", AfterPush(me, push[h].response))
  <1>1. /\ me.pc = "wait" /\ push[h].session = s /\ push[h].pc = "reply"
        /\ session' = [session EXCEPT ![s] = t]
        /\ push' = [push EXCEPT ![h] = FreeHandler]
        /\ UNCHANGED <<now, cloud, file, syncState>>
    BY DEF PushReply, Conclude
  <1>2. Sane(me, cloud)
    BY DEF IInv, SessionInv
  <1>3. /\ me.state \in State /\ Remembers(me.state, cloud)
        /\ me.request \in PushRequest
        /\ me.state.lastSyncAt <= me.request.lastSyncAt
    BY <1>1, <1>2 DEF Sane, KeepsState, KeepsRequest
  <1>4. s # None
    BY SyncServerAssumption
  <1>5. Answers(push[h].response, me.request, cloud)
    BY <1>1, <1>4, HandlerTypes DEF Serves
  <1>6. Sane(t, cloud)
    <2>1. cloud \in Seq(Version)
      BY DEF IInv, TypeOK, ServerTypeOK
    <2>2. /\ AfterPush(me, push[h].response) \in State
          /\ Remembers(AfterPush(me, push[h].response), cloud)
      BY <1>3, <1>5, <2>1, AfterPushIsTrue
    <2> QED
      BY <2>2, ConcludingIsSane
  <1> HIDE DEF t
  <1>7. session' \in [Session -> SessionState] /\ SessionInv'
    BY <1>1, <1>6 DEF IInv, TypeOK, SessionInv, Sane
  <1>8. push' \in [Handler -> PushState]
    BY <1>1, FreeServes DEF IInv, TypeOK, ServerTypeOK
  <1>9. push'[h] = FreeHandler /\ \A g \in Handler : g # h => push'[g] = push[g]
    BY <1>1 DEF IInv, TypeOK, ServerTypeOK
  <1>10. \A g \in Handler : g # h => push[g].session # s
    BY <1>1, <1>4 DEF IInv, HandlerInv
  <1>11. \A r \in Session : r # s => session'[r] = session[r]
    BY <1>1 DEF IInv, TypeOK
  <1>12. ASSUME NEW g \in Handler, g # h
         PROVE  Serves(push[g], session', cloud)
    BY <1>10, <1>11, <1>12, HandlerTypes DEF Serves
  <1>13. \A g \in Handler : Serves(push'[g], session', cloud')
    BY <1>1, <1>9, <1>12, FreeServes
  <1>14. ASSUME NEW f \in Handler, NEW g \in Handler,
                push'[f].session = push'[g].session, push'[f].session # None
         PROVE  f = g
    BY <1>9, <1>14 DEF IInv, HandlerInv, FreeHandler
  <1>15. HandlerInv'
    BY <1>13, <1>14 DEF HandlerInv
  <1> QED
    BY <1>1, <1>7, <1>8, <1>15, MeetingStep

\* What happens to the handlers when some sessions stop waiting, whatever
\* else these go on to.
LEMMA AbandonedServe ==
  ASSUME IInv, NEW gone \in SUBSET Session, push' = Abandoned(gone),
         cloud' = cloud, \A r \in Session \ gone : session'[r] = session[r]
  PROVE  push' \in [Handler -> PushState] /\ HandlerInv'
  <1>1. ASSUME NEW h \in Handler
        PROVE  /\ push'[h] \in PushState
               /\ push[h].session \in gone => push'[h].session = None
               /\ push[h].session \notin gone => push'[h] = push[h]
               /\ Serves(push'[h], session', cloud')
    <2>1. push[h] \in PushState /\ Serves(push[h], session, cloud)
      BY HandlerTypes
    <2>2. CASE push[h].session \in gone
      <3>1. push'[h] = [push[h] EXCEPT !.session = None]
        BY <2>2 DEF Abandoned
      <3>2. /\ push'[h].session = None /\ push'[h].pc = push[h].pc
            /\ push'[h].request = push[h].request /\ push'[h].readAt = push[h].readAt
            /\ push'[h] \in PushState
        BY <2>1, <3>1 DEF PushState
      <3> QED
        BY <2>1, <2>2, <3>2 DEF Serves
    <2>3. CASE push[h].session \notin gone
      <3>1. push'[h] = push[h]
        BY <2>3 DEF Abandoned
      <3> QED
        BY <2>1, <2>3, <3>1 DEF Serves
    <2> QED
      BY <2>2, <2>3
  <1>2. push' \in [Handler -> PushState]
    <2>1. push' = [h \in Handler |-> push'[h]]
      BY DEF Abandoned
    <2> QED
      BY <1>1, <2>1
  <1>3. ASSUME NEW f \in Handler, NEW g \in Handler,
               push'[f].session = push'[g].session, push'[f].session # None
        PROVE  f = g
    BY <1>1, <1>3 DEF IInv, HandlerInv
  <1> QED
    BY <1>1, <1>2, <1>3 DEF HandlerInv

LEMMA CallFailsKeeps ==
  ASSUME IInv, NEW s \in Session, CallFails(s)
  PROVE  IInv'
  <1> DEFINE me == session[s]
             t == Concluding("none", me.state)
  <1>1. /\ me.pc \in {"status", "pull", "catalog", "push", "wait"}
        /\ session' = [session EXCEPT ![s] = t]
        /\ push' = Abandoned({s})
        /\ UNCHANGED <<now, cloud, file, syncState>>
    BY DEF CallFails, ConcludeWithError, Conclude
  <1>2. Sane(me, cloud)
    BY DEF IInv, SessionInv
  <1>3. me.state \in State /\ Remembers(me.state, cloud)
    BY <1>1, <1>2 DEF Sane, KeepsState
  <1>4. Sane(t, cloud)
    BY <1>3, ConcludingIsSane
  <1> HIDE DEF t
  <1>5. session' \in [Session -> SessionState] /\ SessionInv'
    BY <1>1, <1>4 DEF IInv, TypeOK, SessionInv, Sane
  <1>6. \A r \in Session \ {s} : session'[r] = session[r]
    BY <1>1 DEF IInv, TypeOK
  <1>7. push' \in [Handler -> PushState] /\ HandlerInv'
    BY <1>1, <1>6, AbandonedServe
  <1> QED
    BY <1>1, <1>5, <1>7, MeetingStep

LEMMA CrashKeeps ==
  ASSUME IInv, NEW c \in Client, Crash(c)
  PROVE  IInv'
  <1> DEFINE mine == {s \in Session : OwnerOf[s] = c}
  <1>1. /\ session' = [s \in Session |-> IF s \in mine THEN IdleSession ELSE session[s]]
        /\ push' = Abandoned(mine)
        /\ UNCHANGED <<now, cloud, file, syncState>>
    BY DEF Crash
  <1>2. session' \in [Session -> SessionState] /\ SessionInv'
    BY <1>1, IdleIsSane DEF IInv, TypeOK, SessionInv
  <1>3. \A r \in Session \ mine : session'[r] = session[r]
    BY <1>1
  <1>4. push' \in [Handler -> PushState] /\ HandlerInv'
    BY <1>1, <1>3, AbandonedServe
  <1> QED
    BY <1>1, <1>2, <1>4, MeetingStep

-------------------------------------------------------------------------------
(* The server *)

LEMMA ServesStays ==
  ASSUME NEW versions \in Seq(Version), NEW v \in Version, NEW p, NEW sessions,
         Serves(p, sessions, versions)
  PROVE  Serves(p, sessions, Append(versions, v))
  BY RememberedStays, AnswerStays DEF Serves

\* One handler goes on, or lets its session go; at most one version is added.
LEMMA HandlerStep ==
  ASSUME IInv, NEW h \in Handler, NEW p \in PushState,
         push' = [push EXCEPT ![h] = p],
         p.session \in {push[h].session, None},
         cloud' = cloud \/ (\E v \in Version : cloud' = Append(cloud, v)),
         Serves(p, session, cloud'),
         now' \in Nat \ {0}, UNCHANGED clientVars
  PROVE  IInv'
  <1>1. UNCHANGED <<file, syncState, session>>
    BY DEF clientVars
  <1>2. cloud \in Seq(Version) /\ push \in [Handler -> PushState]
    BY DEF IInv, TypeOK, ServerTypeOK
  <1>3. cloud' \in Seq(Version)
    BY <1>2
  <1>4. TypeOK'
    BY <1>1, <1>2, <1>3 DEF IInv, TypeOK, ServerTypeOK
  <1>5. MemoryInv'
    BY <1>1, <1>2, RememberedStays DEF IInv, MemoryInv
  <1>6. SessionInv'
    BY <1>1, <1>2, SaneStays DEF IInv, SessionInv
  <1>7. push'[h] = p /\ \A g \in Handler : g # h => push'[g] = push[g]
    BY <1>2
  <1>8. ASSUME NEW g \in Handler
        PROVE  Serves(push'[g], session', cloud')
    <2>1. CASE g = h
      BY <1>1, <1>7, <2>1
    <2>2. CASE g # h
      <3>1. Serves(push[g], session, cloud)
        BY HandlerTypes
      <3>2. Serves(push[g], session, cloud')
        BY <1>2, <3>1, ServesStays
      <3> QED
        BY <1>1, <1>7, <2>2, <3>2
    <2> QED
      BY <2>1, <2>2
  <1>9. ASSUME NEW f \in Handler, NEW g \in Handler,
               push'[f].session = push'[g].session, push'[f].session # None
        PROVE  f = g
    <2>1. push[f].session = push[g].session /\ push[f].session # None
      BY <1>7, <1>9
    <2> QED
      BY <2>1 DEF IInv, HandlerInv
  <1> QED
    BY <1>4, <1>5, <1>6, <1>8, <1>9 DEF IInv, HandlerInv

\* The reply of a handler.
LEMMA AnsweredServes ==
  ASSUME NEW p \in PushState, NEW response \in Response, NEW versions,
         Serves(p, session, versions), p.pc \in {"read", "save"},
         p.session # None => Answers(response, session[p.session].request, versions)
  PROVE  /\ Answered(p, response) \in PushState
         /\ Answered(p, response).pc = "reply"
         /\ Answered(p, response).session = p.session
         /\ Serves(Answered(p, response), session, versions)
  <1> DEFINE q == Answered(p, response)
  <1>1. q \in PushState
    BY DEF Answered, FreeHandler, PushState
  <1>2. q.pc = "reply" /\ q.session = p.session /\ q.response = response
    BY DEF Answered, FreeHandler
  <1>3. Serves(q, session, versions)
    BY <1>2 DEF Serves
  <1> QED
    BY <1>1, <1>2, <1>3

LEMMA PushReadKeeps ==
  ASSUME IInv, NEW h \in Handler, PushRead(h), UNCHANGED clientVars
  PROVE  IInv'
  <1> DEFINE p == push[h]
             saving == [p EXCEPT !.pc = "save", !.readAt = now]
             mine == session[p.session].request
  <1>1. /\ p.pc = "read" /\ p \in PushState /\ Serves(p, session, cloud)
        /\ cloud' = cloud /\ now' = now
    BY HandlerTypes DEF PushRead
  <1>2. now \in Nat \ {0} /\ cloud \in Seq(Version)
    BY DEF IInv, TypeOK, ServerTypeOK
  <1>3. /\ p.request \in PushRequest
        /\ p.request.snapshot \in Snapshot /\ p.request.lastSyncAt \in Nat
        /\ p.session # None => p.request = mine
    BY <1>1 DEF Serves, PushRequest
  <1>4. CASE HasSnapshot /\ Current.snapshot = p.request.snapshot
    <2> DEFINE response == About("already_synced", None)
    <2>1. response = [status |-> "already_synced", version |-> Len(cloud),
                      at |-> Current.at, snapshot |-> None]
      BY DEF About
    <2>2. Len(cloud) \in DOMAIN cloud /\ Len(cloud) \in Nat /\ Current.at \in Nat
      BY <1>2, <1>4, CurrentIsVersion
    <2>3. response \in Response
      BY <2>1, <2>2 DEF Response
    <2>4. p.session # None => Answers(response, mine, cloud)
      BY <1>3, <1>4, <2>1, <2>2, <2>3 DEF Answers, Current
    <2>5. push' = [push EXCEPT ![h] = Answered(p, response)]
      BY <1>4 DEF PushRead
    <2> HIDE DEF response
    <2> QED
      BY <1>1, <1>2, <2>3, <2>4, <2>5, AnsweredServes, HandlerStep
  <1>5. CASE /\ ~ (HasSnapshot /\ Current.snapshot = p.request.snapshot)
             /\ HasSnapshot /\ Outdated(p.request)
    <2> DEFINE response == About("conflict", Current.snapshot)
    <2>1. response = [status |-> "conflict", version |-> Len(cloud),
                      at |-> Current.at, snapshot |-> Current.snapshot]
      BY DEF About
    <2>2. /\ Len(cloud) \in DOMAIN cloud /\ Len(cloud) \in Nat
          /\ Current.at \in Nat \ {0} /\ Current.snapshot \in Snapshot
      BY <1>2, <1>5, CurrentIsVersion
    <2>3. response \in Response
      BY <2>1, <2>2 DEF Response
    <2>4. p.request.lastSyncAt < Current.at
      BY <1>3, <1>5, <2>2 DEF Outdated
    <2>5. p.session # None => Answers(response, mine, cloud)
      BY <1>3, <1>5, <2>1, <2>2, <2>3, <2>4 DEF Answers, Current
    <2>6. push' = [push EXCEPT ![h] = Answered(p, response)]
      BY <1>5 DEF PushRead
    <2> HIDE DEF response
    <2> QED
      BY <1>1, <1>2, <2>3, <2>5, <2>6, AnsweredServes, HandlerStep
  <1>6. CASE /\ ~ (HasSnapshot /\ Current.snapshot = p.request.snapshot)
             /\ ~ (HasSnapshot /\ Outdated(p.request))
    <2>1. saving \in PushState
      BY <1>1, <1>2 DEF PushState
    <2>2. /\ saving.pc = "save" /\ saving.session = p.session
          /\ saving.request = p.request /\ saving.readAt = now
      BY <1>1 DEF PushState
    <2>3. push' = [push EXCEPT ![h] = saving]
      BY <1>6 DEF PushRead
    <2> HIDE DEF saving
    <2>4. Serves(saving, session, cloud)
      BY <1>1, <1>2, <2>2 DEF Serves
    <2> QED
      BY <1>1, <1>2, <2>1, <2>2, <2>3, <2>4, HandlerStep
  <1> QED
    BY <1>4, <1>5, <1>6

LEMMA PushSaveKeeps ==
  ASSUME IInv, NEW h \in Handler, PushSave(h), UNCHANGED clientVars
  PROVE  IInv'
  <1> DEFINE p == push[h]
             v(at) == [snapshot |-> p.request.snapshot, at |-> at]
             response(at) == [status |-> "applied", at |-> at,
                              version |-> Len(cloud) + 1, snapshot |-> None]
  <1>1. PICK at \in IF FreshMillis THEN {now} ELSE p.readAt .. now :
          /\ cloud' = Append(cloud, v(at))
          /\ push' = [push EXCEPT ![h] = Answered(p, response(at))]
    BY DEF PushSave
  <1>2. p.pc = "save" /\ p \in PushState /\ Serves(p, session, cloud)
    BY HandlerTypes DEF PushSave
  <1>3. now \in Nat \ {0} /\ cloud \in Seq(Version)
    BY DEF IInv, TypeOK, ServerTypeOK
  <1>4. p.readAt \in Nat \ {0}
    BY <1>2 DEF Serves, PushState
  <1>5. at \in Nat \ {0}
    BY <1>1, <1>3, <1>4
  <1>6. now' \in Nat \ {0}
    BY <1>3 DEF PushSave
  <1>7. /\ p.request.snapshot \in Snapshot
        /\ p.session # None => p.request = session[p.session].request
    BY <1>2 DEF Serves, PushRequest
  <1>8. v(at) \in Version
    BY <1>5, <1>7 DEF Version
  <1>9. response(at) \in Response
    BY <1>3, <1>5 DEF Response
  <1>10. Serves(p, session, cloud')
    BY <1>1, <1>2, <1>3, <1>8, ServesStays
  <1>11. p.session # None => Answers(response(at), session[p.session].request, cloud')
    <2>1. Len(cloud) + 1 \in DOMAIN cloud' /\ cloud'[Len(cloud) + 1] = v(at)
      BY <1>1, <1>3, <1>8
    <2> QED
      BY <1>7, <1>9, <2>1 DEF Answers
  <1> HIDE DEF v, response
  <1>12. /\ Answered(p, response(at)) \in PushState
         /\ Answered(p, response(at)).session = p.session
         /\ Serves(Answered(p, response(at)), session, cloud')
    BY <1>2, <1>9, <1>10, <1>11, AnsweredServes
  <1>13. cloud' = cloud \/ \E w \in Version : cloud' = Append(cloud, w)
    BY <1>1, <1>8
  <1> QED
    BY <1>1, <1>6, <1>12, <1>13, HandlerStep

LEMMA FreeingKeeps ==
  ASSUME IInv, NEW h \in Handler, push' = [push EXCEPT ![h] = FreeHandler],
         UNCHANGED <<now, cloud>>, UNCHANGED clientVars
  PROVE  IInv'
  <1>1. FreeHandler.session = None
    BY DEF FreeHandler
  <1>2. now' \in Nat \ {0}
    BY DEF IInv, TypeOK, ServerTypeOK
  <1> QED
    BY <1>1, <1>2, FreeServes, HandlerStep

LEMMA InitKeeps == Init => IInv
  <1> SUFFICES ASSUME Init PROVE IInv
    OBVIOUS
  <1>1. now = 2 /\ push = [h \in Handler |-> FreeHandler]
    BY DEF Init, ServerInit
  <1>2. cloud \in Seq(Version)
    <2>1. CASE Bootstrapped
      <3>1. PICK x \in Snapshot : cloud = <<[snapshot |-> x, at |-> 1]>>
        BY <2>1 DEF Init, ServerInit
      <3>2. [snapshot |-> x, at |-> 1] \in Version
        BY DEF Version
      <3> QED
        BY <3>1, <3>2
    <2>2. CASE ~ Bootstrapped
      BY <2>2 DEF Init, ServerInit
    <2> QED
      BY <2>1, <2>2
  <1>3. ServerTypeOK
    BY <1>1, <1>2, FreeServes DEF ServerTypeOK
  <1>4. file \in [Client -> File]
    BY DEF Init, File
  <1>5. syncState = [c \in Client |-> NewState] /\ session = [s \in Session |-> IdleSession]
    BY DEF Init
  <1>6. TypeOK
    BY <1>3, <1>4, <1>5, NewStateIsTrue, IdleIsSane DEF TypeOK
  <1>7. MemoryInv /\ SessionInv
    BY <1>5, NewStateIsTrue, IdleIsSane DEF MemoryInv, SessionInv
  <1>8. \A h \in Handler : push[h].session = None
    BY <1>1 DEF FreeHandler
  <1>9. HandlerInv
    BY <1>1, <1>8, FreeServes DEF HandlerInv
  <1> QED
    BY <1>6, <1>7, <1>9 DEF IInv

LEMMA NextKeeps == IInv /\ [Next]_vars => IInv'
  <1> SUFFICES ASSUME IInv, [Next]_vars PROVE IInv'
    OBVIOUS
  <1>1. ASSUME NEW c \in Client, NEW x \in Snapshot, Edit(c, x)
        PROVE  IInv'
    BY <1>1, EditKeeps
  <1>2. ASSUME NEW s \in Session, Begin(s)
        PROVE  IInv'
    <2>1. CASE \E op \in Calls \cap {"start", "now"} : BeginSync(s, op)
      BY <2>1, BeginSyncKeeps
    <2>2. CASE Misconfigured(s)
      BY <2>2, MisconfiguredKeeps
    <2>3. CASE BeginProviders(s)
      BY <2>3, BeginProvidersKeeps
    <2>4. CASE LoadForPush(s)
      BY <2>4, LoadForPushKeeps
    <2>5. CASE ResolveWithCloud(s)
      BY <2>5, ResolveWithCloudKeeps
    <2>6. CASE ResolveWithLocal(s)
      BY <2>6, ResolveWithLocalKeeps
    <2> QED
      BY <1>2, <2>1, <2>2, <2>3, <2>4, <2>5, <2>6 DEF Begin
  <1>3. ASSUME NEW s \in Session, Continue(s)
        PROVE  IInv'
    <2>1. CASE StatusReply(s)
      BY <2>1, StatusReplyKeeps
    <2>2. CASE PullReply(s)
      BY <2>2, PullReplyKeeps
    <2>3. CASE CatalogReply(s)
      BY <2>3, CatalogReplyKeeps
    <2>4. CASE AdoptCloud(s)
      BY <2>4, AdoptCloudKeeps
    <2>5. CASE RecordState(s)
      BY <2>5, RecordStateKeeps
    <2>6. CASE LoadForPush(s)
      BY <2>6, LoadForPushKeeps
    <2>7. CASE \E h \in Handler : SendPush(s, h) \/ PushReply(s, h)
      BY <2>7, SendPushKeeps, PushReplyKeeps
    <2>8. CASE OverrideRefused(s)
      BY <2>8, MisconfiguredKeeps
    <2>9. CASE CallFails(s)
      BY <2>9, CallFailsKeeps
    <2>10. CASE SaveFails(s)
      BY <2>10, SaveFailsKeeps
    <2> QED
      BY <1>3, <2>1, <2>2, <2>3, <2>4, <2>5, <2>6, <2>7, <2>8, <2>9, <2>10 DEF Continue
  <1>4. ASSUME NEW c \in Client, Crash(c)
        PROVE  IInv'
    BY <1>4, CrashKeeps
  <1>5. ASSUME NEW h \in Handler, Serve(h) \/ (HandlerFails(h) /\ UNCHANGED clientVars)
        PROVE  IInv'
    BY <1>5, PushReadKeeps, PushSaveKeeps, FreeingKeeps DEF Serve, DropReply, HandlerFails
  <1>6. CASE UNCHANGED vars
    <2>1. UNCHANGED <<now, cloud, push, file, syncState, session>>
      BY <1>6 DEF vars
    <2> QED
      BY <2>1 DEF IInv, TypeOK, ServerTypeOK, MemoryInv, SessionInv, HandlerInv
  <1> QED
    BY <1>1, <1>2, <1>3, <1>4, <1>5, <1>6 DEF Next

LEMMA Holds == Spec => []IInv
  BY InitKeeps, NextKeeps, PTL DEF Spec

-------------------------------------------------------------------------------
(* What holds whoever edits, crashes and pushes, and whatever the clocks say *)

\* Files, sync states, sessions, handlers and versions keep their types.
THEOREM TypeCorrect == Spec => []TypeOK
  <1>1. IInv => TypeOK
    BY DEF IInv
  <1> QED
    BY <1>1, Holds, PTL

(***************************************************************************)
(* The sync point of a client is the time of a version that it has or had, *)
(* and the conflict that it shows is one between two different contents    *)
(* of which the cloud's is a version newer than that.                      *)
(***************************************************************************)
THEOREM MemoryHolds == Spec => []MemoryIsTrue
  <1>1. ASSUME IInv, NEW c \in Client
        PROVE  ConflictIsReal(syncState[c]) /\ SyncPointIsReal(syncState[c])
    BY <1>1 DEF IInv, MemoryInv, Remembers, PointIn, ConflictIsReal, SyncPointIsReal
  <1>2. IInv => MemoryIsTrue
    BY <1>1 DEF MemoryIsTrue
  <1> QED
    BY <1>2, Holds, PTL

-------------------------------------------------------------------------------
(* No two saves in the same millisecond *)

\* Versions have increasing times, all past.
Ordered ==
  /\ \A k \in DOMAIN cloud : cloud[k].at < now
  /\ \A j, k \in DOMAIN cloud : j < k => cloud[j].at < cloud[k].at

\* A push that is about to be saved is based on the current version.
Based == \A h \in Handler : push[h].pc = "save" => push[h].request.base = Len(cloud)

\* What a client that edits nothing during a session can tell from two times:
\* a file that is not newer than the sync point is the version synced then.
InStep(f, state, versions) ==
  state.lastSyncAt # 0 /\ f.modifiedAt <= state.lastSyncAt
    => f.snapshot = versions[state.seen].snapshot

HeldIn(x, versions) == \E k \in DOMAIN versions : versions[k].snapshot = x

\* A session t of a client whose file is f, by what it loaded or will save.
Steady(t, f, versions) ==
  /\ t.pc \in KeepsFile => t.file = f
  /\ t.pc \in KeepsState => InStep(f, t.state, versions)
  /\ t.pc = "record" => InStep(f, t.next, versions)
  /\ t.pc = "adopt" /\ t.op # "providers" =>
       t.next.lastSyncAt # 0 /\ t.adopt = versions[t.next.seen].snapshot
  /\ t.pc \in KeepsRequest => t.request.snapshot = f.snapshot
  /\ Bootstrapped =>
       /\ t.pc = "pull" /\ ~ t.first /\ t.state.lastSyncAt = 0 => HeldIn(f.snapshot, versions)
       /\ t.pc = "adopt" /\ t.op \in {"start", "now"} => HeldIn(f.snapshot, versions)

SteadyInv ==
  /\ Bootstrapped => cloud # <<>>
  /\ \A c \in Client : InStep(file[c], syncState[c], cloud)
  /\ \A s \in Session : Steady(session[s], file[OwnerOf[s]], cloud)

-------------------------------------------------------------------------------
(* No update is lost while pushes come one at a time *)

\* Only the second store call of a push makes a version.
LEMMA OnlySaves ==
  ASSUME [Next]_vars
  PROVE  \/ UNCHANGED <<now, cloud>>
         \/ \E h \in Handler : PushSave(h) /\ UNCHANGED clientVars
  <1>1. ASSUME NEW c \in Client, NEW x \in Snapshot, Edit(c, x)
        PROVE  UNCHANGED <<now, cloud>>
    BY <1>1 DEF Edit, serverVars
  <1>2. ASSUME NEW s \in Session, Begin(s)
        PROVE  UNCHANGED <<now, cloud>>
    BY <1>2 DEF Begin, BeginSync, Misconfigured, BeginProviders, LoadForPush,
                ResolveWithCloud, ResolveWithLocal, serverVars
  <1>3. ASSUME NEW s \in Session, Continue(s)
        PROVE  UNCHANGED <<now, cloud>>
    BY <1>3 DEF Continue, StatusReply, PullReply, CatalogReply, AdoptCloud,
                RecordState, LoadForPush, SendPush, AcceptPush, PushReply,
                OverrideRefused, CallFails, SaveFails, serverVars
  <1>4. ASSUME NEW c \in Client, Crash(c)
        PROVE  UNCHANGED <<now, cloud>>
    BY <1>4 DEF Crash
  <1>5. ASSUME NEW h \in Handler, Serve(h)
        PROVE  UNCHANGED <<now, cloud>> \/ (PushSave(h) /\ UNCHANGED clientVars)
    BY <1>5 DEF Serve, PushRead, DropReply
  <1>6. ASSUME NEW h \in Handler, HandlerFails(h)
        PROVE  UNCHANGED <<now, cloud>>
    BY <1>6 DEF HandlerFails
  <1>7. CASE UNCHANGED vars
    BY <1>7 DEF vars
  <1> QED
    BY <1>1, <1>2, <1>3, <1>4, <1>5, <1>6, <1>7 DEF Next

\* A version gets the time at which it is saved, and then the clock ticks.
LEMMA FreshSave ==
  ASSUME IInv, FreshMillis, NEW h \in Handler, PushSave(h)
  PROVE  /\ now' = now + 1
         /\ [snapshot |-> push[h].request.snapshot, at |-> now] \in Version
         /\ cloud' = Append(cloud, [snapshot |-> push[h].request.snapshot, at |-> now])
  <1>1. now' = now + 1 /\
        cloud' = Append(cloud, [snapshot |-> push[h].request.snapshot, at |-> now])
    BY DEF PushSave
  <1>2. now \in Nat \ {0}
    BY DEF IInv, TypeOK, ServerTypeOK
  <1>3. push[h].request.snapshot \in Snapshot
    BY HandlerTypes DEF PushSave, Serves, PushRequest
  <1> QED
    BY <1>1, <1>2, <1>3 DEF Version

LEMMA OrderKept ==
  ASSUME IInv, FreshMillis, Ordered, [Next]_vars
  PROVE  Ordered'
  <1>1. CASE UNCHANGED <<now, cloud>>
    BY <1>1 DEF Ordered
  <1>2. ASSUME NEW h \in Handler, PushSave(h)
        PROVE  Ordered'
    <2> DEFINE v == [snapshot |-> push[h].request.snapshot, at |-> now]
    <2>1. /\ cloud' = Append(cloud, v) /\ now' = now + 1 /\ v \in Version
          /\ v.at = now
      BY <1>2, FreshSave
    <2>2. cloud \in Seq(Version) /\ now \in Nat
      BY DEF IInv, TypeOK, ServerTypeOK
    <2> HIDE DEF v
    <2>3. /\ DOMAIN cloud = 1 .. Len(cloud) /\ DOMAIN cloud' = 1 .. (Len(cloud) + 1)
          /\ Len(cloud) \in Nat
          /\ cloud'[Len(cloud) + 1].at = now
          /\ \A k \in DOMAIN cloud : cloud'[k] = cloud[k] /\ cloud[k].at \in Nat
      <3>1. /\ DOMAIN cloud = 1 .. Len(cloud) /\ Len(cloud) \in Nat
            /\ DOMAIN cloud' = 1 .. (Len(cloud) + 1)
            /\ cloud'[Len(cloud) + 1] = v
            /\ \A k \in DOMAIN cloud : cloud'[k] = cloud[k]
        BY <2>1, <2>2
      <3>2. ASSUME NEW k \in DOMAIN cloud PROVE cloud[k].at \in Nat
        <4>1. cloud[k] \in Version
          BY <2>2
        <4> QED
          BY <4>1 DEF Version
      <3> QED
        BY <2>1, <3>1, <3>2
    <2>4. ASSUME NEW k \in DOMAIN cloud'
          PROVE  cloud'[k].at < now'
      <3>1. CASE k = Len(cloud) + 1
        BY <2>1, <2>2, <2>3, <3>1
      <3>2. CASE k \in DOMAIN cloud
        BY <2>1, <2>2, <2>3, <3>2 DEF Ordered
      <3> QED
        BY <2>3, <3>1, <3>2
    <2>5. ASSUME NEW j \in DOMAIN cloud', NEW k \in DOMAIN cloud', j < k
          PROVE  cloud'[j].at < cloud'[k].at
      <3>1. j \in DOMAIN cloud
        BY <2>3, <2>5
      <3>2. CASE k = Len(cloud) + 1
        BY <2>2, <2>3, <3>1, <3>2 DEF Ordered
      <3>3. CASE k \in DOMAIN cloud
        BY <2>3, <2>5, <3>1, <3>3 DEF Ordered
      <3> QED
        BY <2>3, <3>2, <3>3
    <2> QED
      BY <2>4, <2>5 DEF Ordered
  <1> QED
    BY <1>1, <1>2, OnlySaves

LEMMA InitOrdered == Init => Ordered
  BY DEF Init, ServerInit, Ordered

\* With increasing times a sync point that is not older than the current
\* version is its time.
LEMMA NotOutdated ==
  ASSUME IInv, Ordered, HasSnapshot, NEW at \in Nat, NEW k,
         PointIn(at, k, cloud), at # 0, Current.at <= at
  PROVE  k = Len(cloud)
  <1>1. cloud \in Seq(Version)
    BY DEF IInv, TypeOK, ServerTypeOK
  <1>2. /\ Len(cloud) \in DOMAIN cloud /\ Len(cloud) \in Nat
        /\ Current.at \in Nat
    BY <1>1, CurrentIsVersion
  <1>3. k \in DOMAIN cloud /\ cloud[k].at = at /\ k \in 1 .. Len(cloud)
    BY <1>1 DEF PointIn
  <1>4. k < Len(cloud) => at < Current.at
    BY <1>2, <1>3 DEF Ordered, Current
  <1> QED
    BY <1>2, <1>3, <1>4

\* A handler comes to its save by reading the current version.
LEMMA SaveAhead ==
  ASSUME IInv, [Next]_vars, NEW h \in Handler, push'[h].pc = "save"
  PROVE  \/ push[h].pc = "save" /\ push'[h].request = push[h].request
         \/ PushRead(h)
  <1> DEFINE Stays == push[h].pc = "save" /\ push'[h].request = push[h].request
  <1>1. push \in [Handler -> PushState] /\ push[h] \in PushState
    BY DEF IInv, TypeOK, ServerTypeOK
  <1>2. CASE push' = push
    BY <1>2
  <1>3. ASSUME NEW sessions, push' = Abandoned(sessions)
        PROVE  Stays
    BY <1>1, <1>3 DEF Abandoned, PushState
  <1>4. ASSUME NEW s \in Session, NEW g \in Handler, SendPush(s, g)
        PROVE  Stays
    BY <1>1, <1>4 DEF SendPush, AcceptPush, PushState
  <1>5. ASSUME NEW g \in Handler, push' = [push EXCEPT ![g] = FreeHandler]
        PROVE  Stays
    BY <1>1, <1>5 DEF FreeHandler
  <1>6. ASSUME NEW g \in Handler, PushRead(g)
        PROVE  Stays \/ PushRead(h)
    <2>1. CASE g = h
      BY <1>6, <2>1
    <2>2. CASE g # h
      BY <1>1, <1>6, <2>2 DEF PushRead
    <2> QED
      BY <2>1, <2>2
  <1>7. ASSUME NEW g \in Handler, PushSave(g)
        PROVE  Stays
    <2>1. PICK at : push' = [push EXCEPT ![g] =
            Answered(push[g], [status |-> "applied", at |-> at,
                               version |-> Len(cloud) + 1, snapshot |-> None])]
      BY <1>7 DEF PushSave
    <2> QED
      BY <1>1, <2>1 DEF Answered, FreeHandler
  <1>8. ASSUME NEW s \in Session, Begin(s) PROVE push' = push
    BY <1>8 DEF Begin, BeginSync, Misconfigured, BeginProviders, LoadForPush,
                ResolveWithCloud, ResolveWithLocal, serverVars
  <1>9. ASSUME NEW s \in Session, Continue(s)
        PROVE  \/ push' = push
               \/ push' = Abandoned({s})
               \/ \E g \in Handler : SendPush(s, g)
               \/ \E g \in Handler : push' = [push EXCEPT ![g] = FreeHandler]
    BY <1>9 DEF Continue, StatusReply, PullReply, CatalogReply, AdoptCloud,
                RecordState, LoadForPush, PushReply,
                OverrideRefused, CallFails, SaveFails, serverVars
  <1>10. ASSUME NEW c \in Client, Crash(c)
         PROVE  \E sessions : push' = Abandoned(sessions)
    BY <1>10 DEF Crash
  <1>11. ASSUME NEW g \in Handler, Serve(g) \/ HandlerFails(g)
         PROVE  \/ PushRead(g) \/ PushSave(g)
                \/ push' = [push EXCEPT ![g] = FreeHandler]
    BY <1>11 DEF Serve, DropReply, HandlerFails
  <1>12. ASSUME NEW c \in Client, NEW x \in Snapshot, Edit(c, x) PROVE push' = push
    BY <1>12 DEF Edit, serverVars
  <1>13. CASE UNCHANGED vars
    BY <1>13 DEF vars
  <1> HIDE DEF Stays
  <1>14. Stays \/ PushRead(h)
    BY <1>2, <1>3, <1>4, <1>5, <1>6, <1>7, <1>8, <1>9, <1>10, <1>11, <1>12, <1>13 DEF Next, Stays
  <1> QED
    BY <1>14 DEF Stays

LEMMA BaseKept ==
  ASSUME IInv, Ordered, Based, \A g, h \in Handler : g = h, [Next]_vars
  PROVE  Based'
  <1> SUFFICES ASSUME NEW h \in Handler, push'[h].pc = "save"
               PROVE  push'[h].request.base = Len(cloud')
    BY DEF Based
  <1>1. push \in [Handler -> PushState] /\ cloud \in Seq(Version)
    BY DEF IInv, TypeOK, ServerTypeOK
  <1>2. cloud' = cloud
    <2>1. ASSUME NEW g \in Handler, PushSave(g) PROVE FALSE
      <3>1. g = h
        OBVIOUS
      <3>2. PICK at : push' = [push EXCEPT ![h] =
              Answered(push[h], [status |-> "applied", at |-> at,
                                 version |-> Len(cloud) + 1, snapshot |-> None])]
        BY <2>1, <3>1 DEF PushSave
      <3> QED
        BY <1>1, <3>2 DEF Answered, FreeHandler
    <2> QED
      BY <2>1, OnlySaves
  <1>3. CASE push[h].pc = "save" /\ push'[h].request = push[h].request
    BY <1>2, <1>3 DEF Based
  <1>4. CASE PushRead(h)
    <2> DEFINE p == push[h]
    <2>1. p.pc = "read" /\ p \in PushState /\ Serves(p, session, cloud)
      BY <1>4, HandlerTypes DEF PushRead
    <2>2. /\ p.request \in PushRequest /\ p.request.lastSyncAt \in Nat
          /\ PointIn(p.request.lastSyncAt, p.request.base, cloud)
      BY <2>1 DEF Serves, PushRequest
    <2>3. ~ (HasSnapshot /\ Outdated(p.request)) /\ push'[h] = [p EXCEPT !.pc = "save", !.readAt = now]
      BY <1>1, <1>4 DEF PushRead, Answered, FreeHandler
    <2>4. push'[h].request = p.request
      BY <2>1, <2>3 DEF PushState
    <2>5. CASE ~ HasSnapshot
      <3>1. Len(cloud) = 0 /\ DOMAIN cloud = {}
        BY <2>5 DEF HasSnapshot
      <3>2. p.request.base = 0
        BY <2>2, <3>1 DEF PointIn
      <3> QED
        BY <1>2, <2>4, <3>1, <3>2
    <2>6. CASE HasSnapshot
      <3>1. Current.at \in Nat
        BY <1>1, <2>6, CurrentIsVersion
      <3>2. p.request.lastSyncAt # 0 /\ Current.at <= p.request.lastSyncAt
        BY <2>2, <2>3, <2>6, <3>1 DEF Outdated
      <3>3. p.request.base = Len(cloud)
        BY <2>2, <2>6, <3>2, NotOutdated
      <3> QED
        BY <1>2, <2>4, <3>3
    <2> QED
      BY <2>5, <2>6
  <1> QED
    BY <1>3, <1>4, SaveAhead

(***************************************************************************)
(* Push reads, compares and saves without a lock, so this is only true     *)
(* while the server works on one push at a time: then a push that is       *)
(* applied replaces the version that it is based on and no other, whatever *)
(* failed, timed out or was repeated, and however clients' clocks go.      *)
(***************************************************************************)
THEOREM NoUpdateLost ==
  ASSUME FreshMillis, \A g, h \in Handler : g = h
  PROVE  Spec => CloudReplacedKnowingly
  <1> DEFINE Inv == IInv /\ Ordered /\ Based
  <1>1. Init => Inv
    <2>1. Init => Based
      BY DEF Init, ServerInit, Based, FreeHandler
    <2> QED
      BY <2>1, InitKeeps, InitOrdered
  <1>2. Inv /\ [Next]_vars => Inv'
    BY NextKeeps, OrderKept, BaseKept
  <1>3. Inv /\ [Next]_vars =>
          [\A h \in Handler : push[h].pc = "save" /\ push'[h].pc = "reply"
             => push[h].request.base = Len(cloud)]_vars
    BY DEF Based
  <1> HIDE DEF Inv
  <1> QED
    BY <1>1, <1>2, <1>3, PTL DEF Spec, CloudReplacedKnowingly

-------------------------------------------------------------------------------
(* Nothing unpublished is overwritten on a client *)

\* One session at a time per client, no edit during one, and no client's clock
\* behind the server's.
Undisturbed ==
  /\ FreshMillis /\ CarefulUser
  /\ \A r, s \in Session : OwnerOf[r] = OwnerOf[s] => r = s
  /\ \A c \in Client : Skew[c] >= 0

\* A file that is written now is newer than any version.
LEMMA WrittenIsNewer ==
  ASSUME IInv, Ordered, NEW c \in Client, Skew[c] >= 0, NEW x,
         NEW state \in State, Remembers(state, cloud)
  PROVE  InStep(Written(c, x), state, cloud)
  <1>1. now \in Nat /\ Skew[c] \in Int /\ cloud \in Seq(Version)
    BY SyncManagerAssumption DEF IInv, TypeOK, ServerTypeOK
  <1>2. state.lastSyncAt \in Nat
    BY DEF State
  <1>3. CASE state.lastSyncAt # 0
    <2>1. state.lastSyncAt < now
      BY <1>3 DEF Remembers, PointIn, Ordered
    <2>2. Written(c, x).modifiedAt = now + Skew[c]
      BY DEF Written
    <2>3. ~ (Written(c, x).modifiedAt <= state.lastSyncAt)
      BY <1>1, <1>2, <2>1, <2>2
    <2> QED
      BY <2>3 DEF InStep
  <1> QED
    BY <1>3 DEF InStep

\* If neither side is newer than the sync point, the file is the current version.
LEMMA NeitherNewer ==
  ASSUME IInv, Ordered, HasSnapshot, NEW f, NEW state \in State,
         Remembers(state, cloud), InStep(f, state, cloud),
         state.lastSyncAt # 0, Current.at <= state.lastSyncAt,
         f.modifiedAt <= state.lastSyncAt
  PROVE  f.snapshot = Current.snapshot
  <1>1. state.lastSyncAt \in Nat /\ PointIn(state.lastSyncAt, state.seen, cloud)
    BY DEF State, Remembers
  <1>2. state.seen = Len(cloud)
    BY <1>1, NotOutdated
  <1> QED
    BY <1>2 DEF InStep, Current

LEMMA SteadyStays ==
  ASSUME NEW versions \in Seq(Version), NEW v \in Version, NEW f, NEW t,
         Sane(t, versions), Steady(t, f, versions)
  PROVE  Steady(t, f, Append(versions, v))
  <1> DEFINE more == Append(versions, v)
  <1>1. ASSUME NEW state, Remembers(state, versions), InStep(f, state, versions)
        PROVE  InStep(f, state, more)
    BY <1>1, StillThere DEF InStep, Remembers, PointIn
  <1>2. HeldIn(f.snapshot, versions) => HeldIn(f.snapshot, more)
    BY StillThere DEF HeldIn
  <1>3. t.pc \in KeepsState => InStep(f, t.state, more)
    BY <1>1 DEF Sane, Steady
  <1>4. t.pc = "record" => InStep(f, t.next, more)
    BY <1>1 DEF Sane, Steady
  <1>5. t.pc = "adopt" /\ t.op # "providers" =>
          t.next.lastSyncAt # 0 /\ t.adopt = more[t.next.seen].snapshot
    <2>1. t.pc = "adopt" /\ t.op # "providers" =>
            /\ Remembers(t.next, versions)
            /\ t.next.lastSyncAt # 0 /\ t.adopt = versions[t.next.seen].snapshot
      BY DEF Sane, Steady
    <2> QED
      BY <2>1, StillThere DEF Remembers, PointIn
  <1> HIDE DEF more
  <1>6. Steady(t, f, more)
    BY <1>2, <1>3, <1>4, <1>5 DEF Steady
  <1> QED
    BY <1>6 DEF more

LEMMA IdleIsSteady == \A f, versions : Steady(IdleSession, f, versions)
  BY DEF Steady, IdleSession, KeepsFile, KeepsState, KeepsRequest

LEMMA ConcludingIsSteady ==
  ASSUME NEW f, NEW versions, NEW next, NEW op, InStep(f, next, versions)
  PROVE  Steady(Concluding(op, next), f, versions)
  <1>1. Concluding(op, next).pc = "record" /\ Concluding(op, next).next = next
    BY DEF Concluding, IdleSession
  <1> QED
    BY <1>1 DEF Steady, KeepsFile, KeepsState, KeepsRequest

\* A session and its client's files go on, the other clients stay.
LEMMA SteadyStep ==
  ASSUME IInv, SteadyInv, Undisturbed, NEW s \in Session, NEW t,
         session' = [session EXCEPT ![s] = t], cloud' = cloud,
         \A c \in Client \ {OwnerOf[s]} :
           file'[c] = file[c] /\ syncState'[c] = syncState[c],
         InStep(file'[OwnerOf[s]], syncState'[OwnerOf[s]], cloud),
         Steady(t, file'[OwnerOf[s]], cloud)
  PROVE  SteadyInv'
  <1>1. \A r \in Session : OwnerOf[r] \in Client
    BY SyncManagerAssumption
  <1>2. \A r \in Session : r # s => OwnerOf[r] # OwnerOf[s]
    BY DEF Undisturbed
  <1>3. session'[s] = t /\ \A r \in Session : r # s => session'[r] = session[r]
    BY DEF IInv, TypeOK
  <1>4. ASSUME NEW r \in Session
        PROVE  Steady(session'[r], file'[OwnerOf[r]], cloud')
    BY <1>1, <1>2, <1>3 DEF SteadyInv
  <1>5. ASSUME NEW c \in Client
        PROVE  InStep(file'[c], syncState'[c], cloud')
    BY DEF SteadyInv
  <1> QED
    BY <1>4, <1>5 DEF SteadyInv

\* The same, when the client's files stay.
LEMMA SteadyQuietStep ==
  ASSUME IInv, SteadyInv, Undisturbed, NEW s \in Session, NEW t,
         session' = [session EXCEPT ![s] = t],
         UNCHANGED <<cloud, file, syncState>>,
         Steady(t, file[OwnerOf[s]], cloud)
  PROVE  SteadyInv'
  <1>1. OwnerOf[s] \in Client
    BY SyncManagerAssumption
  <1> QED
    BY <1>1, SteadyStep DEF SteadyInv

\* The same, when the client saves its configuration.
LEMMA SteadySavingStep ==
  ASSUME IInv, Ordered, SteadyInv, Undisturbed, NEW s \in Session, NEW t,
         session' = [session EXCEPT ![s] = t],
         NEW x, SaveFile(OwnerOf[s], x), UNCHANGED <<cloud, syncState>>,
         Steady(t, Written(OwnerOf[s], x), cloud)
  PROVE  SteadyInv'
  <1> DEFINE c == OwnerOf[s]
  <1>1. c \in Client /\ syncState[c] \in State /\ Remembers(syncState[c], cloud)
    BY LoadedTypes
  <1>2. InStep(Written(c, x), syncState[c], cloud)
    BY <1>1, WrittenIsNewer DEF Undisturbed
  <1>3. /\ file'[c] = Written(c, x)
        /\ \A d \in Client \ {c} : file'[d] = file[d] /\ syncState'[d] = syncState[d]
    BY <1>1 DEF SaveFile, IInv, TypeOK
  <1> QED
    BY <1>2, <1>3, SteadyStep

LEMMA SteadyBegin ==
  ASSUME IInv, Ordered, SteadyInv, Undisturbed, NEW s \in Session,
         Begin(s) \/ LoadForPush(s)
  PROVE  SteadyInv'
  <1> DEFINE c == OwnerOf[s]
             conflict == syncState[c].conflict
  <1>1. c \in Client /\ syncState[c] \in State /\ Remembers(syncState[c], cloud)
    BY LoadedTypes
  <1>2. InStep(file[c], syncState[c], cloud)
    BY <1>1 DEF SteadyInv
  <1>3. ASSUME NEW op \in {"start", "now"}, BeginSync(s, op)
        PROVE  SteadyInv'
    <2> DEFINE t == Loaded(s, op, "status")
    <2>1. t.pc = "status" /\ t.file = file[c] /\ t.state = syncState[c]
      BY DEF Loaded, IdleSession
    <2>2. session' = [session EXCEPT ![s] = t] /\ UNCHANGED <<cloud, file, syncState>>
      BY <1>3 DEF BeginSync, serverVars
    <2> HIDE DEF t
    <2>3. Steady(t, file[c], cloud)
      BY <1>2, <2>1 DEF Steady, KeepsFile, KeepsState, KeepsRequest
    <2> QED
      BY <2>2, <2>3, SteadyQuietStep
  <1>4. CASE BeginProviders(s)
    <2> DEFINE t == Loaded(s, "providers", "catalog")
    <2>1. t.pc = "catalog" /\ t.state = syncState[c]
      BY DEF Loaded, IdleSession
    <2>2. session' = [session EXCEPT ![s] = t] /\ UNCHANGED <<cloud, file, syncState>>
      BY <1>4 DEF BeginProviders, serverVars
    <2> HIDE DEF t
    <2>3. Steady(t, file[c], cloud)
      BY <1>2, <2>1 DEF Steady, KeepsFile, KeepsState, KeepsRequest
    <2> QED
      BY <2>2, <2>3, SteadyQuietStep
  <1>5. CASE Misconfigured(s)
    <2>1. InStep(file[c], NewState, cloud)
      BY DEF InStep, NewState
    <2>2. Steady(Concluding("none", NewState), file[c], cloud)
      BY <2>1, ConcludingIsSteady
    <2>3. /\ session' = [session EXCEPT ![s] = Concluding("none", NewState)]
          /\ UNCHANGED <<cloud, file, syncState>>
      BY <1>5 DEF Misconfigured, Conclude, serverVars
    <2> QED
      BY <2>2, <2>3, SteadyQuietStep
  <1>6. CASE LoadForPush(s)
    <2> DEFINE loaded == Loaded(s, "shutdown", "push")
               t == [loaded EXCEPT !.request = [snapshot |-> file[c].snapshot,
                                                lastSyncAt |-> syncState[c].lastSyncAt,
                                                base |-> syncState[c].seen]]
    <2>1. /\ t.pc = "push" /\ t.state = syncState[c]
          /\ t.request.snapshot = file[c].snapshot
      BY DEF Loaded, IdleSession
    <2>2. session' = [session EXCEPT ![s] = t] /\ UNCHANGED <<cloud, file, syncState>>
      BY <1>6 DEF LoadForPush, serverVars
    <2> HIDE DEF t
    <2>3. Steady(t, file[c], cloud)
      BY <1>2, <2>1 DEF Steady, KeepsFile, KeepsState, KeepsRequest
    <2> QED
      BY <2>2, <2>3, SteadyQuietStep
  <1>7. CASE ResolveWithCloud(s)
    <2> DEFINE next == [lastSyncAt |-> conflict.at, seen |-> conflict.version,
                        conflict |-> None]
    <2>1. cloud[conflict.version].snapshot = conflict.cloud
      BY <1>7, ConflictFields DEF ResolveWithCloud
    <2>2. InStep(Written(c, conflict.cloud), next, cloud)
      BY <2>1 DEF InStep, Written
    <2> DEFINE t == Concluding("none", next)
    <2>3. /\ session' = [session EXCEPT ![s] = t]
          /\ SaveFile(c, conflict.cloud) /\ UNCHANGED <<cloud, syncState>>
      BY <1>7 DEF ResolveWithCloud, serverVars
    <2>4. Steady(t, Written(c, conflict.cloud), cloud)
      BY <2>2, ConcludingIsSteady
    <2> HIDE DEF t
    <2> QED
      BY <2>3, <2>4, SteadySavingStep
  <1>8. CASE ResolveWithLocal(s)
    <2> DEFINE loaded == Loaded(s, "resolve", "push")
               f == Written(c, conflict.local)
               t == [loaded EXCEPT !.request = OverrideRequest(syncState[c])]
    <2>1. /\ t.pc = "push" /\ t.state = syncState[c]
          /\ t.request.snapshot = conflict.local
      BY DEF Loaded, IdleSession, OverrideRequest
    <2>2. f.snapshot = conflict.local
      BY DEF Written
    <2>3. InStep(f, syncState[c], cloud)
      BY <1>1, WrittenIsNewer DEF Undisturbed
    <2>4. /\ session' = [session EXCEPT ![s] = t]
          /\ SaveFile(c, conflict.local) /\ UNCHANGED <<cloud, syncState>>
      BY <1>8 DEF ResolveWithLocal, serverVars
    <2> HIDE DEF t, f
    <2>5. Steady(t, f, cloud)
      BY <2>1, <2>2, <2>3 DEF Steady, KeepsFile, KeepsState, KeepsRequest
    <2> QED
      BY <2>4, <2>5, SteadySavingStep DEF f
  <1> QED
    BY <1>3, <1>4, <1>5, <1>6, <1>7, <1>8 DEF Begin

\* What the sessions of SyncBeforeStart read before they pull.
LEMMA SteadyStatusReply ==
  ASSUME IInv, SteadyInv, Undisturbed, NEW s \in Session, StatusReply(s)
  PROVE  SteadyInv'
  <1> DEFINE me == session[s]
             f == file[OwnerOf[s]]
             first == /\ me.state.lastSyncAt = 0
                      /\ HasSnapshot
                      /\ me.file.snapshot # Current.snapshot
             t == [me EXCEPT !.pc = "pull", !.first = first]
  <1>1. Sane(me, cloud) /\ Steady(me, f, cloud) /\ me.pc = "status"
    BY DEF StatusReply, IInv, SessionInv, SteadyInv
  <1>2. me \in SessionState
    BY <1>1 DEF Sane
  <1>3. t.pc = "pull" /\ t.first = first /\ t.file = me.file /\ t.state = me.state
    BY <1>2 DEF SessionState
  <1>4. me.file = f /\ InStep(f, me.state, cloud)
    BY <1>1 DEF Steady, KeepsFile, KeepsState
  <1>5. Bootstrapped /\ ~ first /\ me.state.lastSyncAt = 0 => HeldIn(f.snapshot, cloud)
    <2>1. SUFFICES ASSUME Bootstrapped, ~ first, me.state.lastSyncAt = 0
                   PROVE  HeldIn(f.snapshot, cloud)
      OBVIOUS
    <2>2. HasSnapshot /\ cloud \in Seq(Version)
      BY <2>1 DEF SteadyInv, HasSnapshot, IInv, TypeOK, ServerTypeOK
    <2>3. Len(cloud) \in DOMAIN cloud
      BY <2>2, CurrentIsVersion
    <2> QED
      BY <1>4, <2>1, <2>2, <2>3 DEF HeldIn, Current
  <1>6. session' = [session EXCEPT ![s] = t] /\ UNCHANGED <<cloud, file, syncState>>
    BY DEF StatusReply, serverVars
  <1> HIDE DEF t, first
  <1>7. Steady(t, f, cloud)
    BY <1>3, <1>4, <1>5 DEF Steady, KeepsFile, KeepsState, KeepsRequest
  <1> QED
    BY <1>6, <1>7, SteadyQuietStep

LEMMA SteadyPullReply ==
  ASSUME IInv, Ordered, SteadyInv, Undisturbed, NEW s \in Session, PullReply(s)
  PROVE  SteadyInv'
  <1> DEFINE me == session[s]
             f == file[OwnerOf[s]]
             reply == PullResponseTo(s)
             adopts == ~ me.first /\ reply.status = "updated"
             pushes == /\ me.op = "now" /\ ~ me.first
                       /\ reply.status \in {"empty", "client_newer"}
             t == [me EXCEPT !.pc = "adopt", !.adopt = reply.snapshot,
                             !.next = SyncedAt(reply)]
             next == AfterPull(me, reply)
  <1>1. /\ me.pc = "pull"
        /\ session' = [session EXCEPT ![s] =
             IF adopts THEN t ELSE Concluding(IF pushes THEN "now" ELSE "none", next)]
        /\ UNCHANGED <<cloud, file, syncState>>
    BY DEF PullReply, serverVars
  <1>2. /\ me \in SessionState
        /\ me.file.snapshot \in Snapshot /\ me.file.modifiedAt \in Int
        /\ me.state \in State /\ me.state.lastSyncAt \in Nat
        /\ Remembers(me.state, cloud)
    BY <1>1, Pulling
  <1>3. me.file = f /\ InStep(f, me.state, cloud)
        /\ (Bootstrapped /\ ~ me.first /\ me.state.lastSyncAt = 0
              => HeldIn(f.snapshot, cloud))
    BY <1>1 DEF SteadyInv, Steady, KeepsFile, KeepsState
  <1>4. cloud \in Seq(Version)
    BY DEF IInv, TypeOK, ServerTypeOK
  <1>5. /\ reply.status # "empty" =>
             HasSnapshot /\ reply.version = Len(cloud) /\ reply.at = Current.at
        /\ reply.status \in {"updated", "conflict"} => reply.snapshot = Current.snapshot
        /\ reply.status \notin {"updated", "conflict"} => reply.snapshot = None
        /\ reply.status = "updated" =>
             me.state.lastSyncAt = 0 \/ f.modifiedAt <= me.state.lastSyncAt
        /\ reply.status = "up_to_date" =>
             \/ f.snapshot = Current.snapshot
             \/ /\ me.state.lastSyncAt > 0 /\ Current.at <= me.state.lastSyncAt
                /\ f.modifiedAt <= me.state.lastSyncAt
    BY <1>2, <1>3, <1>4, PullAnswers DEF PullResponseTo
  <1>6. CASE adopts
    <2>1. /\ HasSnapshot /\ reply.version = Len(cloud) /\ reply.at = Current.at
          /\ reply.snapshot = Current.snapshot
      BY <1>5, <1>6
    <2>2. Current.at # 0
      BY <1>4, <2>1, CurrentIsVersion
    <2>3. /\ t.pc = "adopt" /\ t.adopt = reply.snapshot /\ t.next = SyncedAt(reply)
          /\ t.state = me.state /\ t.op = me.op
      BY <1>2 DEF SessionState
    <2>4. t.next.lastSyncAt # 0 /\ t.adopt = cloud[t.next.seen].snapshot
      BY <2>1, <2>2, <2>3 DEF SyncedAt, Current
    <2>5. Bootstrapped => HeldIn(f.snapshot, cloud)
      <3>1. CASE me.state.lastSyncAt = 0
        BY <1>3, <1>6, <3>1
      <3>2. CASE me.state.lastSyncAt # 0
        <4>1. f.snapshot = cloud[me.state.seen].snapshot
          BY <1>3, <1>5, <1>6, <3>2 DEF InStep
        <4>2. me.state.seen \in DOMAIN cloud
          BY <1>2, <3>2 DEF Remembers, PointIn
        <4> QED
          BY <4>1, <4>2 DEF HeldIn
      <3> QED
        BY <3>1, <3>2
    <2>6. session' = [session EXCEPT ![s] = t]
      BY <1>1, <1>6
    <2> HIDE DEF t
    <2>7. Steady(t, f, cloud)
      BY <1>3, <2>3, <2>4, <2>5 DEF Steady, KeepsFile, KeepsState, KeepsRequest
    <2> QED
      BY <1>1, <2>6, <2>7, SteadyQuietStep
  <1>7. CASE ~ adopts
    <2>1. ASSUME reply.status = "up_to_date", ~ me.first
          PROVE  InStep(f, next, cloud)
      <3>1. next = [lastSyncAt |-> reply.at, seen |-> reply.version, conflict |-> None]
        BY <1>5, <2>1 DEF AfterPull, SyncedAt
      <3>2. f.snapshot = Current.snapshot
        BY <1>2, <1>3, <1>5, <2>1, NeitherNewer
      <3> QED
        BY <1>5, <2>1, <3>1, <3>2 DEF InStep, Current
    <2>2. ASSUME ~ (reply.status = "up_to_date" /\ ~ me.first)
          PROVE  InStep(f, next, cloud)
      <3>1. next.lastSyncAt = me.state.lastSyncAt /\ next.seen = me.state.seen
        BY <1>2, <1>7, <2>2 DEF AfterPull, ConflictState, State
      <3> QED
        BY <1>3, <3>1 DEF InStep
    <2>3. InStep(f, next, cloud)
      BY <2>1, <2>2
    <2> HIDE DEF next
    <2>4. Steady(Concluding(IF pushes THEN "now" ELSE "none", next), f, cloud)
      BY <2>3, ConcludingIsSteady
    <2> QED
      BY <1>1, <1>7, <2>4, SteadyQuietStep
  <1> QED
    BY <1>6, <1>7

\* The rest of a session.
LEMMA SteadyContinue ==
  ASSUME IInv, Ordered, SteadyInv, Undisturbed, NEW s \in Session,
         \/ CatalogReply(s) \/ AdoptCloud(s) \/ RecordState(s) \/ SaveFails(s)
         \/ OverrideRefused(s) \/ CallFails(s)
         \/ \E h \in Handler : SendPush(s, h) \/ PushReply(s, h)
  PROVE  SteadyInv'
  <1> DEFINE me == session[s]
             c == OwnerOf[s]
             f == file[c]
  <1>1. Sane(me, cloud) /\ Steady(me, f, cloud) /\ me \in SessionState
    BY DEF IInv, SessionInv, SteadyInv, Sane
  <1>2. c \in Client
    BY SyncManagerAssumption
  <1>3. CASE CatalogReply(s)
    <2> DEFINE t == [me EXCEPT !.pc = "adopt", !.adopt = Current.snapshot]
    <2>1. t.pc = "adopt" /\ t.op = me.op /\ t.state = me.state
      BY <1>1 DEF SessionState
    <2>2. me.op = "providers" /\ InStep(f, me.state, cloud)
      BY <1>1, <1>3 DEF CatalogReply, Sane, Steady, KeepsState
    <2>3. session' = [session EXCEPT ![s] = t] /\ UNCHANGED <<cloud, file, syncState>>
      BY <1>1, <1>3 DEF CatalogReply, serverVars
    <2> HIDE DEF t
    <2>4. Steady(t, f, cloud)
      BY <2>1, <2>2 DEF Steady, KeepsFile, KeepsState, KeepsRequest
    <2> QED
      BY <2>3, <2>4, SteadyQuietStep
  <1>4. CASE AdoptCloud(s)
    <2> DEFINE t == IF me.op = "providers" THEN IdleSession
                                           ELSE Concluding("none", me.next)
               g == Written(c, me.adopt)
    <2>1. me.op # "providers" => me.adopt = cloud[me.next.seen].snapshot
      BY <1>1, <1>4 DEF AdoptCloud, Steady
    <2>2. me.op # "providers" => InStep(g, me.next, cloud)
      BY <2>1 DEF InStep, Written
    <2>3. Steady(t, g, cloud)
      BY <2>2, IdleIsSteady, ConcludingIsSteady
    <2>4. /\ session' = [session EXCEPT ![s] = t]
          /\ SaveFile(c, me.adopt) /\ UNCHANGED <<cloud, syncState>>
      BY <1>4 DEF AdoptCloud, serverVars
    <2> HIDE DEF t
    <2> QED
      BY <2>3, <2>4, SteadySavingStep
  <1>5. CASE RecordState(s)
    <2> DEFINE loading == [IdleSession EXCEPT !.pc = "load"]
               t == IF me.op = "now" THEN loading ELSE IdleSession
    <2>1. InStep(f, me.next, cloud)
      BY <1>1, <1>5 DEF RecordState, Steady
    <2>2. Steady(loading, f, cloud)
      BY DEF Steady, IdleSession, KeepsFile, KeepsState, KeepsRequest
    <2>3. Steady(t, f, cloud)
      BY <2>2, IdleIsSteady
    <2>4. /\ session' = [session EXCEPT ![s] = t]
          /\ syncState' = [syncState EXCEPT ![c] = me.next]
          /\ UNCHANGED <<cloud, file>>
      BY <1>5 DEF RecordState, serverVars
    <2>5. /\ syncState'[c] = me.next
          /\ \A d \in Client \ {c} : syncState'[d] = syncState[d]
      BY <1>2, <2>4 DEF IInv, TypeOK
    <2> HIDE DEF t
    <2> QED
      BY <2>1, <2>3, <2>4, <2>5, SteadyStep
  <1>6. CASE SaveFails(s) \/ CallFails(s)
    <2>1. InStep(f, me.state, cloud)
      BY <1>1, <1>6 DEF SaveFails, CallFails, Steady, KeepsState
    <2>2. Steady(Concluding("none", me.state), f, cloud)
      BY <2>1, ConcludingIsSteady
    <2>3. /\ session' = [session EXCEPT ![s] = Concluding("none", me.state)]
          /\ UNCHANGED <<cloud, file, syncState>>
      BY <1>6 DEF SaveFails, CallFails, ConcludeWithError, Conclude, serverVars
    <2> QED
      BY <2>2, <2>3, SteadyQuietStep
  <1>7. CASE OverrideRefused(s)
    <2>1. InStep(f, NewState, cloud)
      BY DEF InStep, NewState
    <2>2. Steady(Concluding("none", NewState), f, cloud)
      BY <2>1, ConcludingIsSteady
    <2>3. /\ session' = [session EXCEPT ![s] = Concluding("none", NewState)]
          /\ UNCHANGED <<cloud, file, syncState>>
      BY <1>7 DEF OverrideRefused, Conclude, serverVars
    <2> QED
      BY <2>2, <2>3, SteadyQuietStep
  <1>8. ASSUME NEW h \in Handler, SendPush(s, h)
        PROVE  SteadyInv'
    <2> DEFINE t == [me EXCEPT !.pc = "wait"]
    <2>1. t.pc = "wait" /\ t.state = me.state /\ t.request = me.request
      BY <1>1 DEF SessionState
    <2>2. InStep(f, me.state, cloud) /\ me.request.snapshot = f.snapshot
      BY <1>1, <1>8 DEF SendPush, Steady, KeepsState, KeepsRequest
    <2>3. session' = [session EXCEPT ![s] = t] /\ UNCHANGED <<cloud, file, syncState>>
      BY <1>8 DEF SendPush, AcceptPush
    <2> HIDE DEF t
    <2>4. Steady(t, f, cloud)
      BY <2>1, <2>2 DEF Steady, KeepsFile, KeepsState, KeepsRequest
    <2> QED
      BY <2>3, <2>4, SteadyQuietStep
  <1>9. ASSUME NEW h \in Handler, PushReply(s, h)
        PROVE  SteadyInv'
    <2> DEFINE reply == push[h].response
               next == AfterPush(me, reply)
    <2>1. /\ me.pc = "wait" /\ push[h].session = s /\ push[h].pc = "reply"
          /\ session' = [session EXCEPT ![s] = Concluding("none", next)]
          /\ UNCHANGED <<cloud, file, syncState>>
      BY <1>9 DEF PushReply, Conclude
    <2>2. InStep(f, me.state, cloud) /\ me.request.snapshot = f.snapshot /\ me.state \in State
      BY <1>1, <2>1 DEF Sane, Steady, KeepsState, KeepsRequest
    <2>3. s # None
      BY SyncServerAssumption
    <2>4. Answers(reply, me.request, cloud)
      BY <2>1, <2>3, HandlerTypes DEF Serves
    <2>5. ASSUME reply.status = "conflict"
          PROVE  InStep(f, next, cloud)
      <3>1. next.lastSyncAt = me.state.lastSyncAt /\ next.seen = me.state.seen
        BY <2>2, <2>5 DEF AfterPush, ConflictState, State
      <3> QED
        BY <2>2, <3>1 DEF InStep
    <2>6. ASSUME reply.status # "conflict"
          PROVE  InStep(f, next, cloud)
      <3>1. next.seen = reply.version
        BY <2>6 DEF AfterPush, SyncedAt
      <3> QED
        BY <2>2, <2>4, <2>6, <3>1 DEF Answers, InStep
    <2> HIDE DEF next
    <2>7. Steady(Concluding("none", next), f, cloud)
      BY <2>5, <2>6, ConcludingIsSteady
    <2> QED
      BY <2>1, <2>7, SteadyQuietStep
  <1> QED
    BY <1>3, <1>4, <1>5, <1>6, <1>7, <1>8, <1>9

LEMMA SteadyEdit ==
  ASSUME IInv, Ordered, SteadyInv, Undisturbed,
         NEW c \in Client, NEW x \in Snapshot, Edit(c, x)
  PROVE  SteadyInv'
  <1>1. /\ UNCHANGED <<cloud, syncState, session>>
        /\ file' = [file EXCEPT ![c] = Written(c, x)]
        /\ \A s \in Session : OwnerOf[s] = c => session[s].pc = "idle"
    BY DEF Edit, SaveFile, Calm, Undisturbed, serverVars
  <1>2. file'[c] = Written(c, x) /\ \A d \in Client \ {c} : file'[d] = file[d]
    BY <1>1 DEF IInv, TypeOK
  <1>3. syncState[c] \in State /\ Remembers(syncState[c], cloud)
    BY DEF IInv, TypeOK, MemoryInv
  <1>4. InStep(file'[c], syncState[c], cloud)
    BY <1>2, <1>3, WrittenIsNewer DEF Undisturbed
  <1>5. ASSUME NEW s \in Session
        PROVE  Steady(session'[s], file'[OwnerOf[s]], cloud')
    <2>1. OwnerOf[s] \in Client
      BY SyncManagerAssumption
    <2>2. CASE OwnerOf[s] = c
      BY <1>1, <2>2 DEF Steady, KeepsFile, KeepsState, KeepsRequest
    <2>3. CASE OwnerOf[s] # c
      BY <1>1, <1>2, <2>1, <2>3 DEF SteadyInv
    <2> QED
      BY <2>2, <2>3
  <1> QED
    BY <1>1, <1>2, <1>4, <1>5 DEF SteadyInv

LEMMA SteadyCrash ==
  ASSUME IInv, SteadyInv, NEW c \in Client, Crash(c)
  PROVE  SteadyInv'
  <1>1. /\ UNCHANGED <<cloud, file, syncState>>
        /\ \A s \in Session : session'[s] = IF OwnerOf[s] = c THEN IdleSession ELSE session[s]
    BY DEF Crash
  <1> QED
    BY <1>1, IdleIsSteady DEF SteadyInv

LEMMA SteadyServer ==
  ASSUME IInv, SteadyInv, FreshMillis, UNCHANGED clientVars,
         UNCHANGED cloud \/ \E h \in Handler : PushSave(h)
  PROVE  SteadyInv'
  <1>1. UNCHANGED <<file, syncState, session>>
    BY DEF clientVars
  <1>2. CASE cloud' = cloud
    BY <1>1, <1>2 DEF SteadyInv
  <1>3. ASSUME NEW h \in Handler, PushSave(h)
        PROVE  SteadyInv'
    <2>1. PICK v \in Version : cloud' = Append(cloud, v)
      BY <1>3, FreshSave
    <2>2. cloud \in Seq(Version)
      BY DEF IInv, TypeOK, ServerTypeOK
    <2>3. \A s \in Session : Steady(session[s], file[OwnerOf[s]], cloud')
      BY <2>1, <2>2, SteadyStays DEF SteadyInv, IInv, SessionInv
    <2>4. ASSUME NEW c \in Client
          PROVE  InStep(file[c], syncState[c], cloud')
      <3>1. Remembers(syncState[c], cloud) /\ InStep(file[c], syncState[c], cloud)
        BY DEF IInv, MemoryInv, SteadyInv
      <3> QED
        BY <2>1, <2>2, <3>1, StillThere DEF InStep, Remembers, PointIn
    <2>5. cloud' # <<>>
      BY <2>1, <2>2
    <2> QED
      BY <1>1, <2>3, <2>4, <2>5 DEF SteadyInv
  <1> QED
    BY <1>2, <1>3

LEMMA SteadyKept ==
  ASSUME IInv, Ordered, SteadyInv, Undisturbed, [Next]_vars
  PROVE  SteadyInv'
  <1>1. ASSUME NEW s \in Session, Continue(s)
        PROVE  SteadyInv'
    <2>1. CASE StatusReply(s)
      BY <2>1, SteadyStatusReply
    <2>2. CASE PullReply(s)
      BY <2>2, SteadyPullReply
    <2>3. CASE LoadForPush(s)
      BY <2>3, SteadyBegin
    <2>4. CASE ~ (StatusReply(s) \/ PullReply(s) \/ LoadForPush(s))
      BY <1>1, <2>4, SteadyContinue DEF Continue
    <2> QED
      BY <2>1, <2>2, <2>3, <2>4
  <1>2. ASSUME NEW h \in Handler, Serve(h) \/ (HandlerFails(h) /\ UNCHANGED clientVars)
        PROVE  SteadyInv'
    <2>1. UNCHANGED clientVars
      BY <1>2 DEF Serve
    <2>2. UNCHANGED cloud \/ PushSave(h)
      BY <1>2 DEF Serve, PushRead, DropReply, HandlerFails
    <2> QED
      BY <2>1, <2>2, SteadyServer DEF Undisturbed
  <1>3. CASE UNCHANGED vars
    BY <1>3 DEF vars, SteadyInv
  <1> QED
    BY <1>1, <1>2, <1>3, SteadyBegin, SteadyEdit, SteadyCrash DEF Next

LEMMA InitSteady == Init => SteadyInv
  <1> SUFFICES ASSUME Init PROVE SteadyInv
    OBVIOUS
  <1>1. \A c \in Client : InStep(file[c], syncState[c], cloud)
    BY DEF Init, NewState, InStep
  <1>2. \A s \in Session : Steady(session[s], file[OwnerOf[s]], cloud)
    BY IdleIsSteady DEF Init
  <1>3. ASSUME Bootstrapped
        PROVE  cloud # <<>>
    <2>1. PICK x \in Snapshot : cloud = <<[snapshot |-> x, at |-> 1]>>
      BY <1>3 DEF Init, ServerInit
    <2> QED
      BY <2>1
  <1> QED
    BY <1>1, <1>2, <1>3 DEF SteadyInv

LEMMA UndisturbedHolds ==
  ASSUME Undisturbed
  PROVE  Spec => [](IInv /\ Ordered /\ SteadyInv)
  <1> DEFINE Inv == IInv /\ Ordered /\ SteadyInv
  <1>1. Init => Inv
    BY InitKeeps, InitOrdered, InitSteady
  <1>2. Inv /\ [Next]_vars => Inv'
    BY NextKeeps, OrderKept, SteadyKept DEF Undisturbed
  <1> QED
    BY <1>1, <1>2, PTL DEF Spec

(***************************************************************************)
(* "up to date" means equal contents (Pull of service.go), for clients that *)
(* run one session at a time.  The server answers it from two times alone   *)
(* when the contents differ, and SteadyInv is what the times then say: a    *)
(* file that is not newer than the sync point is the version synced then.   *)
(* That takes each part of Undisturbed: two versions of one millisecond, an *)
(* edit or another session between the load and the pull, and a client      *)
(* clock behind the server's, can each make two different contents look     *)
(* equally old.                                                             *)
(***************************************************************************)
THEOREM UpToDateHolds ==
  ASSUME Undisturbed
  PROVE  Spec => []UpToDateMeansEqual
  <1>1. ASSUME IInv, Ordered, SteadyInv
        PROVE  UpToDateMeansEqual
    <2> SUFFICES ASSUME NEW s \in Session, session[s].pc = "pull",
                        PullResponseTo(s).status = "up_to_date"
                 PROVE  session[s].file.snapshot = Current.snapshot
      BY DEF UpToDateMeansEqual
    <2> DEFINE me == session[s]
    <2>1. /\ me.file \in File /\ me.file = file[OwnerOf[s]]
          /\ me.state \in State /\ Remembers(me.state, cloud)
          /\ InStep(me.file, me.state, cloud)
      BY <1>1 DEF IInv, SessionInv, Sane, SteadyInv, Steady, KeepsFile, KeepsState
    <2>2. /\ HasSnapshot
          /\ \/ me.file.snapshot = Current.snapshot
             \/ /\ me.state.lastSyncAt # 0
                /\ ~ (Current.at > me.state.lastSyncAt)
                /\ ~ (me.state.lastSyncAt > 0
                        /\ me.file.modifiedAt > me.state.lastSyncAt)
      BY DEF PullResponseTo, PullResponse, About
    <2>3. /\ me.state.lastSyncAt \in Nat /\ me.file.modifiedAt \in Int
          /\ Current.at \in Nat
      BY <1>1, <2>1, <2>2, CurrentIsVersion DEF IInv, TypeOK, ServerTypeOK, State, File
    <2>4. CASE me.file.snapshot # Current.snapshot
      <3>1. /\ me.state.lastSyncAt # 0
            /\ Current.at <= me.state.lastSyncAt
            /\ me.file.modifiedAt <= me.state.lastSyncAt
        BY <2>2, <2>3, <2>4
      <3> HIDE DEF me
      <3>2. me.file.snapshot = Current.snapshot
        BY <1>1, <2>1, <2>2, <3>1, NeitherNewer
      <3> QED
        BY <3>2 DEF me
    <2> QED
      BY <2>4
  <1>2. Spec => [](IInv /\ Ordered /\ SteadyInv)
    BY UndisturbedHolds
  <1>3. IInv /\ Ordered /\ SteadyInv => UpToDateMeansEqual
    BY <1>1
  <1> QED
    BY <1>2, <1>3, PTL

(***************************************************************************)
(* No edit is lost on a client (SyncBeforeStart of manager.go): the         *)
(* configuration that a pull overwrites is held by the cloud.  A client     *)
(* that has synced overwrites only what has not changed since; one that has *)
(* not takes the answer of the status call, made before the pull, that the  *)
(* cloud holds what it has.  Bootstrapped is needed for the latter: a       *)
(* status call that found no snapshot at all says the same, and a pull that *)
(* comes after another client's first push then overwrites everything.      *)
(***************************************************************************)
THEOREM NoEditLost ==
  ASSUME Undisturbed, Bootstrapped
  PROVE  Spec => LocalReplacedKnowingly
  <1> DEFINE Inv == IInv /\ Ordered /\ SteadyInv
             Kept(s) == session[s].pc = "adopt" /\ session[s].op \in {"start", "now"}
                          => Held(file[OwnerOf[s]].snapshot)
             Step == [\A s \in Session :
                        session[s].pc = "adopt" /\ session[s].op \in {"start", "now"}
                          /\ session'[s].pc = "record" /\ file' # file
                          => Held(file[OwnerOf[s]].snapshot)]_vars
  <1>1. Inv => \A s \in Session : Kept(s)
    BY DEF SteadyInv, Steady, HeldIn, Held
  <1>2. Inv => Step
    BY <1>1
  <1>3. Spec => []Inv
    BY UndisturbedHolds
  <1> HIDE DEF Inv
  <1> QED
    BY <1>2, <1>3, PTL DEF LocalReplacedKnowingly
===============================================================================
