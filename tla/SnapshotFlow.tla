------------------------------ MODULE SnapshotFlow ------------------------------
(***************************************************************************)
(* How a snapshot travels: from the configuration file of one device over   *)
(* HTTP into the server's store and into the files of the others, with the  *)
(* hash that each side computes of what it has.  SyncManager and SyncServer *)
(* model when that happens and let a model value stand for a snapshot and   *)
(* for its hash; this module is about what arrives, and a call with its     *)
(* reply is one step.                                                       *)
(***************************************************************************)
EXTENDS Snapshots

CONSTANTS
  Device,        \* the clients
  Providers,     \* the provider lists that users write and servers start with
  HandWritten,   \* the routes and groups that users write
  MaxVersions    \* bound: versions the store may hold

ASSUME FlowAssumption ==
  /\ Providers \subseteq Seq(Provider)
  /\ HandWritten \subseteq [routes : Seq(Route), groups : Seq(Group)]
  /\ MaxVersions \in Nat \ {0}

Blank == [providers |-> <<>>, routes |-> <<>>, groups |-> <<>>]

VARIABLES
  file,    \* file[d]: the snapshot part of the device's configuration file
  cloud,   \* the stored versions, SnapshotRecord
  copy     \* copy[d]: the version that the file is a copy of; 0 after an edit

vars == <<file, cloud, copy>>

Record == [snapshot : Snapshot, hash : Snapshot]

\* The first start of the server with a configuration file to begin with, or
\* without.  Bootstrap validates it and hashes it as loaded.
Init ==
  /\ file = [d \in Device |-> Blank]
  /\ cloud \in {<<>>} \cup
       {<<[snapshot |-> Stored(s), hash |-> HashSnapshot(s)]>> : s \in
          {Normalize([Blank EXCEPT !.providers = p]) : p \in
             {p \in Providers : Valid([Blank EXCEPT !.providers = p])}}}
  /\ copy = [d \in Device |-> 0]

Current == cloud[Len(cloud)]

\* LoadFile of the client.
Loaded(d) == Normalize(file[d])

\* SaveFile: what is on disk after the client saved s.
SavedAs(s) == Json(Normalize(s))

\* The user writes providers into the file; routes and groups compiled
\* earlier are still there.
Edit(d) ==
  /\ \E p \in Providers : file' = [file EXCEPT ![d].providers = p]
  /\ copy' = [copy EXCEPT ![d] = 0]
  /\ UNCHANGED cloud

\* The user drops the providers and writes routes and groups by hand.
WriteByHand(d) ==
  /\ \E h \in HandWritten :
       file' = [file EXCEPT ![d] =
                  [providers |-> <<>>, routes |-> h.routes, groups |-> h.groups]]
  /\ copy' = [copy EXCEPT ![d] = 0]
  /\ UNCHANGED cloud

\* The client saves what it loaded, as a switch of the Codex provider does.
Resave(d) ==
  /\ file' = [file EXCEPT ![d] = SavedAs(Loaded(d))]
  /\ UNCHANGED <<cloud, copy>>

\* What Push makes of the snapshot it received before it looks at times.
Received(s, hash) ==
  IF ~ Valid(s) THEN "invalid"
  ELSE IF hash # HashSnapshot(s) THEN "mismatch"
  ELSE IF cloud # <<>> /\ Current.hash = hash THEN "already_synced"
  ELSE "new"

\* The database gives out numbers with gaps.
NextVersion_Gap == Len(cloud) + 2

NextVersion == Len(cloud) + 1

\* The stored hash is that of what the database gives back.
StoredRecord(s, hash) == [snapshot |-> Stored(s), hash |-> hash]

\* What a client pushes, and how the server finds it.
Sent(d) == Json(Loaded(d))
OutcomeOf(d) == Received(Sent(d), HashSnapshot(Loaded(d)))

\* SyncOnShutdown, SyncNow: the client pushes what it loads from its file.  A
\* push that is refused, or a conflict by the times that SyncServer models,
\* leaves everything as it is.
Push(d) ==
  \/ /\ OutcomeOf(d) = "new"
     /\ Len(cloud) < MaxVersions
     /\ cloud' = Append(cloud, StoredRecord(Sent(d), HashSnapshot(Loaded(d))))
     /\ copy' = [copy EXCEPT ![d] = NextVersion]
     /\ UNCHANGED file
  \/ /\ OutcomeOf(d) = "already_synced"
     /\ copy' = [copy EXCEPT ![d] = Len(cloud)]
     /\ UNCHANGED <<file, cloud>>

\* Only the routes and groups are taken over.
Applied_NoProviders(received) ==
  SavedAs([Normalize(received) EXCEPT !.providers = <<>>])

\* ApplySnapshot with the received snapshot, then SaveFile.
Applied(received) == SavedAs(Normalize(received))

\* A pull that finds the current version to be news, or keeping the cloud's
\* side of a conflict, which may be an older one by then.
TakeVersion(d, k) ==
  /\ HashSnapshot(Loaded(d)) # cloud[k].hash
  /\ file' = [file EXCEPT ![d] = Applied(Json(cloud[k].snapshot))]
  /\ copy' = [copy EXCEPT ![d] = k]
  /\ UNCHANGED cloud

\* SyncProviders' file: the catalogue's providers, compiled, over the local
\* ones; a catalogue without providers has only groups to offer, which the
\* local providers, if they compile, replace again.
FromCatalogue(s, catalogue) ==
  Normalize(IF catalogue.providers # <<>>
              THEN [s EXCEPT !.providers = catalogue.providers]
              ELSE [s EXCEPT !.groups = catalogue.groups])

\* SyncProviders; the file stays as it is when the result cannot be run.
TakeCatalogue(d) ==
  /\ cloud # <<>>
  /\ LET catalogue == Json(Current.snapshot)
         next == FromCatalogue(Loaded(d), catalogue)
     IN /\ Valid(next)
        /\ file' = [file EXCEPT ![d] = SavedAs(next)]
        /\ copy' = [copy EXCEPT ![d] =
              IF catalogue.providers # <<>> /\ Compiles(catalogue.providers)
                THEN Len(cloud) ELSE 0]
  /\ UNCHANGED cloud

Next ==
  \E d \in Device :
    \/ Edit(d) \/ WriteByHand(d) \/ Resave(d)
    \/ Push(d) \/ TakeCatalogue(d)
    \/ \E k \in DOMAIN cloud : TakeVersion(d, k)

Spec == Init /\ [][Next]_vars

-------------------------------------------------------------------------------
(* Properties *)

TypeOK ==
  /\ file \in [Device -> Snapshot]
  /\ cloud \in Seq(Record)
  /\ copy \in [Device -> Nat]
  /\ \A d \in Device : copy[d] <= Len(cloud)

(***************************************************************************)
(* A file that nobody edited since it was pulled, pushed or taken from the  *)
(* catalogue hashes to what the store says of that version, however it was  *)
(* loaded and saved since and whatever the JSON texts on the way left out:  *)
(* the next sync finds the two sides equal.  Conflict detection, and the    *)
(* modules in which a snapshot stands for its hash, rest on this.           *)
(***************************************************************************)
CopiesMatch ==
  \A d \in Device : copy[d] # 0 =>
    HashSnapshot(Loaded(d)) = cloud[copy[d]].hash

(***************************************************************************)
(* Providers that compile decide alone how requests are spread, whatever    *)
(* routes an earlier save left in the file: an alias has as many routes to  *)
(* a provider as its weights there sum up to, one at least per mapping, and *)
(* the group of each has the provider's headers and key.                    *)
(***************************************************************************)
RoutesFollowWeights ==
  \A d \in Device :
    LET s == Loaded(d) IN
    Compiles(s.providers) =>
      \A i \in DOMAIN s.providers :
        LET provider == s.providers[i]
            mappings == provider.models
            Weight(k) == IF mappings[k].weight > 1 THEN mappings[k].weight ELSE 1
        IN /\ s.groups[i] = [name |-> provider.name, headers |-> provider.headers,
                             auth |-> provider.auth]
           /\ \A a \in Alias :
                Cardinality({j \in DOMAIN s.routes :
                               s.routes[j] = [alias |-> a, group |-> provider.name]})
                  = MapThenSumSet(Weight, {k \in DOMAIN mappings : mappings[k].alias = a})

-------------------------------------------------------------------------------
(* What the requirements document says and the code does not do *)

\* "Only the local side changed since the last sync: upload it over the cloud"
\* (13.3 rule 2): the push of a configuration that the client loads and that
\* the server would run is never refused because of its hash.
PushIsNotRefused == \A d \in Device : OutcomeOf(d) # "mismatch"
===============================================================================
