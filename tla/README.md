# A TLA+ verification of ZenHub

ZenHub is a gateway for language-model APIs. A **client** on the user's machine
serves a local HTTP API, routes each chat request by its model alias to a group
of provider nodes and fails over between them; it also switches the local Codex
installation between providers. A **community server** keeps one shared
configuration, which clients pull and push, and relays requests for clients
that do not call the providers themselves.

The specifications here are translated from the Go sources under `src/`.
`PROJECT.json` maps every definition to the lines it stands for, lists the runs
with what each asks, and the places of the code that are hard to test
(`hazards`) with the property that watches them.

    tlc -workers 2 -config MCProxy.cfg MCProxy      # any run of the table below
    tlapm ProxyProofs.tla                           # and the other *Proofs

## 1. Inventory

| part | state | operations | talks to |
|---|---|---|---|
| router (`core/router`) | a cursor per model alias | `SelectWithExclusions` | called by the proxy under its mutex |
| balancer (`core/balancer`) | per group a cursor, per node failures and the end of its cooldown | `Select`, `ReportSuccess`, `ReportFailure` | called by the proxy under its mutex |
| proxy (`core/proxy`) | none but the locals of each request | `ExecuteChat`, `StreamChat` (both `run`) | router, balancer, executors, recorder |
| recorder (`core/observability`) | the last N records | `Record` | proxy; read by the views |
| executors, translator (`core/executor`, `core/translator`) | none but a stream's translation state | `Execute`, `Stream` | providers over HTTP, `yield` back into the API handler |
| local API (`client/localhostapi`) | none | one handler per protocol | `serviceHost` of the client runtime |
| sync service (`server/community/sync`, `storage`) | a list of snapshots | `Status`, `Pull`, `Push`, catalogue, `Bootstrap` | store (memory or MySQL) |
| relay (`server/community/relay`, `api`) | none: a proxy per request | `ExecuteChat`, `StreamChat` | the stored snapshot, providers |
| server runtime (`server/community/app`, `cmd/server-community`) | listener, Serve's goroutine, store handle | `NewRuntime`, `Start`, `Shutdown` | HTTP server, gRPC server behind h2c, store |
| authentication (`server/community/auth`) | none: a secret and a lifetime | `Login`, `Verify` | called by both servers before every other request |
| gRPC (`server/community/controlgrpc`, `controlplane`) | none | one handler per method | the same services as the REST API |
| runtime configuration (`core/runtimeconfig`, `client/config`) | the configuration file | `NormalizeFile`, `ValidateSnapshot`, `HashSnapshot`, `ApplySnapshot`, `SaveFile`, `WriteFileAtomic` | file system; called by client and server |
| sync manager (`client/sync`) | configuration file, sync state file | `SyncBeforeStart`, `SyncNow`, `SyncOnShutdown`, `SyncProviders`, `ResolveConflict` | server over HTTP |
| Codex switch (`client/codex`) | `auth.json`, `config.toml`, their backups, the templates in the configuration | `SwitchProvider` | files that Codex writes too |
| client runtime (`client/app`) | installed service, loaded configuration, last sync report, listener | `NewRuntime`, `Start`, `Shutdown`, `SyncNow`, `SyncProviders`, `ResolveSyncConflict`, `SwitchCodexProvider` | manager, Codex switch, local API |
| tray (`client/gui`) | `busy`, `shutdownOnce` | menu actions, Quit | runtime |
| protocol parsers, transformers | none | conversions of bodies | called by the local API and the translator |

What is hard about each, and what makes it correct:

* **Proxy, router, balancer.** Requests run concurrently and share cursors and
  health, so the state a request chose by is old when it reports. Correct means
  that each request still follows its plan (bounded attempts, every rule before
  giving up), that errors and counts say what happened *to it*, and that health
  stays within its bounds for every order of reports.
* **Streams.** Bytes that were written cannot be taken back. Correct means that
  one answer comes from one call, an error is an answer of its own, the end
  marker comes once, and a silent provider does not hold the caller.
* **Sync.** Check-then-act at the server, two files that are not written
  together at the client, lost replies, repeated pushes, clocks. Correct means
  no lost update on either side and conflicts that are real.
* **Codex switch.** Several files, written one by one, with a foreign writer.
  Correct means that the settings of providers never mix, what was edited is
  kept, and Codex sees a stable provider id.
* **Client.** Menu actions, the menu's Quit, the desktop ending the event loop,
  requests and a shared timeout. Correct means that what a sync puts in the file
  runs when it says so, that the process always leaves and leaves in order, and that sync
  trouble does not keep it from starting.
* **Server runtime, authentication.** Requests of three kinds of connections
  (REST, gRPC, REST over h2c) are under way when a signal comes, while the
  listener may have failed and a deadline runs. Correct means that the store is
  closed last, that the process leaves whatever a request does, and that a token
  is good for its lifetime across restarts, in a format of whole seconds.
* **Configuration.** Two sides compute a hash of what they have, one from a
  file that was loaded and compiled, the other from JSON that went through HTTP
  and a database. Correct means that copies of one version agree, and that what
  an earlier save compiled does not outlive the providers it came from.
* **File writer.** Any number of goroutines replace one file, and each call can
  fail, the process die, the power go. Correct means that a file is a register
  and keeps its mode.

## 2. Modules

    Rotation, RuntimeConfig          ring arithmetic; groups, pools, defaults
      Router, Balancer               the two shared objects
        Proxy                        Service.run, all requests at once
          ChatService                what a caller is promised (abstract)
          ProxyProofs                the invariants, that Proxy implements ChatService,
                                     the plan, the count of attempts, the records
    StreamBridge                     one request's bytes, through one or two hops
      StreamProofs                   its invariants
    SyncServer                       sync service over the version store
      SyncManager                    the clients and their sessions
        SyncProofs                   memory, lost updates, lost edits
    Snapshots                        a configuration as data: compiling, JSON, hash
      SnapshotFlow                   configurations between devices and the store
        FlowProofs                   copies match, weights decide
    FileWriter                       WriteFileAtomic, call by call
      AtomicFile                     the register it is taken for (abstract)
      FileProofs                     FileWriter implements AtomicFile
    Auth                             tokens over a clock and a secret
      ServerRuntime                  the server from launch to exit, and again
        ServerProofs                 its invariants
    CodexSwitch                      the files of the Codex installation
      CodexProofs                    its invariants
    ClientApp                        the process: runtime under the tray
      ClientProofs                   its invariants and action properties
    MC*                              small instances

**Proxy** has a record per request with `run`'s and `runDecision`'s local
variables. `pc` is the place in the code: `route` is the call of
`SelectWithExclusions` (`Route`, `RunOutOfRules`), `select` the loop over nodes
(`PickNode`, `FindNoNode`, `SpendNodes`), `execute` the executor's call with the
report that follows it (`Succeed`, `Fail`), `finish` the record. Router and
balancer lock per call, so a call is a step and requests interleave between
them. Upstreams choose their outcome. `attempts` and `answer` are what the world
sees of a request. The state of group settings is what `normalizeGroup` makes of
a configuration, with its defaults in `RuntimeConfig`. `AllowRelay = TRUE` is
the client's gateway, `FALSE` a proxy of the server's relay; they differ in
whether a relay rule has an executor.

**ChatService** is the abstract view: a request is idle, running, settled,
closed; it gets calls while it runs, then one answer or one refusal, and is
closed once. `Proxy!Chat` maps `pc` to the phase and counts `attempts`.

**StreamBridge** follows one request through hop 1, the gateway, and, if
relayed, hop 2, the server, to the provider. `response[k]` is the HTTP response
hop k produces, `run[k]` the executor and `Service.run` there. A body is a
sequence of items that know which call of a provider they answer. What
translating does to a chunk is abstracted to "one chunk or none".

**SyncServer** keeps the list of versions that both stores give. A push handler
reads the current version (`PushRead`) and saves (`PushSave`) in two steps, as
the code does, and its reply may be lost. **SyncManager** gives each client its
two files; a session loads them first and works on what it loaded, each remote
call and each file write being one step. `base` of a request and `seen` of a
state are history: the version that `last_sync_at` is the time of.

**Snapshots** keeps of a configuration what compiling, validation and JSON tell
apart: providers with their mappings and weights, whether their header map is
nil or only empty, in which order the keys of a raw object come. Names and
addresses are model values. The hash of a snapshot is the snapshot that its text
would be read as (`HashSnapshot`). **SnapshotFlow** has the file of each device
and the stored versions. Users edit, clients save, push, pull and take the
catalogue; a call with its reply is one step, because when a call is lost is
SyncManager's subject. SyncManager lets a snapshot stand for its hash, which is
what `CopiesMatch` justifies.

**FileWriter** has `pc[w]` at the next call of the file system, with the
temporary file of each writer. A file knows whether its data is durable; `older`
is what the name may stand for after power loss. **AtomicFile** is the register:
`Commit` is the moment at which a write takes effect. `FileWriter!Register` maps
every call but the rename to a stutter.

**Auth** keeps of a token its secret and its expiry, with the time of the login
and its lifetime as history. **ServerRuntime** has the main goroutine (`main`),
the goroutine around `Serve`, the listener and store that the shutdown looks at,
which servers were told to stop (`told`), the shutdown's deadline (`late`) and
the protocol of the request each handler works on. A handler does nothing but
take its time: what it does is modelled in SyncServer and StreamBridge.

**CodexSwitch** has the three places settings are kept (`stored`, `live`,
`backup`). Settings carry their origin and the number of edits, so that a mix-up
or a loss is visible. `config.toml` keeps its active id and its tables, since
renaming moves tables, and whether it is TOML at all (`parses`), since Codex and the
user write it too. A read or a write may fail at each place, with what the code
makes of that: the backfill is skipped (`Backfill`, `live.go:92-93`), the id to keep
is given up (`Compose`, `:212-215`), a text that cannot be parsed is taken over as it
is (`Restored`, `:101-105`), and only the read for the rollback, the parsing of the
target's template and the writes end the switch (`WriteFails`, `ConfigFails`).
History variables are `seen`, the first id of its own that was live, and `newest`,
the last version of each provider's settings.

**ClientApp** has one variable for each thing the goroutines share (`service`,
`loaded`, `report`, `http`, `busy`, `stop`) and one for where each goroutine is
(`main`, `task`, `quitter`). A sync session is cut to what the process sees of
it: it reads at its begin, and at its end one of the results that the manager
can have is there. The menu's Codex switch (`"switch codex"`) is cut in the same way:
it reads the file, and either fails or saves one with the same `Gateway`, which is
all of a configuration but its Codex settings (`CodexSwitched`). It writes no sync
state, replaces no service and ends at once.

## 3. Assumptions

* `FreshMillis`: two versions are not saved within one millisecond. `Push` tells
  versions apart by that time, and nothing can be said of two that look alike.
* `CarefulUser`: the configuration is not edited by hand while a session runs or
  a conflict is open. The code overwrites such an edit (`resolveWithLocal` puts
  back the snapshot stored with the conflict; a session saves over the file it
  loaded). The busy flag keeps the Codex switch out of sessions, but the menu
  offers it while a conflict is open (`tray.go:187`): what a switch then takes over
  into the templates is lost when the user keeps the stored local side.
* `Undisturbed` (hypothesis of two theorems): both of these; besides, one session of
  a client at a time, which the tray's busy flag gives until the desktop ends its
  event loop while an action runs, and no client whose clock is behind the server's,
  which nothing gives: the code compares times of the two clocks.
* A file is a register: SyncManager, CodexSwitch, ClientApp and SnapshotFlow
  write a file in one step. For files written by `WriteFileAtomic` that is what
  `ImplementsAtomicFile` proves, on a POSIX file system whose `rename` replaces a
  name at once and whose `fsync` makes data durable. Power loss is FileWriter's
  only: the other modules have crashes of the process, which take nothing back.
* A snapshot stands for its hash in SyncManager (`CopiesMatch`), which excludes
  a header map that is there and empty (ConfigDocHash) and raw objects whose keys
  are not in the database's order (section 7).
* A signature is forged by nobody, and the clock of the server does not run
  backward.
* grpc-go's `GracefulStop` waits for the handlers it serves over `ServeHTTP`, as
  the code relies on. grpc-go is not part of the repository. In some of its
  versions the transport behind `ServeHTTP` cannot be drained, and panics when
  `GracefulStop` meets a call in flight. In the model that is a crash of the
  process (`Crash`, from wherever main is), so what is stated of the server's exit
  holds then too; that the handlers are waited for does not follow.
* In CodexSwitch, up to what the code gives up and nothing repairs. Three history
  variables record it, and the invariants say which of them they are stated up to:
  `halved`, that a switch ended with live files that it neither recorded nor put
  back (a crash between the writes, a failing rollback, a failing save of the
  configuration); `adrift`, that a switch went on without the id to keep although
  one had been live; and `newest = None`, that a switch went on without having read
  what was live. Live files are not deleted by others, and encoding a parsed
  `config.toml` does not fail.

## 4. Runs

Numbers are distinct states; all runs finish within three minutes or so.

| run | instance | states | what it shows |
|---|---|---|---|
| MCProxy | two requests, each for an unknown alias, with two direct rules or one with a direct and a relay rule; a round-robin group (2 nodes, 1 retry, threshold 2) and a fill-first group (2 nodes, threshold 1), clock to 2 | 315 k | `AttemptPlan`, `FailoverIsExhaustive`, `UnavailableMeansUntried`, `RetryAccounting`, `PassiveHealthBounds`, `RecordsTellOutcomes`, the refinement `ImplementsChatService`, and that requests close (`RequestsClose`) |
| MCSync | two clients, three snapshots, every fault, one push at a time | 1.2 M | no lost update in the cloud (`CloudReplacedKnowingly`) or on a client (`LocalReplacedKnowingly`); what a client remembers of the cloud is true (`MemoryIsTrue`); `UpToDateMeansEqual` |
| MCSyncLive | empty cloud, a fast clock, `SyncNow`, catalogue, broken settings, two handlers, no faults | 185 k | sessions end, pushes settle |
| MCStream | every kind of request, 2 attempts a hop, 3 chunks | 48 k | `OneCallPerBody`, `BodiesWellFormed`, `SuccessIsGenuine`, `CallerIsAnswered` |
| MCCodex | three installations, one edit of each piece of settings, texts that do not parse, failing reads and writes | 2.7 M | `TemplatesStayApart`, `LiveIsCurrent`, `BackupIsOriginal`, `LiveIdIsStable`, `EditsAreKept` |
| MCClient | three configurations, two that differ for a Codex switch and one that validates and does not run, two clicks, one request | 374 k | `CompletedIsRunning`, `OfferedLocalIsLocal`, `LeavesInOrder`, `ActionsEnd`, `LeavingEnds` |
| MCConfig | two devices, five provider lists, two hand-written drafts, two versions | 68 k | `CopiesMatch`, `RoutesFollowWeights` |
| MCFile | two writers, two contents, every failure | 154 k | the refinement `ImplementsAtomicFile`, `ModeIsKept` |
| MCServer | two handlers, two launches with five settings, two tokens, seconds of two ticks | 443 k | `StoreOutlivesHandlers`, `TokensLastTheirTTL`, `SignalledServerExits` |

MCSync, MCStream, MCCodex, MCClient and MCConfig check the type invariant of
their module too. All type invariants are proved.

Three runs show where a document and the code disagree; each checks the document's
claim and is expected to be violated (`findings` in `PROJECT.json` quotes them):

| run | the claim | what happens |
|---|---|---|
| SyncDocRace | if both sides changed since the last sync, there is a conflict | two pushes that are handled at once are both applied |
| SyncDocUnchanged | if only the cloud changed, it is pulled | a copy that was just pulled looks modified, and is a conflict |
| ConfigDocHash | if only the local side changed, it is uploaded | a provider with `"headers": {}` hashes differently on the two sides, and the push is refused |

More divergences were met while modelling and proving. All but the third follow
from one branch each; the model follows the code and no run is spent on them:

* a node is tried at most `retry_count` times (requirements_CN.md:404, with the
  example of :411-414: with `retry_count = 2`, node A is tried twice), but the loop of
  `service.go:147` calls it `retry_count + 1` times;
* `max_node_attempts` bounds the nodes of a request (requirements_CN.md:396-397 and
  :406), but the code counts anew for every rule that a request fails over to
  (`service.go:136`), so that a request visits more nodes than any of its groups
  allows. `AttemptPlan` is the code's plan: at most `RetryCount + 1` calls of a
  node, and at most `MaxNodeAttempts` nodes *for each rule*;
* the first sync destroys no local configuration (DELIVERY_TODO.md:48), but whether
  it is a conflict is decided by the answer of the status call (`manager.go:205`).
  If another client makes the first push ever between this call and the pull, the
  server answers "updated", since with `last_sync_at` 0 nothing counts as changed
  locally, and the pull overwrites a configuration that was never published. This
  is why `NoEditLost` has the hypothesis `Bootstrapped`; TLC finds the behaviour
  with MCSync's instance and `Bootstrapped = FALSE`;
* a pool that has rules of both modes is failed over across them, while
  requirements_CN.md:1041 says that a request is not switched between direct and
  relay (`service.go:186`; MCProxy's alias `n` has such a pool);
* the live Codex settings are written back to the provider that is left
  (README.md:168), but not when a live file cannot be read, which is dropped
  (`live.go:92-93`); not when the provider that is current is chosen again, whose
  stored template then replaces what was edited (`:90`); not what is edited after
  this read (`:92` to `:271`); and not for groups compiled from `providers`, which every
  save compiles again (`EditsAreKept` makes these exceptions). A `config.toml` that
  does not parse is written back as it is, and then no switch to that provider
  succeeds until the configuration is mended (`:101-105`);
* sync at startup is best effort (`client/app/runtime.go:145`), but a pulled
  configuration that validates and cannot be run stops the launch (`:154`;
  MCClient's third configuration is one).

### Bounds, and why they are enough

* Two requests: all interplay goes through cursors and node health, which one
  other request can bring into every state that many can within the bounds of
  the cursor's ring and the threshold. Two rules, two nodes and one retry are
  the least at which every loop of `run` turns twice. `MaxTime` lets a
  cooldown expire and another begin then. Deadlock checking is off because the
  system ends when every request has.
* Two clients are what it takes to lose an update; three snapshots let both
  sides of a conflict differ from the base. `MaxVersions = 2` bounds when a push
  may start; overrides may go beyond it. MCSync has one handler because with
  two the lost update of SyncDocRace is there: the run shows that it is the only
  way to lose one. MCSyncLive has two handlers. MCSync's server has a snapshot
  from the start, since with none a client's first sync may overwrite what it has
  (section 4).
* Two attempts and three chunks: a chunk before, at and after the decision to
  retry. Each hop keeps nothing after its request, so one request is enough.
  Deadlock checking is off since the request ends.
* One edit tells an edited file from a fresh one. The three installations have
  ids of their own, reserved ids with a provider without a table, and a missing
  `auth.json` with compiled groups; with failing reads and texts that do not parse
  they take every branch of `stableModelProviderID` and of the two renamings.
* Two clicks are one action and a second one, or Quit, against it. One launch:
  what outlives a process is the file and the stored conflict, and the run
  begins with every conflict that an earlier process can have left.
* Two devices and two versions let one device overtake the other, and a conflict
  keep an older version. The provider lists have one provider, two, none, one
  named twice and one that does not compile, with weights of 0, 1 and 2.
* Two writers race on every pair of calls; two contents tell a lost write from a
  kept one. The proofs have no such bound.
* Two handlers let a request outlive another's; two launches let a token meet
  the secret and lifetime of a later one, and `MaxTime = 5` lets every token of
  the first second expire. A second of two ticks is the least in which the expiry
  loses a part of one. Deadlock checking is off since the server may stay down.

### Fairness

* MCProxy: weak fairness per request. Requests are goroutines, an executor's
  call is bounded by the group's timeout, mutexes are held for a few lines.
  Time need not pass.
* MCSyncLive: weak fairness per session and per handler: `http.Client.Timeout`
  ends each call, and the server's goroutines run. No one has to edit or sync.
* MCStream: weak fairness per hop, whose timeout (`CallFails`, `ReadFails`) is
  one of its steps. The provider owes nothing, nor does the caller.
* MCClient: weak fairness for the running action, for the shutdown and for the
  end of main; the contexts of both have timeouts, and a Codex switch calls
  nothing but the file system. Requests owe nothing: a
  request that never ends is what `Overdue` is for.
* MCServer: weak fairness of the main goroutine's shutdown and of its deadline.
  Handlers owe nothing: the relay calls providers without a timeout of its own.
* MCConfig and MCFile check safety only.

## 5. What is proved

Every theorem holds for all values of the constants that the named assumptions
allow; the assumptions are what constructors and validation establish
(`PoolsAssumption`, `GroupAssumption`, `ProxyAssumption`: `router.New`,
`normalizeGroup`, `NewService`; `StreamBridgeAssumption`: a hop has an attempt;
`FileAssumption`: contents are told from their absence; `AuthAssumption`,
`RuntimeAssumption`: a second has ticks; `SyncServerAssumption`,
`SyncManagerAssumption`: a session has one client; `ClientAssumption`: what can be
run is valid, and Codex settings make no difference to it; `CodexAssumption`: the
default provider id is not a reserved one;
`FlowAssumption`: what users write is a list of providers; `OriginAssumption`: what
the names of origins mean at first).

| module | theorem | statement |
|---|---|---|
| ProxyProofs | TypeCorrect | `Spec => []TypeOK` |
| | Consistent | `Spec => []RunsConsistent` |
| | UnavailableIsUntried | `Spec => []UnavailableMeansUntried` |
| | FailoverExhaustive | `Spec => []FailoverIsExhaustive` |
| | HealthBounded | `Spec => []PassiveHealthBounds` |
| | AnswerIsFinal | `Spec => NoCallAfterAnswer` |
| | KeepsPromise | `Spec => ImplementsChatService` |
| | PlanFollowed | `Spec => []AttemptPlan` |
| | RetriesCounted | `Spec => []RetryAccounting` |
| | RecordsTell | `Spec => []RecordsTellOutcomes` |
| StreamProofs | TypeCorrect | `Spec => []TypeOK` |
| | NeverSpliced | `Spec => []OneCallPerBody` |
| | WellFormed | `Spec => []BodiesWellFormed` |
| | SuccessesGenuine | `Spec => []SuccessIsGenuine` |
| FileProofs | TypeCorrect | `Spec => []TypeOK` |
| | FilesAreWhole | `Spec => []WholeFiles` |
| | ModesKept | `Spec => ModeIsKept` |
| | WriterImplementsRegister | `Spec => ImplementsAtomicFile` |
| ServerProofs | TypeCorrect | `Spec => []TypeOK` |
| | StoreIsLast | `Spec => []StoreOutlivesHandlers` |
| | TokensLast | `Spec => []TokensLastTheirTTL` |
| SyncProofs | TypeCorrect | `Spec => []TypeOK` |
| | MemoryHolds | `Spec => []MemoryIsTrue` |
| | NoUpdateLost | one handler, `FreshMillis`: `Spec => CloudReplacedKnowingly` |
| | UpToDateHolds | `Undisturbed`: `Spec => []UpToDateMeansEqual` |
| | NoEditLost | `Undisturbed`, `Bootstrapped`: `Spec => LocalReplacedKnowingly` |
| ClientProofs | TypeCorrect | `Spec => []TypeOK` |
| | CompletedRuns | `Spec => []CompletedIsRunning` |
| | OffersAreLocal | `Spec => OfferedLocalIsLocal` |
| | ExitIsOrderly | `Spec => LeavesInOrder` |
| CodexProofs | TypeCorrect | `Spec => []TypeOK` |
| | TemplatesApart | `Spec => []TemplatesStayApart` |
| | LiveFilesAreCurrent | `Spec => []LiveIsCurrent` |
| | BackupsAreOriginal | `Spec => []BackupIsOriginal` |
| | LiveIdStable | `Spec => []LiveIdIsStable` |
| | EditsKept | `Spec => []EditsAreKept` |
| FlowProofs | TypeCorrect | `Spec => []TypeOK` |
| | CopiesAgree | `PlainInputs`: `Spec => []CopiesMatch` |
| | PushesAccepted | `PlainInputs`: `Spec => []PushIsNotRefused` |
| | WeightsDecide | `Spec => []RoutesFollowWeights` |

**Proxy.** The inductive invariant is `IInv == TypeOK /\ RunsConsistent`. `TypeOK`
alone is not enough: that a 404 or 503 means "nothing was tried" follows from the
places at which `lastErr` is first set, so `RunsConsistent` says for each `pc`
what `attempts`, `lastErr`, `excludedRoutes` and the current rule can be. Every
action has a lemma that it keeps the invariant (`RouteKeeps`, `FailKeeps`, ...);
most rest on lemmas about the function that computes a request's next record
(`PickedGood`, `FailedGood`, ...) and on `OneRunChanges`, by which an action that
touches one request leaves what is said of the others. `HealthBounded` carries
its own step lemma, relative to `IInv`: a report either raises a count that is
still below the threshold or resets it, and the clock only moves forward.

That Proxy implements ChatService is a step simulation. `Moves(s, t)` lists what one request's step
from `s` to `t` can be in its caller's eyes: nothing, or one of the five actions
of ChatService. Each function that computes a request's next record is shown to
give such a move (`BeginAttemptCalls` and the lemmas after it), `OneMoves` puts
them together for `Next`: one request moves and the others stay. The two
theorems then differ only in what they read off a move. The invariant is needed
because an answer has to follow a call: that `attempts` is not empty at
`execute` is part of `RunsConsistent`.

The theorem on plans extends this invariant by what the locals of `runDecision` say
about the calls already made (`Tracked`): that only rules handed out were called, that
`usedNodes` are the nodes called for the current rule, each counted in
`nodeAttempt`, and that the call under way ends a run of `retry + 1` equal calls.
Without the last, a new call could extend an old run beyond its retries. `Counted`
keeps the equation of `RetryAccounting` from the start, with one rule `Open` while
it is neither given up nor settled. Cardinalities grow by one exactly when the
element added is new, which is what excluding rules and nodes is for.

The theorem on records needs no more of a request than that it is not touched
after `done`. Its invariant counts the records and says of each that it is about an
ended request and no other record is; a full buffer shifts them, so the lemma on
`Remember` compares each with the one that was behind it.

**StreamBridge.** The three properties share one invariant, a predicate `HopOK`
per hop and one of the provider. `Own` says what a hop has written at each place
of the code (nothing before the first chunk, which is why a retry may forget the
old call), `Reads` how what it wrote follows from what it read: the same pieces,
or, where it translates, pieces of the call under way with at most a last marker.
`Linked` says that no hop is at work behind one that is done, so a new call finds
no piece of an older one in anybody's hands: `OneCallPerBody` is not inductive
without it. Three frame lemmas (`OwnStep`, `GiveUpStep`, `ProviderStep`) say which
neighbours a step can disturb; each action then only shows what it makes of its
own hop.

**FileWriter.** The invariant `IInv == TypeOK /\ WholeFiles /\ ModesAgree`
says of each place of `WriteFileAtomic` what the temporary file is by then: there
from `create`, with the right mode from `chmod`, the contents from `write`,
durable from `sync` (`WholeFiles`), and that the mode every writer looked up is
the file's (`ModesAgree`), which is why racing renames cannot change it. The
refinement maps the rename to `Commit` and each other call to a stutter; power
loss is where the invariant is needed, since a rename whose data was not synced
would leave a torn file that no step of the register gives.

**ServerRuntime.** `StoreOutlivesHandlers` is not inductive: it says nothing of
the time before the store is closed. `Waited` adds what each stage of the
shutdown has already waited for and that a server told to stop takes no request
any more, `Launched` that nothing is served before `Start` and that only accepted
settings run. `TokensLastTheirTTL` follows from `Minted`, the expiry that a login
gave, by the bounds of rounding down to a second (`ExpiryBounds`).

**SyncManager.** `MemoryIsTrue` speaks of the state file, which a session writes
last; the invariant therefore follows what a session knows from the load to the
save. `Sane` says of a session that the sync point and the conflict in its hands
are true of the stored versions, at each `pc` of those it has; `Serves` that a
handler works on the request of the session that waits for it, and answers it
about a version that is there (`Answers`); and that two handlers never serve one
session. All of it is monotone in the list of versions (`SaneStays`,
`AnswerStays`), so that a save disturbs nobody, and the frame lemmas `OwnStep`,
`QuietStep` and `SavingStep` leave each action with what it does to its own
session. Lost replies, timeouts, failing writes and crashes are among the actions.

`NoUpdateLost` adds `Ordered`, that versions have increasing times before the
clock, and `Based`, that a push about to be saved is based on the current version.
`Based` is where one handler is needed: another's save would come between.

The other two rest on `SteadyInv`, what a client can tell from two times: a file
that is not newer than the sync point is the version that was synced then
(`InStep`), for the files and for every session that has loaded one. `Undisturbed`
is what this takes of the surroundings: no two versions of one millisecond, one
session of a client at a time, no edit during one, and no client's clock behind
the server's. TLC has a counterexample to both properties when any one of the four
is dropped. `NoEditLost` also needs that the server has a snapshot: section 4
has the counterexample without.

**ClientApp.** `CompletedIsRunning` is about the end of an action, so the
invariant says of every earlier place what the action has in hand (`ActionInHand`:
from the call to the end, the file it works on is the file on the disk). A Codex
switch is the one action that ends without having put the file to work: what it
saves has the gateway it read, but an edit of the user, or an action that failed
behind its save, may have left another one in the file than the one that runs. That
nobody else writes it is `OneAtATime`: the busy flag admits one action or one Quit,
and while the menu is there only that Quit can be in the shutdown. `PushInHand`
says the same of the shutdown's own push, which `OffersAreLocal` needs, and
`Draining` that the server is closed to new requests before they are waited for,
which `ExitIsOrderly` needs. `Honest` collects what any of the manager's results
can leave behind, so that the proofs about actions do not look into the cases.

**CodexSwitch.** `TemplatesStayApart` and `LiveIsCurrent` need each other: what is
taken over is the owner's because the live files are, and what is written is the
target's because its template is. `Apart` states both for what is stored, in
memory, live, to be written and kept for a rollback, at each place of the switch;
it also says that a provider that was configured with a table of its own has one
wherever its settings are, without which a restored template could keep a foreign
id. `Parsed` says that the template of the current provider parses, since only such
a one goes live. `AuthBackedUp` and `ConfigBackedUp` say that a file that was there
has a backup by the time anything is written; until it has one it is as it was, or
edited by the user. A switch that is given up at any place is one lemma, `GivenUp`.
Lemmas on `config.toml` (`RenamedKeeps`, `StableKeeps`, `RestoredKeeps`,
`EditKeeps`) say what renaming changes and what it keeps.

`LiveIdIsStable` and `EditsAreKept` speak of all switches so far, not of one step.
The invariant of the first, `SameId`, follows the first custom id that was live
(`seen`) through what is about to be written and what a rollback would write: as
long as no switch was `adrift`, each of them has that id or none of its own.
For the second, `Kept` says at each place of a switch where the newest settings
of every provider are: those of the provider that is left are live, from the
backfill on also in the switch's memory, and in the rollback's copy as long as that
may be needed; the others are in the templates that are stored and in memory; the
target's are what is to be written, and live in the end.
Renaming changes neither piece (`ActiveTable` is what the id points at), which is
why an edit survives a way through two renamings.

**SnapshotFlow.** `FlowInv` adds to `CopiesMatch` why it lasts: every file and every
stored snapshot is `Plain` (JSON and the store's columns give it back unchanged), and
a stored hash is that of the snapshot stored with it. On plain snapshots hashing and
saving only normalize (`PlainNormalize`), and normalizing twice is normalizing once
(`NormalizeTwice`); each action then comes down to `FileWritten`, what a file hashes
to after it was written. Taking the catalogue's providers makes the file that version
because what compiles replaces all that the device had. `PlainInputs`, that users
write no header map without entries and no `codex.auth` with other keys than the
store's order, is needed: TLC has a counterexample to `CopiesMatch` when providers may
have the one or the other, or hand-written groups the latter.

`TypeOK` and `RoutesFollowWeights` are about folds: `FlattenSeq` over the lists of
providers and mappings, `MapThenSumSet` over the weights. The provers cannot
instantiate the induction rules of the library, which take a predicate, but they can
use one about sets: `SetInduction` says that a set with 0 and with `n + 1` for each of
its `n` holds every natural number, and is proved by counting (without `m`, the
successor would map the members up to `m` one to one into those without 0). From it
follow that the recursive function inside `FlattenSeq` exists and what its type is
(`FlattenUnfolds`), how often an element occurs in a flattened list (`CountFlatten`),
and that a sum of weights is the number of their units, whatever the order in which
`MapThenSumSet` takes them (`SumsExist`, `SumsCount`). `RoutesOfCount` counts the
routes of one provider by its mappings, `CompiledCount` those of all: names of
providers that compile differ, so only one of them has routes to that name.

## 6. What is only model-checked

* Liveness (`RequestsClose`, `SessionsEnd`, `PushSettles`, `CallerIsAnswered`,
  `ActionsEnd`, `LeavingEnds`, `SignalledServerExits`), which is out of the
  prover's reach, as is `ENABLED`.
* The violations: the runs of the second table are counterexamples, not proofs.

## 7. Known limits of the statements

* A backup shows the original only of files that existed at the first switch: a
  missing one is backed up later, when the program's own is there.
* An edit of the live files between backfill and write is overwritten; so is one
  that a switch could not read, and one before the current provider is chosen
  again. `EditsAreKept` says nothing from there on.
* A switch that finds no id of its own in the live `config.toml` (it cannot be read,
  does not parse, or was written for a provider without a table) writes the
  template's id. `LiveIdIsStable` says nothing from there on.
* A Codex switch saves the configuration and reports success without putting it
  to work (`runtime.go:507-521`). If the user has edited the file, or an action has
  failed behind its save, the gateway still runs what it ran; `CompletedIsRunning`
  is stated for the other actions.
* A relayed stream carries its failure behind the status 200, so the gateway
  takes it for a success; `SuccessIsGenuine` makes this exception.
* A conflict stored while the process leaves by the desktop may offer a local
  side that an action has replaced; `OfferedLocalIsLocal` is stated for the time
  the menu is there.
* If the pull at startup succeeds and its file cannot be saved, the client runs
  what it pulled while the old file stays (`Returned`). The next launch pulls
  again.
* Passive health counts canceled requests and upstream 4xx answers as failures,
  and any success ends a cooldown; the bounds hold regardless.
* `StoreOutlivesHandlers` has the exceptions the code has: when `Serve` has failed
  before the signal, `Shutdown` finds no listener and closes the store at once;
  REST over h2c runs on hijacked connections that no server waits for; and the
  deadline. A failed `Serve` ends nothing: the process stays and serves the
  connections that are open (`ServeFails`).
* A token stays good when the password is changed; only another secret voids it.
* The store's JSON column puts the keys of objects into its own order. A raw
  object (`codex.auth`) whose keys come in another order is hashed differently
  before and after, so a client that pulled it finds a difference. The instances
  leave such objects out; `Stored` models what happens to them.

## 8. Not modelled

* Parsing and converting bodies between protocols (`core/protocol`,
  `core/transformer`, `core/canonical`): pure functions of JSON without state.
  Whether a chunk comes out of one is a choice in StreamBridge.
* The conversion of control-plane messages (`controlplane/convert.go`), which has
  no fields for providers and protocols; no program of the repository calls the
  gRPC methods that use it. Generated code.
* The schema of the database and the `relay_nodes` projection, which nobody reads;
  `last_pull_at` and `last_push_at`, which only the status view reads.
* `ApplyConfigEdits` of the client runtime, which has no caller; menus, labels,
  icons; default paths.

## 9. Plan

Done: the core (router, balancer, proxy), streams, sync, the Codex switch, the
client process, configurations, the file writer, authentication and the server
process, and theorems about all of them: every safety property that a passing run
checks is proved. Next, in this order:

1. **Compositions**: ClientApp's abstract session shown to be implemented by
   SyncManager; the relay's read of the current snapshot against pushes.
2. **Models**: conversions of the control plane as functions with their losses.
