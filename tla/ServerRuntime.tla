------------------------------ MODULE ServerRuntime ------------------------------
(***************************************************************************)
(* cmd/server-community and internal/server/community/app: the server from  *)
(* its launch to its exit, and again with other settings.  The main         *)
(* goroutine builds the runtime, listens and waits for a signal; Serve runs *)
(* in a goroutine of its own; the handlers of HTTP and gRPC use the store   *)
(* that the shutdown closes.  What the handlers do is SyncServer's and      *)
(* StreamBridge's; here they take their time, maybe for ever.               *)
(*                                                                          *)
(* The gRPC server is an http.Handler behind h2c, so its connections are    *)
(* hijacked ones, which http.Server.Shutdown does not know.                 *)
(***************************************************************************)
EXTENDS Auth, FiniteSets

CONSTANTS
  Configs,       \* the settings it may be launched with
  Handler,       \* goroutines that handle requests
  MaxTime,       \* bound: the clock stops there
  MaxTokens,     \* bound: tokens that are issued
  MaxLaunches    \* bound: launches

ASSUME RuntimeAssumption ==
  /\ Configs \subseteq Settings
  /\ MaxTime \in Nat /\ MaxTokens \in Nat /\ MaxLaunches \in Nat

VARIABLES
  now,        \* the wall clock
  tokens,     \* the tokens that clients hold
  settings,   \* the configuration of this launch
  main,       \* where the main goroutine is
  serve,      \* the goroutine around Serve
  listener,   \* Runtime.listener is set
  store,      \* the database handle
  told,       \* the servers that were told to stop
  late,       \* the context of the shutdown is done
  work,       \* work[h]: the protocol of the request h handles
  launches    \* bound: launches so far

vars == <<now, tokens, settings, main, serve, listener, store, told, late, work,
          launches>>

process == <<main, serve, listener, store, told, late, work>>

\* REST over HTTP/1, gRPC, and REST over HTTP/2 without TLS.
Protocol == {"http", "grpc", "h2c"}
Place == {"down", "opening", "building", "starting", "waiting", "looking",
          "stopping http", "stopping grpc", "closing", "leaving"}

Init ==
  /\ now = 0
  /\ tokens = {}
  /\ settings \in Configs
  /\ main = "down" /\ serve = "none" /\ listener = FALSE /\ store = "none"
  /\ told = {} /\ late = FALSE
  /\ work = [h \in Handler |-> "idle"]
  /\ launches = 0

\* The end of the process, whatever its goroutines do.
Exit ==
  /\ main' = "down" /\ serve' = "none" /\ listener' = FALSE /\ store' = "none"
  /\ told' = {} /\ late' = FALSE
  /\ work' = [h \in Handler |-> "idle"]

-------------------------------------------------------------------------------
(* Launching *)

\* LoadEnv; NewRuntime validates the same settings again.
Launch ==
  /\ main = "down" /\ launches < MaxLaunches
  /\ launches' = launches + 1
  /\ \E c \in Configs :
       /\ settings' = c
       /\ main' = IF Accepted(c) THEN "opening" ELSE "down"
  /\ UNCHANGED <<now, tokens, serve, listener, store, told, late, work>>

OpenStore ==
  /\ main = "opening"
  /\ \/ /\ store' = "open" /\ main' = "building"
        /\ UNCHANGED <<serve, listener, told, late, work>>
     \/ Exit
  /\ UNCHANGED <<now, tokens, settings, launches>>

\* EnsureSchema, the bootstrap configuration, the services and the servers.
\* NewRuntime closes the store before it returns an error.
Build ==
  /\ main = "building"
  /\ \/ /\ main' = "starting"
        /\ UNCHANGED <<serve, listener, store, told, late, work>>
     \/ Exit
  /\ UNCHANGED <<now, tokens, settings, launches>>

\* Start: an address that cannot be listened at ends the process.
Start ==
  /\ main = "starting"
  /\ \/ /\ listener' = TRUE /\ serve' = "serving" /\ main' = "waiting"
        /\ UNCHANGED <<store, told, late, work>>
     \/ Exit
  /\ UNCHANGED <<now, tokens, settings, launches>>

-------------------------------------------------------------------------------
(* The goroutine around Serve *)

\* Accept fails: Serve returns, connections that are open stay so.
ServeFails ==
  /\ serve = "serving"
  /\ serve' = "returned"
  /\ UNCHANGED <<now, tokens, settings, main, listener, store, told, late, work,
                 launches>>

\* The rest of the goroutine, under the lock.
ServeReturned ==
  /\ serve = "returned"
  /\ serve' = "over" /\ listener' = FALSE
  /\ UNCHANGED <<now, tokens, settings, main, store, told, late, work, launches>>

-------------------------------------------------------------------------------
(* Handlers *)

\* Requests come in on new connections and on open ones; the two servers
\* take none after they were told to stop, and REST over h2c knows neither.
Takes(protocol) == serve # "none" /\ protocol \notin told

\* Login over HTTP or gRPC, which both let in without a token, and which does
\* not use the store.
Login ==
  /\ \E protocol \in Protocol : Takes(protocol)
  /\ Cardinality(tokens) < MaxTokens
  /\ tokens' = tokens \cup {NewToken(settings, now)}
  /\ UNCHANGED <<now, settings, process, launches>>

\* withAuth, authInterceptor: any other request, with a token that verifies.
\* One that does not is answered 401 and leaves nothing.
Admit(h, protocol, token) ==
  /\ work[h] = "idle" /\ Takes(protocol)
  /\ Verified(token, settings, now)
  /\ work' = [work EXCEPT ![h] = protocol]
  /\ UNCHANGED <<now, tokens, settings, main, serve, listener, store, told, late,
                 launches>>

Finish(h) ==
  /\ work[h] # "idle"
  /\ work' = [work EXCEPT ![h] = "idle"]
  /\ UNCHANGED <<now, tokens, settings, main, serve, listener, store, told, late,
                 launches>>

-------------------------------------------------------------------------------
(* Shutting down *)

Signal ==
  /\ main = "waiting"
  /\ main' = "looking"
  /\ UNCHANGED <<now, tokens, settings, serve, listener, store, told, late, work,
                 launches>>

\* shutdownCtx runs out of its five seconds.
TimeIsUp ==
  /\ main \in {"looking", "stopping http", "stopping grpc"} /\ ~ late
  /\ late' = TRUE
  /\ UNCHANGED <<now, tokens, settings, main, serve, listener, store, told, work,
                 launches>>

\* Shutdown reads the listener; after Serve failed there is none, and only
\* the store is closed.
Look ==
  /\ main = "looking"
  /\ main' = IF listener THEN "stopping http" ELSE "closing"
  /\ UNCHANGED <<now, tokens, settings, serve, listener, store, told, late, work,
                 launches>>

\* http.Server.Shutdown closes the listener, which ends Serve, and waits.
StopHTTP ==
  /\ main = "stopping http" /\ "http" \notin told
  /\ told' = told \cup {"http"}
  /\ serve' = IF serve = "serving" THEN "returned" ELSE serve
  /\ UNCHANGED <<now, tokens, settings, main, listener, store, late, work, launches>>

\* GracefulStop in a goroutine of its own.
StopGRPC ==
  /\ main = "stopping grpc" /\ "grpc" \notin told
  /\ told' = told \cup {"grpc"}
  /\ UNCHANGED <<now, tokens, settings, main, serve, listener, store, late, work,
                 launches>>

\* The wait goes on whatever the time.
Stopped_Patient(protocol) ==
  protocol \in told /\ \A h \in Handler : work[h] # protocol

\* The wait is not for the handlers.
Stopped_AtOnce(protocol) == protocol \in told

\* The server that was told to stop has no handler any more, or time is up.
Stopped(protocol) ==
  /\ protocol \in told
  /\ late \/ \A h \in Handler : work[h] # protocol

HTTPStopped ==
  /\ main = "stopping http" /\ Stopped("http")
  /\ main' = "stopping grpc"
  /\ UNCHANGED <<now, tokens, settings, serve, listener, store, told, late, work,
                 launches>>

GRPCStopped ==
  /\ main = "stopping grpc" /\ Stopped("grpc")
  /\ main' = "closing"
  /\ UNCHANGED <<now, tokens, settings, serve, listener, store, told, late, work,
                 launches>>

CloseStore ==
  /\ main = "closing"
  /\ store' = "closed" /\ main' = "leaving"
  /\ UNCHANGED <<now, tokens, settings, serve, listener, told, late, work, launches>>

Leave ==
  /\ main = "leaving"
  /\ Exit
  /\ UNCHANGED <<now, tokens, settings, launches>>

-------------------------------------------------------------------------------
(* The surroundings *)

\* The process is killed.
Crash ==
  /\ main # "down"
  /\ Exit
  /\ UNCHANGED <<now, tokens, settings, launches>>

Tick ==
  /\ now < MaxTime
  /\ now' = now + 1
  /\ UNCHANGED <<tokens, settings, process, launches>>

ShuttingDown ==
  Look \/ StopHTTP \/ HTTPStopped \/ StopGRPC \/ GRPCStopped \/ CloseStore \/ Leave

Next ==
  \/ Launch \/ OpenStore \/ Build \/ Start
  \/ ServeFails \/ ServeReturned
  \/ Login
  \/ \E h \in Handler :
       \/ \E protocol \in Protocol, token \in tokens : Admit(h, protocol, token)
       \/ Finish(h)
  \/ Signal \/ TimeIsUp \/ ShuttingDown
  \/ Crash \/ Tick

Spec == Init /\ [][Next]_vars

\* The main goroutine goes on when it can, and time passes.  Nothing is said
\* of the handlers: the relay calls providers without a timeout of its own.
FairSpec == Spec /\ WF_vars(ShuttingDown) /\ WF_vars(TimeIsUp)

-------------------------------------------------------------------------------
(* Properties *)

TypeOK ==
  /\ now \in Nat
  /\ tokens \subseteq Token
  /\ settings \in Settings
  /\ main \in Place
  /\ serve \in {"none", "serving", "returned", "over"}
  /\ listener \in BOOLEAN
  /\ store \in {"none", "open", "closed"}
  /\ told \subseteq {"http", "grpc"}
  /\ late \in BOOLEAN
  /\ work \in [Handler -> Protocol \cup {"idle"}]
  /\ launches \in Nat

(***************************************************************************)
(* A request of either server that was let in has the store until it is     *)
(* done, unless the shutdown ran out of time.  There are two exceptions in  *)
(* the code: when Serve has failed before, Shutdown finds no listener and   *)
(* closes the store under the requests of the connections still open, and   *)
(* nobody waits for REST requests over h2c.                                 *)
(***************************************************************************)
StoreOutlivesHandlers ==
  \A h \in Handler :
    work[h] # "idle" /\ store # "open" => late \/ told = {} \/ work[h] = "h2c"

(***************************************************************************)
(* A token is good for the lifetime configured at its login less the part   *)
(* of a second that its expiry loses, and no longer, across restarts and    *)
(* whatever lifetime is configured by then; with another secret it is void. *)
(***************************************************************************)
TokensLastTheirTTL ==
  \A token \in tokens :
    LET age == now - token.issued IN
    /\ Verified(token, settings, now) =>
         age <= token.ttl /\ token.secret = settings.secret
    /\ token.secret = settings.secret /\ age <= token.ttl - (Second - 1) =>
         Verified(token, settings, now)

\* A server that was signalled exits, whatever its requests do.
SignalledServerExits == main = "looking" ~> main = "down"
===============================================================================
