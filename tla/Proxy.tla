--------------------------------- MODULE Proxy ---------------------------------
(***************************************************************************)
(* internal/core/proxy: Service.run, the life of one chat request, composed *)
(* with the router, the balancer and the observation recorder it shares     *)
(* with every other request.  Each request is a goroutine of the local API  *)
(* (or of the community server's relay API); the three shared objects have  *)
(* a mutex each, so requests interleave at their calls.                     *)
(*                                                                          *)
(* A call of an executor touches no shared state, so its return and the     *)
(* ReportSuccess or ReportFailure that follows are one step.  Its result is *)
(* the environment's choice.                                                *)
(***************************************************************************)
EXTENDS Router, Balancer, FiniteSets

CONSTANTS
  Request,        \* the requests that arrive; each runs once
  UnknownModel,   \* an alias no rule is configured for
  AllowRelay,     \* Options.AllowRelay with a relay executor
  RecorderLimit,  \* Recorder.limit
  Outcomes        \* what the upstreams of this instance may do

(***************************************************************************)
(* The errors the control flow tells apart.  "retryable" is an upstream     *)
(* 408, 429 or 5xx or a network error, "fatal" any other upstream or        *)
(* translation error, "canceled" the caller gone, "broken" a stream that    *)
(* failed after its first chunk was delivered (StreamError.Started).        *)
(***************************************************************************)
UpstreamErrors == {"retryable", "timeout", "fatal", "canceled", "broken"}
Errors == UpstreamErrors \cup
          {"none", "no_route", "no_healthy_nodes", "relay_not_implemented"}

ASSUME ProxyAssumption ==
  /\ UnknownModel \notin Model
  /\ AllowRelay \in BOOLEAN
  /\ RecorderLimit \in Nat \ {0}
  /\ Outcomes \subseteq UpstreamErrors \cup {"ok"}

NoRuleYet == -1
NoNode == <<>>

PC == {"idle", "route", "select", "execute", "finish", "done"}

(***************************************************************************)
(* The local variables of run and runDecision.  `attempts` (the upstream    *)
(* calls made, in order) and `answer` (what reached the caller) are the     *)
(* request's visible effects.                                               *)
(***************************************************************************)
RunState == [
  pc : PC,
  model : Model \cup {UnknownModel},
  stream : BOOLEAN,                      \* yield # nil
  excludedRoutes : SUBSET Nat,
  rule : Nat \cup {NoRuleYet},           \* the current decision
  strategy : Strategy \cup {Unset},         \* selectedStrategy
  usedNodes : SUBSET Nat,
  nodeAttempt : Nat,                     \* selections made in this decision
  node : Nat,                            \* the node being tried
  retry : Nat,
  retryCount : Nat,
  selectedNode : Node \cup {NoNode},
  lastErr : Errors,
  attempts : Seq(Nat \X Nat),
  answer : {"none", "whole", "partial"}]

VARIABLES
  run,      \* run[r]: the state of request r
  records   \* Recorder.records

vars == <<nextRule, now, failures, unhealthyUntil, cursor, run, records>>

Idle == [pc |-> "idle", model |-> UnknownModel, stream |-> FALSE,
         excludedRoutes |-> {}, rule |-> NoRuleYet, strategy |-> Unset,
         usedNodes |-> {}, nodeAttempt |-> 0, node |-> 0, retry |-> 0,
         retryCount |-> 0, selectedNode |-> NoNode, lastErr |-> "none",
         attempts |-> <<>>, answer |-> "none"]

Init ==
  /\ RouterInit
  /\ BalancerInit
  /\ run = [r \in Request |-> Idle]
  /\ records = <<>>

RuleOf(r) == RuleAt(run[r].model, run[r].rule)
GroupOf(r) == RuleOf(r).group

\* executor.IsRetryable.
IsRetryable(e) == e \in {"retryable", "timeout"}

\* The latest error wins.
KeepFirst_Overwrite(lastErr, e) == e

\* An error found before anything was tried does not hide an earlier one.
KeepFirst(lastErr, e) == IF lastErr = "none" THEN e ELSE lastErr

-------------------------------------------------------------------------------
(* Routing *)

\* ExecuteChat (stream = FALSE) or StreamChat is called.
Arrive(r, model, stream) ==
  /\ run[r].pc = "idle"
  /\ run' = [run EXCEPT ![r] = [@ EXCEPT !.pc = "route", !.model = model,
                                         !.stream = stream]]
  /\ UNCHANGED <<nextRule, now, healthVars, records>>

\* executorForMode: nil for a relay rule where relaying is not allowed.
HasExecutor(mode) == mode = "direct" \/ AllowRelay

\* The state a decision starts from: runDecision's locals are fresh.
StartDecision(s, i, strategy) ==
  [s EXCEPT !.pc = "select", !.rule = i,
            !.excludedRoutes = @ \cup {i}, !.strategy = strategy,
            !.usedNodes = {}, !.nodeAttempt = 0, !.retry = 0]

\* An early return that skips the observation.
RejectDecision_Unobserved(s, i) ==
  [s EXCEPT !.pc = "done", !.rule = i, !.excludedRoutes = @ \cup {i},
            !.lastErr = "relay_not_implemented"]

\* A rule without an executor ends the request, whatever happened before.
RejectDecision(s, i) ==
  [s EXCEPT !.pc = "finish", !.rule = i, !.excludedRoutes = @ \cup {i},
            !.lastErr = "relay_not_implemented"]

\* SelectWithExclusions returns rule i.
Route(r) ==
  LET s == run[r] IN
  /\ s.pc = "route"
  /\ \E i \in Routable(s.model, s.excludedRoutes) :
       /\ SelectRule(s.model, s.excludedRoutes, i)
       /\ LET rule == RuleAt(s.model, i) IN
          run' = [run EXCEPT ![r] =
                    IF HasExecutor(rule.mode)
                      THEN StartDecision(s, i, StrategyOf(rule.group))
                      ELSE RejectDecision(s, i)]
  /\ UNCHANGED <<now, healthVars, records>>

\* SelectWithExclusions returns ErrNoRoute.
RunOutOfRules(r) ==
  LET s == run[r] IN
  /\ s.pc = "route"
  /\ NoRule(s.model, s.excludedRoutes)
  /\ run' = [run EXCEPT ![r] =
               [s EXCEPT !.pc = "finish", !.lastErr = KeepFirst(@, "no_route")]]
  /\ UNCHANGED <<now, healthVars, records>>

-------------------------------------------------------------------------------
(* One decision: nodes of a group, each tried RetryCount + 1 times *)

BeginAttempt(s) ==
  [s EXCEPT !.pc = "execute", !.attempts = Append(@, <<s.rule, s.node>>)]

\* Every failed decision is counted as a retry.
EndDecision_CountAlways(s, e) ==
  [s EXCEPT !.pc = IF IsRetryable(e) THEN "route" ELSE "finish",
            !.lastErr = e, !.retryCount = @ + 1]

\* runDecision returned error e: fail over to another rule, or give up.
EndDecision(s, e) ==
  IF IsRetryable(e)
    THEN [s EXCEPT !.pc = "route", !.lastErr = e, !.retryCount = @ + 1]
    ELSE [s EXCEPT !.pc = "finish", !.lastErr = e]

\* usedNodes is nodeAttempt nodes; another may be asked for.
MayTryNode(r) == run[r].nodeAttempt < MaxNodeAttempts(GroupOf(r))

\* Balancer.Select returns node i; the first attempt on it starts.
PickNode(r) ==
  LET s == run[r] IN
  /\ s.pc = "select"
  /\ MayTryNode(r)
  /\ \E i \in Selectable(GroupOf(r), s.usedNodes) :
       /\ SelectNode(GroupOf(r), s.usedNodes, i)
       /\ run' = [run EXCEPT ![r] = BeginAttempt(
                    [s EXCEPT !.usedNodes = @ \cup {i},
                              !.nodeAttempt = @ + 1,
                              !.node = i, !.retry = 0,
                              !.selectedNode = <<GroupOf(r), i>>])]
  /\ UNCHANGED <<nextRule, now, records>>

\* Balancer.Select returns ErrNoHealthyNodes, which is kept only when no
\* attempt of any decision failed before.
FindNoNode(r) ==
  LET s == run[r] IN
  /\ s.pc = "select"
  /\ MayTryNode(r)
  /\ SelectNoNode(GroupOf(r), s.usedNodes)
  /\ run' = [run EXCEPT ![r] =
               EndDecision(s, KeepFirst(s.lastErr, "no_healthy_nodes"))]
  /\ UNCHANGED <<nextRule, now, records>>

\* The group's node budget is spent.
SpendNodes(r) ==
  LET s == run[r] IN
  /\ s.pc = "select"
  /\ ~ MayTryNode(r)
  /\ run' = [run EXCEPT ![r] = EndDecision(s, s.lastErr)]
  /\ UNCHANGED <<nextRule, now, healthVars, records>>

\* The loop runs once too often.
MayRetry_OffByOne(r) == run[r].retry <= RetryCount(GroupOf(r))

\* The loop over `retry` has another round on the same node.
MayRetry(r) == run[r].retry < RetryCount(GroupOf(r))

\* What run does with a failed attempt after reporting it.
AfterFailure(r, e) ==
  LET s == run[r] IN
  IF ~ IsRetryable(e) THEN EndDecision(s, e)
  ELSE IF MayRetry(r)
    THEN BeginAttempt([s EXCEPT !.lastErr = e, !.retry = @ + 1,
                                !.retryCount = @ + 1])
    ELSE [s EXCEPT !.pc = "select", !.lastErr = e]

\* The executor returns a response, or a stream that ended properly.
Succeed(r) ==
  LET s == run[r] IN
  /\ s.pc = "execute"
  /\ "ok" \in Outcomes
  /\ ReportSuccess(GroupOf(r), s.node)
  /\ run' = [run EXCEPT ![r] = [s EXCEPT !.pc = "finish", !.lastErr = "none",
                                         !.answer = "whole"]]
  /\ UNCHANGED <<nextRule, now, records>>

\* The executor returns error e; only a stream can break half way.  Every
\* error is held against the node, a caller that went away included.
Fail(r, e) ==
  LET s == run[r] IN
  /\ s.pc = "execute"
  /\ e \in Outcomes
  /\ e = "broken" => s.stream
  /\ ReportFailure(GroupOf(r), s.node)
  /\ run' = [run EXCEPT ![r] =
               [AfterFailure(r, e) EXCEPT
                  !.answer = IF e = "broken" THEN "partial" ELSE @]]
  /\ UNCHANGED <<nextRule, now, records>>

-------------------------------------------------------------------------------
(* The observation record *)

\* The buffer grows one beyond its limit.
Remember_OffByOne(record) ==
  records' = IF Len(records) > RecorderLimit
               THEN Append(Tail(records), record)
               ELSE Append(records, record)

\* Recorder.Record: a full buffer drops its oldest record.
Remember(record) ==
  records' = IF Len(records) >= RecorderLimit
               THEN Append(Tail(records), record)
               ELSE Append(records, record)

RouteModeOf(s) == IF s.rule = NoRuleYet THEN Unset ELSE RuleAt(s.model, s.rule).mode

Observation == [
  request : Request, routeMode : RouteMode \cup {Unset},
  selectedNode : Node \cup {NoNode}, strategy : Strategy \cup {Unset},
  retryCount : Nat, error : Errors]

\* `request` stands for the request time and model that identify the record.
RecordOf(r) ==
  LET s == run[r] IN
  [request |-> r, routeMode |-> RouteModeOf(s), selectedNode |-> s.selectedNode,
   strategy |-> s.strategy, retryCount |-> s.retryCount, error |-> s.lastErr]

\* finish, and the return to the caller.
Finish(r) ==
  /\ run[r].pc = "finish"
  /\ Remember(RecordOf(r))
  /\ run' = [run EXCEPT ![r] = [@ EXCEPT !.pc = "done"]]
  /\ UNCHANGED <<nextRule, now, healthVars>>

-------------------------------------------------------------------------------
Step(r) ==
  \/ Route(r) \/ RunOutOfRules(r)
  \/ PickNode(r) \/ FindNoNode(r) \/ SpendNodes(r)
  \/ Succeed(r) \/ \E e \in UpstreamErrors : Fail(r, e)
  \/ Finish(r)

Next ==
  \/ \E r \in Request, m \in Model \cup {UnknownModel}, s \in BOOLEAN :
       Arrive(r, m, s)
  \/ \E r \in Request : Step(r)
  \/ Tick /\ UNCHANGED <<nextRule, run, records>>

Spec == Init /\ [][Next]_vars

\* The scheduler runs every goroutine, and http.Client.Timeout ends every
\* attempt, so a request that can take a step takes one.  Nothing obliges
\* requests to arrive; the clock is not needed for progress.
Fairness == \A r \in Request : WF_vars(Step(r))

FairSpec == Spec /\ Fairness

-------------------------------------------------------------------------------
(* Properties *)

TypeOK ==
  /\ RouterTypeOK
  /\ BalancerTypeOK
  /\ run \in [Request -> RunState]
  /\ records \in Seq(Observation)

(***************************************************************************)
(* What run and runDecision rely on between their steps: a decision in     *)
(* progress names a rule and, while one is tried, a node of its group; a  *)
(* request under way has received nothing and carries no error or one that *)
(* failing over may cure; as soon as a rule is spent or a call was made    *)
(* there is such an error to return; and the errors found before a call do *)
(* not replace one.                                                        *)
(***************************************************************************)
ConsistentRun(s) ==
  /\ s.pc = "idle" => s.rule = NoRuleYet /\ s.excludedRoutes = {}
                        /\ s.attempts = <<>>
  /\ s.excludedRoutes # {} => s.model \in Model
  /\ s.model \in Model => s.excludedRoutes \subseteq RuleIndex(s.model)
  /\ s.rule # NoRuleYet => s.rule \in s.excludedRoutes
  /\ s.pc \in {"select", "execute"} => s.rule # NoRuleYet
  /\ s.pc = "execute" => /\ s.node \in NodeIndex(RuleAt(s.model, s.rule).group)
                         /\ s.attempts # <<>>
  /\ s.pc \notin {"finish", "done"} =>
       s.answer = "none" /\ s.lastErr \in {"none", "retryable", "timeout"}
  /\ s.pc = "route" /\ s.excludedRoutes # {} => s.lastErr # "none"
  /\ s.pc \in {"route", "select"} /\ s.attempts # <<>> => s.lastErr # "none"
  /\ s.pc = "select" /\ s.nodeAttempt > 0 => s.lastErr # "none"
  /\ s.answer # "none" => s.attempts # <<>>
  /\ s.lastErr \in {"no_route", "no_healthy_nodes"} => s.attempts = <<>>
  /\ s.pc \in {"finish", "done"} /\ s.model \in Model =>
       /\ s.lastErr # "no_route"
       /\ IsRetryable(s.lastErr) => s.excludedRoutes = RuleIndex(s.model)

\* Every request keeps the facts its code relies on, at every interleaving.
RunsConsistent == \A r \in Request : ConsistentRun(run[r])

Ended(r) == run[r].pc \in {"finish", "done"}
Served(r) == run[r].model \in Model

(***************************************************************************)
(* Passive health keeps its bounds whatever the order in which concurrent  *)
(* requests report: a node never carries as many failures as would bench   *)
(* it (it is benched at that report, and starts again from zero), and is   *)
(* never benched for longer than one cooldown from the present.            *)
(***************************************************************************)
PassiveHealthBounds ==
  \A g \in Group : \A i \in NodeIndex(g) :
    /\ failures[<<g, i>>] < Threshold(g)
    /\ unhealthyUntil[<<g, i>>] <= now + Cooldown(g)

(***************************************************************************)
(* The upstream calls of a request follow the plan of the code: the calls  *)
(* to one node for one rule are consecutive and at most RetryCount + 1 (a  *)
(* node given up is not visited again for that rule), and one rule visits  *)
(* at most MaxNodeAttempts nodes of its group.  requirements_CN.md allows  *)
(* fewer: retry_count calls of a node (:404, :411-414), not one more, and  *)
(* max_node_attempts nodes for the request (:396-397, :406), not for each  *)
(* of its rules.                                                           *)
(***************************************************************************)
AttemptPlan ==
  \A r \in Request :
    LET a == run[r].attempts IN
    /\ \A j, k \in DOMAIN a :
         j <= k /\ a[j] = a[k] =>
           /\ k - j <= RetryCount(RuleAt(run[r].model, a[j][1]).group)
           /\ \A l \in j .. k : a[l] = a[j]
    /\ \A i \in {a[k][1] : k \in DOMAIN a} :
         Cardinality({a[k][2] : k \in {k \in DOMAIN a : a[k][1] = i}})
           <= MaxNodeAttempts(RuleAt(run[r].model, i).group)

(***************************************************************************)
(* Once the caller has received anything - a whole response, or the first  *)
(* chunk of a stream that then broke - no other upstream is called and the *)
(* answer does not change: a caller never sees two answers spliced.        *)
(***************************************************************************)
NoCallAfterAnswer ==
  [][\A r \in Request : run[r].answer # "none" =>
       /\ run'[r].attempts = run[r].attempts
       /\ run'[r].answer = run[r].answer]_vars

(***************************************************************************)
(* A request for a configured alias never ends with "no route", and is     *)
(* given up with a retryable error only after every rule of the alias was  *)
(* handed to it, even though other requests move the shared pool cursor    *)
(* between its own selections.                                             *)
(***************************************************************************)
FailoverIsExhaustive ==
  \A r \in Request : Ended(r) /\ Served(r) =>
    /\ run[r].lastErr # "no_route"
    /\ IsRetryable(run[r].lastErr)
         => run[r].excludedRoutes = RuleIndex(run[r].model)

(***************************************************************************)
(* The errors the API maps to 404 and 503 mean that nothing was sent: when *)
(* an attempt was made, its error is the one the caller gets, not "no      *)
(* route" or "no healthy nodes" found afterwards while failing over.       *)
(***************************************************************************)
UnavailableMeansUntried ==
  \A r \in Request :
    run[r].lastErr \in {"no_route", "no_healthy_nodes"} => run[r].attempts = <<>>

(***************************************************************************)
(* What RetryCount of an observation record counts: the repeated calls to  *)
(* one node for one rule, plus one for every rule given up on a retryable  *)
(* error (the last one too); a switch of node within a group is no retry.  *)
(***************************************************************************)
RetryAccounting ==
  \A r \in Request :
    LET s == run[r]
        visits == {s.attempts[k] : k \in DOMAIN s.attempts}
        ended == IF IsRetryable(s.lastErr) THEN 0 ELSE 1
    IN Ended(r) /\ Served(r) =>
         s.retryCount = (Len(s.attempts) - Cardinality(visits))
                          + (Cardinality(s.excludedRoutes) - ended)

(***************************************************************************)
(* The recorder holds as many records as requests have ended, up to its    *)
(* limit, never two of one request, and a record says how the request it   *)
(* names ended.                                                            *)
(***************************************************************************)
RecordsTellOutcomes ==
  LET done == {r \in Request : run[r].pc = "done"} IN
  /\ Len(records) = IF Cardinality(done) <= RecorderLimit
                      THEN Cardinality(done) ELSE RecorderLimit
  /\ \A k \in DOMAIN records :
       /\ records[k].request \in done
       /\ records[k] = RecordOf(records[k].request)
       /\ \A j \in DOMAIN records :
            records[j].request = records[k].request => j = k

\* The proxy as its caller sees it.
PhaseOf(pc) ==
  CASE pc = "idle" -> "idle"
    [] pc = "finish" -> "settled"
    [] pc = "done" -> "closed"
    [] OTHER -> "running"

Chat == INSTANCE ChatService WITH
  phase <- [r \in Request |-> PhaseOf(run[r].pc)],
  calls <- [r \in Request |-> Len(run[r].attempts)],
  answer <- [r \in Request |-> run[r].answer]

\* Rules, groups, retries and the order of reports stay inside the promise
\* of ChatService: one answer or one refusal, then one observation.
ImplementsChatService == Chat!Spec

\* Every request that arrived is answered or refused and recorded: failing
\* over from node to node and rule to rule comes to an end.
RequestsClose == Chat!RequestsClose

===============================================================================
