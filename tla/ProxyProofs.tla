------------------------------ MODULE ProxyProofs ------------------------------
(* Theorems about Proxy, for every configuration and number of requests: its *)
(* invariants, that it implements ChatService, and that what it does for a    *)
(* request follows the plan, is counted right and is recorded as it ended.    *)
EXTENDS Proxy, SequenceTheorems, FiniteSetTheorems, TLAPS

-------------------------------------------------------------------------------
(* What the assumptions give about the configuration *)

\* The normalized settings of a group are what Select and run rely on.
LEMMA GroupSettingsTypes ==
  ASSUME NEW g \in Group
  PROVE  /\ NodeCount(g) \in Nat \ {0}
         /\ RetryCount(g) \in Nat
         /\ Threshold(g) \in Nat \ {0}
         /\ Cooldown(g) \in Nat \ {0}
         /\ StrategyOf(g) \in Strategy
         /\ MaxNodeAttempts(g) \in 1 .. NodeCount(g)
  <1>1. GroupConfig[g] \in GroupSettings
    BY GroupAssumption
  <1>2. /\ NodeCount(g) \in Nat \ {0}
        /\ RetryCount(g) \in Nat
        /\ Threshold(g) \in Nat \ {0}
        /\ Cooldown(g) \in Nat \ {0}
    BY <1>1 DEF GroupSettings, NodeCount, RetryCount, Threshold, Cooldown
  <1>3. StrategyOf(g) \in Strategy
    BY <1>1 DEF GroupSettings, StrategyOf, Strategy
  <1>4. MaxNodeAttempts(g) \in 1 .. NodeCount(g)
    BY <1>2 DEF MaxNodeAttempts
  <1> QED
    BY <1>2, <1>3, <1>4

\* An index of a pool denotes a rule, and the rule's group exists.
LEMMA RuleTypes ==
  ASSUME NEW m \in Model, NEW i \in RuleIndex(m)
  PROVE  /\ RuleAt(m, i) \in Rule
         /\ RuleAt(m, i).group \in Group
         /\ RuleAt(m, i).mode \in RouteMode
  <1>1. Pools[m] \in Seq(Rule) /\ i + 1 \in 1 .. Len(Pools[m])
    BY PoolsAssumption DEF RuleIndex, PoolSize
  <1>2. RuleAt(m, i) \in Rule
    BY <1>1 DEF RuleAt
  <1> QED
    BY <1>2 DEF Rule

\* The cursor arithmetic stays on the ring.
LEMMA SuccessorOnRing ==
  ASSUME NEW n \in Nat \ {0}, NEW i \in 0 .. n - 1
  PROVE  Successor(i, n) \in 0 .. n - 1
  BY DEF Successor

\* A pool is not empty, and its cursor stays inside it.
LEMMA RuleCursorOnRing ==
  ASSUME NEW m \in Model, NEW i \in RuleIndex(m)
  PROVE  Successor(i, PoolSize(m)) \in RuleIndex(m)
  <1>1. PoolSize(m) \in Nat \ {0}
    BY PoolsAssumption DEF PoolSize
  <1> QED
    BY <1>1, SuccessorOnRing DEF RuleIndex

\* The same for the cursor of a group.
LEMMA NodeCursorOnRing ==
  ASSUME NEW g \in Group, NEW i \in NodeIndex(g)
  PROVE  Successor(i, NodeCount(g)) \in NodeIndex(g)
  BY GroupSettingsTypes, SuccessorOnRing DEF NodeIndex

\* Node is made of the pairs of a group and one of its positions.
LEMMA NodePairs ==
  ASSUME NEW g \in Group, NEW i \in NodeIndex(g)
  PROVE  <<g, i>> \in Node
  BY DEF Node

-------------------------------------------------------------------------------
(* Steps of the balancer keep its types *)

LEMMA SelectNodeTypes ==
  ASSUME BalancerTypeOK, NEW g \in Group, NEW excluded,
         NEW i \in NodeIndex(g), SelectNode(g, excluded, i), now' = now
  PROVE  BalancerTypeOK'
  <1>1. CursorAfterSelect(g, i) \in NodeIndex(g)
    BY NodeCursorOnRing DEF CursorAfterSelect
  <1>2. cursor' \in [Group -> Nat] /\ \A h \in Group : cursor'[h] \in NodeIndex(h)
    BY <1>1 DEF SelectNode, BalancerTypeOK, NodeIndex
  <1> QED
    BY <1>2 DEF SelectNode, BalancerTypeOK

LEMMA ReportSuccessTypes ==
  ASSUME BalancerTypeOK, NEW g \in Group, NEW i \in NodeIndex(g),
         ReportSuccess(g, i), now' = now
  PROVE  BalancerTypeOK'
  <1>1. cursor' \in [Group -> Nat] /\ \A h \in Group : cursor'[h] \in NodeIndex(h)
    BY DEF ReportSuccess, BalancerTypeOK, NodeIndex
  <1>2. failures' \in [Node -> Nat] /\ unhealthyUntil' \in [Node -> Nat]
    BY DEF ReportSuccess, BalancerTypeOK
  <1> QED
    BY <1>1, <1>2 DEF BalancerTypeOK

LEMMA ReportFailureTypes ==
  ASSUME BalancerTypeOK, NEW g \in Group, NEW i \in NodeIndex(g),
         ReportFailure(g, i), now' = now
  PROVE  BalancerTypeOK'
  <1>1. Successor(i, NodeCount(g)) \in NodeIndex(g)
    BY NodeCursorOnRing
  <1>2. cursor' \in [Group -> Nat] /\ \A h \in Group : cursor'[h] \in NodeIndex(h)
    BY <1>1 DEF ReportFailure, BalancerTypeOK, NodeIndex
  <1>3. Cooldown(g) \in Nat
    BY GroupSettingsTypes
  <1>4. failures' \in [Node -> Nat]
    BY DEF ReportFailure, BalancerTypeOK
  <1>5. unhealthyUntil' \in [Node -> Nat]
    BY <1>3 DEF ReportFailure, BalancerTypeOK
  <1> QED
    BY <1>2, <1>4, <1>5 DEF BalancerTypeOK

-------------------------------------------------------------------------------
(* Steps of a request keep its types and its consistency *)

\* What is known of a request between its steps.
GoodRun(s) == s \in RunState /\ ConsistentRun(s)

RunsOK == run \in [Request -> RunState] /\ RunsConsistent

\* Changing one request to a good state keeps all of them good.
LEMMA OneRunChanges ==
  ASSUME RunsOK, NEW r \in Request, NEW t, GoodRun(t),
         run' = [run EXCEPT ![r] = t]
  PROVE  RunsOK'
  BY DEF RunsOK, RunsConsistent, GoodRun

\* The fields of a run state, one by one.
LEMMA RunTypes ==
  ASSUME NEW s \in RunState
  PROVE  /\ s.excludedRoutes \in SUBSET Nat /\ s.usedNodes \in SUBSET Nat
         /\ s.nodeAttempt \in Nat /\ s.retry \in Nat /\ s.retryCount \in Nat
         /\ s.node \in Nat /\ s.lastErr \in Errors
         /\ s.attempts \in Seq(Nat \X Nat)
  BY DEF RunState

\* A request in a decision names a rule, and the rule a group.
LEMMA DecisionTypes ==
  ASSUME NEW s \in RunState, ConsistentRun(s), s.rule # NoRuleYet
  PROVE  /\ s.model \in Model
         /\ s.rule \in RuleIndex(s.model)
         /\ RuleAt(s.model, s.rule).group \in Group
         /\ RuleAt(s.model, s.rule).mode \in RouteMode
  <1>1. s.model \in Model /\ s.rule \in RuleIndex(s.model)
    BY DEF ConsistentRun
  <1> QED
    BY <1>1, RuleTypes

\* A decision starts, or is refused for want of an executor.
LEMMA StartDecisionGood ==
  ASSUME NEW s, GoodRun(s), s.pc = "route", s.model \in Model,
         NEW i \in RuleIndex(s.model), NEW y \in Strategy
  PROVE  GoodRun(StartDecision(s, i, y)) /\ GoodRun(RejectDecision(s, i))
  <1>1. i \in Nat
    BY DEF RuleIndex
  <1>2. StartDecision(s, i, y) \in RunState
    BY <1>1 DEF GoodRun, StartDecision, RunState, PC
  <1>3. RejectDecision(s, i) \in RunState
    BY <1>1 DEF GoodRun, RejectDecision, RunState, PC, Errors
  <1>4. ConsistentRun(StartDecision(s, i, y))
    <2> DEFINE t == StartDecision(s, i, y)
    <2>1. /\ t.pc = "select" /\ t.rule = i /\ t.nodeAttempt = 0
          /\ t.excludedRoutes = s.excludedRoutes \cup {i}
          /\ t.model = s.model /\ t.lastErr = s.lastErr
          /\ t.answer = s.answer /\ t.attempts = s.attempts
      BY DEF GoodRun, StartDecision, RunState
    <2> HIDE DEF t
    <2>2. ConsistentRun(t)
      BY <1>1, <2>1 DEF GoodRun, ConsistentRun, NoRuleYet
    <2> QED
      BY <2>2 DEF t
  <1>5. ConsistentRun(RejectDecision(s, i))
    BY <1>1 DEF GoodRun, RejectDecision, RunState, ConsistentRun, NoRuleYet,
       IsRetryable
  <1> QED
    BY <1>2, <1>3, <1>4, <1>5 DEF GoodRun

\* runDecision returns: the request goes back to routing or ends.
LEMMA EndDecisionGood ==
  ASSUME NEW s, GoodRun(s), s.rule # NoRuleYet, s.answer = "none",
         NEW e \in Errors, e # "none", e # "no_route",
         e = "no_healthy_nodes" => s.attempts = <<>>
  PROVE  GoodRun(EndDecision(s, e))
  <1>1. CASE IsRetryable(e)
    <2>1. EndDecision(s, e)
            = [s EXCEPT !.pc = "route", !.lastErr = e, !.retryCount = @ + 1]
      BY <1>1 DEF EndDecision
    <2> DEFINE n == s.retryCount + 1
    <2>2. n \in Nat
      BY RunTypes DEF GoodRun
    <2> HIDE DEF n
    <2>3. [s EXCEPT !.pc = "route", !.lastErr = e, !.retryCount = n] \in RunState
      BY <2>2 DEF GoodRun, RunState, PC
    <2>4. EndDecision(s, e) \in RunState
      BY <2>1, <2>3 DEF n
    <2>5. ConsistentRun(EndDecision(s, e))
      BY <1>1, <2>1 DEF GoodRun, RunState, ConsistentRun, IsRetryable
    <2> QED
      BY <2>4, <2>5 DEF GoodRun
  <1>2. CASE ~ IsRetryable(e)
    <2>1. EndDecision(s, e) \in RunState
      BY <1>2 DEF GoodRun, EndDecision, RunState, PC
    <2>2. ConsistentRun(EndDecision(s, e))
      BY <1>2 DEF GoodRun, EndDecision, RunState, ConsistentRun
    <2> QED
      BY <2>1, <2>2 DEF GoodRun
  <1> QED
    BY <1>1, <1>2

\* An upstream call starts: the request is consistent if it was ready for it.
LEMMA BeginAttemptGood ==
  ASSUME NEW u \in RunState, u.model \in Model,
         u.excludedRoutes \subseteq RuleIndex(u.model),
         u.rule \in u.excludedRoutes,
         u.node \in NodeIndex(RuleAt(u.model, u.rule).group),
         u.answer = "none", u.lastErr \in {"none", "retryable", "timeout"}
  PROVE  GoodRun(BeginAttempt(u))
  <1> DEFINE q == u.attempts
             x == <<u.rule, u.node>>
             S == Nat \X Nat
             t == BeginAttempt(u)
  <1>1. q \in Seq(S) /\ x \in S
    BY RunTypes
  <1> HIDE DEF q, x, S
  <1>2. Append(q, x) \in Seq(S) /\ Append(q, x) # <<>>
    BY <1>1, AppendProperties
  <1>3. Append(u.attempts, <<u.rule, u.node>>) \in Seq(Nat \X Nat)
    BY <1>2 DEF q, x, S
  <1>4. Append(u.attempts, <<u.rule, u.node>>) # <<>>
    BY <1>2 DEF q, x
  <1>5. t \in RunState
    BY <1>3 DEF BeginAttempt, RunState, PC
  <1>6. /\ t.pc = "execute" /\ t.rule = u.rule /\ t.node = u.node
        /\ t.model = u.model /\ t.excludedRoutes = u.excludedRoutes
        /\ t.lastErr = u.lastErr /\ t.answer = u.answer
        /\ t.attempts # <<>>
    BY <1>4 DEF BeginAttempt, RunState
  <1>7. u.rule \in Nat
    BY RunTypes
  <1> HIDE DEF t
  <1>8. ConsistentRun(t)
    BY <1>6, <1>7 DEF ConsistentRun, NoRuleYet
  <1> QED
    BY <1>5, <1>8 DEF GoodRun, t

\* A node is chosen and its first attempt starts.
LEMMA PickedGood ==
  ASSUME NEW s, GoodRun(s), s.pc = "select",
         NEW g, g = RuleAt(s.model, s.rule).group, NEW i \in NodeIndex(g)
  PROVE  GoodRun(BeginAttempt(
           [s EXCEPT !.usedNodes = @ \cup {i}, !.nodeAttempt = @ + 1,
                     !.node = i, !.retry = 0, !.selectedNode = <<g, i>>]))
  <1> DEFINE k == s.nodeAttempt + 1
             w == s.usedNodes \cup {i}
             u == [s EXCEPT !.usedNodes = w, !.nodeAttempt = k,
                            !.node = i, !.retry = 0, !.selectedNode = <<g, i>>]
  <1>1. s.rule # NoRuleYet /\ s \in RunState
    BY DEF GoodRun, ConsistentRun
  <1>2. g \in Group
    BY <1>1, DecisionTypes DEF GoodRun
  <1>3. i \in Nat /\ <<g, i>> \in Node
    BY <1>2, NodePairs DEF NodeIndex
  <1>4. w \in SUBSET Nat /\ k \in Nat
    BY <1>1, <1>3, RunTypes
  <1> HIDE DEF w, k
  <1>5. u \in RunState
    BY <1>1, <1>3, <1>4 DEF RunState
  <1>6. /\ u.rule = s.rule /\ u.node = i /\ u.model = s.model
        /\ u.excludedRoutes = s.excludedRoutes /\ u.lastErr = s.lastErr
        /\ u.answer = s.answer
    BY <1>1 DEF RunState
  <1> HIDE DEF u
  <1>7. GoodRun(BeginAttempt(u))
    BY <1>1, <1>5, <1>6, BeginAttemptGood DEF GoodRun, ConsistentRun
  <1> QED
    BY <1>7 DEF u, w, k

\* The same node is tried again.
LEMMA RetriedGood ==
  ASSUME NEW s, GoodRun(s), s.pc = "execute", NEW e, IsRetryable(e)
  PROVE  GoodRun(BeginAttempt(
           [s EXCEPT !.lastErr = e, !.retry = @ + 1, !.retryCount = @ + 1]))
  <1> DEFINE j == s.retry + 1
             k == s.retryCount + 1
             u == [s EXCEPT !.lastErr = e, !.retry = j, !.retryCount = k]
  <1>1. s.rule # NoRuleYet /\ s \in RunState
    BY DEF GoodRun, ConsistentRun
  <1>2. j \in Nat /\ k \in Nat
    BY <1>1, RunTypes
  <1>3. e \in Errors /\ e \in {"none", "retryable", "timeout"}
    BY DEF IsRetryable, Errors, UpstreamErrors
  <1> HIDE DEF j, k
  <1>4. u \in RunState
    BY <1>1, <1>2, <1>3 DEF RunState
  <1>5. /\ u.rule = s.rule /\ u.node = s.node /\ u.model = s.model
        /\ u.excludedRoutes = s.excludedRoutes /\ u.lastErr = e
        /\ u.answer = s.answer
    BY <1>1 DEF RunState
  <1> HIDE DEF u
  <1>6. GoodRun(BeginAttempt(u))
    BY <1>1, <1>3, <1>4, <1>5, BeginAttemptGood DEF GoodRun, ConsistentRun
  <1> QED
    BY <1>6 DEF u, j, k

\* Whatever follows a failed attempt, a stream broken half way included.
LEMMA FailedGood ==
  ASSUME NEW r, NEW e \in UpstreamErrors, GoodRun(run[r]),
         run[r].pc = "execute"
  PROVE  GoodRun([AfterFailure(r, e) EXCEPT
                    !.answer = IF e = "broken" THEN "partial" ELSE @])
  <1> DEFINE s == run[r]
             t == AfterFailure(r, e)
             u == [t EXCEPT !.answer = IF e = "broken" THEN "partial" ELSE @]
  <1>1. s \in RunState /\ s.rule # NoRuleYet /\ s.answer = "none"
    BY DEF GoodRun, ConsistentRun
  <1>2. e \in Errors /\ e # "none" /\ e # "no_route" /\ e # "no_healthy_nodes"
    BY DEF Errors, UpstreamErrors
  <1>3. CASE e = "broken"
    <2>1. t = [s EXCEPT !.pc = "finish", !.lastErr = e]
      BY <1>3 DEF AfterFailure, EndDecision, IsRetryable
    <2>2. u = [s EXCEPT !.pc = "finish", !.lastErr = e, !.answer = "partial"]
      BY <1>1, <1>3, <2>1 DEF RunState
    <2>3. u \in RunState
      <3> HIDE DEF s, t, u
      <3> QED
        BY ONLY <1>1, <1>2, <2>2, ZenonT(40) DEF RunState, PC
    <2>4. ConsistentRun(u)
      BY <1>1, <1>2, <1>3, <2>2 DEF GoodRun, RunState, ConsistentRun, IsRetryable
    <2> QED
      BY <2>3, <2>4 DEF GoodRun
  <1>4. CASE e # "broken"
    <2>1. GoodRun(t)
      <3>1. CASE ~ IsRetryable(e)
        BY <1>1, <1>2, <3>1, EndDecisionGood DEF AfterFailure
      <3>2. CASE IsRetryable(e) /\ MayRetry(r)
        BY <3>2, RetriedGood DEF AfterFailure
      <3>3. CASE IsRetryable(e) /\ ~ MayRetry(r)
        <4>1. t = [s EXCEPT !.pc = "select", !.lastErr = e]
          BY <3>3 DEF AfterFailure
        <4>2. t \in RunState
          <5> HIDE DEF s, t
          <5> QED
            BY ONLY <1>1, <1>2, <4>1, ZenonT(40) DEF RunState, PC
        <4>3. ConsistentRun(t)
          BY <1>1, <1>2, <3>3, <4>1
             DEF GoodRun, RunState, ConsistentRun, IsRetryable
        <4> QED
          BY <4>2, <4>3 DEF GoodRun
      <3> QED
        BY <3>1, <3>2, <3>3
    <2>2. u = t
      BY <1>4, <2>1 DEF GoodRun, RunState
    <2> QED
      BY <2>1, <2>2
  <1> QED
    BY <1>3, <1>4

-------------------------------------------------------------------------------
(* Every action keeps types and consistency *)

IInv == TypeOK /\ RunsConsistent

LEMMA ArriveKeeps ==
  ASSUME IInv, NEW r \in Request, NEW m \in Model \cup {UnknownModel},
         NEW b \in BOOLEAN, Arrive(r, m, b)
  PROVE  IInv'
  <1> DEFINE t == [run[r] EXCEPT !.pc = "route", !.model = m, !.stream = b]
  <1>1. GoodRun(run[r]) /\ run[r].pc = "idle" /\ run' = [run EXCEPT ![r] = t]
    BY DEF IInv, TypeOK, RunsConsistent, GoodRun, Arrive
  <1>2. t \in RunState
    <2> DEFINE s == run[r]
    <2>1. t = [s EXCEPT !.pc = "route", !.model = m, !.stream = b] /\ s \in RunState
      BY <1>1 DEF GoodRun
    <2> HIDE DEF s, t
    <2> QED
      BY ONLY <2>1, m \in Model \cup {UnknownModel}, b \in BOOLEAN, ZenonT(40)
         DEF RunState, PC
  <1>3. ConsistentRun(t)
    BY <1>1 DEF GoodRun, RunState, ConsistentRun, NoRuleYet
  <1>4. RunsOK'
    BY <1>1, <1>2, <1>3, OneRunChanges DEF GoodRun, RunsOK, IInv, TypeOK
  <1>5. RouterTypeOK' /\ BalancerTypeOK' /\ records' \in Seq(Observation)
    BY DEF IInv, TypeOK, Arrive, RouterTypeOK, BalancerTypeOK, healthVars
  <1> QED
    BY <1>4, <1>5 DEF IInv, TypeOK, RunsOK

LEMMA RouteKeeps ==
  ASSUME IInv, NEW r \in Request, Route(r)
  PROVE  IInv'
  <1> DEFINE s == run[r]
  <1>1. GoodRun(s) /\ s.pc = "route"
    BY DEF IInv, TypeOK, RunsConsistent, GoodRun, Route
  <1>2. PICK i \in Routable(s.model, s.excludedRoutes) :
          /\ SelectRule(s.model, s.excludedRoutes, i)
          /\ run' = [run EXCEPT ![r] =
                       IF HasExecutor(RuleAt(s.model, i).mode)
                         THEN StartDecision(s, i, StrategyOf(RuleAt(s.model, i).group))
                         ELSE RejectDecision(s, i)]
    BY DEF Route
  <1>3. s.model \in Model /\ i \in RuleIndex(s.model)
    BY <1>2 DEF SelectRule, Routable
  <1>4. StrategyOf(RuleAt(s.model, i).group) \in Strategy
    BY <1>3, RuleTypes, GroupSettingsTypes
  <1>5. RunsOK'
    <2>1. GoodRun(IF HasExecutor(RuleAt(s.model, i).mode)
                    THEN StartDecision(s, i, StrategyOf(RuleAt(s.model, i).group))
                    ELSE RejectDecision(s, i))
      BY <1>1, <1>3, <1>4, StartDecisionGood
    <2> QED
      BY <1>2, <2>1, OneRunChanges DEF RunsOK, IInv, TypeOK
  <1>6. RouterTypeOK'
    <2>1. Successor(i, PoolSize(s.model)) \in RuleIndex(s.model)
      BY <1>3, RuleCursorOnRing
    <2> QED
      BY <1>2, <1>3, <2>1
         DEF SelectRule, AdvanceRule, RouterTypeOK, IInv, TypeOK, RuleIndex
  <1>7. BalancerTypeOK' /\ records' \in Seq(Observation)
    BY DEF IInv, TypeOK, Route, BalancerTypeOK, healthVars
  <1> QED
    BY <1>5, <1>6, <1>7 DEF IInv, TypeOK, RunsOK

LEMMA RunOutOfRulesKeeps ==
  ASSUME IInv, NEW r \in Request, RunOutOfRules(r)
  PROVE  IInv'
  <1> DEFINE s == run[r]
             e == KeepFirst(s.lastErr, "no_route")
             t == [s EXCEPT !.pc = "finish", !.lastErr = e]
  <1>1. GoodRun(s) /\ s.pc = "route" /\ run' = [run EXCEPT ![r] = t]
    BY DEF IInv, TypeOK, RunsConsistent, GoodRun, RunOutOfRules
  <1>2. Routable(s.model, s.excludedRoutes) = {}
    BY DEF RunOutOfRules, NoRule
  <1>3. e \in Errors
    BY <1>1, RunTypes DEF GoodRun, KeepFirst, Errors
  <1>4. t \in RunState
    BY <1>1, <1>3 DEF GoodRun, RunState, PC
  <1>5. s.model \in Model =>
          s.excludedRoutes = RuleIndex(s.model) /\ s.excludedRoutes # {}
    <2>1. ASSUME s.model \in Model PROVE RuleIndex(s.model) # {}
      <3>1. PoolSize(s.model) \in Nat \ {0}
        BY <2>1, PoolsAssumption DEF PoolSize
      <3> QED
        BY <3>1 DEF RuleIndex
    <2> QED
      BY <1>1, <1>2, <2>1 DEF Routable, GoodRun, ConsistentRun
  <1>6. ConsistentRun(t)
    <2>1. /\ t.pc = "finish" /\ t.rule = s.rule /\ t.model = s.model
          /\ t.excludedRoutes = s.excludedRoutes /\ t.lastErr = e
          /\ t.answer = s.answer /\ t.attempts = s.attempts
      BY <1>1 DEF GoodRun, RunState
    <2> HIDE DEF t
    <2>2. s.lastErr # "none" => e = s.lastErr
      BY DEF KeepFirst
    <2>3. s.lastErr = "none" => s.attempts = <<>> /\ s.excludedRoutes = {}
      BY <1>1 DEF GoodRun, ConsistentRun
    <2>4. s.lastErr \in {"none", "retryable", "timeout"} /\ s.answer = "none"
      BY <1>1 DEF GoodRun, ConsistentRun
    <2> QED
      BY <1>1, <1>5, <2>1, <2>2, <2>3, <2>4
         DEF GoodRun, ConsistentRun, IsRetryable
  <1>7. RunsOK'
    BY <1>1, <1>4, <1>6, OneRunChanges DEF GoodRun, RunsOK, IInv, TypeOK
  <1>8. RouterTypeOK' /\ BalancerTypeOK' /\ records' \in Seq(Observation)
    BY DEF IInv, TypeOK, RunOutOfRules, NoRule, RouterTypeOK, BalancerTypeOK,
       healthVars
  <1> QED
    BY <1>7, <1>8 DEF IInv, TypeOK, RunsOK

LEMMA PickNodeKeeps ==
  ASSUME IInv, NEW r \in Request, PickNode(r)
  PROVE  IInv'
  <1> DEFINE s == run[r]
             g == GroupOf(r)
  <1>1. GoodRun(s) /\ s.pc = "select"
    BY DEF IInv, TypeOK, RunsConsistent, GoodRun, PickNode
  <1>2. PICK i \in Selectable(g, s.usedNodes) :
          /\ SelectNode(g, s.usedNodes, i)
          /\ run' = [run EXCEPT ![r] = BeginAttempt(
                       [s EXCEPT !.usedNodes = @ \cup {i},
                                 !.nodeAttempt = @ + 1,
                                 !.node = i, !.retry = 0,
                                 !.selectedNode = <<g, i>>])]
    BY DEF PickNode
  <1>3. g = RuleAt(s.model, s.rule).group /\ g \in Group
    <2>1. s \in RunState /\ ConsistentRun(s) /\ s.rule # NoRuleYet
      BY <1>1 DEF GoodRun, ConsistentRun
    <2> QED
      BY <2>1, DecisionTypes DEF GroupOf, RuleOf
  <1>4. i \in NodeIndex(g)
    BY <1>2 DEF Selectable
  <1>5. RunsOK'
    BY <1>1, <1>2, <1>3, <1>4, PickedGood, OneRunChanges
       DEF RunsOK, IInv, TypeOK
  <1>6. BalancerTypeOK'
    BY <1>2, <1>3, <1>4, SelectNodeTypes DEF IInv, TypeOK, PickNode
  <1>7. RouterTypeOK' /\ records' \in Seq(Observation)
    BY DEF IInv, TypeOK, PickNode, RouterTypeOK
  <1> QED
    BY <1>5, <1>6, <1>7 DEF IInv, TypeOK, RunsOK

LEMMA FindNoNodeKeeps ==
  ASSUME IInv, NEW r \in Request, FindNoNode(r)
  PROVE  IInv'
  <1> DEFINE s == run[r]
             e == KeepFirst(s.lastErr, "no_healthy_nodes")
  <1>1. GoodRun(s) /\ s.pc = "select" /\ run' = [run EXCEPT ![r] = EndDecision(s, e)]
    BY DEF IInv, TypeOK, RunsConsistent, GoodRun, FindNoNode
  <1>2. /\ e \in Errors /\ e # "none" /\ e # "no_route"
        /\ e = "no_healthy_nodes" => s.attempts = <<>>
        /\ s.rule # NoRuleYet /\ s.answer = "none"
    BY <1>1, RunTypes DEF GoodRun, ConsistentRun, KeepFirst, Errors
  <1>3. RunsOK'
    BY <1>1, <1>2, EndDecisionGood, OneRunChanges DEF RunsOK, IInv, TypeOK
  <1>4. RouterTypeOK' /\ BalancerTypeOK' /\ records' \in Seq(Observation)
    BY DEF IInv, TypeOK, FindNoNode, SelectNoNode, RouterTypeOK,
       BalancerTypeOK, healthVars
  <1> QED
    BY <1>3, <1>4 DEF IInv, TypeOK, RunsOK

LEMMA SpendNodesKeeps ==
  ASSUME IInv, NEW r \in Request, SpendNodes(r)
  PROVE  IInv'
  <1> DEFINE s == run[r]
  <1>1. /\ GoodRun(s) /\ s.pc = "select" /\ ~ MayTryNode(r)
        /\ run' = [run EXCEPT ![r] = EndDecision(s, s.lastErr)]
    BY DEF IInv, TypeOK, RunsConsistent, GoodRun, SpendNodes
  <1>2. s.rule # NoRuleYet /\ s \in RunState /\ ConsistentRun(s)
    BY <1>1 DEF GoodRun, ConsistentRun
  <1>3. MaxNodeAttempts(GroupOf(r)) \in Nat \ {0}
    BY <1>2, DecisionTypes, GroupSettingsTypes DEF GroupOf, RuleOf
  <1>4. s.nodeAttempt > 0
    BY <1>1, <1>2, <1>3, RunTypes DEF MayTryNode
  <1>5. /\ s.lastErr \in Errors /\ s.lastErr # "none" /\ s.lastErr # "no_route"
        /\ s.lastErr # "no_healthy_nodes" /\ s.answer = "none"
    BY <1>1, <1>2, <1>4, RunTypes DEF ConsistentRun
  <1>6. RunsOK'
    BY <1>1, <1>2, <1>5, EndDecisionGood, OneRunChanges DEF RunsOK, IInv, TypeOK
  <1>7. RouterTypeOK' /\ BalancerTypeOK' /\ records' \in Seq(Observation)
    BY DEF IInv, TypeOK, SpendNodes, RouterTypeOK, BalancerTypeOK, healthVars
  <1> QED
    BY <1>6, <1>7 DEF IInv, TypeOK, RunsOK

\* The node under trial is a node of the group under trial.
LEMMA TriedNode ==
  ASSUME IInv, NEW r \in Request, run[r].pc = "execute"
  PROVE  GroupOf(r) \in Group /\ run[r].node \in NodeIndex(GroupOf(r))
  <1>1. run[r] \in RunState /\ ConsistentRun(run[r]) /\ run[r].rule # NoRuleYet
    BY DEF IInv, TypeOK, RunsConsistent, ConsistentRun
  <1> QED
    BY <1>1, DecisionTypes DEF GroupOf, RuleOf, ConsistentRun

LEMMA SucceedKeeps ==
  ASSUME IInv, NEW r \in Request, Succeed(r)
  PROVE  IInv'
  <1> DEFINE s == run[r]
             t == [s EXCEPT !.pc = "finish", !.lastErr = "none", !.answer = "whole"]
  <1>1. GoodRun(s) /\ s.pc = "execute" /\ run' = [run EXCEPT ![r] = t]
    BY DEF IInv, TypeOK, RunsConsistent, GoodRun, Succeed
  <1>2. t \in RunState
    BY <1>1 DEF GoodRun, RunState, PC, Errors
  <1>3. ConsistentRun(t)
    BY <1>1 DEF GoodRun, RunState, ConsistentRun, IsRetryable
  <1>4. RunsOK'
    BY <1>1, <1>2, <1>3, OneRunChanges DEF GoodRun, RunsOK, IInv, TypeOK
  <1>5. BalancerTypeOK'
    BY <1>1, TriedNode, ReportSuccessTypes DEF IInv, TypeOK, Succeed
  <1>6. RouterTypeOK' /\ records' \in Seq(Observation)
    BY DEF IInv, TypeOK, Succeed, RouterTypeOK
  <1> QED
    BY <1>4, <1>5, <1>6 DEF IInv, TypeOK, RunsOK

LEMMA FailKeeps ==
  ASSUME IInv, NEW r \in Request, NEW e \in UpstreamErrors, Fail(r, e)
  PROVE  IInv'
  <1>1. GoodRun(run[r]) /\ run[r].pc = "execute"
    BY DEF IInv, TypeOK, RunsConsistent, GoodRun, Fail
  <1>2. RunsOK'
    BY <1>1, FailedGood, OneRunChanges DEF RunsOK, IInv, TypeOK, Fail
  <1>3. BalancerTypeOK'
    BY <1>1, TriedNode, ReportFailureTypes DEF IInv, TypeOK, Fail
  <1>4. RouterTypeOK' /\ records' \in Seq(Observation)
    BY DEF IInv, TypeOK, Fail, RouterTypeOK
  <1> QED
    BY <1>2, <1>3, <1>4 DEF IInv, TypeOK, RunsOK

\* A record is a well-formed observation.
LEMMA RecordTypes ==
  ASSUME IInv, NEW r \in Request
  PROVE  RecordOf(r) \in Observation
  <1>1. run[r] \in RunState /\ ConsistentRun(run[r])
    BY DEF IInv, TypeOK, RunsConsistent
  <1>2. RouteModeOf(run[r]) \in RouteMode \cup {Unset}
    BY <1>1, DecisionTypes DEF RouteModeOf
  <1> QED
    BY <1>1, <1>2 DEF RecordOf, Observation, RunState

LEMMA FinishKeeps ==
  ASSUME IInv, NEW r \in Request, Finish(r)
  PROVE  IInv'
  <1> DEFINE s == run[r]
             t == [s EXCEPT !.pc = "done"]
  <1>1. GoodRun(s) /\ s.pc = "finish" /\ run' = [run EXCEPT ![r] = t]
    BY DEF IInv, TypeOK, RunsConsistent, GoodRun, Finish
  <1>2. t \in RunState
    BY <1>1 DEF GoodRun, RunState, PC
  <1>3. ConsistentRun(t)
    BY <1>1 DEF GoodRun, RunState, ConsistentRun
  <1>4. RunsOK'
    BY <1>1, <1>2, <1>3, OneRunChanges DEF GoodRun, RunsOK, IInv, TypeOK
  <1>5. records' \in Seq(Observation)
    <2>1. records \in Seq(Observation) /\ RecordOf(r) \in Observation
      BY RecordTypes DEF IInv, TypeOK
    <2>2. CASE Len(records) >= RecorderLimit
      <3>1. records # <<>>
        BY <2>2, ProxyAssumption
      <3>2. Tail(records) \in Seq(Observation)
        BY <2>1, <3>1, HeadTailProperties
      <3>3. Append(Tail(records), RecordOf(r)) \in Seq(Observation)
        BY <2>1, <3>2, AppendProperties
      <3> QED
        BY <2>2, <3>3 DEF Finish, Remember
    <2>3. CASE ~ (Len(records) >= RecorderLimit)
      BY <2>1, <2>3, AppendProperties DEF Finish, Remember
    <2> QED
      BY <2>2, <2>3
  <1>6. RouterTypeOK' /\ BalancerTypeOK'
    BY DEF IInv, TypeOK, Finish, RouterTypeOK, BalancerTypeOK, healthVars
  <1> QED
    BY <1>4, <1>5, <1>6 DEF IInv, TypeOK, RunsOK

LEMMA TickKeeps ==
  ASSUME IInv, Tick, UNCHANGED <<nextRule, run, records>>
  PROVE  IInv'
  <1>1. BalancerTypeOK'
    BY DEF IInv, TypeOK, Tick, BalancerTypeOK, healthVars
  <1>2. RouterTypeOK' /\ records' \in Seq(Observation) /\ run' \in [Request -> RunState]
    BY DEF IInv, TypeOK, RouterTypeOK
  <1>3. RunsConsistent'
    BY DEF IInv, RunsConsistent
  <1> QED
    BY <1>1, <1>2, <1>3 DEF IInv, TypeOK

LEMMA InitEstablishes == Init => IInv
  <1> SUFFICES ASSUME Init PROVE IInv
    OBVIOUS
  <1>1. RouterTypeOK
    <2>1. ASSUME NEW m \in Model PROVE 0 \in RuleIndex(m)
      <3>1. PoolSize(m) \in Nat \ {0}
        BY PoolsAssumption DEF PoolSize
      <3> QED
        BY <3>1 DEF RuleIndex
    <2> QED
      BY <2>1 DEF Init, RouterInit, RouterTypeOK
  <1>2. BalancerTypeOK
    <2>1. ASSUME NEW g \in Group PROVE 0 \in NodeIndex(g)
      BY GroupSettingsTypes DEF NodeIndex
    <2> QED
      BY <2>1 DEF Init, BalancerInit, BalancerTypeOK
  <1>3. Idle \in RunState
    <2>1. <<>> \in Seq(Nat \X Nat)
      BY EmptySeq
    <2> QED
      BY <2>1 DEF Idle, RunState, PC, Errors
  <1>4. ConsistentRun(Idle)
    BY DEF Idle, ConsistentRun
  <1>5. records \in Seq(Observation)
    BY EmptySeq DEF Init
  <1> QED
    BY <1>1, <1>2, <1>3, <1>4, <1>5 DEF Init, IInv, TypeOK, RunsConsistent

LEMMA StepKeeps ==
  ASSUME IInv, NEW r \in Request, Step(r)
  PROVE  IInv'
  BY RouteKeeps, RunOutOfRulesKeeps, PickNodeKeeps, FindNoNodeKeeps,
     SpendNodesKeeps, SucceedKeeps, FailKeeps, FinishKeeps DEF Step

LEMMA NextKeeps == IInv /\ [Next]_vars => IInv'
  <1> SUFFICES ASSUME IInv, [Next]_vars PROVE IInv'
    OBVIOUS
  <1>1. ASSUME NEW r \in Request, NEW m \in Model \cup {UnknownModel},
               NEW b \in BOOLEAN, Arrive(r, m, b)
        PROVE  IInv'
    BY <1>1, ArriveKeeps
  <1>2. ASSUME NEW r \in Request, Step(r) PROVE IInv'
    BY <1>2, StepKeeps
  <1>3. CASE Tick /\ UNCHANGED <<nextRule, run, records>>
    BY <1>3, TickKeeps
  <1>4. CASE UNCHANGED vars
    BY <1>4 DEF vars, IInv, TypeOK, RouterTypeOK, BalancerTypeOK, RunsConsistent
  <1> QED
    BY <1>1, <1>2, <1>3, <1>4 DEF Next

-------------------------------------------------------------------------------
(* Theorems *)

(***************************************************************************)
(* The state of the proxy keeps its types: cursors stay inside their pool  *)
(* or group, and every decision names an existing rule.                    *)
(***************************************************************************)
THEOREM TypeCorrect == Spec => []TypeOK
  <1>1. Spec => []IInv
    BY InitEstablishes, NextKeeps, PTL DEF Spec
  <1>2. IInv => TypeOK
    BY DEF IInv
  <1> QED
    BY <1>1, <1>2, PTL

(***************************************************************************)
(* At every interleaving of requests, a request under way has what run and *)
(* runDecision rely on (see ConsistentRun).                                *)
(***************************************************************************)
THEOREM Consistent == Spec => []RunsConsistent
  <1>1. Spec => []IInv
    BY InitEstablishes, NextKeeps, PTL DEF Spec
  <1>2. IInv => RunsConsistent
    BY DEF IInv
  <1> QED
    BY <1>1, <1>2, PTL

(***************************************************************************)
(* "No route" and "no healthy nodes" are reported only for requests that   *)
(* were never sent upstream.                                               *)
(***************************************************************************)
THEOREM UnavailableIsUntried == Spec => []UnavailableMeansUntried
  <1>1. RunsConsistent => UnavailableMeansUntried
    BY DEF RunsConsistent, ConsistentRun, UnavailableMeansUntried
  <1> QED
    BY <1>1, Consistent, PTL

(***************************************************************************)
(* A configured alias never ends in "no route", and a retryable error is   *)
(* returned only after every rule of the alias was used.                   *)
(***************************************************************************)
THEOREM FailoverExhaustive == Spec => []FailoverIsExhaustive
  <1>1. RunsConsistent => FailoverIsExhaustive
    BY DEF RunsConsistent, ConsistentRun, FailoverIsExhaustive, Ended, Served
  <1> QED
    BY <1>1, Consistent, PTL

-------------------------------------------------------------------------------
(* Passive health *)

LEMMA HealthBoundsStep ==
  IInv /\ PassiveHealthBounds /\ [Next]_vars => PassiveHealthBounds'
  <1> SUFFICES ASSUME IInv, PassiveHealthBounds, [Next]_vars,
                      NEW g \in Group, NEW i \in NodeIndex(g)
               PROVE  /\ failures'[<<g, i>>] < Threshold(g)
                      /\ unhealthyUntil'[<<g, i>>] <= now' + Cooldown(g)
    BY DEF PassiveHealthBounds
  <1> DEFINE n == <<g, i>>
  <1>1. n \in Node
    BY NodePairs
  <1>2. /\ failures[n] < Threshold(g) /\ unhealthyUntil[n] <= now + Cooldown(g)
        /\ failures[n] \in Nat /\ unhealthyUntil[n] \in Nat /\ now \in Nat
        /\ failures \in [Node -> Nat] /\ unhealthyUntil \in [Node -> Nat]
    BY <1>1 DEF PassiveHealthBounds, IInv, TypeOK, BalancerTypeOK
  <1>3. Threshold(g) \in Nat \ {0} /\ Cooldown(g) \in Nat \ {0}
    BY GroupSettingsTypes
  <1>4. ASSUME NEW h, NEW excluded, NEW k, SelectNode(h, excluded, k), now' = now
        PROVE  /\ failures'[n] < Threshold(g)
               /\ unhealthyUntil'[n] <= now' + Cooldown(g)
    BY <1>1, <1>2, <1>3, <1>4 DEF SelectNode
  <1>5. ASSUME NEW h, NEW k, ReportSuccess(h, k), now' = now
        PROVE  /\ failures'[n] < Threshold(g)
               /\ unhealthyUntil'[n] <= now' + Cooldown(g)
    BY <1>1, <1>2, <1>3, <1>5 DEF ReportSuccess
  <1>6. ASSUME NEW h, NEW k, ReportFailure(h, k), now' = now
        PROVE  /\ failures'[n] < Threshold(g)
               /\ unhealthyUntil'[n] <= now' + Cooldown(g)
    <2>1. CASE <<h, k>> # n
      BY <1>1, <1>2, <1>3, <1>6, <2>1 DEF ReportFailure
    <2>2. CASE <<h, k>> = n
      <3>1. h = g /\ k = i
        BY <2>2
      <3>2. CASE ReachesThreshold(g, i)
        BY <1>1, <1>2, <1>3, <1>6, <3>1, <3>2 DEF ReportFailure
      <3>3. CASE ~ ReachesThreshold(g, i)
        BY <1>1, <1>2, <1>3, <1>6, <3>1, <3>3 DEF ReportFailure, ReachesThreshold
      <3> QED
        BY <3>2, <3>3
    <2> QED
      BY <2>1, <2>2
  <1>7. ASSUME UNCHANGED <<failures, unhealthyUntil>>, now' = now \/ now' = now + 1
        PROVE  /\ failures'[n] < Threshold(g)
               /\ unhealthyUntil'[n] <= now' + Cooldown(g)
    BY <1>2, <1>3, <1>7
  <1>8. ASSUME NEW r \in Request, Step(r)
        PROVE  /\ failures'[n] < Threshold(g)
               /\ unhealthyUntil'[n] <= now' + Cooldown(g)
    <2>1. CASE Route(r) \/ RunOutOfRules(r) \/ FindNoNode(r) \/ SpendNodes(r)
                 \/ Finish(r)
      BY <1>7, <2>1 DEF Route, RunOutOfRules, FindNoNode, SelectNoNode,
         SpendNodes, Finish, healthVars
    <2>2. CASE PickNode(r)
      BY <1>4, <2>2 DEF PickNode
    <2>3. CASE Succeed(r)
      BY <1>5, <2>3 DEF Succeed
    <2>4. CASE \E e \in UpstreamErrors : Fail(r, e)
      BY <1>6, <2>4 DEF Fail
    <2> QED
      BY <1>8, <2>1, <2>2, <2>3, <2>4 DEF Step
  <1>9. CASE \E r \in Request, m \in Model \cup {UnknownModel}, b \in BOOLEAN :
               Arrive(r, m, b)
    BY <1>7, <1>9 DEF Arrive, healthVars
  <1>10. CASE Tick
    BY <1>7, <1>10 DEF Tick, healthVars
  <1>11. CASE UNCHANGED vars
    BY <1>7, <1>11 DEF vars
  <1> QED
    BY <1>8, <1>9, <1>10, <1>11 DEF Next

(***************************************************************************)
(* No interleaving of reports leaves a node with as many failures as bench *)
(* it, or benches it beyond one cooldown from the present.                 *)
(***************************************************************************)
THEOREM HealthBounded == Spec => []PassiveHealthBounds
  <1>1. Init => PassiveHealthBounds
    <2> SUFFICES ASSUME Init, NEW g \in Group, NEW i \in NodeIndex(g)
                 PROVE  /\ failures[<<g, i>>] < Threshold(g)
                        /\ unhealthyUntil[<<g, i>>] <= now + Cooldown(g)
      BY DEF PassiveHealthBounds
    <2>1. failures[<<g, i>>] = 0 /\ unhealthyUntil[<<g, i>>] = 0 /\ now = 1
      BY NodePairs DEF Init, BalancerInit
    <2> QED
      BY <2>1, GroupSettingsTypes
  <1>2. Spec => []IInv
    BY InitEstablishes, NextKeeps, PTL DEF Spec
  <1> QED
    BY <1>1, <1>2, HealthBoundsStep, PTL DEF Spec

-------------------------------------------------------------------------------
(***************************************************************************)
(* Proxy implements ChatService.                                           *)
(***************************************************************************)

(***************************************************************************)
(* What a step does to a request in the eyes of its caller: nothing, or    *)
(* one of the actions of ChatService.                                      *)
(***************************************************************************)
Quiet(s, t) ==
  PhaseOf(t.pc) = PhaseOf(s.pc) /\ t.attempts = s.attempts /\ t.answer = s.answer

Accepted(s, t) ==
  /\ PhaseOf(s.pc) = "idle" /\ PhaseOf(t.pc) = "running"
  /\ t.attempts = s.attempts /\ t.answer = s.answer

Called(s, t) ==
  /\ PhaseOf(s.pc) = "running" /\ PhaseOf(t.pc) = "running"
  /\ Len(t.attempts) = Len(s.attempts) + 1 /\ t.answer = s.answer

Answered(s, t) ==
  /\ PhaseOf(s.pc) = "running" /\ PhaseOf(t.pc) = "settled"
  /\ Len(s.attempts) > 0 /\ t.attempts = s.attempts
  /\ t.answer \in {"whole", "partial"}

Refused(s, t) ==
  /\ PhaseOf(s.pc) = "running" /\ PhaseOf(t.pc) = "settled"
  /\ t.attempts = s.attempts /\ t.answer = s.answer

Observed(s, t) ==
  /\ PhaseOf(s.pc) = "settled" /\ PhaseOf(t.pc) = "closed"
  /\ t.attempts = s.attempts /\ t.answer = s.answer

Moves(s, t) ==
  \/ Quiet(s, t) \/ Accepted(s, t) \/ Called(s, t)
  \/ Answered(s, t) \/ Refused(s, t) \/ Observed(s, t)

-------------------------------------------------------------------------------
(* The parts of Service.run *)

\* A call is one more attempt of a request that stays under way.
LEMMA BeginAttemptCalls ==
  ASSUME NEW s \in RunState, NEW u \in RunState,
         s.pc \in {"select", "execute"},
         u.attempts = s.attempts, u.answer = s.answer
  PROVE  Called(s, BeginAttempt(u))
  <1> DEFINE q == u.attempts
             x == <<u.rule, u.node>>
             t == BeginAttempt(u)
  <1>1. q \in Seq(Nat \X Nat)
    BY RunTypes
  <1>2. t.pc = "execute" /\ t.attempts = Append(q, x) /\ t.answer = u.answer
    BY DEF BeginAttempt, RunState
  <1> HIDE DEF q, x, t
  <1>3. Len(Append(q, x)) = Len(q) + 1
    BY <1>1
  <1> QED
    BY <1>2, <1>3 DEF Called, PhaseOf, q, t

\* The end of a decision is unseen, or the refusal of the request.
LEMMA EndDecisionMoves ==
  ASSUME NEW s \in RunState, s.pc \in {"select", "execute"}, NEW e
  PROVE  Quiet(s, EndDecision(s, e)) \/ Refused(s, EndDecision(s, e))
  <1>1. CASE IsRetryable(e)
    <2>1. EndDecision(s, e)
            = [s EXCEPT !.pc = "route", !.lastErr = e, !.retryCount = @ + 1]
      BY <1>1 DEF EndDecision
    <2> QED
      BY <2>1 DEF Quiet, PhaseOf, RunState
  <1>2. CASE ~ IsRetryable(e)
    <2>1. EndDecision(s, e) = [s EXCEPT !.pc = "finish", !.lastErr = e]
      BY <1>2 DEF EndDecision
    <2> QED
      BY <2>1 DEF Refused, PhaseOf, RunState
  <1> QED
    BY <1>1, <1>2

LEMMA FailMoves ==
  ASSUME IInv, NEW r \in Request, NEW e \in UpstreamErrors, Fail(r, e)
  PROVE  Moves(run[r], run'[r])
  <1> DEFINE s == run[r]
             t == AfterFailure(r, e)
             u == [t EXCEPT !.answer = IF e = "broken" THEN "partial" ELSE @]
  <1>1. /\ s \in RunState /\ s.pc = "execute" /\ s.answer = "none"
        /\ s.attempts # <<>> /\ run'[r] = u
    BY DEF IInv, TypeOK, RunsConsistent, ConsistentRun, Fail
  <1>2. CASE e = "broken"
    <2>1. t = [s EXCEPT !.pc = "finish", !.lastErr = e]
      BY <1>2 DEF AfterFailure, EndDecision, IsRetryable
    <2>2. u = [s EXCEPT !.pc = "finish", !.lastErr = e, !.answer = "partial"]
      BY <1>1, <1>2, <2>1 DEF RunState
    <2>3. u.pc = "finish" /\ u.attempts = s.attempts /\ u.answer = "partial"
      BY <1>1, <2>2 DEF RunState
    <2>4. Len(s.attempts) > 0
      BY <1>1, RunTypes, EmptySeq
    <2> QED
      BY <1>1, <2>3, <2>4 DEF Moves, Answered, PhaseOf
  <1>3. CASE e # "broken"
    <2>1. CASE ~ IsRetryable(e)
      <3>1. t = [s EXCEPT !.pc = "finish", !.lastErr = e]
        BY <2>1 DEF AfterFailure, EndDecision
      <3>2. u.pc = "finish" /\ u.attempts = s.attempts /\ u.answer = s.answer
        BY <1>1, <1>3, <3>1 DEF RunState
      <3> QED
        BY <1>1, <3>2 DEF Moves, Refused, PhaseOf
    <2>2. CASE IsRetryable(e) /\ MayRetry(r)
      <3> DEFINE j == s.retry + 1
                 k == s.retryCount + 1
                 v == [s EXCEPT !.lastErr = e, !.retry = j, !.retryCount = k]
      <3>1. j \in Nat /\ k \in Nat /\ e \in Errors
        BY <1>1, RunTypes DEF Errors
      <3>2. t = BeginAttempt(v)
        BY <2>2 DEF AfterFailure
      <3> HIDE DEF j, k
      <3>3. v \in RunState /\ v.attempts = s.attempts /\ v.answer = s.answer
        BY <1>1, <3>1 DEF RunState
      <3> HIDE DEF v
      <3>4. Called(s, t)
        BY <1>1, <3>2, <3>3, BeginAttemptCalls
      <3>5. u.pc = t.pc /\ u.attempts = t.attempts /\ u.answer = t.answer
        BY <1>3, <3>2, <3>3 DEF BeginAttempt, RunState
      <3> QED
        BY <1>1, <3>4, <3>5 DEF Moves, Called
    <2>3. CASE IsRetryable(e) /\ ~ MayRetry(r)
      <3>1. t = [s EXCEPT !.pc = "select", !.lastErr = e]
        BY <2>3 DEF AfterFailure
      <3>2. u.pc = "select" /\ u.attempts = s.attempts /\ u.answer = s.answer
        BY <1>1, <1>3, <3>1 DEF RunState
      <3> QED
        BY <1>1, <3>2 DEF Moves, Quiet, PhaseOf
    <2> QED
      BY <2>1, <2>2, <2>3
  <1> QED
    BY <1>2, <1>3

LEMMA PickNodeMoves ==
  ASSUME IInv, NEW r \in Request, PickNode(r)
  PROVE  Moves(run[r], run'[r])
  <1> DEFINE s == run[r]
             g == GroupOf(r)
             k == s.nodeAttempt + 1
  <1>1. /\ s \in RunState /\ ConsistentRun(s) /\ s.pc = "select"
        /\ s.rule # NoRuleYet /\ run \in [Request -> RunState]
    BY DEF IInv, TypeOK, RunsConsistent, ConsistentRun, PickNode
  <1>2. PICK i \in Selectable(g, s.usedNodes) :
          run' = [run EXCEPT ![r] = BeginAttempt(
                       [s EXCEPT !.usedNodes = @ \cup {i}, !.nodeAttempt = k,
                                 !.node = i, !.retry = 0,
                                 !.selectedNode = <<g, i>>])]
    BY DEF PickNode
  <1> DEFINE w == s.usedNodes \cup {i}
             u == [s EXCEPT !.usedNodes = w, !.nodeAttempt = k, !.node = i,
                            !.retry = 0, !.selectedNode = <<g, i>>]
  <1>3. g \in Group /\ i \in NodeIndex(g)
    BY <1>1, <1>2, DecisionTypes DEF GroupOf, RuleOf, Selectable
  <1>4. i \in Nat /\ <<g, i>> \in Node
    BY <1>3, NodePairs DEF NodeIndex
  <1>5. w \in SUBSET Nat /\ k \in Nat
    BY <1>1, <1>4, RunTypes
  <1>6. run'[r] = BeginAttempt(u)
    BY <1>1, <1>2
  <1> HIDE DEF w, k
  <1>7. u \in RunState /\ u.attempts = s.attempts /\ u.answer = s.answer
    BY <1>1, <1>4, <1>5 DEF RunState
  <1> HIDE DEF u
  <1> QED
    BY <1>1, <1>6, <1>7, BeginAttemptCalls DEF Moves

\* Every step of a request is one of ChatService, or unseen.
LEMMA StepMoves ==
  ASSUME IInv, NEW r \in Request, Step(r)
  PROVE  Moves(run[r], run'[r])
  <1> DEFINE s == run[r]
  <1>1. s \in RunState /\ ConsistentRun(s) /\ run \in [Request -> RunState]
    BY DEF IInv, TypeOK, RunsConsistent
  <1>2. CASE Route(r)
    <2>1. PICK i \in Routable(s.model, s.excludedRoutes) :
            run' = [run EXCEPT ![r] =
              IF HasExecutor(RuleAt(s.model, i).mode)
                THEN StartDecision(s, i, StrategyOf(RuleAt(s.model, i).group))
                ELSE RejectDecision(s, i)]
      BY <1>2 DEF Route
    <2>2. s.pc = "route"
      BY <1>2 DEF Route
    <2>3. CASE HasExecutor(RuleAt(s.model, i).mode)
      <3>1. run'[r] = StartDecision(s, i, StrategyOf(RuleAt(s.model, i).group))
        BY <1>1, <2>1, <2>3
      <3> QED
        BY <1>1, <2>2, <3>1 DEF StartDecision, RunState, Moves, Quiet, PhaseOf
    <2>4. CASE ~ HasExecutor(RuleAt(s.model, i).mode)
      <3>1. run'[r] = RejectDecision(s, i)
        BY <1>1, <2>1, <2>4
      <3> QED
        BY <1>1, <2>2, <3>1 DEF RejectDecision, RunState, Moves, Refused, PhaseOf
    <2> QED
      BY <2>3, <2>4
  <1>3. CASE RunOutOfRules(r)
    <2>1. /\ s.pc = "route"
          /\ run'[r] = [s EXCEPT !.pc = "finish",
                                 !.lastErr = KeepFirst(@, "no_route")]
      BY <1>1, <1>3 DEF RunOutOfRules
    <2> QED
      BY <1>1, <2>1 DEF RunState, Moves, Refused, PhaseOf
  <1>4. CASE PickNode(r)
    BY <1>4, PickNodeMoves
  <1>5. CASE FindNoNode(r)
    <2>1. /\ s.pc = "select"
          /\ run'[r] = EndDecision(s, KeepFirst(s.lastErr, "no_healthy_nodes"))
      BY <1>1, <1>5 DEF FindNoNode
    <2> QED
      BY <1>1, <2>1, EndDecisionMoves DEF Moves
  <1>6. CASE SpendNodes(r)
    <2>1. s.pc = "select" /\ run'[r] = EndDecision(s, s.lastErr)
      BY <1>1, <1>6 DEF SpendNodes
    <2> QED
      BY <1>1, <2>1, EndDecisionMoves DEF Moves
  <1>7. CASE Succeed(r)
    <2>1. /\ s.pc = "execute" /\ s.attempts # <<>>
          /\ run'[r] = [s EXCEPT !.pc = "finish", !.lastErr = "none",
                                 !.answer = "whole"]
      BY <1>1, <1>7 DEF Succeed, ConsistentRun
    <2>2. Len(s.attempts) > 0
      BY <1>1, <2>1, RunTypes, EmptySeq
    <2> QED
      BY <1>1, <2>1, <2>2 DEF RunState, Moves, Answered, PhaseOf
  <1>8. CASE \E e \in UpstreamErrors : Fail(r, e)
    BY <1>8, FailMoves
  <1>9. CASE Finish(r)
    <2>1. s.pc = "finish" /\ run'[r] = [s EXCEPT !.pc = "done"]
      BY <1>1, <1>9 DEF Finish
    <2> QED
      BY <1>1, <2>1 DEF RunState, Moves, Observed, PhaseOf
  <1> QED
    BY <1>2, <1>3, <1>4, <1>5, <1>6, <1>7, <1>8, <1>9 DEF Step

LEMMA ArriveMoves ==
  ASSUME IInv, NEW r \in Request, NEW m, NEW b, Arrive(r, m, b)
  PROVE  Moves(run[r], run'[r])
  <1>1. /\ run[r] \in RunState /\ run[r].pc = "idle"
        /\ run'[r] = [run[r] EXCEPT !.pc = "route", !.model = m, !.stream = b]
    BY DEF IInv, TypeOK, Arrive
  <1> QED
    BY <1>1 DEF RunState, Moves, Accepted, PhaseOf

\* A step is one request's, and the others do not change.
LEMMA OneMoves ==
  ASSUME IInv, [Next]_vars
  PROVE  \/ UNCHANGED run
         \/ \E r \in Request :
              /\ Moves(run[r], run'[r])
              /\ run' = [run EXCEPT ![r] = run'[r]]
  <1>1. run \in [Request -> RunState]
    BY DEF IInv, TypeOK
  <1>2. ASSUME NEW r \in Request, NEW m, NEW b, Arrive(r, m, b)
        PROVE  Moves(run[r], run'[r]) /\ run' = [run EXCEPT ![r] = run'[r]]
    BY <1>1, <1>2, ArriveMoves DEF Arrive
  <1>3. ASSUME NEW r \in Request, Step(r)
        PROVE  Moves(run[r], run'[r]) /\ run' = [run EXCEPT ![r] = run'[r]]
    <2>1. Moves(run[r], run'[r])
      BY <1>3, StepMoves
    <2>2. \E t : run' = [run EXCEPT ![r] = t]
      BY <1>3 DEF Step, Route, RunOutOfRules, PickNode, FindNoNode, SpendNodes,
         Succeed, Fail, Finish
    <2> QED
      BY <1>1, <2>1, <2>2
  <1>4. CASE \/ Tick /\ UNCHANGED <<nextRule, run, records>>
             \/ UNCHANGED vars
    BY <1>4 DEF vars
  <1> QED
    BY <1>2, <1>3, <1>4 DEF Next

-------------------------------------------------------------------------------
(* Theorems *)

(***************************************************************************)
(* Once the caller has received anything, no upstream is called for it any *)
(* more and its answer stays what it is.                                   *)
(***************************************************************************)
THEOREM AnswerIsFinal == Spec => NoCallAfterAnswer
  <1>1. IInv /\ [Next]_vars =>
          [\A r \in Request : run[r].answer # "none" =>
             /\ run'[r].attempts = run[r].attempts
             /\ run'[r].answer = run[r].answer]_vars
    <2> SUFFICES ASSUME IInv, [Next]_vars, NEW r \in Request,
                        run[r].answer # "none"
                 PROVE  /\ run'[r].attempts = run[r].attempts
                        /\ run'[r].answer = run[r].answer
      OBVIOUS
    <2>1. run \in [Request -> RunState] /\ run[r].pc \in {"finish", "done"}
      BY DEF IInv, TypeOK, RunsConsistent, ConsistentRun
    <2>2. CASE UNCHANGED run
      BY <2>2
    <2>3. ASSUME NEW q \in Request, Moves(run[q], run'[q]),
                 run' = [run EXCEPT ![q] = run'[q]]
          PROVE  /\ run'[r].attempts = run[r].attempts
                 /\ run'[r].answer = run[r].answer
      <3>1. CASE q = r
        BY <2>1, <2>3, <3>1 DEF Moves, Quiet, Accepted, Called, Answered,
           Refused, Observed, PhaseOf
      <3>2. CASE q # r
        BY <2>1, <2>3, <3>2
      <3> QED
        BY <3>1, <3>2
    <2> QED
      BY <2>2, <2>3, OneMoves
  <1>2. Spec => []IInv
    BY InitEstablishes, NextKeeps, PTL DEF Spec
  <1> QED
    BY <1>1, <1>2, PTL DEF Spec, NoCallAfterAnswer

(***************************************************************************)
(* The proxy keeps the promise of ChatService: however rules, nodes and    *)
(* retries take their turns, a request is answered or refused once, on the *)
(* ground of calls that were made for it, and then observed once.          *)
(***************************************************************************)
THEOREM KeepsPromise == Spec => ImplementsChatService
  <1> DEFINE P == [r \in Request |-> PhaseOf(run[r].pc)]
             C == [r \in Request |-> Len(run[r].attempts)]
             A == [r \in Request |-> run[r].answer]
  <1>1. Init => Chat!Init
    <2> SUFFICES ASSUME Init PROVE Chat!Init
      OBVIOUS
    <2>1. ASSUME NEW r \in Request
          PROVE  /\ PhaseOf(run[r].pc) = "idle"
                 /\ Len(run[r].attempts) = 0
                 /\ run[r].answer = "none"
      <3>1. run[r] = Idle
        BY DEF Init
      <3>2. Idle.pc = "idle" /\ Idle.attempts = <<>> /\ Idle.answer = "none"
        BY DEF Idle
      <3> QED
        BY <3>1, <3>2 DEF PhaseOf
    <2> QED
      BY <2>1 DEF Chat!Init
  <1>2. IInv /\ [Next]_vars => [Chat!Next]_(Chat!vars)
    <2> SUFFICES ASSUME IInv, [Next]_vars PROVE [Chat!Next]_(Chat!vars)
      OBVIOUS
    <2>1. CASE UNCHANGED run
      BY <2>1 DEF Chat!vars
    <2>2. ASSUME NEW r \in Request, Moves(run[r], run'[r]),
                 run' = [run EXCEPT ![r] = run'[r]]
          PROVE  [Chat!Next]_(Chat!vars)
      <3> DEFINE s == run[r]
                 t == run'[r]
      <3>1. run \in [Request -> RunState]
        BY DEF IInv, TypeOK
      <3>2. /\ P' = [P EXCEPT ![r] = PhaseOf(t.pc)]
            /\ C' = [C EXCEPT ![r] = Len(t.attempts)]
            /\ A' = [A EXCEPT ![r] = t.answer]
        BY <2>2, <3>1
      <3>3. P[r] = PhaseOf(s.pc) /\ C[r] = Len(s.attempts) /\ A[r] = s.answer
        OBVIOUS
      <3>4. CASE Quiet(s, t)
        <4>1. P' = P /\ C' = C /\ A' = A
          BY <3>2, <3>4 DEF Quiet
        <4> QED
          BY <4>1 DEF Chat!vars
      <3>5. CASE Accepted(s, t)
        <4>1. C' = C /\ A' = A
          BY <3>2, <3>5 DEF Accepted
        <4>2. Chat!Accept(r)
          BY <3>2, <3>3, <3>5, <4>1 DEF Accepted, Chat!Accept
        <4> QED
          BY <4>2 DEF Chat!Next
      <3>6. CASE Called(s, t)
        <4>1. P' = P /\ A' = A
          <5>1. P' = P
            BY <3>2, <3>6 DEF Called
          <5>2. A' = A
            BY <3>2, <3>6 DEF Called
          <5> QED
            BY ONLY <5>1, <5>2
        <4>2. Chat!Call(r)
          BY <3>2, <3>3, <3>6, <4>1 DEF Called, Chat!Call
        <4> QED
          BY <4>2 DEF Chat!Next
      <3>7. CASE Answered(s, t)
        <4>1. C' = C
          BY <3>2, <3>7 DEF Answered
        <4>2. PICK a \in {"whole", "partial"} : t.answer = a
          BY <3>7 DEF Answered
        <4>3. Chat!Answer(r, a)
          BY <3>2, <3>3, <3>7, <4>1, <4>2 DEF Answered, Chat!Answer
        <4> QED
          BY <4>3 DEF Chat!Next
      <3>8. CASE Refused(s, t)
        <4>1. C' = C /\ A' = A
          BY <3>2, <3>8 DEF Refused
        <4>2. Chat!Refuse(r)
          BY <3>2, <3>3, <3>8, <4>1 DEF Refused, Chat!Refuse
        <4> QED
          BY <4>2 DEF Chat!Next
      <3>9. CASE Observed(s, t)
        <4>1. C' = C /\ A' = A
          BY <3>2, <3>9 DEF Observed
        <4>2. Chat!Observe(r)
          BY <3>2, <3>3, <3>9, <4>1 DEF Observed, Chat!Observe
        <4> QED
          BY <4>2 DEF Chat!Next
      <3> QED
        BY <2>2, <3>4, <3>5, <3>6, <3>7, <3>8, <3>9 DEF Moves
    <2> QED
      BY <2>1, <2>2, OneMoves
  <1>3. Spec => []IInv
    BY InitEstablishes, NextKeeps, PTL DEF Spec
  <1> QED
    BY <1>1, <1>2, <1>3, PTL DEF Spec, ImplementsChatService, Chat!Spec

-------------------------------------------------------------------------------
(* The plan of a request, its count and its record *)

\* The nodes called for rule i, and all the calls, each once.
NodesOf(a, i) == {a[k][2] : k \in {k \in DOMAIN a : a[k][1] = i}}
Visits(a) == {a[k] : k \in DOMAIN a}

\* The limits of AttemptPlan for the calls a of a request for alias m.
Consecutive(m, a) ==
  \A j, k \in DOMAIN a : j <= k /\ a[j] = a[k] =>
    /\ k - j <= RetryCount(RuleAt(m, a[j][1]).group)
    /\ \A l \in j .. k : a[l] = a[j]

Budgeted(m, a) ==
  \A i \in {a[k][1] : k \in DOMAIN a} :
    Cardinality(NodesOf(a, i)) <= MaxNodeAttempts(RuleAt(m, i).group)

\* The last n calls, and no others, are calls x.
EndsWith(a, x, n) == \A j \in DOMAIN a : a[j] = x <=> j > Len(a) - n

(***************************************************************************)
(* How the locals of runDecision describe the calls already made: only     *)
(* rules that were handed out were called, usedNodes are the nodes called  *)
(* for the current one, and the call under way ends a run of retry + 1.    *)
(***************************************************************************)
Tracked(s) ==
  /\ \A k \in DOMAIN s.attempts : s.attempts[k][1] \in s.excludedRoutes
  /\ s.pc \in {"select", "execute"} =>
       /\ NodesOf(s.attempts, s.rule) = s.usedNodes
       /\ IsFiniteSet(s.usedNodes)
       /\ Cardinality(s.usedNodes) = s.nodeAttempt
       /\ s.nodeAttempt <= MaxNodeAttempts(RuleAt(s.model, s.rule).group)
  /\ s.pc = "execute" =>
       /\ s.retry <= RetryCount(RuleAt(s.model, s.rule).group)
       /\ EndsWith(s.attempts, <<s.rule, s.node>>, s.retry + 1)

Planned(s) ==
  Consecutive(s.model, s.attempts) /\ Budgeted(s.model, s.attempts) /\ Tracked(s)

\* A rule that was handed out and is not counted as given up.
Open(s) ==
  IF \/ s.pc \in {"select", "execute"}
     \/ s.pc \in {"finish", "done"} /\ ~ IsRetryable(s.lastErr)
    THEN 1 ELSE 0

\* The equation of RetryAccounting, kept from the start.
Counted(s) ==
  /\ s.pc = "idle" => s.retryCount = 0
  /\ IsFiniteSet(Visits(s.attempts)) /\ IsFiniteSet(s.excludedRoutes)
  /\ s.model \in Model =>
       s.retryCount + Cardinality(Visits(s.attempts)) + Open(s)
         = Len(s.attempts) + Cardinality(s.excludedRoutes)

-------------------------------------------------------------------------------
(* One more call *)

LEMMA Appended ==
  ASSUME NEW a \in Seq(Nat \X Nat), NEW x \in Nat \X Nat
  PROVE  /\ Len(a) \in Nat /\ Len(Append(a, x)) = Len(a) + 1
         /\ DOMAIN a = 1 .. Len(a) /\ DOMAIN Append(a, x) = 1 .. Len(a) + 1
         /\ DOMAIN Append(a, x) = DOMAIN a \cup {Len(a) + 1}
         /\ \A k \in DOMAIN a : Append(a, x)[k] = a[k]
         /\ Append(a, x)[Len(a) + 1] = x
  <1> DEFINE b == Append(a, x)
  <1>1. /\ Len(a) \in Nat /\ Len(b) = Len(a) + 1
        /\ DOMAIN a = 1 .. Len(a) /\ DOMAIN b = 1 .. Len(a) + 1
        /\ \A k \in 1 .. Len(a) : b[k] = a[k]
        /\ b[Len(a) + 1] = x
    BY AppendProperties, LenProperties
  <1> HIDE DEF b
  <1>2. DOMAIN b = DOMAIN a \cup {Len(a) + 1}
    BY ONLY <1>1
  <1> QED
    BY ONLY <1>1, <1>2 DEF b

LEMMA VisitsAppended ==
  ASSUME NEW a \in Seq(Nat \X Nat), NEW x \in Nat \X Nat
  PROVE  Visits(Append(a, x)) = Visits(a) \cup {x}
  <1> DEFINE l == Len(a)
             b == Append(a, x)
  <1>1. /\ DOMAIN b = DOMAIN a \cup {l + 1}
        /\ \A k \in DOMAIN a : b[k] = a[k]
        /\ b[l + 1] = x
    BY Appended
  <1> HIDE DEF l, b
  <1>2. Visits(b) = Visits(a) \cup {x}
    BY <1>1 DEF Visits
  <1> QED
    BY <1>2 DEF b

LEMMA NodesAppended ==
  ASSUME NEW a \in Seq(Nat \X Nat), NEW x \in Nat \X Nat, NEW h
  PROVE  NodesOf(Append(a, x), h)
           = IF h = x[1] THEN NodesOf(a, h) \cup {x[2]} ELSE NodesOf(a, h)
  <1> DEFINE l == Len(a)
             b == Append(a, x)
  <1>1. /\ DOMAIN b = DOMAIN a \cup {l + 1}
        /\ \A k \in DOMAIN a : b[k] = a[k]
        /\ b[l + 1] = x
    BY Appended
  <1> HIDE DEF l, b
  <1>2. ASSUME NEW z
        PROVE  z \in NodesOf(b, h) <=> \E k \in DOMAIN b : b[k][1] = h /\ b[k][2] = z
    BY DEF NodesOf
  <1>3. ASSUME NEW z
        PROVE  z \in NodesOf(a, h) <=> \E k \in DOMAIN a : a[k][1] = h /\ a[k][2] = z
    BY DEF NodesOf
  <1>4. CASE h = x[1]
    <2>1. ASSUME NEW z PROVE z \in NodesOf(b, h) <=> z \in NodesOf(a, h) \/ z = x[2]
      BY ONLY <1>1, <1>2, <1>3, <1>4
    <2> QED
      BY <1>4, <2>1 DEF b
  <1>5. CASE h # x[1]
    <2>1. ASSUME NEW z PROVE z \in NodesOf(b, h) <=> z \in NodesOf(a, h)
      BY ONLY <1>1, <1>2, <1>3, <1>5
    <2> QED
      BY <1>5, <2>1 DEF b
  <1> QED
    BY <1>4, <1>5

LEMMA ConsecutiveAppended ==
  ASSUME NEW m, NEW a \in Seq(Nat \X Nat), NEW x \in Nat \X Nat, NEW n \in Nat,
         NEW b, b = Append(a, x),
         Consecutive(m, a), EndsWith(a, x, n),
         RetryCount(RuleAt(m, x[1]).group) \in Nat,
         n <= RetryCount(RuleAt(m, x[1]).group)
  PROVE  Consecutive(m, b) /\ EndsWith(b, x, n + 1)
  <1> DEFINE l == Len(a)
  <1>1. /\ l \in Nat /\ DOMAIN a = 1 .. l /\ DOMAIN b = 1 .. l + 1
        /\ \A k \in DOMAIN a : b[k] = a[k]
        /\ b[l + 1] = x /\ Len(b) = l + 1
    BY Appended
  <1> HIDE DEF l
  <1>2. EndsWith(b, x, n + 1)
    <2>1. \A j \in 1 .. l : a[j] = x <=> j > l - n
      BY <1>1 DEF EndsWith, l
    <2>2. \A j \in 1 .. l + 1 : b[j] = x <=> j > l + 1 - (n + 1)
      <3>1. ASSUME NEW j \in 1 .. l PROVE b[j] = x <=> j > l + 1 - (n + 1)
        <4>1. b[j] = a[j] /\ (a[j] = x <=> j > l - n)
          BY ONLY <1>1, <2>1
        <4>2. l + 1 - (n + 1) = l - n
          BY ONLY <1>1, n \in Nat
        <4> QED
          BY ONLY <4>1, <4>2
      <3>2. l + 1 > l + 1 - (n + 1)
        BY ONLY <1>1, n \in Nat
      <3>3. \A j \in 1 .. l + 1 : j \in 1 .. l \/ j = l + 1
        BY ONLY <1>1
      <3> QED
        BY ONLY <1>1, <3>1, <3>2, <3>3
    <2> QED
      BY ONLY <1>1, <2>2 DEF EndsWith
  <1>3. ASSUME NEW j \in DOMAIN b, NEW k \in DOMAIN b, j <= k, b[j] = b[k]
        PROVE  /\ k - j <= RetryCount(RuleAt(m, b[j][1]).group)
               /\ \A h \in j .. k : b[h] = b[j]
    <2>1. CASE k = l + 1
      <3>1. b[j] = x /\ j > l + 1 - (n + 1)
        BY <1>1, <1>2, <1>3, <2>1 DEF EndsWith
      <3>2. ASSUME NEW h \in j .. k PROVE b[h] = x
        <4>1. j \in Int /\ h \in DOMAIN b /\ h > l + 1 - (n + 1)
          BY ONLY <1>1, <1>3, <2>1, <3>1, <3>2, n \in Nat
        <4>2. \A i \in DOMAIN b : b[i] = x <=> i > l + 1 - (n + 1)
          BY ONLY <1>1, <1>2 DEF EndsWith
        <4> QED
          BY ONLY <4>1, <4>2
      <3>3. k - j <= n
        BY ONLY <1>1, <1>3, <2>1, <3>1, n \in Nat
      <3>4. k - j <= RetryCount(RuleAt(m, x[1]).group)
        BY ONLY <1>1, <1>3, <2>1, <3>3, n \in Nat,
           RetryCount(RuleAt(m, x[1]).group) \in Nat,
           n <= RetryCount(RuleAt(m, x[1]).group)
      <3> QED
        BY ONLY <3>1, <3>2, <3>4
    <2>2. CASE k # l + 1
      <3>1. j \in DOMAIN a /\ k \in DOMAIN a /\ a[j] = a[k] /\ b[j] = a[j]
        <4>1. l \in Nat /\ j \in 1 .. l + 1 /\ k \in 1 .. l + 1
          BY ONLY <1>1
        <4>2. k \in 1 .. l
          BY ONLY <2>2, <4>1
        <4>3. j \in 1 .. l
          BY ONLY j <= k, <4>1, <4>2
        <4> QED
          BY ONLY <1>1, <1>3, <4>2, <4>3
      <3>2. /\ k - j <= RetryCount(RuleAt(m, a[j][1]).group)
            /\ \A h \in j .. k : a[h] = a[j]
        BY <1>3, <3>1 DEF Consecutive
      <3>3. \A h \in j .. k : b[h] = a[h]
        <4>1. \A h \in j .. k : h \in DOMAIN a
          BY ONLY <1>1, <3>1
        <4> QED
          BY ONLY <1>1, <4>1
      <3> QED
        BY ONLY <3>1, <3>2, <3>3
    <2> QED
      BY <2>1, <2>2
  <1> QED
    BY ONLY <1>2, <1>3 DEF Consecutive

LEMMA PlanExtended ==
  ASSUME NEW m, NEW a \in Seq(Nat \X Nat), NEW x \in Nat \X Nat,
         NEW b, b = Append(a, x),
         NEW c \in Nat, c <= RetryCount(RuleAt(m, x[1]).group),
         RetryCount(RuleAt(m, x[1]).group) \in Nat,
         Consecutive(m, a), Budgeted(m, a), EndsWith(a, x, c),
         Cardinality(NodesOf(a, x[1]) \cup {x[2]})
           <= MaxNodeAttempts(RuleAt(m, x[1]).group)
  PROVE  Consecutive(m, b) /\ Budgeted(m, b) /\ EndsWith(b, x, c + 1)
  <1>1. Consecutive(m, b) /\ EndsWith(b, x, c + 1)
    BY ConsecutiveAppended
  <1>2. \A k \in DOMAIN b : b[k] = x \/ (k \in DOMAIN a /\ b[k] = a[k])
    BY Appended
  <1>3. /\ NodesOf(b, x[1]) = NodesOf(a, x[1]) \cup {x[2]}
        /\ \A h : h # x[1] => NodesOf(b, h) = NodesOf(a, h)
    BY NodesAppended
  <1>4. ASSUME NEW k \in DOMAIN b
        PROVE  Cardinality(NodesOf(b, b[k][1]))
                 <= MaxNodeAttempts(RuleAt(m, b[k][1]).group)
    <2>1. CASE b[k][1] = x[1]
      BY <1>3, <2>1
    <2>2. CASE b[k][1] # x[1]
      <3>1. k \in DOMAIN a /\ b[k] = a[k] /\ NodesOf(b, b[k][1]) = NodesOf(a, b[k][1])
        BY <1>2, <1>3, <2>2
      <3> QED
        BY <3>1 DEF Budgeted
    <2> QED
      BY <2>1, <2>2
  <1> QED
    BY <1>1, <1>4 DEF Budgeted

\* A call that the locals of runDecision allow is one of the plan.
LEMMA CallPlanned ==
  ASSUME NEW u \in RunState, u.model \in Model,
         u.rule \in u.excludedRoutes, u.excludedRoutes \subseteq RuleIndex(u.model),
         NEW g, g = RuleAt(u.model, u.rule).group,
         Consecutive(u.model, u.attempts), Budgeted(u.model, u.attempts),
         \A k \in DOMAIN u.attempts : u.attempts[k][1] \in u.excludedRoutes,
         NodesOf(u.attempts, u.rule) \cup {u.node} = u.usedNodes,
         IsFiniteSet(u.usedNodes), Cardinality(u.usedNodes) = u.nodeAttempt,
         u.nodeAttempt <= MaxNodeAttempts(g),
         EndsWith(u.attempts, <<u.rule, u.node>>, u.retry), u.retry <= RetryCount(g)
  PROVE  Planned(BeginAttempt(u))
  <1> DEFINE t == BeginAttempt(u)
  <1>1. PICK a, x, b : a = u.attempts /\ x = <<u.rule, u.node>> /\ b = Append(a, x)
    OBVIOUS
  <1>2. /\ a \in Seq(Nat \X Nat) /\ u.rule \in Nat /\ u.node \in Nat /\ u.retry \in Nat
        /\ RetryCount(g) \in Nat
    BY <1>1, RunTypes, RuleTypes, GroupSettingsTypes
  <1>3. x \in Nat \X Nat /\ x[1] = u.rule /\ x[2] = u.node
    BY <1>1, <1>2
  <1>4. /\ t.pc = "execute" /\ t.model = u.model /\ t.rule = u.rule /\ t.node = u.node
        /\ t.excludedRoutes = u.excludedRoutes /\ t.usedNodes = u.usedNodes
        /\ t.nodeAttempt = u.nodeAttempt /\ t.retry = u.retry /\ t.attempts = b
    BY <1>1 DEF BeginAttempt, RunState
  <1> HIDE DEF t
  <1>5. NodesOf(b, u.rule) = u.usedNodes
    BY <1>1, <1>2, <1>3, NodesAppended
  <1>6. Consecutive(u.model, b) /\ Budgeted(u.model, b) /\ EndsWith(b, x, u.retry + 1)
    <2>1. EndsWith(a, x, u.retry) /\ Consecutive(u.model, a) /\ Budgeted(u.model, a)
      BY <1>1
    <2>2. /\ RetryCount(RuleAt(u.model, x[1]).group) = RetryCount(g)
          /\ MaxNodeAttempts(RuleAt(u.model, x[1]).group) = MaxNodeAttempts(g)
          /\ NodesOf(a, x[1]) \cup {x[2]} = u.usedNodes
      BY <1>1, <1>3
    <2>4. /\ b = Append(a, x) /\ a \in Seq(Nat \X Nat) /\ x \in Nat \X Nat
          /\ u.retry \in Nat
      BY <1>1, <1>2, <1>3
    <2>3. /\ u.retry <= RetryCount(RuleAt(u.model, x[1]).group)
          /\ RetryCount(RuleAt(u.model, x[1]).group) \in Nat
          /\ Cardinality(NodesOf(a, x[1]) \cup {x[2]})
               <= MaxNodeAttempts(RuleAt(u.model, x[1]).group)
      BY <1>2, <2>2
    <2> QED
      BY ONLY <2>1, <2>3, <2>4, PlanExtended, ZenonT(30)
  <1>7. \A k \in DOMAIN b : b[k] = x \/ (k \in DOMAIN a /\ b[k] = a[k])
    <2>1. /\ DOMAIN b = DOMAIN a \cup {Len(a) + 1}
          /\ \A k \in DOMAIN a : b[k] = a[k]
          /\ b[Len(a) + 1] = x
      <3>1. a \in Seq(Nat \X Nat) /\ x \in Nat \X Nat /\ b = Append(a, x)
        BY ONLY <1>1, <1>2, <1>3
      <3> QED
        BY ONLY <3>1, Appended
    <2> QED
      BY ONLY <2>1
  <1>8. \A k \in DOMAIN b : b[k][1] \in u.excludedRoutes
    BY <1>1, <1>3, <1>7
  <1>9. Tracked(t)
    BY <1>1, <1>4, <1>5, <1>6, <1>8 DEF Tracked
  <1> QED
    BY <1>4, <1>6, <1>9 DEF Planned, t

\* A request between or after its decisions keeps its plan.
LEMMA UndecidedPlanned ==
  ASSUME NEW s, NEW t, Planned(s), t.model = s.model, t.attempts = s.attempts,
         s.excludedRoutes \subseteq t.excludedRoutes,
         t.pc \notin {"select", "execute"}
  PROVE  Planned(t)
  BY DEF Planned, Tracked

-------------------------------------------------------------------------------
(* The parts of Service.run *)

InPlan(s) == Planned(s) /\ Counted(s)

\* A rule is handed out: none of its nodes was called before.
LEMMA StartDecisionInPlan ==
  ASSUME NEW s, GoodRun(s), InPlan(s), s.pc = "route", s.model \in Model,
         NEW i \in RuleIndex(s.model) \ s.excludedRoutes, NEW strategy
  PROVE  InPlan(StartDecision(s, i, strategy)) /\ InPlan(RejectDecision(s, i))
  <1> DEFINE t == StartDecision(s, i, strategy)
             q == RejectDecision(s, i)
  <1>1. s \in RunState
    BY DEF GoodRun
  <1>2. /\ t.pc = "select" /\ t.model = s.model /\ t.attempts = s.attempts
        /\ t.rule = i /\ t.usedNodes = {} /\ t.nodeAttempt = 0
        /\ t.excludedRoutes = s.excludedRoutes \cup {i}
        /\ t.retryCount = s.retryCount
    BY <1>1 DEF StartDecision, RunState
  <1>3. /\ q.pc = "finish" /\ q.model = s.model /\ q.attempts = s.attempts
        /\ q.excludedRoutes = s.excludedRoutes \cup {i}
        /\ q.retryCount = s.retryCount /\ q.lastErr = "relay_not_implemented"
    BY <1>1 DEF RejectDecision, RunState
  <1> HIDE DEF t, q
  <1>4. NodesOf(s.attempts, i) = {}
    BY DEF InPlan, Planned, Tracked, NodesOf
  <1>5. MaxNodeAttempts(RuleAt(s.model, i).group) \in Nat
    BY RuleTypes, GroupSettingsTypes
  <1>6. Planned(t)
    BY <1>2, <1>4, <1>5, FS_EmptySet DEF InPlan, Planned, Tracked
  <1>7. Planned(q)
    BY <1>3, UndecidedPlanned DEF InPlan
  <1>8. /\ IsFiniteSet(s.excludedRoutes \cup {i})
        /\ Cardinality(s.excludedRoutes \cup {i}) = Cardinality(s.excludedRoutes) + 1
        /\ Cardinality(s.excludedRoutes) \in Nat
    BY FS_AddElement, FS_CardinalityType DEF InPlan, Counted
  <1>9. /\ s.retryCount \in Nat /\ Len(s.attempts) \in Nat
        /\ Cardinality(Visits(s.attempts)) \in Nat
    BY <1>1, RunTypes, LenProperties, FS_CardinalityType DEF InPlan, Counted
  <1>10. Open(s) = 0 /\ Open(t) = 1 /\ Open(q) = 1
    BY <1>2, <1>3 DEF Open, IsRetryable
  <1>11. s.retryCount + Cardinality(Visits(s.attempts))
           = Len(s.attempts) + Cardinality(s.excludedRoutes)
    BY <1>9, <1>10 DEF InPlan, Counted
  <1>12. IsFiniteSet(Visits(s.attempts))
    BY DEF InPlan, Counted
  <1>13. Counted(t)
    BY ONLY <1>2, <1>8, <1>9, <1>10, <1>11, <1>12 DEF Counted
  <1>14. Counted(q)
    BY ONLY <1>3, <1>8, <1>9, <1>10, <1>11, <1>12 DEF Counted
  <1> QED
    BY <1>6, <1>7, <1>13, <1>14 DEF InPlan, t, q

\* A decision ends with an error.
LEMMA EndDecisionInPlan ==
  ASSUME NEW s, GoodRun(s), InPlan(s), s.pc \in {"select", "execute"}, NEW e
  PROVE  InPlan(EndDecision(s, e))
  <1> DEFINE t == EndDecision(s, e)
  <1>1. s \in RunState
    BY DEF GoodRun
  <1>2. /\ t.model = s.model /\ t.attempts = s.attempts
        /\ t.excludedRoutes = s.excludedRoutes /\ t.lastErr = e
    BY <1>1 DEF EndDecision, RunState
  <1>3. IF IsRetryable(e)
          THEN t.pc = "route" /\ t.retryCount = s.retryCount + 1
          ELSE t.pc = "finish" /\ t.retryCount = s.retryCount
    BY <1>1 DEF EndDecision, RunState
  <1> HIDE DEF t
  <1>4. Planned(t)
    BY <1>2, <1>3, UndecidedPlanned DEF InPlan
  <1>5. /\ s.retryCount \in Nat /\ Len(s.attempts) \in Nat
        /\ Cardinality(Visits(s.attempts)) \in Nat
        /\ Cardinality(s.excludedRoutes) \in Nat
    BY <1>1, RunTypes, LenProperties, FS_CardinalityType DEF InPlan, Counted
  <1>6. Open(s) = 1 /\ Open(t) = IF IsRetryable(e) THEN 0 ELSE 1
    BY <1>2, <1>3 DEF Open
  <1>7. Counted(t)
    BY <1>2, <1>3, <1>5, <1>6 DEF InPlan, Counted
  <1> QED
    BY <1>4, <1>7 DEF InPlan, t

\* A call is one more attempt, and one more visit if it is the first of its kind.
LEMMA CallCounted ==
  ASSUME NEW u \in RunState, u.model \in Model, u.rule \in Nat,
         NEW x, x = <<u.rule, u.node>>,
         IsFiniteSet(Visits(u.attempts)), IsFiniteSet(u.excludedRoutes),
         u.retryCount + Cardinality(Visits(u.attempts))
             + (IF x \in Visits(u.attempts) THEN 0 ELSE 1)
           = Len(u.attempts) + Cardinality(u.excludedRoutes)
  PROVE  Counted(BeginAttempt(u))
  <1> DEFINE t == BeginAttempt(u)
  <1>1. /\ u.attempts \in Seq(Nat \X Nat) /\ x \in Nat \X Nat
        /\ u.retryCount \in Nat
    BY RunTypes
  <1>2. /\ t.pc = "execute" /\ t.model = u.model /\ t.retryCount = u.retryCount
        /\ t.excludedRoutes = u.excludedRoutes /\ t.attempts = Append(u.attempts, x)
    BY DEF BeginAttempt, RunState
  <1> HIDE DEF t
  <1>3. Len(u.attempts) \in Nat /\ Len(t.attempts) = Len(u.attempts) + 1
    BY <1>1, <1>2, Appended
  <1>4. Visits(t.attempts) = Visits(u.attempts) \cup {x}
    BY ONLY <1>1, <1>2, VisitsAppended
  <1>5. /\ Cardinality(u.excludedRoutes) \in Nat
        /\ Cardinality(Visits(u.attempts)) \in Nat
        /\ IsFiniteSet(Visits(t.attempts))
        /\ Cardinality(Visits(t.attempts)) =
             Cardinality(Visits(u.attempts))
               + (IF x \in Visits(u.attempts) THEN 0 ELSE 1)
    <2>1. /\ Cardinality(u.excludedRoutes) \in Nat
          /\ Cardinality(Visits(u.attempts)) \in Nat
      BY FS_CardinalityType
    <2>2. /\ IsFiniteSet(Visits(u.attempts) \cup {x})
          /\ Cardinality(Visits(u.attempts) \cup {x}) =
               IF x \in Visits(u.attempts) THEN Cardinality(Visits(u.attempts))
                                           ELSE Cardinality(Visits(u.attempts)) + 1
      BY FS_AddElement
    <2> QED
      BY <1>4, <2>1, <2>2
  <1>6. Open(t) = 1
    BY <1>2 DEF Open
  <1>7. /\ u.retryCount + Cardinality(Visits(u.attempts))
             + (IF x \in Visits(u.attempts) THEN 0 ELSE 1)
           = Len(u.attempts) + Cardinality(u.excludedRoutes)
        /\ IsFiniteSet(u.excludedRoutes)
    OBVIOUS
  <1>8. t.retryCount + Cardinality(Visits(t.attempts)) + Open(t)
          = Len(t.attempts) + Cardinality(t.excludedRoutes)
    <2>1. t.retryCount = u.retryCount /\ t.excludedRoutes = u.excludedRoutes
      BY ONLY <1>2
    <2>2. PICK d \in {0, 1} : d = IF x \in Visits(u.attempts) THEN 0 ELSE 1
      OBVIOUS
    <2>3. /\ u.retryCount + Cardinality(Visits(u.attempts)) + d
               = Len(u.attempts) + Cardinality(u.excludedRoutes)
          /\ Cardinality(Visits(t.attempts)) = Cardinality(Visits(u.attempts)) + d
      BY ONLY <1>5, <1>7, <2>2
    <2>4. /\ u.retryCount \in Nat /\ Cardinality(Visits(u.attempts)) \in Nat
          /\ Len(u.attempts) \in Nat /\ Cardinality(u.excludedRoutes) \in Nat
          /\ d \in Nat
      BY ONLY <1>1, <1>3, <1>5, d \in {0, 1}
    <2>5. u.retryCount + Cardinality(Visits(t.attempts)) + 1
            = Len(u.attempts) + 1 + Cardinality(u.excludedRoutes)
      BY ONLY <2>3, <2>4
    <2> QED
      BY ONLY <1>3, <1>6, <2>1, <2>5
  <1>9. Counted(t)
    BY ONLY <1>2, <1>5, <1>7, <1>8 DEF Counted
  <1> QED
    BY <1>9 DEF t

\* What a request in a decision has in hand.
LEMMA InDecision ==
  ASSUME NEW s, GoodRun(s), s.pc \in {"select", "execute"}
  PROVE  /\ s \in RunState /\ s.model \in Model
         /\ s.rule \in s.excludedRoutes /\ s.excludedRoutes \subseteq RuleIndex(s.model)
         /\ s.rule \in Nat /\ RuleAt(s.model, s.rule).group \in Group
  <1>1. s \in RunState /\ ConsistentRun(s) /\ s.rule # NoRuleYet
    BY DEF GoodRun, ConsistentRun
  <1>2. s.rule \in s.excludedRoutes /\ s.model \in Model
        /\ s.excludedRoutes \subseteq RuleIndex(s.model)
    BY <1>1 DEF ConsistentRun
  <1>3. s.rule \in Nat /\ RuleAt(s.model, s.rule).group \in Group
    BY <1>1, <1>2, DecisionTypes, RunTypes
  <1> QED
    BY <1>1, <1>2, <1>3

\* A node that was not called for this rule is picked.
LEMMA PickedInPlan ==
  ASSUME NEW s, GoodRun(s), InPlan(s), s.pc = "select",
         NEW g, g = RuleAt(s.model, s.rule).group,
         NEW i \in NodeIndex(g) \ s.usedNodes, s.nodeAttempt < MaxNodeAttempts(g)
  PROVE  InPlan(BeginAttempt(
           [s EXCEPT !.usedNodes = @ \cup {i}, !.nodeAttempt = @ + 1,
                     !.node = i, !.retry = 0, !.selectedNode = <<g, i>>]))
  <1> DEFINE k == s.nodeAttempt + 1
             w == s.usedNodes \cup {i}
             u == [s EXCEPT !.usedNodes = w, !.nodeAttempt = k,
                            !.node = i, !.retry = 0, !.selectedNode = <<g, i>>]
             x == <<s.rule, i>>
  <1>1. /\ s \in RunState /\ s.model \in Model /\ s.rule \in Nat /\ g \in Group
        /\ s.rule \in s.excludedRoutes /\ s.excludedRoutes \subseteq RuleIndex(s.model)
    BY InDecision
  <1>2. i \in Nat /\ <<g, i>> \in Node
    BY <1>1, NodePairs DEF NodeIndex
  <1>3. w \in SUBSET Nat /\ k \in Nat /\ s.nodeAttempt \in Nat /\ s.retryCount \in Nat
        /\ s.attempts \in Seq(Nat \X Nat)
    BY <1>1, <1>2, RunTypes
  <1>4. /\ MaxNodeAttempts(g) \in Nat /\ RetryCount(g) \in Nat
    BY <1>1, GroupSettingsTypes
  <1>5. k <= MaxNodeAttempts(g)
    BY <1>3, <1>4
  <1>6. /\ NodesOf(s.attempts, s.rule) = s.usedNodes /\ IsFiniteSet(s.usedNodes)
        /\ Cardinality(s.usedNodes) = s.nodeAttempt
        /\ Consecutive(s.model, s.attempts) /\ Budgeted(s.model, s.attempts)
        /\ \A j \in DOMAIN s.attempts : s.attempts[j][1] \in s.excludedRoutes
    BY DEF InPlan, Planned, Tracked
  <1>7. NodesOf(s.attempts, s.rule) \cup {i} = w /\ IsFiniteSet(w) /\ Cardinality(w) = k
    BY <1>6, FS_AddElement
  <1>8. x \notin Visits(s.attempts)
    BY <1>6 DEF Visits, NodesOf
  <1>9. EndsWith(s.attempts, x, 0)
    <2>1. Len(s.attempts) \in Nat /\ DOMAIN s.attempts = 1 .. Len(s.attempts)
      BY <1>3, LenProperties
    <2> QED
      BY <1>8, <2>1 DEF EndsWith, Visits
  <1> HIDE DEF w, k, x
  <1>10. u \in RunState
    BY <1>1, <1>2, <1>3 DEF RunState
  <1>11. /\ u.rule = s.rule /\ u.node = i /\ u.model = s.model /\ u.usedNodes = w
         /\ u.nodeAttempt = k /\ u.retry = 0 /\ u.retryCount = s.retryCount
         /\ u.excludedRoutes = s.excludedRoutes /\ u.attempts = s.attempts
    BY <1>1 DEF RunState
  <1> HIDE DEF u
  <1>12. Planned(BeginAttempt(u))
    BY <1>1, <1>4, <1>5, <1>6, <1>7, <1>9, <1>10, <1>11, CallPlanned DEF x
  <1>13. Counted(BeginAttempt(u))
    <2>1. /\ IsFiniteSet(Visits(s.attempts)) /\ IsFiniteSet(s.excludedRoutes)
          /\ s.retryCount + Cardinality(Visits(s.attempts)) + 1
               = Len(s.attempts) + Cardinality(s.excludedRoutes)
      BY <1>1 DEF InPlan, Counted, Open
    <2>2. x = <<u.rule, u.node>> /\ u.model \in Model /\ u.rule \in Nat
      BY <1>1, <1>11 DEF x
    <2> QED
      BY <1>8, <1>10, <1>11, <2>1, <2>2, CallCounted
  <1> QED
    BY <1>12, <1>13 DEF InPlan, u, w, k

\* The node under trial is tried again.
LEMMA RetriedInPlan ==
  ASSUME NEW s, GoodRun(s), InPlan(s), s.pc = "execute",
         NEW g, g = RuleAt(s.model, s.rule).group, s.retry < RetryCount(g),
         NEW e \in Errors
  PROVE  InPlan(BeginAttempt(
           [s EXCEPT !.lastErr = e, !.retry = @ + 1, !.retryCount = @ + 1]))
  <1> DEFINE j == s.retry + 1
             k == s.retryCount + 1
             u == [s EXCEPT !.lastErr = e, !.retry = j, !.retryCount = k]
             x == <<s.rule, s.node>>
  <1>1. /\ s \in RunState /\ s.model \in Model /\ s.rule \in Nat /\ g \in Group
        /\ s.rule \in s.excludedRoutes /\ s.excludedRoutes \subseteq RuleIndex(s.model)
    BY InDecision
  <1>2. /\ j \in Nat /\ k \in Nat /\ s.retry \in Nat /\ s.retryCount \in Nat
        /\ s.node \in Nat /\ s.attempts \in Seq(Nat \X Nat)
        /\ RetryCount(g) \in Nat
    <2>1. /\ s.retry \in Nat /\ s.retryCount \in Nat
          /\ s.node \in Nat /\ s.attempts \in Seq(Nat \X Nat)
      BY ONLY <1>1, RunTypes
    <2>2. RetryCount(g) \in Nat
      BY ONLY <1>1, GroupSettingsTypes
    <2> QED
      BY ONLY <2>1, <2>2
  <1>3. /\ NodesOf(s.attempts, s.rule) = s.usedNodes /\ IsFiniteSet(s.usedNodes)
        /\ Cardinality(s.usedNodes) = s.nodeAttempt
        /\ s.nodeAttempt <= MaxNodeAttempts(g)
        /\ Consecutive(s.model, s.attempts) /\ Budgeted(s.model, s.attempts)
        /\ \A l \in DOMAIN s.attempts : s.attempts[l][1] \in s.excludedRoutes
        /\ EndsWith(s.attempts, x, j)
    BY DEF InPlan, Planned, Tracked
  <1>4. x \in Visits(s.attempts)
    <2>1. /\ Len(s.attempts) \in Nat /\ DOMAIN s.attempts = 1 .. Len(s.attempts)
      BY <1>2, LenProperties
    <2>2. s.attempts # <<>>
      BY DEF GoodRun, ConsistentRun
    <2>3. Len(s.attempts) > 0
      BY <1>2, <2>1, <2>2, EmptySeq
    <2>4. s.attempts[Len(s.attempts)] = x
      <3>1. \A l \in DOMAIN s.attempts :
              s.attempts[l] = x <=> l > Len(s.attempts) - j
        BY <1>3 DEF EndsWith
      <3>2. Len(s.attempts) > Len(s.attempts) - j /\ Len(s.attempts) \in DOMAIN s.attempts
        <4>1. j \in Nat /\ j >= 1
          BY <1>2
        <4> HIDE DEF j
        <4> QED
          BY ONLY <2>1, <2>3, <4>1
      <3> QED
        BY ONLY <3>1, <3>2
    <2> QED
      BY <2>1, <2>3, <2>4 DEF Visits
  <1>5. s.node \in s.usedNodes
    BY <1>3, <1>4 DEF NodesOf, Visits
  <1>6. j <= RetryCount(g)
    BY <1>2
  <1> HIDE DEF j, k, x
  <1>7. u \in RunState
    BY <1>1, <1>2 DEF RunState
  <1>8. /\ u.rule = s.rule /\ u.node = s.node /\ u.model = s.model
        /\ u.usedNodes = s.usedNodes /\ u.nodeAttempt = s.nodeAttempt
        /\ u.retry = j /\ u.retryCount = k
        /\ u.excludedRoutes = s.excludedRoutes /\ u.attempts = s.attempts
    BY <1>1 DEF RunState
  <1> HIDE DEF u
  <1>9. Planned(BeginAttempt(u))
    <2>1. NodesOf(s.attempts, s.rule) \cup {s.node} = s.usedNodes
      BY <1>3, <1>5
    <2> QED
      BY <1>1, <1>3, <1>6, <1>7, <1>8, <2>1, CallPlanned DEF x
  <1>10. Counted(BeginAttempt(u))
    <2>1. /\ IsFiniteSet(Visits(s.attempts)) /\ IsFiniteSet(s.excludedRoutes)
          /\ s.retryCount + Cardinality(Visits(s.attempts)) + 1
               = Len(s.attempts) + Cardinality(s.excludedRoutes)
      BY <1>1 DEF InPlan, Counted, Open
    <2>2. Cardinality(Visits(s.attempts)) \in Nat
      BY <2>1, FS_CardinalityType
    <2>3. k + Cardinality(Visits(s.attempts)) + 0
            = Len(s.attempts) + Cardinality(s.excludedRoutes)
      BY <1>2, <2>1, <2>2 DEF k
    <2>4. x = <<u.rule, u.node>> /\ u.model \in Model /\ u.rule \in Nat
      BY <1>1, <1>8 DEF x
    <2> QED
      BY <1>4, <1>7, <1>8, <2>1, <2>3, <2>4, CallCounted
  <1> QED
    BY <1>9, <1>10 DEF InPlan, u, j, k

\* Only the caller's answer, which the plan does not speak of, is changed.
LEMMA AnsweredInPlan ==
  ASSUME NEW s \in RunState, InPlan(s), NEW v
  PROVE  InPlan([s EXCEPT !.answer = v])
  <1> DEFINE t == [s EXCEPT !.answer = v]
  <1>1. /\ t.pc = s.pc /\ t.model = s.model /\ t.attempts = s.attempts
        /\ t.excludedRoutes = s.excludedRoutes /\ t.rule = s.rule
        /\ t.usedNodes = s.usedNodes /\ t.nodeAttempt = s.nodeAttempt
        /\ t.node = s.node /\ t.retry = s.retry /\ t.retryCount = s.retryCount
        /\ t.lastErr = s.lastErr
    BY DEF RunState
  <1> HIDE DEF t
  <1>2. Planned(t)
    BY <1>1 DEF InPlan, Planned, Tracked
  <1>3. Counted(t)
    BY <1>1 DEF InPlan, Counted, Open
  <1> QED
    BY <1>2, <1>3 DEF InPlan, t

\* Whatever follows a failed attempt.
LEMMA FailedInPlan ==
  ASSUME NEW r, NEW e \in UpstreamErrors, GoodRun(run[r]), InPlan(run[r]),
         run[r].pc = "execute"
  PROVE  InPlan([AfterFailure(r, e) EXCEPT
                   !.answer = IF e = "broken" THEN "partial" ELSE @])
  <1> DEFINE s == run[r]
             t == AfterFailure(r, e)
  <1>1. /\ s \in RunState /\ s.rule # NoRuleYet /\ s.answer = "none"
        /\ e \in Errors
    BY DEF GoodRun, ConsistentRun, Errors
  <1>2. t \in RunState /\ InPlan(t)
    <2>1. CASE ~ IsRetryable(e)
      <3>1. t = [s EXCEPT !.pc = "finish", !.lastErr = e]
        BY <2>1 DEF AfterFailure, EndDecision
      <3>2. t \in RunState
        <4> HIDE DEF s, t
        <4> QED
          BY ONLY <1>1, <3>1, ZenonT(40) DEF RunState, PC
      <3> QED
        BY <2>1, <3>2, EndDecisionInPlan DEF AfterFailure
    <2>2. CASE IsRetryable(e) /\ MayRetry(r)
      <3>1. t = BeginAttempt([s EXCEPT !.lastErr = e, !.retry = @ + 1,
                                       !.retryCount = @ + 1])
        BY <2>2 DEF AfterFailure
      <3>2. s.retry < RetryCount(RuleAt(s.model, s.rule).group)
        BY <2>2 DEF MayRetry, GroupOf, RuleOf
      <3>3. GoodRun(t)
        BY <2>2, <3>1, RetriedGood
      <3> QED
        BY <1>1, <3>1, <3>2, <3>3, RetriedInPlan DEF GoodRun
    <2>3. CASE IsRetryable(e) /\ ~ MayRetry(r)
      <3>1. t = [s EXCEPT !.pc = "select", !.lastErr = e]
        BY <2>3 DEF AfterFailure
      <3>2. t \in RunState
        <4> HIDE DEF s, t
        <4> QED
          BY ONLY <1>1, <3>1, ZenonT(40) DEF RunState, PC
      <3>3. /\ t.pc = "select" /\ t.model = s.model /\ t.attempts = s.attempts
            /\ t.excludedRoutes = s.excludedRoutes /\ t.rule = s.rule
            /\ t.usedNodes = s.usedNodes /\ t.nodeAttempt = s.nodeAttempt
            /\ t.retryCount = s.retryCount
        BY <1>1, <3>1 DEF RunState
      <3> HIDE DEF t
      <3>4. Planned(t)
        BY <3>3 DEF InPlan, Planned, Tracked
      <3>5. Counted(t)
        BY <3>3 DEF InPlan, Counted, Open
      <3> QED
        BY <3>2, <3>4, <3>5 DEF InPlan
    <2> QED
      BY <2>1, <2>2, <2>3
  <1> HIDE DEF t
  <1> QED
    BY <1>2, AnsweredInPlan DEF t

\* Every step of a request keeps its plan and its count.
LEMMA StepInPlan ==
  ASSUME IInv, NEW r \in Request, Step(r), InPlan(run[r])
  PROVE  InPlan(run'[r])
  <1> DEFINE s == run[r]
  <1>1. s \in RunState /\ GoodRun(s) /\ run \in [Request -> RunState]
    BY DEF IInv, TypeOK, RunsConsistent, GoodRun
  <1>2. CASE Route(r)
    <2>1. PICK i \in Routable(s.model, s.excludedRoutes) :
            /\ s.model \in Model
            /\ run' = [run EXCEPT ![r] =
                 IF HasExecutor(RuleAt(s.model, i).mode)
                   THEN StartDecision(s, i, StrategyOf(RuleAt(s.model, i).group))
                   ELSE RejectDecision(s, i)]
      BY <1>2 DEF Route, SelectRule
    <2>2. s.pc = "route" /\ i \in RuleIndex(s.model) \ s.excludedRoutes
      BY <1>2, <2>1 DEF Route, Routable
    <2>3. /\ InPlan(StartDecision(s, i, StrategyOf(RuleAt(s.model, i).group)))
          /\ InPlan(RejectDecision(s, i))
      BY <1>1, <2>1, <2>2, StartDecisionInPlan
    <2> QED
      BY <1>1, <2>1, <2>3
  <1>3. CASE RunOutOfRules(r)
    <2> DEFINE t == [s EXCEPT !.pc = "finish", !.lastErr = KeepFirst(@, "no_route")]
    <2>1. /\ s.pc = "route" /\ run'[r] = t /\ Routable(s.model, s.excludedRoutes) = {}
      BY <1>1, <1>3 DEF RunOutOfRules, NoRule
    <2>2. /\ t.pc = "finish" /\ t.model = s.model /\ t.attempts = s.attempts
          /\ t.excludedRoutes = s.excludedRoutes /\ t.retryCount = s.retryCount
          /\ t.lastErr = KeepFirst(s.lastErr, "no_route")
      BY <1>1 DEF RunState
    <2> HIDE DEF t
    <2>3. ASSUME s.model \in Model PROVE IsRetryable(t.lastErr)
      <3>1. PoolSize(s.model) \in Nat \ {0}
        BY <2>3, PoolsAssumption DEF PoolSize
      <3>2. 0 \in RuleIndex(s.model)
        BY <3>1 DEF RuleIndex
      <3>3. s.excludedRoutes # {}
        BY <2>1, <2>3, <3>2 DEF Routable
      <3>4. s.lastErr # "none" /\ s.lastErr \in {"none", "retryable", "timeout"}
        BY <1>1, <2>1, <3>3 DEF GoodRun, ConsistentRun
      <3> QED
        BY <2>2, <3>4 DEF KeepFirst, IsRetryable
    <2>4. Planned(t)
      BY <2>2, UndecidedPlanned DEF InPlan
    <2>5. Counted(t)
      BY <2>1, <2>2, <2>3 DEF InPlan, Counted, Open
    <2> QED
      BY <2>1, <2>4, <2>5 DEF InPlan
  <1>4. CASE PickNode(r)
    <2> DEFINE g == RuleAt(s.model, s.rule).group
    <2>1. PICK i \in Selectable(g, s.usedNodes) :
            run'[r] = BeginAttempt([s EXCEPT !.usedNodes = @ \cup {i},
                                             !.nodeAttempt = @ + 1,
                                             !.node = i, !.retry = 0,
                                             !.selectedNode = <<g, i>>])
      BY <1>1, <1>4 DEF PickNode, GroupOf, RuleOf
    <2>2. s.pc = "select" /\ s.nodeAttempt < MaxNodeAttempts(g)
      BY <1>4 DEF PickNode, MayTryNode, GroupOf, RuleOf
    <2>3. i \in NodeIndex(g) \ s.usedNodes
      BY <2>1 DEF Selectable
    <2> HIDE DEF g
    <2>4. g = RuleAt(s.model, s.rule).group
      BY DEF g
    <2>5. GoodRun(s) /\ InPlan(s)
      BY <1>1
    <2> HIDE DEF s
    <2>6. InPlan(BeginAttempt([s EXCEPT !.usedNodes = @ \cup {i},
                                        !.nodeAttempt = @ + 1,
                                        !.node = i, !.retry = 0,
                                        !.selectedNode = <<g, i>>]))
      BY ONLY <2>2, <2>3, <2>4, <2>5, PickedInPlan
    <2> QED
      BY ONLY <2>1, <2>6
  <1>5. CASE FindNoNode(r)
    <2>1. /\ s.pc = "select"
          /\ run'[r] = EndDecision(s, KeepFirst(s.lastErr, "no_healthy_nodes"))
      BY <1>1, <1>5 DEF FindNoNode
    <2> QED
      BY <1>1, <2>1, EndDecisionInPlan
  <1>6. CASE SpendNodes(r)
    <2>1. s.pc = "select" /\ run'[r] = EndDecision(s, s.lastErr)
      BY <1>1, <1>6 DEF SpendNodes
    <2> QED
      BY <1>1, <2>1, EndDecisionInPlan
  <1>7. CASE Succeed(r)
    <2> DEFINE t == [s EXCEPT !.pc = "finish", !.lastErr = "none", !.answer = "whole"]
    <2>1. s.pc = "execute" /\ run'[r] = t
      BY <1>1, <1>7 DEF Succeed
    <2>2. /\ t.pc = "finish" /\ t.model = s.model /\ t.attempts = s.attempts
          /\ t.excludedRoutes = s.excludedRoutes /\ t.retryCount = s.retryCount
          /\ t.lastErr = "none"
      BY <1>1 DEF RunState
    <2> HIDE DEF t
    <2>3. Planned(t)
      BY <2>2, UndecidedPlanned DEF InPlan
    <2>4. Counted(t)
      BY <2>1, <2>2 DEF InPlan, Counted, Open, IsRetryable
    <2> QED
      BY <2>1, <2>3, <2>4 DEF InPlan
  <1>8. CASE \E e \in UpstreamErrors : Fail(r, e)
    <2>1. PICK e \in UpstreamErrors : Fail(r, e)
      BY <1>8
    <2>2. /\ s.pc = "execute"
          /\ run'[r] = [AfterFailure(r, e) EXCEPT
                          !.answer = IF e = "broken" THEN "partial" ELSE @]
      BY <1>1, <2>1 DEF Fail
    <2> QED
      BY <1>1, <2>2, FailedInPlan
  <1>9. CASE Finish(r)
    <2> DEFINE t == [s EXCEPT !.pc = "done"]
    <2>1. s.pc = "finish" /\ run'[r] = t
      BY <1>1, <1>9 DEF Finish
    <2>2. /\ t.pc = "done" /\ t.model = s.model /\ t.attempts = s.attempts
          /\ t.excludedRoutes = s.excludedRoutes /\ t.retryCount = s.retryCount
          /\ t.lastErr = s.lastErr
      BY <1>1 DEF RunState
    <2> HIDE DEF t
    <2>3. Planned(t)
      BY <2>2, UndecidedPlanned DEF InPlan
    <2>4. Counted(t)
      BY <2>1, <2>2 DEF InPlan, Counted, Open
    <2> QED
      BY <2>1, <2>3, <2>4 DEF InPlan
  <1> QED
    BY <1>2, <1>3, <1>4, <1>5, <1>6, <1>7, <1>8, <1>9 DEF Step

\* A request that arrives has no calls.
LEMMA ArriveInPlan ==
  ASSUME IInv, NEW r \in Request, NEW m, NEW b, Arrive(r, m, b), InPlan(run[r])
  PROVE  InPlan(run'[r])
  <1> DEFINE s == run[r]
             t == [s EXCEPT !.pc = "route", !.model = m, !.stream = b]
  <1>1. /\ s \in RunState /\ s.pc = "idle" /\ run'[r] = t
        /\ s.attempts = <<>> /\ s.excludedRoutes = {} /\ s.retryCount = 0
    BY DEF IInv, TypeOK, RunsConsistent, ConsistentRun, Arrive, InPlan, Counted
  <1>2. /\ t.pc = "route" /\ t.model = m /\ t.attempts = <<>>
        /\ t.excludedRoutes = {} /\ t.retryCount = 0
    BY <1>1 DEF RunState
  <1> HIDE DEF t
  <1>3. Planned(t)
    BY <1>2 DEF Planned, Consecutive, Budgeted, Tracked
  <1>4. Visits(t.attempts) = {} /\ Len(t.attempts) = 0 /\ Open(t) = 0
    BY <1>2 DEF Visits, Open
  <1>5. /\ IsFiniteSet(Visits(t.attempts)) /\ Cardinality(Visits(t.attempts)) = 0
        /\ IsFiniteSet(t.excludedRoutes) /\ Cardinality(t.excludedRoutes) = 0
    BY <1>2, <1>4, FS_EmptySet
  <1>6. Counted(t)
    BY ONLY <1>2, <1>4, <1>5 DEF Counted
  <1> QED
    BY <1>1, <1>3, <1>6 DEF InPlan

AllInPlan == \A r \in Request : InPlan(run[r])

LEMMA InitInPlan == Init => AllInPlan
  <1> SUFFICES ASSUME Init, NEW r \in Request PROVE InPlan(run[r])
    BY DEF AllInPlan
  <1>1. /\ run[r].pc = "idle" /\ run[r].model = UnknownModel
        /\ run[r].attempts = <<>> /\ run[r].excludedRoutes = {}
        /\ run[r].retryCount = 0
    BY DEF Init, Idle
  <1>2. Planned(run[r])
    BY <1>1 DEF Planned, Consecutive, Budgeted, Tracked
  <1>3. Visits(<<>>) = {}
    BY DEF Visits
  <1>4. Counted(run[r])
    BY <1>1, <1>3, FS_EmptySet, ProxyAssumption DEF Counted
  <1> QED
    BY <1>2, <1>4 DEF InPlan

LEMMA NextInPlan == IInv /\ AllInPlan /\ [Next]_vars => AllInPlan'
  <1> SUFFICES ASSUME IInv, AllInPlan, [Next]_vars, NEW r \in Request
               PROVE  InPlan(run'[r])
    BY DEF AllInPlan
  <1>1. run \in [Request -> RunState] /\ InPlan(run[r])
    BY DEF IInv, TypeOK, AllInPlan
  <1>2. ASSUME NEW q \in Request, NEW m, NEW b, Arrive(q, m, b)
        PROVE  InPlan(run'[r])
    <2>1. q # r => run'[r] = run[r]
      BY <1>1, <1>2 DEF Arrive
    <2> QED
      BY <1>1, <1>2, <2>1, ArriveInPlan
  <1>3. ASSUME NEW q \in Request, Step(q)
        PROVE  InPlan(run'[r])
    <2>1. q # r => run'[r] = run[r]
      BY <1>1, <1>3 DEF Step, Route, RunOutOfRules, PickNode, FindNoNode, SpendNodes,
         Succeed, Fail, Finish
    <2> QED
      BY <1>1, <1>3, <2>1, StepInPlan
  <1>4. CASE \/ Tick /\ UNCHANGED <<nextRule, run, records>>
             \/ UNCHANGED vars
    BY <1>1, <1>4 DEF vars
  <1> QED
    BY <1>2, <1>3, <1>4 DEF Next

LEMMA StaysInPlan == Spec => [](IInv /\ AllInPlan)
  BY InitEstablishes, NextKeeps, InitInPlan, NextInPlan, PTL DEF Spec

-------------------------------------------------------------------------------
(* Theorems *)

(***************************************************************************)
(* The calls made for a request follow the configured plan: retries in a   *)
(* row and within their limit, nodes within the budget of their rule.      *)
(***************************************************************************)
THEOREM PlanFollowed == Spec => []AttemptPlan
  <1>1. AllInPlan => AttemptPlan
    <2> SUFFICES ASSUME AllInPlan, NEW r \in Request
                 PROVE  Consecutive(run[r].model, run[r].attempts)
                          /\ Budgeted(run[r].model, run[r].attempts)
      BY DEF AttemptPlan, Consecutive, Budgeted, NodesOf
    <2> QED
      BY DEF AllInPlan, InPlan, Planned
  <1> QED
    BY <1>1, StaysInPlan, PTL

(***************************************************************************)
(* The retry count of a request that ended is that of its repeated calls   *)
(* and of the rules given up, however requests interleave.                 *)
(***************************************************************************)
THEOREM RetriesCounted == Spec => []RetryAccounting
  <1>1. IInv /\ AllInPlan => RetryAccounting
    <2> SUFFICES ASSUME IInv, AllInPlan, NEW r \in Request, Ended(r), Served(r)
                 PROVE  run[r].retryCount
                          = (Len(run[r].attempts) - Cardinality(Visits(run[r].attempts)))
                              + (Cardinality(run[r].excludedRoutes)
                                   - (IF IsRetryable(run[r].lastErr) THEN 0 ELSE 1))
      BY DEF RetryAccounting, Visits
    <2> DEFINE s == run[r]
    <2>1. s \in RunState /\ Counted(s) /\ s.model \in Model /\ s.pc \in {"finish", "done"}
      BY DEF IInv, TypeOK, AllInPlan, InPlan, Ended, Served
    <2> HIDE DEF s
    <2>2. Open(s) = IF IsRetryable(s.lastErr) THEN 0 ELSE 1
      BY <2>1 DEF Open
    <2>3. /\ s.retryCount \in Nat /\ Len(s.attempts) \in Nat
          /\ Cardinality(Visits(s.attempts)) \in Nat
          /\ Cardinality(s.excludedRoutes) \in Nat
      BY <2>1, RunTypes, LenProperties, FS_CardinalityType DEF Counted
    <2>4. s.retryCount + Cardinality(Visits(s.attempts)) + Open(s)
            = Len(s.attempts) + Cardinality(s.excludedRoutes)
      BY <2>1 DEF Counted
    <2>5. s.retryCount = (Len(s.attempts) - Cardinality(Visits(s.attempts)))
                           + (Cardinality(s.excludedRoutes) - Open(s))
      <3>1. PICK c, n, v, e, o \in Nat :
              /\ c = s.retryCount /\ n = Len(s.attempts)
              /\ v = Cardinality(Visits(s.attempts))
              /\ e = Cardinality(s.excludedRoutes) /\ o = Open(s)
        BY <2>2, <2>3
      <3>2. c + v + o = n + e
        BY ONLY <2>4, <3>1
      <3>3. c = (n - v) + (e - o)
        BY ONLY <3>2, c \in Nat, v \in Nat, n \in Nat, e \in Nat, o \in Nat
      <3> QED
        BY ONLY <3>1, <3>3
    <2> QED
      BY <2>2, <2>5 DEF s
  <1> QED
    BY <1>1, StaysInPlan, PTL

-------------------------------------------------------------------------------
(***************************************************************************)
(* The recorder tells how requests ended.                                  *)
(***************************************************************************)

Done == {r \in Request : run[r].pc = "done"}

\* What finish records of request q when its run is s.
Told(s, q) ==
  [request |-> q, routeMode |-> RouteModeOf(s), selectedNode |-> s.selectedNode,
   strategy |-> s.strategy, retryCount |-> s.retryCount, error |-> s.lastErr]

\* Of each ended request at most one record, saying how its run ended.
Truthful(runs, done, recs) ==
  \A k \in DOMAIN recs :
    /\ recs[k].request \in done
    /\ recs[k] = Told(runs[recs[k].request], recs[k].request)
    /\ \A j \in DOMAIN recs : recs[j].request = recs[k].request => j = k

RInv ==
  /\ IsFiniteSet(Done)
  /\ Len(records) = IF Cardinality(Done) <= RecorderLimit
                      THEN Cardinality(Done) ELSE RecorderLimit
  /\ Truthful(run, Done, records)

-------------------------------------------------------------------------------
(* Steps that end no request *)

\* A step before the last one of a request.
Goes(r) ==
  \/ \E m \in Model \cup {UnknownModel}, b \in BOOLEAN : Arrive(r, m, b)
  \/ Route(r) \/ RunOutOfRules(r)
  \/ PickNode(r) \/ FindNoNode(r) \/ SpendNodes(r)
  \/ Succeed(r) \/ \E e \in UpstreamErrors : Fail(r, e)

LEMMA GoesOn ==
  ASSUME IInv, NEW r \in Request, Goes(r)
  PROVE  /\ run[r].pc # "done" /\ run'[r].pc # "done"
         /\ \A q \in Request : q # r => run'[q] = run[q]
         /\ records' = records
  <1> DEFINE s == run[r]
  <1>1. run \in [Request -> RunState] /\ s \in RunState
    BY DEF IInv, TypeOK
  <1>2. /\ s.pc # "done" /\ records' = records
        /\ \A q \in Request : q # r => run'[q] = run[q]
    BY <1>1 DEF Goes, Arrive, Route, RunOutOfRules, PickNode, FindNoNode, SpendNodes,
       Succeed, Fail
  <1>3. ASSUME NEW e PROVE EndDecision(s, e).pc # "done"
    BY <1>1 DEF EndDecision, RunState
  <1>4. ASSUME NEW u \in RunState PROVE BeginAttempt(u).pc # "done"
    BY DEF BeginAttempt, RunState
  <1>5. CASE \E m \in Model \cup {UnknownModel}, b \in BOOLEAN : Arrive(r, m, b)
    BY <1>1, <1>2, <1>5 DEF Arrive, RunState
  <1>6. CASE Route(r)
    <2>1. PICK i, v : run'[r] \in {StartDecision(s, i, v), RejectDecision(s, i)}
      BY <1>1, <1>6 DEF Route
    <2>2. run'[r].pc \in {"select", "finish"}
      BY <1>1, <2>1 DEF StartDecision, RejectDecision, RunState
    <2> QED
      BY <1>2, <2>2
  <1>7. CASE RunOutOfRules(r)
    BY <1>1, <1>2, <1>7 DEF RunOutOfRules, RunState
  <1>8. CASE PickNode(r)
    <2>1. PICK i : run'[r] = BeginAttempt(
                     [s EXCEPT !.usedNodes = @ \cup {i}, !.nodeAttempt = @ + 1,
                               !.node = i, !.retry = 0,
                               !.selectedNode = <<GroupOf(r), i>>])
      BY <1>1, <1>8 DEF PickNode
    <2>2. run'[r].pc = "execute"
      BY <1>1, <2>1 DEF BeginAttempt, RunState
    <2> QED
      BY <1>2, <2>2
  <1>9. CASE FindNoNode(r) \/ SpendNodes(r)
    BY <1>1, <1>2, <1>3, <1>9 DEF FindNoNode, SpendNodes
  <1>10. CASE Succeed(r)
    BY <1>1, <1>2, <1>10 DEF Succeed, RunState
  <1>11. CASE \E e \in UpstreamErrors : Fail(r, e)
    <2>1. PICK e : run'[r] = [AfterFailure(r, e) EXCEPT
                                !.answer = IF e = "broken" THEN "partial" ELSE @]
      BY <1>1, <1>11 DEF Fail
    <2> QED
      BY <1>1, <1>2, <2>1 DEF AfterFailure, EndDecision, BeginAttempt, RunState
  <1> QED
    BY <1>2, <1>5, <1>6, <1>7, <1>8, <1>9, <1>10, <1>11 DEF Goes

\* What the records say stays true while no request ends.
LEMMA StaysTold ==
  ASSUME RInv, records' = records, Done' = Done,
         \A q \in Done : run'[q] = run[q]
  PROVE  RInv'
  <1>1. Truthful(run', Done', records')
    BY DEF RInv, Truthful
  <1>2. Truthful(run, Done, records)'
    BY <1>1
  <1> QED
    BY <1>2 DEF RInv

LEMMA GoesTold ==
  ASSUME IInv, RInv, NEW r \in Request, Goes(r)
  PROVE  RInv'
  <1>1. /\ run[r].pc # "done" /\ run'[r].pc # "done"
        /\ \A q \in Request : q # r => run'[q] = run[q]
        /\ records' = records
    BY GoesOn
  <1>2. Done' = Done /\ \A q \in Done : run'[q] = run[q]
    BY <1>1 DEF Done
  <1> QED
    BY <1>1, <1>2, StaysTold

-------------------------------------------------------------------------------
(* The last step *)

\* A full buffer keeps its limit, another one grows, and the new record is last.
LEMMA Remembered ==
  ASSUME NEW x \in Observation, records \in Seq(Observation), Remember(x)
  PROVE  \E d \in {0, 1} :
           /\ d = IF Len(records) >= RecorderLimit THEN 1 ELSE 0
           /\ Len(records) \in Nat /\ Len(records') = Len(records) + 1 - d
           /\ DOMAIN records = 1 .. Len(records)
           /\ DOMAIN records' = 1 .. Len(records')
           /\ records'[Len(records')] = x
           /\ \A k \in 1 .. Len(records) - d : records'[k] = records[k + d]
  <1>1. Len(records) \in Nat /\ DOMAIN records = 1 .. Len(records)
    BY LenProperties
  <1>2. CASE Len(records) >= RecorderLimit
    <2>1. records # <<>> /\ records' = Append(Tail(records), x)
      BY <1>2, ProxyAssumption DEF Remember
    <2>2. /\ Tail(records) \in Seq(Observation) /\ Len(Tail(records)) = Len(records) - 1
          /\ \A k \in 1 .. Len(Tail(records)) : Tail(records)[k] = records[k + 1]
      BY <2>1, HeadTailProperties
    <2>3. /\ records' \in Seq(Observation) /\ Len(records') = Len(records)
          /\ records'[Len(records)] = x
          /\ \A k \in 1 .. Len(records) - 1 : records'[k] = Tail(records)[k]
      BY <1>1, <2>1, <2>2, AppendProperties
    <2>4. DOMAIN records' = 1 .. Len(records')
      BY <2>3, LenProperties
    <2> QED
      BY <1>1, <1>2, <2>2, <2>3, <2>4
  <1>3. CASE ~ (Len(records) >= RecorderLimit)
    <2>1. records' = Append(records, x)
      BY <1>3 DEF Remember
    <2>2. /\ records' \in Seq(Observation) /\ Len(records') = Len(records) + 1
          /\ records'[Len(records) + 1] = x
          /\ \A k \in 1 .. Len(records) : records'[k] = records[k]
      BY <1>1, <2>1, AppendProperties
    <2>3. DOMAIN records' = 1 .. Len(records')
      BY <2>2, LenProperties
    <2> QED
      BY <1>1, <1>3, <2>2, <2>3
  <1> QED
    BY <1>2, <1>3

LEMMA FinishTold ==
  ASSUME IInv, RInv, NEW r \in Request, Finish(r)
  PROVE  RInv'
  <1> DEFINE x == RecordOf(r)
  <1>1. /\ run \in [Request -> RunState] /\ run[r].pc = "finish"
        /\ run' = [run EXCEPT ![r] = [run[r] EXCEPT !.pc = "done"]]
        /\ Remember(x) /\ records \in Seq(Observation) /\ x \in Observation
    BY RecordTypes DEF IInv, TypeOK, Finish
  <1>2. r \notin Done /\ Done' = Done \cup {r}
    BY <1>1 DEF Done, RunState
  <1>3. /\ IsFiniteSet(Done) /\ IsFiniteSet(Done')
        /\ Cardinality(Done) \in Nat /\ Cardinality(Done') = Cardinality(Done) + 1
    BY <1>2, FS_AddElement, FS_CardinalityType DEF RInv
  <1>4. ASSUME NEW q \in Done PROVE run'[q] = run[q]
    BY <1>1, <1>2, <1>4 DEF Done
  <1>5. Told(run'[r], r) = x /\ x.request = r
    BY <1>1 DEF Told, RecordOf, RouteModeOf, RunState
  <1> HIDE DEF x
  <1>6. PICK d \in {0, 1} :
          /\ d = IF Len(records) >= RecorderLimit THEN 1 ELSE 0
          /\ Len(records) \in Nat /\ Len(records') = Len(records) + 1 - d
          /\ DOMAIN records = 1 .. Len(records)
          /\ DOMAIN records' = 1 .. Len(records')
          /\ records'[Len(records')] = x
          /\ \A k \in 1 .. Len(records) - d : records'[k] = records[k + d]
    BY <1>1, Remembered
  <1>7. Len(records') = IF Cardinality(Done') <= RecorderLimit
                          THEN Cardinality(Done') ELSE RecorderLimit
    <2>1. Len(records) = IF Cardinality(Done) <= RecorderLimit
                           THEN Cardinality(Done) ELSE RecorderLimit
      BY DEF RInv
    <2>2. RecorderLimit \in Nat \ {0}
      BY ProxyAssumption
    <2> QED
      BY ONLY <1>3, <1>6, <2>1, <2>2
  <1>8. ASSUME NEW k \in DOMAIN records', k # Len(records')
        PROVE  k + d \in DOMAIN records /\ records'[k] = records[k + d]
    BY <1>6, <1>8
  <1>9. ASSUME NEW k \in DOMAIN records
        PROVE  /\ records[k].request \in Done
               /\ records[k] = Told(run[records[k].request], records[k].request)
               /\ \A j \in DOMAIN records : records[j].request = records[k].request => j = k
    BY DEF RInv, Truthful
  <1>10. ASSUME NEW k \in DOMAIN records'
         PROVE  /\ records'[k].request \in Done'
                /\ records'[k] = Told(run'[records'[k].request], records'[k].request)
                /\ \A j \in DOMAIN records' :
                     records'[j].request = records'[k].request => j = k
    <2>1. CASE k = Len(records')
      <3>1. records'[k] = x
        BY <1>6, <2>1
      <3>2. ASSUME NEW j \in DOMAIN records', j # k
            PROVE  records'[j].request # r
        BY <1>2, <1>8, <1>9, <2>1, <3>2
      <3> QED
        BY <1>2, <1>5, <3>1, <3>2
    <2>2. CASE k # Len(records')
      <3>1. k + d \in DOMAIN records /\ records'[k] = records[k + d]
        BY <1>8, <2>2
      <3>2. /\ records'[k].request \in Done
            /\ records'[k] = Told(run[records'[k].request], records'[k].request)
        BY <1>9, <3>1
      <3>3. ASSUME NEW j \in DOMAIN records', records'[j].request = records'[k].request
            PROVE  j = k
        <4>1. CASE j = Len(records')
          BY <1>2, <1>5, <1>6, <3>2, <3>3, <4>1
        <4>2. CASE j # Len(records')
          <5>1. j + d \in DOMAIN records /\ records'[j] = records[j + d]
            BY <1>8, <4>2
          <5>2. j + d = k + d
            BY <1>9, <3>1, <3>3, <5>1
          <5> QED
            BY <1>6, <5>2
        <4> QED
          BY <4>1, <4>2
      <3> QED
        BY <1>2, <1>4, <3>2, <3>3
    <2> QED
      BY <2>1, <2>2
  <1>11. Truthful(run', Done', records')
    BY <1>10 DEF Truthful
  <1> QED
    BY <1>3, <1>7, <1>11 DEF RInv

-------------------------------------------------------------------------------
(* The invariant *)

LEMMA InitTold == Init => RInv
  <1> SUFFICES ASSUME Init PROVE RInv
    OBVIOUS
  <1>1. Done = {} /\ records = <<>>
    BY DEF Init, Idle, Done
  <1>2. IsFiniteSet(Done) /\ Cardinality(Done) = 0
    BY <1>1, FS_EmptySet
  <1>3. Len(records) = 0 /\ Truthful(run, Done, records)
    BY <1>1 DEF Truthful
  <1> QED
    BY <1>2, <1>3, ProxyAssumption DEF RInv

LEMMA NextTold == IInv /\ RInv /\ [Next]_vars => RInv'
  <1> SUFFICES ASSUME IInv, RInv, [Next]_vars PROVE RInv'
    OBVIOUS
  <1>1. ASSUME NEW r \in Request, Goes(r) PROVE RInv'
    BY <1>1, GoesTold
  <1>2. ASSUME NEW r \in Request, Finish(r) PROVE RInv'
    BY <1>2, FinishTold
  <1>3. CASE UNCHANGED <<run, records>>
    <2>1. Done' = Done /\ \A q \in Done : run'[q] = run[q]
      BY <1>3 DEF Done
    <2> QED
      BY <1>3, <2>1, StaysTold
  <1> QED
    BY <1>1, <1>2, <1>3 DEF Next, Step, Goes, vars

(***************************************************************************)
(* The recorder holds the records of the requests that ended, up to its    *)
(* limit, none twice, and each as its request ended.                       *)
(***************************************************************************)
THEOREM RecordsTell == Spec => []RecordsTellOutcomes
  <1>1. RInv => RecordsTellOutcomes
    BY DEF RInv, Truthful, Told, RecordOf, Done, RecordsTellOutcomes
  <1> QED
    BY <1>1, InitEstablishes, NextKeeps, InitTold, NextTold, PTL DEF Spec
===============================================================================
