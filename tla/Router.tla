-------------------------------- MODULE Router --------------------------------
(***************************************************************************)
(* internal/core/router: every model alias owns a pool of rules that is    *)
(* used in rotation.  A request asks for a rule it has not used yet; the   *)
(* whole selection runs under Router.mu, so it is one step.                *)
(***************************************************************************)
EXTENDS RuntimeConfig, Rotation

VARIABLE
  nextRule  \* nextRule[m]: poolState.nextIndex of the pool of alias m

RouterTypeOK ==
  /\ nextRule \in [Model -> Nat]
  /\ \A m \in Model : nextRule[m] \in RuleIndex(m)

RouterInit == nextRule = [m \in Model |-> 0]

\* A scan that stops one short of a full round.
Routable_OffByOne(m, excluded) ==
  IF m \in Model
    THEN {i \in RuleIndex(m) \ excluded :
            ScanOffset(nextRule[m], i, PoolSize(m)) < PoolSize(m) - 1}
    ELSE {}

\* The rules a request that already used `excluded` may still be given.  An
\* alias without a pool has none.
Routable(m, excluded) == IF m \in Model THEN RuleIndex(m) \ excluded ELSE {}

\* The cursor moves past the rule that was handed out, whoever asked.
AdvanceRule(m, i) ==
  nextRule' = [nextRule EXCEPT ![m] = Successor(i, PoolSize(m))]

\* SelectWithExclusions returns rule i of alias m.
SelectRule(m, excluded, i) ==
  /\ m \in Model
  /\ IsFirstFrom(i, nextRule[m], PoolSize(m), Routable(m, excluded))
  /\ AdvanceRule(m, i)

\* SelectWithExclusions returns ErrNoRoute.
NoRule(m, excluded) ==
  /\ Routable(m, excluded) = {}
  /\ UNCHANGED nextRule
===============================================================================
