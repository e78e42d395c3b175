----------------------------- MODULE RuntimeConfig -----------------------------
(***************************************************************************)
(* The configuration a gateway process is built from, as                   *)
(* internal/core/runtimeconfig and the constructors of the router and the  *)
(* balancer leave it: validated and normalized.  A constant of the gateway *)
(* modules, since a new configuration builds a new router and balancer.    *)
(***************************************************************************)
EXTENDS Integers, Sequences

CONSTANTS
  Model,        \* the model aliases that have a rule
  Group,        \* the provider groups
  Pools,        \* Pools[m]: the rules of alias m, in configuration order
  GroupConfig   \* GroupConfig[g]: the settings of group g

\* A string that is not set.
Unset == ""

RouteMode == {"direct", "relay"}
Strategy == {"round_robin", "fill_first"}
Rule == [mode : RouteMode, group : Group]
GroupSettings == [strategy : Strategy \cup {Unset}, nodes : Nat \ {0},
                  retryCount : Nat, maxNodeAttempts : Int,
                  failureThreshold : Nat \ {0}, cooldown : Nat \ {0}]

\* router.New rejects an empty rule list and a mode that is neither direct
\* nor relay, runtimeFromParts a rule whose group is unknown, and a pool
\* exists only because some rule created it.  A provider of weight w
\* contributes w equal rules.
ASSUME PoolsAssumption ==
  /\ Pools \in [Model -> Seq(Rule)]
  /\ \A m \in Model : Len(Pools[m]) > 0

\* normalizeGroup rejects a group without nodes, an unknown strategy, a
\* negative retry count, a threshold or a cooldown that is not positive.
ASSUME GroupAssumption == GroupConfig \in [Group -> GroupSettings]

PoolSize(m) == Len(Pools[m])
RuleIndex(m) == 0 .. PoolSize(m) - 1
RuleAt(m, i) == Pools[m][i + 1]

\* normalizeGroup: the strategy defaults to round robin, and a node budget
\* that is not positive or exceeds the group becomes the group's size.
StrategyOf(g) ==
  IF GroupConfig[g].strategy = Unset THEN "round_robin" ELSE GroupConfig[g].strategy
NodeCount(g) == GroupConfig[g].nodes
RetryCount(g) == GroupConfig[g].retryCount
Threshold(g) == GroupConfig[g].failureThreshold
Cooldown(g) == GroupConfig[g].cooldown
MaxNodeAttempts(g) ==
  IF GroupConfig[g].maxNodeAttempts \in 1 .. NodeCount(g)
    THEN GroupConfig[g].maxNodeAttempts
    ELSE NodeCount(g)

\* A node is known by its position in its group, where names are unique.
NodeIndex(g) == 0 .. NodeCount(g) - 1
Node == UNION {{g} \X NodeIndex(g) : g \in Group}
===============================================================================
