-------------------------------- MODULE MCProxy --------------------------------
(* A small gateway for model checking Proxy. *)
EXTENDS Proxy

CONSTANTS east, west, m, n

MCGroup == {east, west}
MCModel == {m, n}

Direct(g) == [mode |-> "direct", group |-> g]
Relay(g) == [mode |-> "relay", group |-> g]

\* Two providers behind one alias; one of them behind another too, which mixes
\* the paths.
MCPools == [x \in MCModel |->
  IF x = m THEN <<Direct(east), Direct(west)>> ELSE <<Direct(west), Relay(west)>>]

Settings(strategy, nodes, retries, budget, threshold, cooldown) ==
  [strategy |-> strategy, nodes |-> nodes, retryCount |-> retries,
   maxNodeAttempts |-> budget, failureThreshold |-> threshold,
   cooldown |-> cooldown]

\* A round-robin group that retries and visits both of its nodes, and a
\* fill-first group that visits one, as compileProviders makes them.
MCGroups == [g \in MCGroup |->
  IF g = east THEN Settings(Unset, 2, 1, 0, 2, 1)
           ELSE Settings("fill_first", 2, 0, 1, 1, 1)]
===============================================================================
