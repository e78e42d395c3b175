-------------------------------- MODULE MCConfig --------------------------------
(* Configurations for model checking SnapshotFlow. *)
EXTENDS SnapshotFlow, TLC

CONSTANTS p, q, a, b

DeviceSymmetry == Permutations(Device)

Map(alias, weight) == [alias |-> alias, weight |-> weight]
Make(name, complete, headers, auth, models) ==
  [name |-> name, complete |-> complete, headers |-> headers, auth |-> auth,
   models |-> models]

Weighted == Make(p, TRUE, "some", "nil", <<Map(a, 2)>>)
Pair == Make(q, TRUE, "nil", "sorted", <<Map(a, 0), Map(b, 1), Map(a, 1)>>)
Unfinished == Make(q, FALSE, "some", "nil", <<Map(b, 1)>>)

\* One provider, two, one named twice, one that is not complete, none.
TidyProviders == {<<Weighted>>, <<Weighted, Pair>>, <<Weighted, Weighted>>,
                  <<Unfinished>>, <<>>}

\* The header map of the one provider is there and has no entries.
EmptyHeaders == {<<Make(p, TRUE, "empty", "nil", <<Map(a, 1)>>)>>}

\* A configuration without providers: nothing yet, one that runs, and one
\* with a route to a group that it does not have.
Nothing == [routes |-> <<>>, groups |-> <<>>]
ByHand(name, target) ==
  [routes |-> <<[alias |-> a, group |-> target]>>,
   groups |-> <<[name |-> name, headers |-> "empty", auth |-> "nil"]>>]
Drafts == {ByHand(p, p), ByHand(q, p)}
===============================================================================
