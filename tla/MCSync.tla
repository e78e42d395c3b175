--------------------------------- MODULE MCSync ---------------------------------
(* Small sets of clients for model checking SyncManager. *)
EXTENDS SyncManager, TLC

CONSTANTS ann, bob, s1, s2

OneSessionEach == (s1 :> ann) @@ (s2 :> bob)

\* Bob's clock is fast.
FastClocks == (ann :> 0) @@ (bob :> 1)
SameClocks == (ann :> 0) @@ (bob :> 0)

\* The clients swap together with their sessions.
Swap == (ann :> bob) @@ (bob :> ann) @@ (s1 :> s2) @@ (s2 :> s1)
Stay == (ann :> ann) @@ (bob :> bob) @@ (s1 :> s1) @@ (s2 :> s2)
SnapshotSymmetry == Permutations(Snapshot)
TwinSymmetry == {p @@ q : p \in SnapshotSymmetry, q \in {Swap, Stay}}
===============================================================================
