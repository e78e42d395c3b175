------------------------------- MODULE MCClient --------------------------------
(* A small client for model checking ClientApp. *)
EXTENDS ClientApp

CONSTANTS a, b, unsupported

\* Two configurations that run, and one that only compiles: it has a route mode
\* or a strategy that nobody knows.  The two differ in their Codex settings, so
\* that a Codex switch has another one to save; to all else they are just two.
Good == {a, b}
WithBroken == {a, b, unsupported}
UpToCodex == [x \in WithBroken |-> x = unsupported]
===============================================================================
