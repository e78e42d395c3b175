-------------------------------- MODULE MCServer --------------------------------
(* A small server for model checking ServerRuntime. *)
EXTENDS ServerRuntime

CONSTANTS old, new, short

\* Two lifetimes, two secrets, one too short, and a lifetime of nothing.
MCConfigs ==
  {[secret |-> old, ttl |-> 3], [secret |-> old, ttl |-> 2],
   [secret |-> new, ttl |-> 3], [secret |-> short, ttl |-> 3],
   [secret |-> old, ttl |-> 0]}
===============================================================================
