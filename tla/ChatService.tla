------------------------------ MODULE ChatService ------------------------------
(***************************************************************************)
(* What the proxy promises a caller, without rules, groups, nodes or       *)
(* retries: an accepted request leads to some upstream calls, then is      *)
(* settled exactly once - answered, broken half way, or refused - and from *)
(* then on nothing more is sent upstream for it; then it is observed once. *)
(***************************************************************************)
EXTENDS Integers

CONSTANT Request

VARIABLES
  phase,   \* phase[r]: how far request r is
  calls,   \* calls[r]: upstream calls made for it
  answer   \* answer[r]: what the caller received

vars == <<phase, calls, answer>>

Init ==
  /\ phase = [r \in Request |-> "idle"]
  /\ calls = [r \in Request |-> 0]
  /\ answer = [r \in Request |-> "none"]

Accept(r) ==
  /\ phase[r] = "idle"
  /\ phase' = [phase EXCEPT ![r] = "running"]
  /\ UNCHANGED <<calls, answer>>

Call(r) ==
  /\ phase[r] = "running"
  /\ calls' = [calls EXCEPT ![r] = @ + 1]
  /\ UNCHANGED <<phase, answer>>

\* An answer comes from an upstream, so there was a call.
Answer(r, a) ==
  /\ phase[r] = "running"
  /\ calls[r] > 0
  /\ phase' = [phase EXCEPT ![r] = "settled"]
  /\ answer' = [answer EXCEPT ![r] = a]
  /\ UNCHANGED calls

Refuse(r) ==
  /\ phase[r] = "running"
  /\ phase' = [phase EXCEPT ![r] = "settled"]
  /\ UNCHANGED <<calls, answer>>

Observe(r) ==
  /\ phase[r] = "settled"
  /\ phase' = [phase EXCEPT ![r] = "closed"]
  /\ UNCHANGED <<calls, answer>>

Next ==
  \E r \in Request :
    \/ Accept(r) \/ Call(r) \/ Refuse(r) \/ Observe(r)
    \/ \E a \in {"whole", "partial"} : Answer(r, a)

Spec == Init /\ [][Next]_vars

\* Every accepted request is settled and observed in the end.
RequestsClose == \A r \in Request : phase[r] = "running" ~> phase[r] = "closed"
===============================================================================
