------------------------------- MODULE Balancer -------------------------------
(***************************************************************************)
(* internal/core/balancer: provider groups of nodes with passive health.   *)
(* Manager.mu is held for the whole of Select, ReportSuccess and           *)
(* ReportFailure, so each of them is one step; between them the requests   *)
(* interleave.                                                             *)
(*                                                                         *)
(* Time is a counter that starts at 1, so that 0 can stand for Go's zero   *)
(* time, "not in cooldown".                                                *)
(***************************************************************************)
EXTENDS RuntimeConfig, Rotation

CONSTANT
  MaxTime  \* bound: the clock stops here

ASSUME MaxTimeAssumption == MaxTime \in Nat

VARIABLES
  now,             \* the clock Manager.now reads
  failures,        \* failures[<<g, i>>]: nodeState.failures
  unhealthyUntil,  \* unhealthyUntil[<<g, i>>]: nodeState.unhealthyUntil, 0 if zero
  cursor           \* cursor[g]: nextIndex (round robin) or currentIndex (fill first)

healthVars == <<failures, unhealthyUntil, cursor>>

BalancerTypeOK ==
  /\ now \in Nat \ {0}
  /\ failures \in [Node -> Nat]
  /\ unhealthyUntil \in [Node -> Nat]
  /\ cursor \in [Group -> Nat]
  /\ \A g \in Group : cursor[g] \in NodeIndex(g)

BalancerInit ==
  /\ now = 1
  /\ failures = [n \in Node |-> 0]
  /\ unhealthyUntil = [n \in Node |-> 0]
  /\ cursor = [g \in Group |-> 0]

\* !now.Before(unhealthyUntil): the cooldown has run out.
CooldownOver(g, i) == now >= unhealthyUntil[<<g, i>>]

\* The nodes Select may return: not used by this request, not cooling down.
Selectable(g, excluded) == {i \in NodeIndex(g) \ excluded : CooldownOver(g, i)}

\* A selected round-robin node moves the cursor past itself; a selected
\* fill-first node becomes the current one.
CursorAfterSelect(g, i) ==
  IF StrategyOf(g) = "round_robin" THEN Successor(i, NodeCount(g)) ELSE i

(***************************************************************************)
(* Select returns node i.  The scan clears an expired cooldown, and the    *)
(* failures counted before it, on every node it looks at; a node whose     *)
(* cooldown it clears is eligible, so the only such node is i itself.      *)
(***************************************************************************)
SelectNode(g, excluded, i) ==
  /\ IsFirstFrom(i, cursor[g], NodeCount(g), Selectable(g, excluded))
  /\ failures' = [failures EXCEPT
                    ![<<g, i>>] = IF unhealthyUntil[<<g, i>>] # 0 THEN 0 ELSE @]
  /\ unhealthyUntil' = [unhealthyUntil EXCEPT ![<<g, i>>] = 0]
  /\ cursor' = [cursor EXCEPT ![g] = CursorAfterSelect(g, i)]

\* Select waits for a cooldown to end while an unused node is left.
SelectNoNode_Waits(g, excluded) ==
  /\ NodeIndex(g) \subseteq excluded
  /\ UNCHANGED healthVars

\* Select returns ErrNoHealthyNodes: every node is excluded or cooling down,
\* and the scan found no cooldown to clear.
SelectNoNode(g, excluded) ==
  /\ Selectable(g, excluded) = {}
  /\ UNCHANGED healthVars

ReportSuccess(g, i) ==
  /\ failures' = [failures EXCEPT ![<<g, i>>] = 0]
  /\ unhealthyUntil' = [unhealthyUntil EXCEPT ![<<g, i>>] = 0]
  /\ cursor' = IF StrategyOf(g) = "fill_first"
                 THEN [cursor EXCEPT ![g] = i] ELSE cursor

\* The threshold is passed instead of reached.
ReachesThreshold_OffByOne(g, i) == failures[<<g, i>>] + 1 > Threshold(g)

\* This failure is the one that benches the node.
ReachesThreshold(g, i) == failures[<<g, i>>] + 1 >= Threshold(g)

ReportFailure(g, i) ==
  /\ IF ReachesThreshold(g, i)
       THEN /\ failures' = [failures EXCEPT ![<<g, i>>] = 0]
            /\ unhealthyUntil' =
                 [unhealthyUntil EXCEPT ![<<g, i>>] = now + Cooldown(g)]
       ELSE /\ failures' = [failures EXCEPT ![<<g, i>>] = @ + 1]
            /\ UNCHANGED unhealthyUntil
  /\ cursor' = IF StrategyOf(g) = "fill_first"
                 THEN [cursor EXCEPT ![g] = Successor(i, NodeCount(g))]
                 ELSE cursor

Tick ==
  /\ now < MaxTime
  /\ now' = now + 1
  /\ UNCHANGED healthVars
===============================================================================
