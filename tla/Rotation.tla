------------------------------- MODULE Rotation -------------------------------
(***************************************************************************)
(* Both the router and the balancer scan a ring of n entries numbered      *)
(* 0 .. n-1 from a cursor and take the first eligible entry:               *)
(*                                                                         *)
(*   for offset := 0; offset < n; offset++ { idx := (start + offset) % n } *)
(*                                                                         *)
(* This module says which entry that scan stops at, without the loop.      *)
(***************************************************************************)
EXTENDS Integers

\* The value of `offset` at which the scan that starts at `start` visits i.
ScanOffset(start, i, n) == (i + n - start) % n

\* i is the first entry of `eligible` that the scan visits.
IsFirstFrom(i, start, n, eligible) ==
  /\ i \in eligible
  /\ \A j \in eligible : ScanOffset(start, i, n) <= ScanOffset(start, j, n)

\* The cursor one past i.
Successor(i, n) == (i + 1) % n
===============================================================================
