----------------------------- MODULE MCSendPool -----------------------------
(* Small instances of SendPool for TLC. *)
EXTENDS SendPool

\* A file of several blocks, one of a single packet, and an empty one.
Sizes == [f \in 1..NFiles |-> CASE f % 3 = 1 -> 3 [] f % 3 = 2 -> 1 [] f % 3 = 0 -> 0]
=============================================================================
