--------------------------- MODULE MCHostingOrders ---------------------------
(* Instances of HostingOrders for TLC. *)
EXTENDS HostingOrders, TLC

Symmetry == Permutations(Threads) \cup Permutations(Totals)
=============================================================================
