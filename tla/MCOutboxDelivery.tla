------------------------- MODULE MCOutboxDelivery -------------------------
(* Symmetry of the sweeps and of the consumers, for the safety instance.   *)
EXTENDS OutboxDelivery, TLC

Symmetry == Permutations(Sweep) \cup Permutations(Consumer)
=============================================================================
