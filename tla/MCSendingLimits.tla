-------------------------- MODULE MCSendingLimits --------------------------
(* Instances of SendingLimits for TLC. *)
EXTENDS SendingLimits, TLC

MCLimits == {[daily |-> 1, monthly |-> 2], [daily |-> 2, monthly |-> 2]}

WorkerSymmetry == Permutations(Workers)
=============================================================================
