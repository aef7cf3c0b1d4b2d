----------------------------- MODULE MCNodeLease -----------------------------
(* One plan node, two workers: the instance of NodeLease TLC explores. *)
EXTENDS NodeLease, TLC

WorkerSymmetry == Permutations(Workers)
=============================================================================
