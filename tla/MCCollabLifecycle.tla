-------------------------- MODULE MCCollabLifecycle --------------------------
(* Small instances of CollabLifecycle for TLC. *)
EXTENDS CollabLifecycle, TLC

RequestSymmetry == Permutations(Requests)
=============================================================================
