----------------------------- MODULE MCStratum -----------------------------
(* Instances of Stratum for TLC. *)
EXTENDS Stratum, TLC

ConnSymmetry == Permutations(Conns)
=============================================================================
