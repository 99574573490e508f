------------------------------- MODULE MCPool -------------------------------
(* Small instances of Pool for TLC. *)
EXTENDS PoolLedger, TLC

CONSTANTS b1, b2, n1, n2, n3, m1, m2, feeAddr, feeAddrLower

(* Two pool blocks and foreign blocks with nonces of their own. *)
DistinctNonces == b1 :> n1 @@ b2 :> n2 @@ Foreign :> n3
(* A foreign block whose 4-byte nonce is that of a pool block. *)
SharedNonce == b1 :> n1 @@ b2 :> n2 @@ Foreign :> n1

MCLowerCase == feeAddr :> feeAddrLower

SessionSymmetry == Permutations(Sessions)
LoginSymmetry == Permutations(Logins)
=============================================================================
