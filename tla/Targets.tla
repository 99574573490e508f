------------------------------ MODULE Targets ------------------------------
(***************************************************************************)
(* Difficulties, targets and hashes (util/util.go).  A hash is the number  *)
(* that its bytes, the lowest first, are the digits of, which is what      *)
(* reverse and SetBytes make of them; a target is the number whose bytes   *)
(* are sent to miners in the same order.                                   *)
(***************************************************************************)
EXTENDS Integers

CONSTANTS
    Diff1,          \* the largest hash (2^256 - 1)
    TargetUnit      \* weight of the lowest byte of a target in a hash (2^224)

ASSUME TargetsAssumption == Diff1 \in Nat \ {0} /\ TargetUnit \in Nat \ {0}

(* The difficulties that endpoints and templates have.  A configured       *)
(* difficulty of 0 ends the process in NewEndpoint.                        *)
Difficulties == Nat \ {0}

(* GetTargetHex: the highest four bytes of the largest hash that is good   *)
(* enough                                                                  *)
TargetOf_RoundedUp(diff) == (Diff1 \div diff + TargetUnit - 1) \div TargetUnit
TargetOf(diff) == (Diff1 \div diff) \div TargetUnit

(* GetHashDifficulty, for a hash that is not zero *)
HashDifficulty(hash) == Diff1 \div hash

(* What processShare makes of a hash: a block, a share, or too little.  A  *)
(* hash of zero is refused as bad.                                         *)
IsBlock_Strict(hash, diff) == HashDifficulty(hash) > diff
IsBlock(hash, diff) == HashDifficulty(hash) >= diff

IsLow(hash, diff) == HashDifficulty(hash) < diff

Verdict(hash, blockDiff, shareDiff) ==
    IF hash = 0 THEN "bad"
    ELSE IF IsBlock(hash, blockDiff) THEN "block"
    ELSE IF IsLow(hash, shareDiff) THEN "low" ELSE "share"

(* A miner (external) sends a hash whose highest four bytes are below the  *)
(* target of its job.                                                      *)
MeetsTarget(hash, target) == hash \div TargetUnit < target

(* monerod (external): a block's hash times the difficulty must not exceed *)
(* the largest hash.                                                       *)
MonerodAccepts(hash, diff) == hash * diff =< Diff1
=============================================================================
