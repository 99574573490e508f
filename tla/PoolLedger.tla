----------------------------- MODULE PoolLedger -----------------------------
(***************************************************************************)
(* Pool implements Ledger.  The stage of a block is the set that holds it, *)
(* its promise is the entry of the log of immature credits under the       *)
(* height and hash it is stored with, and the balances are the fields      *)
(* immature and balance of the miners.                                     *)
(***************************************************************************)
EXTENDS Pool

InSet(b, blocks) == \E x \in blocks : x.id = b

StageOf(b) ==
    CASE InSet(b, candidates) -> "candidate"
      [] InSet(b, immature) -> "immature"
      [] InSet(b, {m \in matured : m.orphan}) -> "orphaned"
      [] InSet(b, {m \in matured : ~m.orphan}) -> "paid"
      [] OTHER -> "unknown"

PromiseOf(b) ==
    IF InSet(b, immature)
    THEN creditsImmature[CreditKey(CHOOSE x \in immature : x.id = b)]
    ELSE NoCredits

Abstract == INSTANCE Ledger WITH
    stage    <- [b \in Blocks |-> StageOf(b)],
    promise  <- [b \in Blocks |-> PromiseOf(b)],
    promised <- minerImmature,
    balance  <- minerBalance

(* Every step of the pool is a step of the ledger or none: whatever        *)
(* fails, repeats, crashes or is reorganised, a block moves through the    *)
(* stages once, and WriteMaturedBlock pays exactly what WriteImmatureBlock *)
(* had promised for it, WriteOrphan takes exactly that back, and nothing   *)
(* else changes a balance.                                                 *)
ImplementsLedger == Abstract!LedgerSpec
=============================================================================
