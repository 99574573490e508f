------------------------------- MODULE Ledger -------------------------------
(***************************************************************************)
(* What the accounting promises, without Redis, passes, failures or the    *)
(* chain: every block the pool finds goes once through the stages          *)
(* candidate, immature and final.  The step that makes it immature may     *)
(* promise its miners an amount; the step that ends it takes the promise   *)
(* back and, unless the block is an orphan, pays it.                       *)
(***************************************************************************)
EXTENDS Integers

CONSTANTS
    Blocks,         \* blocks the pool's miners find
    Accounts        \* who may be credited

VARIABLES
    stage,          \* where each block is
    promise,        \* what an immature block promises to each account
    promised,       \* immature balance of each account
    balance         \* balance of each account

ledgerVars == <<stage, promise, promised, balance>>

Credit == [Accounts -> Nat]
Nothing == [a \in Accounts |-> 0]

Add(f, g) == [a \in Accounts |-> f[a] + g[a]]
Subtract(f, g) == [a \in Accounts |-> f[a] - g[a]]

LedgerInit ==
    /\ stage = [b \in Blocks |-> "unknown"]
    /\ promise = [b \in Blocks |-> Nothing]
    /\ promised = Nothing
    /\ balance = Nothing

Advance(bs, from, to) ==
    /\ \A b \in bs : stage[b] = from
    /\ stage' = [b \in Blocks |-> IF b \in bs THEN to ELSE stage[b]]

Record(b) ==
    /\ Advance({b}, "unknown", "candidate")
    /\ UNCHANGED <<promise, promised, balance>>

(* The block is on the chain: its miners are promised an amount. *)
Promise(b) ==
    LET amount == promise'[b] IN
    /\ Advance({b}, "candidate", "immature")
    /\ amount \in Credit
    /\ promise' = [promise EXCEPT ![b] = amount]
    /\ promised' = Add(promised, amount)
    /\ UNCHANGED balance

(* The blocks are not on the chain now: they wait, and promise nothing. *)
Doubt(bs) ==
    /\ Advance(bs, "candidate", "immature")
    /\ UNCHANGED <<promise, promised, balance>>

TakeBack(b) ==
    /\ promised' = Subtract(promised, promise[b])
    /\ promise' = [promise EXCEPT ![b] = Nothing]

(* What was promised is paid; a block that was doubted pays what it earns. *)
Pay(b) ==
    LET amount == Subtract(balance', balance) IN
    /\ Advance({b}, "immature", "paid")
    /\ TakeBack(b)
    /\ amount \in Credit
    /\ promise[b] # Nothing => amount = promise[b]
    /\ balance' = Add(balance, amount)

Cancel(b) ==
    /\ Advance({b}, "immature", "orphaned")
    /\ TakeBack(b)
    /\ UNCHANGED balance

LedgerNext ==
    \/ \E b \in Blocks : Record(b) \/ Promise(b) \/ Pay(b) \/ Cancel(b)
    \/ \E bs \in SUBSET Blocks : Doubt(bs)

LedgerSpec == LedgerInit /\ [][LedgerNext]_ledgerVars
=============================================================================
