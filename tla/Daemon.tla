------------------------------- MODULE Daemon -------------------------------
(***************************************************************************)
(* monerod, as the pool uses it (external): a chain that grows and         *)
(* reorganises, submit_block, get_block_count and                          *)
(* get_block_header_by_height.                                             *)
(*                                                                         *)
(* A block the pool mined is a member of Blocks and is its own hash; every *)
(* other block is Foreign.  NonceOf is what the pool sees of a header: the *)
(* 4-byte nonce.                                                           *)
(***************************************************************************)
EXTENDS Integers, FiniteSets

CONSTANTS
    Blocks,         \* blocks the pool's miners find
    Foreign,        \* any block mined elsewhere
    Nonces,         \* header nonces
    NonceOf,        \* the nonce of each block
    FirstHeight,    \* height of the chain when the pool starts
    MaxHeight,      \* bound: the chain stops growing here
    MaxReorg,       \* a reorganisation replaces at most this many blocks
    CoinBase,       \* block subsidy of every template
    TxFee,          \* transaction fees of every template
    ForeignReward   \* reward in the header of a foreign block

ASSUME DaemonAssumption ==
    /\ IsFiniteSet(Blocks) /\ IsFiniteSet(Nonces)
    /\ Foreign \notin Blocks
    /\ NonceOf \in [Blocks \cup {Foreign} -> Nonces]
    /\ FirstHeight \in Nat \ {0} /\ MaxHeight \in Nat /\ FirstHeight =< MaxHeight
    /\ MaxReorg \in Nat
    /\ CoinBase \in Nat /\ TxFee \in Nat /\ ForeignReward \in Nat

VARIABLES
    tip,            \* height of the best block
    chain,          \* the best chain; Foreign above the tip
    minedAt         \* the height at which a pool block was accepted, or 0

daemonVars == <<tip, chain, minedAt>>

Heights == FirstHeight .. MaxHeight
AnyBlock == Blocks \cup {Foreign}

DaemonInit ==
    /\ tip = FirstHeight
    /\ chain = [h \in Heights |-> Foreign]
    /\ minedAt = [b \in Blocks |-> 0]

DaemonTypeOK ==
    /\ tip \in Heights
    /\ chain \in [Heights -> AnyBlock]
    /\ minedAt \in [Blocks -> Heights \cup {0}]

(* get_block_count: one more than the height of the tip. *)
BlockCount == tip + 1

(* get_block_header_by_height: the hash, nonce and reward of the header. *)
HeaderHash(h) == chain[h]
HeaderNonce(h) == NonceOf[chain[h]]
HeaderReward(h) == IF chain[h] = Foreign THEN ForeignReward ELSE CoinBase + TxFee

(* A longer branch replaces the last k blocks; k = 0 is ordinary growth.   *)
(* A branch holds foreign blocks and pool blocks accepted at their height. *)
NewBlocks(k) ==
    /\ tip < MaxHeight
    /\ FirstHeight + k =< tip
    /\ \E branch \in [tip - k + 1 .. tip + 1 -> AnyBlock] :
        /\ \A h \in DOMAIN branch :
              branch[h] # Foreign => minedAt[branch[h]] = h
        /\ chain' = [h \in Heights |-> IF h \in DOMAIN branch THEN branch[h]
                                                              ELSE chain[h]]
    /\ tip' = tip + 1
    /\ UNCHANGED minedAt

(* submit_block accepts a new block: on top of the best chain, or beside   *)
(* the current tip as an alternative that a later branch may contain.      *)
AcceptBlock(b, h) ==
    /\ minedAt[b] = 0
    /\ h \in Heights \ {FirstHeight}
    /\ h \in {tip, tip + 1}
    /\ minedAt' = [minedAt EXCEPT ![b] = h]
    /\ tip' = h
    /\ chain' = IF h = tip THEN chain ELSE [chain EXCEPT ![h] = b]
=============================================================================
