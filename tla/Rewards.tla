------------------------------ MODULE Rewards ------------------------------
(***************************************************************************)
(* How the reward of a block is split (payouts/unlocker.go).  The code     *)
(* computes with exact rationals and rounds every amount once, to the      *)
(* nearest integer with halves away from zero (big.Rat.FloatString(0)).    *)
(* The fee, a float64 percentage, is the rational FeeNum / FeeDen here.    *)
(***************************************************************************)
EXTENDS Integers, FiniteSets, Functions

CONSTANTS
    Logins,             \* addresses miners log in with
    FeeNum, FeeDen,     \* poolFee / 100
    PoolFeeAddress,     \* configured fee address, or NoAddress
    NoAddress,
    LowerCase,          \* strings.ToLower on addresses
    KeepTxFees          \* the pool keeps the transaction fees

ASSUME RewardsAssumption ==
    /\ IsFiniteSet(Logins)
    /\ FeeNum \in Nat /\ FeeDen \in Nat \ {0} /\ FeeNum =< FeeDen
    /\ KeepTxFees \in BOOLEAN
    /\ PoolFeeAddress # NoAddress => PoolFeeAddress \in DOMAIN LowerCase

(* Every account that a round may credit. *)
FeeAccounts == IF PoolFeeAddress = NoAddress THEN {} ELSE {LowerCase[PoolFeeAddress]}
Accounts == Logins \cup FeeAccounts

(* FloatString(0) of the non-negative rational a / b. *)
RoundRat_Up(a, b) == (a + b - 1) \div b
RoundRat(a, b) == (2 * a + b) \div (2 * b)

(* chargeFee: numerators, over FeeDen, of what the miners and the pool get. *)
MinersProfit(value) == value * (FeeDen - FeeNum)
PoolProfit(value) == value * FeeNum

(* calculateRewardsForShares: login with n of total shares, profit / FeeDen. *)
RewardForShares(n, total, profit) ==
    IF n = 0 THEN 0 ELSE RoundRat(profit * n, FeeDen * total)

(* calculateRewards: the amount every account is credited for a round.     *)
(* The pool's profit, with the transaction fees if it keeps them, goes to  *)
(* the lower-cased fee address.                                            *)
CalculateRewards(shares, total, reward, extra) ==
    [a \in Accounts |->
        (IF a \in Logins THEN RewardForShares(shares[a], total, MinersProfit(reward))
                         ELSE 0)
        + (IF a \in FeeAccounts THEN RoundRat(PoolProfit(reward) + extra * FeeDen, FeeDen)
                                ELSE 0)]
=============================================================================
