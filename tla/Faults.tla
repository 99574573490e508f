------------------------------- MODULE Faults -------------------------------
(***************************************************************************)
(* The failures the environment may inject, with a budget.                 *)
(*                                                                         *)
(*   rpc      a call to monerod fails, or its answer is lost               *)
(*   refused  a Redis command fails and is not applied                     *)
(*   noreply  a Redis command is applied, but the caller sees an error     *)
(*   watch    WATCH fails                                                  *)
(*   read     the HGETALL inside a WATCHed transaction fails               *)
(*   crash    the pool process is killed                                   *)
(*   send     a write to a miner's connection fails                        *)
(*   hex      the blob of a template cannot be decoded to its end          *)
(*   mute     a daemon stops answering, or answers with JSON-RPC errors    *)
(*   status   a daemon answers every call with an HTTP error status        *)
(*   reject   a daemon refuses a block with a JSON-RPC error               *)
(***************************************************************************)
EXTENDS Integers

CONSTANTS
    FaultKinds,     \* the kinds of failure that may happen
    MaxFaults       \* bound: how many may happen

ASSUME FaultsAssumption == MaxFaults \in Nat

VARIABLE faults     \* how many have happened

FaultsInit == faults = 0

Fault(kind) ==
    /\ kind \in FaultKinds
    /\ faults < MaxFaults
    /\ faults' = faults + 1
=============================================================================
