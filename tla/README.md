# A TLA+ model of xmrpool

xmrpool is a Monero mining pool in Go: a stratum server for miners, Redis for the
accounting, and a block unlocker that turns found blocks into credited balances. This
directory models the parts that carry its own logic, checks them with TLC on small
instances and proves, with TLAPS, every invariant they check and the refinement of an abstract ledger.

## 1. The system

| Part | Code | State | Operations |
|---|---|---|---|
| Stratum server | `stratum/stratum.go`, `handlers.go`, `miner.go` | sessions under `sessionsMu`, miners, per session the last height and the last 4 jobs, per endpoint the counters of jobs and extra nonces | login, getjob, submit, keepalived, disconnect |
| Template refresh and broadcast | `stratum/blocks.go`, `handlers.go` | the current template (`atomic.Value`) | refresh at start, by a timer and after a found block; broadcast with a goroutine per session and a bounded channel |
| Write path of shares | `processShare` in `miner.go`; `WriteShare`, `WriteBlock` in `storage/redis.go` | Redis: `pow`, `shares:roundCurrent`, `shares:round<height>:<nonce>`, `blocks:candidates` | duplicate check, share, block |
| Block unlocker | `payouts/unlocker.go` | `halt`, `counter`, the lists of the pass | `unlockPendingBlocks`, `unlockAndCreditMiners` |
| Block and credit transactions | `storage/redis.go` | `blocks:immature`, `blocks:matured`, the two credit logs, balances, `finances` | `WriteImmatureBlock`, `WriteMaturedBlock`, `WriteOrphan`, `WritePendingOrphans` |
| RPC client, failover | `rpc/rpc.go`, `checkUpstreams` | sickness counters, current upstream | calls to monerod, health checks |
| Statistics, web API | `stratum/api.go`, `mmap.go`, the Collect functions of `redis.go`, `www/` | a `Miner` per worker in a sharded map, `roundShares`, `blockStats`; series in Redis that only readers use | counting by sessions, reading and pruning by `StatsIndex`, purging |
| Payments API | `redis.go:349-483` | | no caller in the repository |
| Templates as bytes | `blocktemplate/`, `stratum/blocks.go`, `processShare`, `cnutil/` | the blob of the current template | unpack an answer, write nonces into the blob, convert it for hashing |
| Difficulty arithmetic | `util/util.go` | | target of a difficulty, difficulty of a hash |
| Hashing, configuration, logging | `hashing/`, `cnutil/`, `pool/`, `util/`, `main.go` | | |

Interactions. A session's goroutine reads a request, checks it against its jobs and the
current template, and calls Redis and monerod synchronously. The unlocker is one goroutine
in the same process and meets the sessions only through Redis and the chain. Redis
executes a MULTI/EXEC block or a single command atomically, and nothing larger. The
template is shared without a lock by the refresh timer, the start-up goroutine and every
session that finds a block. The goroutine of `checkUpstreams` changes `s.upstream` under calls that
loaded the old one, and everybody's failures change the health counters it decides on. `StatsIndex`
prunes the maps that sessions count in.

What is hard here. Sessions interleave between the commands of a share; a block is recorded
in several steps of which one is outside the transaction; the chain reorganises while the
unlocker works; calls fail after they took effect; the process dies in the middle of a pass;
broadcasts overtake each other and logins; a lock is held across a blocking send. The
hazards, each with its line, are listed in `PROJECT.json`.

What makes the parts correct. *Write path*: every share counts once, in the round of the
next block. *Unlocker*: a block is in one stage, is credited exactly if it is final on the
chain, is credited once, and is settled in the end. *Ledger*: balances agree with the credit
logs, and the payout of a block with its reward. *Stratum*: no proof of work counts twice, a
miner can submit to the job it was given last, the template follows the chain, and
broadcasts end and reach their sessions. *Failover*: the server uses the first daemon that keeps
answering, and gives up only if none does. *Templates*: the block that is submitted is monerod's with
the nonces in their places, and pool, miner and monerod agree on what a hash is worth.
*Statistics*: no share or block of the windows is lost by pruning.

## 2. Modules

Accounting. `Pool` composes everything below it; `EXTENDS` shares the variables.

| Module | Models |
|---|---|
| `Faults` | failures with a budget: `rpc`, `refused`, `noreply`, `watch`, `read`, `crash`, `send` |
| `Daemon` | monerod as the pool sees it (external): a growing and reorganising chain, `submit_block`, block count, headers |
| `Rewards` | `calculateRewards`, `chargeFee`, the rounding |
| `Storage` | the Redis data and one operator per command or transaction |
| `Writer` | `processShare` after the hash is verified, `WriteShare`, `WriteBlock`: one step per command |
| `Unlocker` | both passes: one step per call to monerod or Redis |
| `Pool` | sessions, unlocker, chain, crash and restart in one specification; the properties |
| `Ledger` | the abstract specification: a block goes once through candidate, immature and final; promises and payments |
| `PoolLedger` | the refinement mapping, and that `Pool` implements `Ledger` |
| `MCPool` | instances for TLC |

Stratum. `Stratum` is one module because handlers, broadcasts and refreshes share almost
all of their state; `MCStratum` is its instance. `Upstreams` is the other half of the server's use of
monerod: the health counters, `checkUpstreams`, and the refreshes and submissions that run meanwhile. It meets
`Stratum` in the template: `Stratum` has one daemon whose tip moves and all of the refresh,
`Upstreams` several daemons whose tips differ and stay. Their composition is out of TLC's reach.

Bytes and numbers. `BlockCodec` is `blocktemplate/` as operators on sequences of bytes;
`Targets` is the arithmetic of `util.go`; `Templates` uses both for what `fetchBlockTemplate`,
`nextBlob` and `processShare` do with a blob; `MCTemplates` is its instance.

Statistics. `Stats` has the statistics in memory, the sessions that write them and `StatsIndex`.

Proofs.

| Module | Proves |
|---|---|
| `SumTheorems` | sums of finite functions: value, bounds, change of a cell, sums of sums, sums over a set that grows |
| `PoolProofs` | of `Pool`: types, stages, finality, the duplicate window, accepted blocks; what a step of each group of actions does to the stores |
| `AccountingProofs` | of `Pool`: rounds, shares, balances, payouts |
| `LedgerProofs` | `Pool` implements `Ledger`, and what follows for blocks and balances |
| `StratumProofs` | of `Stratum`: types, no work processed twice, the given job |
| `StatsProofs` | of `Stats`: types, shares, blocks and rounds |
| `UpstreamsProofs` | of `Upstreams`: types, the exit |
| `TemplatesProofs` | of `Targets`, `BlockCodec` and `Templates`: difficulties and verdicts, the submitted block, what is read of a template, what is hashed |

### How state and actions correspond to the code

*Blocks and proofs of work.* A block found by the pool is a member of `Blocks`; it is its own
hash, its proof of work and the part of the Redis member that identifies it (nonce, extra
nonces, timestamp). The unlocker sees only `NonceOf` it, as the code sees the 4-byte nonce.
Rounds are keyed by height and nonce, credits by height and hash, as in Redis. The hash an
orphan is stored with is `ZeroHash` ("0x0", `serializeHash`).

*A session in `Writer`* holds the command it is about to send (`pc`). `Send(tx, done, failed)`
is a command to Redis: applied and answered, refused, or applied with the answer lost.
The error of the pruning command is ignored by the code, and so in `Prune`. `SubmitShare`
and `SubmitBlock` start from a share whose hash is right; `h \in {tip, tip + 1}` is the
template being up to one block behind.

*The unlocker* has `stage` (which pass), `upc` (the next call) and the lists
`todo`, `maturedBlocks`, `orphanedBlocks`. `Fail` is `halt = true; return`. The counter test of
`halt` is modelled as written: since only the branch it guards increments `counter`, the counter stays
0 and a failed pass is followed by a full one. `Panic` is a nil dereference in a
goroutine without `recover`: the whole process is down until `Restart`, with Redis intact and
memory lost.

*Stratum.* A step is what happens between two accesses to shared state. `refresher[th]` is a
goroutine in `refreshBlockTemplate`: fetch, compare, store, load, lock, spawn. A `task` is a getJob call,
of a broadcast or of a reply, with the message that follows it: swap, push, send, and for a
broadcast receive from the channel and remove. `NoReader` is what a writer of `sessionsMu`
waits for. A template is its `prev_hash` (numbered) and its height; a job's extra nonce and id, two
counters that advance together, are one number. `handler[s]` is the goroutine of a
connection.

*The ledger.* `stage[b]` is the set that holds block `b`; a matured entry is "orphaned" or "paid" by its
flag. `promise[b]` is the entry of `credits:immature` under the height and hash the block is stored with;
`promised` and `balance` are the two balances of every account. A promise is made with the transaction that makes the block
immature, and kept or taken back with the one that ends it; everything else the pool does
(commands of shares, reads, failures, crashes, reorganisations) is a stutter. The ledger leaves open how
much is promised, which is `PaidWithinRounding`.

*Upstreams.* `check` is the goroutine of `checkUpstreams`: post, markAlive, Sick for each client, then the
switch, then the states. `callers` are the goroutines that loaded a client with `s.rpc()` and call it
later. `health` is how a daemon answers: `mute` stands for everything that calls `markSick`, `status` for an
HTTP error, which does not. A template is the number of the daemon it came from.

*Templates.* A byte has `2 * Base` values, a `uint32` `U32Len` bytes, and so on: the widths are constants,
and the bytes of a blob are what the code writes. `Wire` is what monerod writes; it differs from
`PackBlock` by the tag of the input, which `TxInGen` does not know. `offer` is the next answer of
monerod; a fault `hex` cuts its blob at any byte. `ConvertBlob` keeps what a tree hash is the root of
in the place of the root; hashes are equal if and only if what is hashed is, and their value is
an arbitrary function of it (`Hash`).

*Stats.* The sessions are connections of one worker, so they share a `Miner` and can replace each
other's. `counted`, `found`, `attributed` record what happened, to compare the statistics with.

*Abstractions.* Amounts are small numbers with exact integer arithmetic for the rationals of
the code; the fee is the rational `FeeNum / FeeDen`. A map entry of 0 is an absent field.
`Word` is 64 in the configurations (2^64 in the code); subtraction below 0 wraps as in the code. An
HTTP timeout, an error status and a lost answer are the fault `rpc`. Deadlines of connections
are the choice of `Drop`.

## 3. Runs

Every run finishes within four minutes with two workers.

| Run | Checks | Shows |
|---|---|---|
| `settle` | `TypeOK`, `FinalOnChain`, `AcceptedBlockTracked`, `EventuallySettled` | two blocks, reorganisations up to 2 with Depth 3, one failed call: blocks are credited if and only if they stay on the chain, and every deep candidate is settled |
| `rounds` | `RoundIntact`, `SharesConserved`, `PowRemembered` | two sessions at once, a share and two blocks that may have one height: no share is lost, doubled or moved; the duplicate window is long enough |
| `faults` | `BlockInOneStage`, `ImmatureMatchesLog`, `BalanceMatchesCredits`, `PaidWithinRounding`, `ImplementsLedger` | two failures or crashes at any point, panics, a foreign block with a pool block's nonce, two miners and a 5% fee: the balances are consistent, payouts miss the reward by rounding only, and `Pool` implements `Ledger` |
| `jobs` | `TypeOK`, `GivenJobFindable`, `BroadcastReaches` | overlapping broadcasts, login and getjob of a session over a change of tip, also to one of the same height |
| `sessions` | `ProcessedOnce`, `BroadcastEnds` | two connections, one socket failure, a channel of capacity 1 |
| `refresh` | `TemplateCatchesUp` | three refreshing goroutines, tips of one height, a found block, a failed call |
| `failover` | `TypeOK`, `NoHealthyExit`, `MuteExits`, `FollowsHealthy` | two daemons that stop answering, answer with errors, reject a block and recover, against the check, the refresh timer and a miner's block |
| `template` | `Repacks`, `RewardRead`, `SubmitsOfferedBlock`, `HonestShareAccepted`, `HashOfBlock`, `TargetSufficient`, `SubmitsMonerodsBlocks` | the bytes of a template from monerod's answer, whole or cut at any byte, to the submitted block, with changes of tip in between |
| `stats` | `TypeOK`, `SharesKept`, `BlocksKept`, `RoundsAddUp`, `LoginEnds` | two connections of one worker and a reader that prunes, with a clock that moves between any two steps |
| `mismatch` | `MismatchSuspends` (violated) | see Findings |
| `read` | `ImmatureMatchesLog` (violated) | see Findings |
| `login` | `NewJobsSent` (violated) | see Findings |

**Bounds.** `MaxHeight` lets a block found first become final and be followed by further
reorganisations. `Depth` and `ImmatureDepth` are small but keep the order of the real ones
(`1 =< ImmatureDepth =< Depth`); the theorems hold for all values. `MaxReorg < Depth` in `settle` is the
assumption the pool makes by choosing its depth. `MaxWork` bounds shares: two or more are needed
to lose one. `MaxLag` is how far the chain may run ahead of a submission that is being written: the
duplicate window of 3 protects against duplicates up to `PowWindow - MaxLag` heights, which
is what `PowRemembered` says. In `Stratum`, two changes of tip with `MaxJobs = 2` overflow a session's
memory of jobs; a channel of capacity 1 is full with one goroutine; the code's values are 4 and
1024. `MaxCalls` bounds the getJob calls of one session that overlap. `GivenJobFindable` needs
it to be at most `MaxJobs`: with three overlapping calls and two remembered jobs it fails, so in
the code five delayed calls of one session could do the same. `MaxRequests` bounds logins and getjobs.
Symmetry is used for sessions in `rounds` and logins in `faults`, both without
liveness. In `failover`, `Threshold = 2` and `Window = 2` are 5 and 60 in the code: counters that are
neither at their start nor at their end, and a window that slides. Two faults let both daemons fail, or one
fail twice. In `template`, `Base = 4` makes varints of one to five bytes out of small numbers; the values of
heights, timestamps and amounts lie on both sides of a byte's end, and `TxCounts` on both sides of a
count of leaves that takes one byte. `Hash` takes most values below 64, among them zero and both sides
of the difficulties 3 and 9. In `stats` a second is two ticks, a day one second and the luck windows one and two
ticks, so that all of them pass while a session or a reader is between two steps.

**Deadlock** is checked in every run but `failover`, where the process may exit: the unlocker, the refresh
timer, the chain and the reader of statistics never stop.

**Fairness.** `Pool`: a goroutine that can take a step does (Go's scheduler; every RPC and Redis
call ends, as the clients have timeouts), `Start` resets the unlocker's timer after every pass, and the
network keeps mining. Nothing is assumed of miners, failures, crashes or restarts. `Stratum`: the refresh timer is reset after every refresh
(`stratum.go:150`), goroutines run, socket writes end (deadlines). Nothing is assumed of clients
or of the chain. `Upstreams`: the check and refresh timers are reset after every use, goroutines run and calls
end; nothing is assumed of daemons, and `FollowsHealthy` and `MuteExits` have what they need of them as
their premise. `Stats`: goroutines run, `StatsIndex` receives what it iterates over, and a writer that waits for an
`RWMutex` gets it before later readers (strong fairness of `LoginSet`, as Go's locks promise).

**Findings.** Each is a property that a comment, message or test of the repository states.

- `mismatch`: on a reward mismatch `unlockCandidates` returns `nil, err` with a nil `err`
  (`unlocker.go:132`); the caller reads `result.blocks` and the process panics, again after each restart,
  instead of suspending.
- `read`: the result of a failed HGETALL is an empty map (`redis.go:522`), and the log entry is deleted
  without decrementing the immature balances. For this reason the passing runs leave out the fault `read`
  where they check `ImmatureMatchesLog`.
- `login`: the template is read at `handlers.go:28`, the session registered at 44; a broadcast in between
  misses the session.

Seen while modelling, without a run: `TestWriteShareCheckExist` expects a proof of work of height 1010 to
be known at 1016 (`redis_test.go:39-42`), but `checkPoWExist` keeps 3 heights (`redis.go:184`). A failed WATCH leaves `tx` nil, on which HGETALL
is called before the error is looked at (`redis.go:507`; the panic is part of `Settle` and
happens in `faults`). After a reorganisation to a tip of the same height, an honest share for the old
template passes the height test (`handlers.go:86`) and is refused as "Bad hash from miner". A crash or error
between EXEC and the insertion of the candidate (`redis.go:264`), or a lost answer of
`submit_block` (`miner.go:191`), loses the block for the accounting:
`AcceptedBlockTracked` is therefore stated for behaviours without failures. A daemon that answers with HTTP errors is
left by failover but never sick (`rpc.go:179`), so the process does not exit when all of them do. A blob
that is cut inside its last transaction hash is unpacked without an error (`serialize.go:27`) and stored,
and every share is then a bad hash until the next template: the properties of shares are stated for blobs
that are whole. `ConvertBlob` has room for 76 bytes (`cnutil.go:11`), one less than a block
with 127 or more transactions takes. Two blocks of one millisecond share an entry of `blockStats`
(`miner.go:206`), and of two first logins of a worker that overlap, one loses its `Miner`
(`handlers.go:36`).

## 4. Proofs

For every value of the constants that satisfies the named assumptions of the modules
(`DaemonAssumption`, `RewardsAssumption`, `StorageAssumption`, `WriterAssumption`, `UnlockerAssumption`,
`FaultsAssumption`, `StratumAssumption`, `StatsAssumption`, `UpstreamsAssumption`, `TargetsAssumption`,
`CodecAssumption`, `TemplatesAssumption`; TLC evaluates them on each run). The sets of blocks, nonces and
connections are assumed finite, as they are in any execution: properties with a sum or a count say nothing otherwise.

Some theorems have a hypothesis of their own, named where it is defined:

| Hypothesis | Says | Why it is there |
|---|---|---|
| `ReorgsShallow` | `MaxReorg < Depth` | the pool credits at a depth at which it trusts the chain |
| `NoncesDistinct`, `RoundsApart` | two blocks (of the network, of the pool) differ in their nonce | the code tells blocks of a height by the 4 bytes of the nonce (`unlocker.go:123`, `redis.go:249`) |
| `HeadersTell` | a header with a pool block's nonce and the expected reward is that block's | as much of it as balances need: a foreign block with the same nonce may exist, as in `faults`, if its reward differs |
| `RewardsAgree` | a foreign block with a pool block's nonce has its reward | excludes the panic of finding `mismatch`, after which nothing is tracked |
| `ReadsSucceed` | the fault `read` is off | the run `read` refutes the properties otherwise |
| `FeeAddressApart` | the fee address is no miner's login | an account that is both is rounded twice for a block |
| `HeightsAboveWindow`, `LagAllowed` | heights start at `PowWindow` or above; a submission may be one template late | heights of Monero are in the millions, and `handlers.go:86` accepts it |
| `CallsRemembered` | overlapping getJob calls of a session are at most `MaxJobs` | see Bounds: false without it |
| `HashIsNumber` | `Hash` gives a natural number | a hash is read as one |

`CodecAssumption` and `TemplatesAssumption` leave the widths of bytes, integers, timestamps and hashes open; the code's are an
instance. They ask that what monerod sends fits the types it is read into, as it does with the code's widths: a height (with its
tag) below 2^32, an amount below 2^63, fewer transactions than a `uint64` counts. Two are about Monero: a timestamp takes
`TimestampLen` bytes, five until the year 3058 (the constant 39 of `processShare` depends on it), and a template's height is not 0.

**Accounting** (`PoolProofs`, `AccountingProofs`).

- `TypeInvariant`: `Spec => []TypeOK`. One lemma per group of actions. Its substance is arithmetic:
  a candidate's total is positive because it is the sum of a round that holds the share just written,
  and rewards are natural numbers because the total they are divided by is positive.
  This needs `SumFunctionNat` and `SumFunctionBound`: the fold that defines `SumFunction`
  has a value, shown by exhibiting one (the number of cells of the function's bar chart) and by
  minimal counterexample, since induction theorems with an operator parameter are out of the prover's
  reach.
- `OneStage`: `Spec => []BlockInOneStage`. The invariant is not inductive: the unlocker acts on lists it read earlier, and a
  session adds a candidate long after monerod took the block. `StageInv` adds that a stored block has the
  height at which it was accepted (`StoredInv`), that a block being written is not stored
  and has one writer (`WriterInv`: monerod accepts a block once), and that what the unlocker holds is
  still in the set of its pass, once (`ListInv`: nobody else removes from it).
- `Finality`: `FinalInv` adds that the credit pass
  looks only at heights at least `Depth` below the count, and that each list agrees with
  the chain at those heights. `DeepChainStable` says that no step changes the chain there,
  so decisions stay right between the header read and the write, and for ever after.
- `PowsRemembered`: `PowInv` adds that a submission is at most `MaxLag` heights behind (`LagInv`) and that the score
  of a proof of work is at most `MaxLag` below the height it was claimed at (`ClaimInv`), so a prune by
  whoever writes cannot reach it too early.
- `AcceptedBlocksTracked`: `TrackInv` adds that while nothing has failed the process is up, and that
  a block's own submission was the first to claim its proof of work, so that it is not refused as a
  duplicate between `submit_block` and the candidate.
- `RoundsStayIntact`, `SharesStayConserved`: `RoundInv` says that a round that is not empty belongs to one
  block, and is not written again after its RENAME; the sum of the round between EXEC and the insertion
  of the candidate is the total the session holds. The three terms of `SharesConserved` change
  together; which cell changes is the subject of the lemmas of `SumTheorems`.
- `ImmaturesMatch`, `BalancesMatch`: `ItemInv` says what the unlocker holds of a block it read, `KeyInv` that
  a block is stored with its own hash or none, and that an entry of a log belongs to the block that is stored under its key. So a transaction adds to, or takes away, a cell that holds nothing else, and the sums over
  keys and accounts move by the same amounts (`Books`).
- `RewardsFair` and `PaidFairly`: what `calculateRewards` and `chargeFee` hand out, each rounded by itself, is within half a
  unit per account of what the block earned; `RewardInv` carries it from the round, read when it is all there, to the log of the matured block.

**Refinement** (`LedgerProofs`). `PoolImplementsLedger`: the initial states map to the ledger's; a committed transaction
of the unlocker is one step of one block, under the key that nothing else uses; a candidate inserted is the
start of a block's life; every other step is a stutter. It rests on the invariants above. `BlocksSettleOnce` reads the
ledger's steps back as steps of the pool: no step changes the fate of a settled block, and no balance ever falls; it rises
only when one immature block becomes paid.

**Stratum** (`StratumProofs`).

- `ServerTypes`: `TypeInv` adds what a goroutine holds at each of its steps, and that the chain cannot be higher than
  the number of its tips.
- `NeverProcessedTwice`: `UseInv` says that the ids of all remembered jobs differ, and that a proof of work that was processed is `Spent`: every job with its id
  that can still be found has the nonce among its submissions. Between the marking of a nonce and `processed` the handler
  that marked it is the only one to hold it.
- `GivenJobsFound`: `JobInv` says that for the height a session has last, the job is in a call that is about to push it, or in the
  list with fewer jobs behind it than can still push it out, counting the calls that are about to push (`Lasting`).

**Statistics** (`StatsProofs`). `StatsTypes`; `NoShareForgotten` (`MinerInv`: without overlapping first logins there is one
`Miner`, and nothing was counted before it), `NoBlockForgotten`, and `NoRoundShareLost`, where what a session holds between `SwapInt64`
and the block it attributes counts for the sum.

**Failover** (`UpstreamsProofs`). `UpstreamsType` and `NoHealthyExitEver`, for any list of daemons, threshold and window. The invariant that makes it inductive
is `SickIsShort`: while a daemon is sick, `successRate` counts the row of answers since its last
failure, and is below the threshold. The exit needs the newest of the states to be that all are sick
(`ExitNeedsAllSick`, which rests on what slicing and appending do to a sequence, `RecentOfAppend`), and an
ended process does nothing more.

**Difficulties** (`TemplatesProofs`). `BlockIffMonerodAccepts` and `TargetSuffices`: for hashes, difficulties and
targets of any size, the pool takes a hash for a block exactly if monerod does, and never refuses as low a
hash below the target it sent, although two divisions and the cut to four bytes round.
`SubmittedIffMonerods` and `TargetsSuffice` state it of every reachable share (`VerdictInv`).

**The submitted block** (`TemplatesProofs`). `OfferedBlocksSubmitted`: `Spec => []SubmitsOfferedBlock`, for blocks with any number of
inputs, outputs and transactions. A block in binary form is five pieces, of which the nonce and the extra field are two
(`WireParts`), `ReservedOffset` and `NonceOffset` are where they begin (`OffsetIs`), and writing over a piece with one of its
length changes no other (`CopyMiddle`). `BlockInv` says that a template keeps the offset of the block it was made from. `PackVarInt` and
`FlattenSeq` are recursive functions, `CHOOSE`n from the solutions of an equation: that there is one is shown by putting it
together from solutions up to a bound, arguing about the least bound that has none (`PackUpTo`, `FlatExists`).

**Reading a template** (`TemplatesProofs`). For blocks with any number of transactions, cut at any byte.

- *Numbers.* The value of digits, and the powers of the width of a byte, are recursive functions with the same equation
  (`IsLinear`), of which there is one solution (`LinearExists`, `LinearUnique`). A varint is read as it was written, whatever follows it, and
  if the blob ends inside of it not at all (`ReadVarInt`, `CutVarInt`); a `uint32` and an array of bytes are read as written
  (`ReadU32`, `ReadBytes`), but one that is cut is filled up (`CutU32`, `CutBytes`).
- *Structures.* `ReadOf(r, b, F, rest)` says that the fields `F` are read as they are in `b`, with `rest` left over; each reader adds its
  field (`VarIntRead`, `BytesRead`, `HeaderRead`, `VinOne`, `VoutOne`, `TxHashesRead`).
- `BlocksRepacked`: `OfferInv` says that the block on offer is `Readable`, with each number within the type it is read into.
  `TagIs` is why `TxInGen` may forget the tag: as the tag has the bit of a varint that continues, the tag and the
  height are the varint of another number (`Tagged`). `BlockRead` reads a block with that number as its input
  (`AsRead`), and `Rewritten` packs it into the same bytes. This fails for height 0, which is the genesis block.
- `RewardsRead`: with `RewardInv`. A field that has been read stays what it is, and a blob that is cut before the amount of the first output
  ends in an error (`Has`, `WithKeeps`, `CutReward`).
- `HonestSharesAccepted`, `HashesOfBlocks`: `HashedInv` says that a job's blob is converted from the template with
  the job's extra nonce, a share's from its buffer, and that the verdict compares the two. `ShareBuffIs` and `ConvertIs` show
  that conversion keeps the header and the root of what it was given, so that filling in the nonce before it or after it is the
  same.

**Only model-checked.** Liveness (`EventuallySettled`, `BroadcastReaches`, `BroadcastEnds`, `TemplateCatchesUp`, `MuteExits`,
`FollowsHealthy`, `LoginEnds`): the prover knows neither fairness nor `ENABLED`. Every invariant of a passing run is a
theorem, and so is `ImplementsLedger`.

## 5. Not modelled

- The hashrate series in Redis, `FlushStaleStats` and the Collect functions (nothing of the accounting depends
  on them, most Collect functions have no caller, and their product with `Stats` exceeds what TLC can
  explore); the JSON and JavaScript of the front end.
- The payments API (`redis.go:349-483`), `GetInfo`, `UpdateInfo`, `ToHex`, `FromHex`, and `Remove`, `Count`,
  `Has`, `IterBuffered` of the map: no caller.
- The RandomX and Keccak libraries, address validation, TLS, reading and decrypting the configuration, logging: I/O and
  libraries.
- `keepalived` and unknown methods answer without touching shared state. A TLS connection runs the same
  loop as a plain one.
- In `Templates`: a `prev_hash` that is empty, for which heights are compared (`blocks.go:56`), since
  monerod always sends it; `BypassShareValidation`, which takes the miner's word for the hash. In `Upstreams`, an
  answer with neither a result nor an error.
- The wrap of the `uint32` extra nonce after 2^32 jobs of one template.

The refinement leaves out the fault `read`, under which the code does not implement the ledger (finding
`read`), and a block whose reward disagrees (finding `mismatch`).

## 6. Plan

Done, in this order: storage, write path and unlocker (`Pool`), type and finality proofs, `Stratum`,
`Upstreams` with its proof, `Ledger` and the refinement, the codec and `Templates`, `Targets` with its
proofs, `Stats`; then the proofs of rounds, balances, payouts and the duplicate window, of the refinement,
of the safety properties of `Stratum`, `Stats` and `Upstreams`, and of all of `Templates`; then what the
refinement says of blocks and balances.

Next:
1. `FlushStaleStats` against concurrent writers of the series, as a module of its own.
2. `Upstreams` with tips that move, so that failover to a daemon that is behind meets a stale job.
