# Specifications of blitz

TLA+ models of the wallet service in this repository, the TLC runs that check
them on small instances, and proofs, checked by TLAPS, of what matters most.
Paths are relative to the repository; `PROJECT.json` maps every definition to
the lines it models.

The service runs as several replicas of one process (`cmd/wallet-service`).
They share a PostgreSQL database, an etcd cluster and one node per chain
(bitcoind, geth). There is no lock in memory that matters to the money: what
keeps the replicas apart is a lease-based lock in etcd, an elected leader, and
constraints and status columns of the database. Each of these is read in one
call and relied on in a later one. That is what the models are about.

## Inventory

| Component | State | Operations | Interacts with | Hard part | What makes it correct |
|---|---|---|---|---|---|
| Distributed lock, `internal/lock/lock.go` | leases and keys in etcd | `Acquire`, `Release` | called by `Withdraw` | lost answers, ignored `Revoke` errors, no keepalive, crashes | at most one holder per key with a live lease; keys are freed again |
| Withdrawals, `internal/api/wallet.go` | `withdrawals`, `users.level`, `withdrawal_limits` | `Withdraw`, `ApproveWithdrawal`, `RejectWithdrawal`, `UpgradeUser`, `UpdateWithdrawalLimit` | lock, database, chain | balance read long before the money moves, reviews without lock, unconditional `UPDATE` | no withdrawal is paid twice, payments are covered by deposits and stay in the daily limit |
| Deposit addresses, `wallet/btc/btc.go`, `wallet/eth/eth.go`, `wallet/types/types.go` | registry per replica, `deposit_addresses` | `GenerateDepositAddress`, `Register`, `Lookup`, restoration at start | watchers | registry and table diverge; the index is a 32-bit hash of the user id | an address a user holds is watched and belongs to that user |
| BTC and ETH watchers, `wallet/btc/watcher.go`, `wallet/eth/watcher.go` | `lastHeight`, `lastHash` | `Start`, `scanNewBlocks`, `processBlock` | node, registry, channel | failed fetches, reorganisations, restarts | each payment is seen once it is in a block |
| Deposit consumer, `cmd/wallet-service/main.go` | channel of 100, `deposits`, `dead_letters` | insert with retries, dead letter | watchers, database | full channel, lost answers, `UNIQUE tx_id`, other replicas | nothing vanishes, nothing is credited twice |
| ConfirmChecker, `wallet/core/confirm.go` | leader key and lease in etcd, `deposits.confirmed` | `campaign`, `check` | etcd, nodes, database | lease lost inside `check`, partial updates | only deep deposits are confirmed, and they are in the end |
| Login and tokens, `internal/api/auth.go` | `refresh_tokens`, `password_reset_tokens`, `users.password` | `Register`, `Login`, `Refresh`, `Logout`, `ForgotPassword`, `ResetPassword` | database, e-mail | two-step rotation with ignored errors, refresh racing a reset | a session that was ended stays ended |
| RBAC, `auth/rbac.go` | `user_roles`, `role_permissions` | one query per request | database | - | a request passes only with its permission |
| Rate limiter, `api/ratelimit.go` | token buckets in memory | `Allow`, `cleanup` | every route | cleanup of a bucket in use | bound on the requests of an interval |
| Hot wallet and sweeper, `wallet/*/withdraw.go`, `wallet/sweep/sweeper.go` | nonce and balance on the chain | `Withdraw`, `Run` | chain; separate processes | nonce and balance read before the send | one nonce, one transaction; the kept balance |
| Reconciler, `wallet/reconcile/reconciler.go` | none (reads) | `Run` | nodes, `deposits` | blocks that fail to load, several outputs per transaction | findings are right |
| Configuration watcher, `config/watcher.go` | current RPC clients | `Start`, `handleEvent` | etcd | changes outside the watch | clients follow the configuration |
| Key rotation, `wallet/core/rotation.go` | generations and branches | `DeriveNext`, `ActivateBranch`, `DeprecateBranch` | HD wallet | long call sequences | one branch per generation, active one not deprecated |
| HD wallet, seed file, `wallet/core/hd.go`, `seed.go` | master key | `DerivePath`, encryption | - | index arithmetic modulo 2^32 | a printed path is read back as the child meant |
| Audit, metrics, e-mail, HTTP plumbing, tools, frontend, charts | none that the program reads | - | - | - | not modelled |

`PROJECT.json` lists the hazards of these components at their lines, with the
properties that cover them.

## Modules

```
UserLock <---implements--- DistributedLock        (etcd lease and transaction)
   ^
   | INSTANCE
Withdrawals                                       (handlers over database, chain, lock)

Chain <--- DepositService <--- BlockWatcher <--- BtcWatcher, EthWatcher
  ^                                                  | implement
  |                                                  v
  +--- ConfirmChecker ------- implements ----> DepositLedger
  ^
  |
Reconciler

Sessions    <---implements--- AuthTokens
TokenBucket <---implements--- RateLimiter

Jobs  = EthHotWallet + BtcHotWallet + Reconciler (either chain)
Parts = RateLimiter + ConfigWatch + Rotation + AddressIndex + Amounts
```

`Chain` is extended by `DepositService`, `ConfirmChecker` and `Reconciler`. `Jobs`
and `Parts` put components side by side that share no state with each other, and
with the rest only through the chain nodes.

| Module | Models |
|---|---|
| `UserLock` | abstract lock: what `Acquire`/`Release` promise, including that ownership may lapse unnoticed |
| `DistributedLock` | `lock.go` and etcd, one action per RPC and outcome |
| `DistributedLock_proofs` | type correctness, exclusion, refinement of `UserLock` |
| `Withdrawals` | the handlers of `wallet.go` and `admin.go`, one action per query or RPC, on top of `UserLock` |
| `Withdrawals_proofs` | type correctness, exclusion of the checked section, payments and statuses, cover by deposits, daily limit |
| `Chain` | external: blocks, reorganisations, payments |
| `DepositService` | registry, channel, consumer, life of a replica, shared by both chains |
| `BlockWatcher` | what both watchers do alike |
| `BtcWatcher`, `EthWatcher` | the two scan loops and what they do with a block that cannot be fetched or does not fit |
| `BtcWatcher_proofs` | what the scan offers, fate of offered records, refinement of `DepositLedger` |
| `EthWatcher_proofs` | what the scan works through and offers, causes of an alarm, fate of offered records, refinement of `DepositLedger` |
| `DepositLedger` | abstract: rows stand for payments that were in the chain, one per transaction, confirmed when deep |
| `ConfirmChecker` | election and confirmation |
| `ConfirmChecker_proofs` | leadership and key, one leader up to expiry, refinement of `DepositLedger` |
| `Amounts` | the arithmetic of BTC withdrawals in floats, decimals and satoshis |
| `EthHotWallet` | ETH withdrawals and `sweepETH` on one account, one action per RPC |
| `BtcHotWallet` | BTC withdrawals and `sweepBTC` on one bitcoind wallet |
| `Sessions` | abstract: refresh tokens are issued once, end, and stay ended |
| `AuthTokens` | the six handlers of `auth.go`, one action per query or mail |
| `AuthTokens_proofs` | type correctness, causes of a surviving session and of a link used twice, no lock-out, refinement of `Sessions` |
| `Reconciler` | a run of `reconcileBTC` or `reconcileETH` while chain and table move |
| `TokenBucket` | abstract: what a rate limiter promises each client |
| `RateLimiter` | `Allow` and `cleanup` |
| `ConfigWatch` | the etcd watch for RPC addresses, restarts included |
| `Rotation` | `RotationPlan` (which only tests construct so far) |
| `AddressIndex` | `GenerateDepositAddress`: the derivation index of a user id in uint32, `parsePath`, and whose address it is in registry and table |
| `Jobs` | the sweeper on either hot wallet and the reconciliation of either chain, one of which moves in each behaviour |
| `Jobs_proofs` | nonces without a gap, causes of a displaced transaction, what sweeps leave, what a reconciliation reports |
| `Parts` | the rate limiter, the configuration watch, the deposit addresses, the rotation plan and the amounts, in the same way |
| `Parts_proofs` | refinement of `TokenBucket`, consistency of the rotation plan, the address in use, rounding of amounts, indices and paths |
| `MC*` | definitions that the configurations need |

### How state and actions correspond to the code

*Lock.* A session is one call of `Acquire` and the `Release` after it. `pc` is
the place in the function, `lease` and `guard` are etcd's. `TxnSucceeds`,
`TxnAnswerLost` and `TxnRefused` are the three outcomes of `Commit` (its effect
and its answer are independent); `Undo` and `Release` send a `Revoke` whose
error the code ignores, so each has an outcome in which nothing happens.
`LeaseExpires` may happen at any time, as the code never renews a lease, and
`Crash` ends every session of a process.

*Withdrawals.* A request is named like the row it may insert. `stage[r]` is the
next database or chain call of `Withdraw`; `seen[r]` is the one value it has
read and still needs. `Submit` is validation and a successful `Acquire`
(`UserLock!Enter`); every return releases the lock (`Return`, with or without
the `Revoke` reaching etcd). The second query of the balance check and the
query of the daily limit are evaluated together with the comparison after
them, since nothing is shared in between. `broadcastWithdrawal` is one call
that may fail with the transaction sent or not. A review loads its row with
`LoadPending` and acts on it later. `WriteStatus` is
`AdminApproveRejectWithdrawal`, whose error every caller ignores. Three history
variables state causes, and no action reads them: `unrecorded` (paid, the
outcome never reached the row), `overlapped` (a review loaded a row that another
handler held) and `blind` (a balance check passed while earlier money was
promised and not counted).

*Deposits.* A payment is an output (BTC) or a transaction (ETH) to one deposit
address and also stands for that address; `TxOf` groups outputs into
transactions, which the `UNIQUE tx_id` is about. The select with `default` is
`Offer`: it appends or drops. `StoreFails` covers a conflict, a database that
is away and an answer that was lost. `Stop` empties channel and registry.
A watcher moves through `wait`, `poll` (the call for the tip, which may fail or
bring nothing new, `PollInVain`), `fetch`, `block` (payments looked up one by
one, so that the registry may change meanwhile) and, for ETH, `alarm`.
`FetchFails` is where the chains differ: BTC passes the block over, ETH ends
the scan and leaves `lastHeight` alone, while `lastHash` has already moved if a
block was worked through. `broken` is history: the replicas of which that is so,
until a step back puts the two in step again.

*Confirmation.* `stage[n]` is the next call of `campaign` or `check`. A lease
identity may be used again once no replica holds it. A leader leaves `lead` by
`LeaseLost` only between two checks, and the ticker may win against the closed
channel, as in Go's `select`. `Heights` takes 0 for a height whose RPC failed.

*Tokens.* A request is named like what it inserts: a login or refresh is its
refresh token, a request for a reset its link, a password the request that chose
it. `stage[r]` is the next query. Every query may fail (`Fail`, as does a replica
that stops or a client that goes away, whose context ends) and an insert or
update may succeed without its answer (`IssueUnanswered`, `UpdateUnanswered`).
Revocations whose error the code ignores have an outcome that changes nothing.
A client presents what it was answered or mailed. `opening`, `late`, `marked` and
`kicked` are history; `opening[t]` is the login at the start of the chain of
refreshes that led to `t`, so that a session is a set of tokens.

*Hot wallets.* `stage[x]` is the next RPC of a withdrawal or a sweep. geth's pool has
one transaction per nonce, replaces it at a higher price, and refuses what the
account cannot pay for; bitcoind picks coins and fee. A withdrawal reads the
nonce first, the sweep reads it last; that order decides which of them can
displace the other. `rivals` and `overtaken` record who else was between its read
and its send.

*Reconciliation.* `known`, `snapshot` and `seen` are `addrSet`, `dbByTxID` and
`seenOnChain`. Looking a row up by transaction is `RowOf`. The loop variable is
`h`; a block that cannot be fetched only adds to the history variable `failed`. A
payment has one `Value` on both sides, so a mismatch stands for a row that holds
another amount; whether the two conversions of wei to decimals agree
(`reconciler.go:294-295`, `eth/watcher.go:129-133`) is not modelled.

*Rate limiter.* Time and tokens are measured in ticks, so that the float
`elapsed * rate` becomes an integer; a token is worth `Cost` ticks. The model
clock is bounded; `Idle` stands for the five minutes of `cleanup`, and
`IdleAssumption` is what makes the deletion harmless. It holds for both
limiters of `handler.go:34-35`, which fill in 50 seconds.

*Configuration.* `queue[n]` are the events a watch has delivered to the channel.
`CloseWatch` may drop a tail of them. The BTC client takes any address, the
empty one of a delete event included, since it does not connect in POST mode;
the ETH client may refuse any and must refuse the empty one.

*Amounts.* A float is the integer number of `Ulps` it holds, with `Precision`
significant bits and rounding to even; rows are exact integers. `Parse`, `Minus`,
`Plus`, `ToRow`, `NewAmount` are the five places where wallet.go leaves one
representation for another. The model has eight bits and two decimals in place
of 53 and eight, and requests in quarters of a unit, so that ties and both sides
of a tie occur. Three assumptions say what the instance has in common with the
code. `PrecisionAssumption`: four times the largest sum of units fits the mantissa
(for BTC, 21 million coins are 2^51 units). `LimitAssumption`: so does six times
the daily limit, unless nobody can reach the limit. `ExponentAssumption`: no
underflow. The second came out of the proof. Without it `used + amount` may round
down to the limit while the rows pass it by a unit; with eight bits, a limit of 60
and 63 units deposited TLC finds such a request. For the code the assumption leaves
out limits of 15 to 21 million coins. The program starts with limits of 2 to 200
coins; an administrator may set any, and nothing refuses such a one.

*Deposit addresses of users.* A request goes through the digits of its user id,
one per step, and `index` follows as the loop does, modulo 2^32; a uint32 is a pair
of halves. Key derivation is a function, so the index stands for the address.
`Answer` registers the address (the last user wins) and inserts the row (`ON CONFLICT
DO NOTHING`: the first wins) or fails to; `Restart` fills the registry from the
table. `told` is history. The index wraps around from the seventh digit on, and ids
are serial numbers without a bound, so two users can have one address: 1012 and
14669600 is the first such pair, found by enumeration, and both are among the ids of
the run. The registry then credits the deposits of the address to the user who asked
last, and after a restart to the one who asked first. What does hold, and is what
`AddressesAreRight` says, is that ids below a million share with none of each other. One chain and one replica are modelled; ids in the
runs are chosen with an index below 2^31, which TLC's integers can print.

## Runs

Bounds are the constants of the configurations; the guards they appear in are
in `Chain` (`MaxHeight`, `MaxReorgs`, `MaxDepth`), `DepositService`
(`Capacity`, `MaxRetries`), `ConfirmChecker` (`MaxCrashes`, `Lease`) and
`Withdrawals` (`MaxDeposit`). In the newer modules they are `Rounds`
(`AuthTokens`: which requests are made together), `MaxFunds` (hot wallets),
`MaxTime` (`RateLimiter`), `MaxBranches` (`Rotation`), `MaxWrites` and `MaxBoots`
(`ConfigWatch`), `MaxUsers` (`AddressIndex`), `MaxUnits` (`Amounts`). Runs on
finite data switch the deadlock check off because requests, blocks and sessions
run out.

`jobs` and `parts` each check several components that share no state. The
variable `job` or `part` is chosen in the initial state and says which component
moves; the others stay where they begin, so a behaviour is one of that component
alone and the run is the sum of the runs of its parts. `ReportsAreRight`,
`SweepsLeaveKeep`, `RotationIsSafe` and `RoundingIsHarmless` are
conjunctions of the named properties of those modules.

The type invariants of the modules without a proof say what the variables range
over; no run spends a property on them.

| Run | Shows | Why the bounds are enough |
|---|---|---|
| `lock` | a key is guarded by a live lease, a holder owns it until expiry whoever undoes or releases beside it, and it is freed again; `lock.go` implements `UserLock` | three callers: a holder, one that is refused and one that overtakes; two keys, two processes |
| `withdraw` | exclusion, causes of a double payment, coverage by deposits, the daily limit, final statuses | two requests and two reviews are needed for every race of the code; one replica approves automatically, one does not, and as the answer of `CreateWithdrawal` may be lost in automatic mode, the manual behaviours of both requests are included; amounts are 1, deposits go to 2, limits are 0 and 1, so that each comparison is met at and beside its boundary |
| `btc` | one replica with restarts; two outputs of one transaction; every payment settles | channel of one place so that it fills, two attempts |
| `btc_two` | two replicas, a reorganisation: no payment has two rows | one payment is found by both, twice each |
| `eth` | failed fetches, alarms, a reorganisation two blocks deep; the watcher catches up | two blocks, both replaced; for ETH a row is keyed by transaction, so one payment is enough |
| `confirm` | leadership, only deep rows confirmed, and all of them | two replicas, two leases of which a dead replica may hold one, one crash, one reorganisation, two confirmations |
| `auth` | causes of a session that outlives a reset, nobody is locked out by a refresh, causes of a link that works twice; `AuthTokens` implements `Sessions` | three rounds: one user with a session renewed twice, or by two refreshes at a time, a logout and a reset; one link used by two resets; two users, so that a reset that ends the tokens of another would show |
| `jobs`, ETH wallet | a payment is displaced only by a rival with its nonce, no gaps between nonces, what a sweep leaves | two withdrawals and a sweep: one to hold a nonce, one to take it, one to read the balance; prices below, at and above the cap |
| `jobs`, BTC wallet | what a sweep leaves | two sweeps that overlap, two withdrawals, a fee at and above the buffer |
| `jobs`, reconciliation of BTC | causes of a phantom; a quiet run is exact | two outputs of one transaction; a window of two blocks and a chain of three, so that rows fall outside it; one reorganisation of up to two blocks |
| `jobs`, reconciliation of ETH | causes of a missing report; a quiet run is exact | as above, with two transactions |
| `parts`, rate limiter | `RateLimiter` implements `TokenBucket`, which lets a client in as often as a full bucket and the time allow | two clients; a bucket of two tokens that fills in four ticks and is deleted after three, at the boundary of `IdleAssumption`; eleven instants, so that a deleted bucket is used and deleted again |
| `parts`, configuration | the address in use is the stored one unless missed or refused; what is put during a watch is used | one replica (they do not interact) that starts twice, two changes of each key |
| `parts`, index | only an id of more than six digits can share an address; a path is read back as the child meant | eleven ids of one to eight digits, among them the largest of six, the smallest of seven and a pair with one index; two answers, in either order, with restarts and failed inserts between them |
| `parts`, rotation plan | list, active generation and path agree; what makes a deprecated branch active | five branches |
| `parts`, amounts | rounding creates no money; bitcoind pays what the row says; the limit holds for rows; a refusal errs by less than a unit | sums cross several powers of two, where the float step changes; every request in quarters of a unit up to all that was deposited |

Runs that end in a violation check what a document or a comment says and the
code does not do; each is a finding in `PROJECT.json`:

| Run | Behaviour found |
|---|---|
| `withdraw_broadcast_twice` | two approvals load the same pending row and both broadcast |
| `withdraw_spent_twice` | two pending rows are each covered by the same balance and both approved |
| `eth_not_rescanned` | a payment in a replaced block below the last one is never looked at |

More disagreements show in the models as they stand, through the weaker
property that does hold, and have no run of their own.

| Said | What the model shows | Property that holds |
|---|---|---|
| `docs/design/wallet-core.md:98`: one holder of a lock | two after an expiry | `MutualExclusion` |
| `docs/design/wallet-core.md:90`: one leader | two replicas may be inside `check` | `OneLeaderUpToExpiry` |
| `FORGET.md:168`: a failed withdrawal is reviewed again | a failed row never is | `SettledStays` |
| `README.md:36`: dead letters keep every record | gone when the dead letter cannot be written | `OfferedIsAccountedFor`, by `lost` |
| `docs/design/basic-concepts.md:24`: different users have different keys | 1012 and 14669600 have one deposit address | `AddressesAreRight` |
| `docs/guide/zh-CN/withdraw.md:22`: success writes the row | an automatic withdrawal is answered completed and stays pending in the table | `DoublePaymentNeedsCause`, by `unrecorded` |
| `internal/wallet/eth/watcher.go:91`: the alarm means a reorganisation | a scan cut short by a failed fetch raises it too | `AlarmHasCause` |
| `snapshots/SNAPSHOT-2026-03-19-1.md:190`: six confirmations protect from reorganisations | `check` compares heights; a row whose payment left the chain is confirmed | `ImplementsLedger` of `confirm` |
| `cmd/wallet-service/main.go:99`: a restart forgets no address | one whose insert failed is unknown | `SeenUnlessSkipped`, through `Concerns` |
| `internal/api/auth.go:335`: a reset ends every session | a refresh let in before it issues a token after it | `StaleSessionHasCause` |
| `docs/guide/zh-CN/auth.md:140`: the old token is invalid at once | two refreshes at a time renew one token twice | `NeverLockedOut` |
| `FORGET.md:180`: a sweep leaves the kept amount | a pending withdrawal is not in the balance it reads | `SweepLeavesKeep` |
| `FORGET.md:137`: a phantom is not on the chain | a block that could not be fetched turns its rows into phantoms | `PhantomHasCause` |
| `FORGET.md:137`: missing is what the table lacks | the second of two equal outputs matches the row of the first | `QuietRunIsExact`, by `RowOf` |
| `FORGET.md:30`: six requests a minute | a full bucket and a minute let in eleven | `ImplementsTokenBucket` |
| `internal/wallet/core/rotation.go:97`: the active branch is not deprecated | going back to a deprecated branch keeps the mark | `OnlyReturnRevives` |
| `internal/wallet/core/rotation.go:51`: the next generation is derived | two calls list one generation twice | `PlanIsConsistent` |
| `docs/design/etcd-architecture.md:128`: a change is used at the next call | not if it came while the replica started or after its watch closed | `CurrentUnlessMissed` |
| `docs/design/wallet-core.md:200`: `NUMERIC(20,8)` avoids rounding | a request for exactly the balance may be refused; in float64, 0.3 deposited, 0.1 withdrawn, 0.2 asked | `RefusedNearTheBalance` |
| `internal/api/wallet.go:180`: no amount that is not positive | a positive request below half a unit becomes a row of zero | `RowsAreCovered` |

### Fairness

- Lock: only that etcd lets leases run out. Nothing is assumed of callers.
- BTC watcher: the watcher goroutine and the consumer are scheduled (weak
  fairness of their whole step, with any outcome), and the poll for the tip does
  not fail for ever (strong fairness of `Poll`: the ticker repeats it every three
  seconds). Without the latter, which is an assumption on the node, no payment need
  ever be seen. The calls that fetch a block may fail always.
- ETH watcher: the same (the poll is `HeaderByNumber`). In addition no block stays
  out of reach for ever, and neither
  does the one fetched after an alarm (strong fairness per height, as a failed
  fetch is retried at the next poll). Without it a watcher may be stuck at one
  block, which is true of the code as well.
- ConfirmChecker: the goroutines run, a dead replica is restarted, a lease that
  nobody holds expires, and a call that is repeated for ever succeeds one day
  (strong fairness: the campaign repeats every three seconds, `check` every
  thirty).
- Configuration: a replica that runs opens its watch and handles its events
  (weak fairness). Nothing makes an operator act, a stopped replica start or a
  closed watch open again; the code does none of these.

The other new modules state safety only: their requests may stop anywhere, and
nothing in the code retries them.

## Proofs

The theorems of the `_proofs` modules hold for every value of the constants
that satisfies the named assumptions: `None` is neither a session, a key, a
bucket, a record, a user nor a request; hosts are processes; requests to the
handlers are distinct; withdrawals and sweeps are distinct and finitely many,
their prices and amounts positive; the daily limits an administrator may set are
finitely many (`LimitsAssumption`: the model speaks of the largest); bounds of
chain, channel and retries, required confirmations, caps, limits and times are
natural numbers; a bucket fills no slower than `cleanup` deletes it; all deposited
units are fewer than a quarter of the mantissa, and a limit that can be reached fewer
than a sixth; a user id is a sequence of digits. `Jobs` and
`Parts` repeat the assumptions of the modules they put side by side
(`WalletAssumption`, `ReconcileAssumption`, `ConfigAssumption`, `ListAssumption`,
`MoneyAssumption`), so that TLC evaluates them and the proofs can cite them.

- *Lock.* `GuardIsLive` together with `TypeOK` and `HolderOwns` is inductive:
  exclusion alone is not, since it says nothing of a key whose owner has left
  and whose lease still lives. `ExclusionUpToExpiry` follows from `HolderOwns`:
  two holders with live leases would both be the value of `guard[k]`.
  `LockRefinement` maps each step of `lock.go` to a step of `UserLock` or a
  stutter. Run `lock` checks all of these but the type invariant.
- *Withdrawals.* The checked section is exclusive because a request in it is
  `inside` its account (`Return` and `Crash` keep the two together) and
  `UserLock`'s `InsideOwns` is inductive. `DoublePaymentCause` needs an invariant
  that ties `sent`, the row's status and the handlers that hold the row: as long
  as a row is neither `unrecorded` nor `overlapped`, it has one handler at most,
  `sent` is 0 until that handler has broadcast, and 1 only when the status is no
  longer pending or the handler is about to write it. `FinalStatusStays` follows
  from the same invariant: a handler that still holds an unoverlapped row finds
  it pending.
- *Money of withdrawals.* `SpendingCovered` and `SpendingLimited` are about sums
  over the rows of an account, so what a sum does when a row joins or changes has to
  be proved first. The community modules define a sum by a recursive function on sets;
  that it exists and does not depend on the order is shown by taking the smallest
  counterexample (`WFMin` states this about a set, not about a predicate, so that no
  operator has to be instantiated), and from then on only `SumTakeOut` and
  `SumMonotonic` are used. The invariant (`MoneyPart`) speaks of accounts that are
  not `blind` and have no unrecorded or overlapped row. In such an account at most one
  row escapes a balance check, the balance that row has read is still there, and the
  rows a check counts or cannot see stay within the deposits together. The second
  part is what `SpendingCovered` alone lacks: between the read of the deposits and
  the comparison nobody else may take money.
- *Rate limiter.* The type invariant is inductive with one more fact: no bucket was
  last looked at in the future. The refinement maps a bucket to what it would hold
  if it were filled all the time. `Allow` then computes exactly that amount, a tick
  earns one unit, and `Cleanup` changes nothing because a bucket that was idle for
  long enough is full; this is where `IdleAssumption` is used.
- *Rotation plan.* `PlanIsConsistent` is inductive with the type invariant, and the
  type invariant with `Ordered`: the branch at place i has a generation below i,
  as `DeriveNext` goes up by one at most, so that the bound on the list bounds the
  generations. `OnlyReturnRevives` is shown action by action from the same
  invariant.
- *Configuration.* `CurrentUnlessMissed` speaks of an empty queue. Inductive is what
  holds with events waiting: the last event of a key carries the stored value, and
  when none waits the client has it or refused it; this for keys whose last change
  came while the replica watched.
- *Watchers.* `SeenUnlessReplaced` and `SeenUnlessSkipped` are inductive with where
  the scan is (`ScanIsInside`: above `lastHeight`, below a goal that was a tip, and
  tips do not fall) and with what it has offered so far (`SeenSoFar`: below `height`
  offered, at `height` offered or still in `todo`; for BTC "offered" reads "offered
  or skipped" below `height`). `NoHeightSkipped` is inductive with the heights of the
  scan under way (`ScanIsComplete`). `AlarmHasCause` needs `HashFollows`: until the
  first reorganisation, and while no scan that was cut short left it ahead,
  `lastHash` is the parent of the next block, so the comparison cannot fail. The ledger refinement needs `RecordsAreMined`: what
  is in a channel or with a consumer was mined at its height; it and
  `OfferedIsAccountedFor` hold under any reorganisations and for any replicas. The two
  proof modules repeat what concerns chain, channel and consumer: the watchers share
  the actions of `BlockWatcher` but each has an invariant of its own.
- *Confirmation.* Leases have one owner, and a leader holds the key or its lease is
  gone; two leaders with live leases would hold one key. The batch of a check holds
  rows that were deep when it was made, and stay so since the chain does not shrink.
- *Hot wallets.* The ETH pool is an interval of nonces that begins at the account's
  nonce, as each accepted transaction takes a nonce up to the first free one and
  mining takes the lowest. A caller therefore holds a nonce with nothing missing
  below it, which is `NoNonceGap`. `DisplacedByRivalOnly` adds that a caller whose
  nonce is now in the pool has the sender among its rivals. `SweepsLeaveKeep` is
  inductive with what a sweep that was not overtaken has computed so far
  (`Funded`, `BTCInv`): the balance still has its amount, its fee and what it keeps.
- *Reconciliation.* `ReportsAreRight` speaks of a finished run; the invariant says
  the same of a run at any block. `SeenPart`: a row of the snapshot whose payment is
  in a block below `h` that was fetched has been seen, unless the chain was
  reorganised. `MissingPart`: a payment is reported missing when the snapshot has no
  row of its transaction. `QuietPart`: as long as every fetch succeeds and the chain
  stands, the findings so far are exactly the comparison of the blocks below `h`
  with the snapshot. New blocks do not disturb it because they come above the tip
  the run has read. One proof serves both chains: the chain is a parameter of the
  instance, and only the lower end of the window differs.
- *Tokens.* The invariant says whose each token is, that a session has one user, and
  where a request is between its queries: a token a reset ended was issued before,
  an unanswered one can be ended only by a reset. `NeverLockedOut` follows since
  `Refresh` ends the old token after the new one exists. The refinement maps each
  query to one step of `Sessions` or a stutter.

- *Amounts.* Reading a decimal errs by one part in `Mantissa` at most (`ParseFact`),
  so a row of less than a quarter of the mantissa comes back as itself, as decimal
  and as satoshis (`RoundTrip`); hence `PaidIsRecorded`. Coverage and limit are
  comparisons of floats. What lies between two multiples of a power of two that the
  mantissa reaches stays there when it is rounded (`NearestStays`), and every error
  together is less than half a unit. A request that passes is therefore at most half
  a unit above the exact difference, and its row, a whole number of units, is not
  above it (`RequestCovered`, `RequestWithin`); a request that leaves a unit passes
  (`RequestNear`). `LimitAssumption` is needed in `RequestWithin`, where the float is
  a sum. The invariant is the type with the first three claims; the fourth follows
  from it in each state.
- *Deposit addresses of users.* `AddressesRight` is about ids of any length.
  `IndexInv`: as long as the id has six digits at most, the index is below what the loop
  can reach with so many (`Largest`), so no product has wrapped around, and `IdOf` undoes
  the loop, since 31 is larger than the number of digits; hence every address that was
  told, registered or inserted for a short id tells that id. That a path is read back
  holds for every uint32 (`PathFact`), so that part has no condition on the id. `Loop`
  takes the fold of the community modules apart into one step per character; the
  prefixes are then read step by step, and `ReadNumber` reads the digits of any number.
- *Recursion.* `TwoTo`, `Step`, `Decimal`, `IdOf` and the fold are recursive functions,
  of which the prover knows only that they are what the equation chooses. `Recursion`
  proves that an equation over the naturals whose argument goes down has a solution;
  applied to each, the chosen function satisfies its equation. A claim for every number
  then follows from the smallest counterexample (`Smallest`), a fact about sets in place
  of an induction rule with an operator parameter. `Amounts` has powers of two as such
  a function because the prover knows nothing of `^`.

Model-checked only: liveness (`KeyIsFreedAgain`, `PaymentSettles`, `CatchesUp`,
`DeepIsConfirmed`, `WatchedIsUsed`), which is out of the prover's reach.

## Not modelled, and why

- RBAC: one permission query per request; no handler changes roles.
- Access tokens: stateless; one that was issued before a reset works until it
  expires, which the code intends. `Sessions` is about refresh tokens only.
- Amounts: `Withdrawals` counts units, `Amounts` has the float arithmetic of BTC in
  manual review; the conversion to wei through `big.Float` and automatic
  approval, which broadcasts the request and not the row, are left out.
- Coin selection and signing are inside one broadcast step. `ChainID` reads a
  constant. One chain per watcher and checker instance is modelled.
- A handler reads the RPC holder once per call, so that a swap in between sends
  its calls to two nodes: two nodes with pools of their own would be needed (a
  hazard without property).
- `checkAndUpgradeLevel` only logs. HTTP parsing, audit, metrics, e-mail delivery,
  seed encryption, key derivation, migrations, code generation, the development
  tools and the frontend keep no state that the modelled components read.

## Plan

1. Done: lock, withdrawals, deposit pipeline, confirmation, hot wallets and sweeper,
   tokens, reconciliation, rate limiter, configuration, rotation, index and amounts.
2. Done: proofs of every safety property the passing runs check.
3. Composition of `ConfirmChecker` and `Withdrawals`: a deposit that is credited,
   confirmed, and spent.
