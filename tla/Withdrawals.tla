----------------------------- MODULE Withdrawals -----------------------------
(***************************************************************************)
(* The withdrawal path of internal/api/wallet.go.  Users ask for           *)
(* withdrawals (Withdraw), administrators approve or reject them           *)
(* (ApproveWithdrawal, RejectWithdrawal); the handlers run concurrently on *)
(* several replicas and share the withdrawals table, the confirmed         *)
(* deposits, the chain, and the lock of UserLock.                          *)
(*                                                                         *)
(* One action is one call that reads or writes shared state: a query, an   *)
(* RPC to the chain, a call to etcd.  A handler keeps between two actions  *)
(* what the Go code keeps in its local variables.                          *)
(***************************************************************************)
EXTENDS Integers, FiniteSetsExt

CONSTANTS
    User, Chain,
    Level,          \* user levels, the keys of withdrawal_limits
    Request,        \* POSTs to Withdraw; a request inserts at most one row,
                    \* which is named after it
    Review,         \* POSTs to ApproveWithdrawal and RejectWithdrawal
    Process,        \* replicas of wallet-service
    HostOf,         \* HostOf[r]: the replica that serves request r
    ReviewHost,     \* ReviewHost[v]: the replica that serves review v
    AutoApprove,    \* replicas that run with WITHDRAWAL_AUTO_APPROVE=true
    SingleCap,      \* SingleCap[c]: maxSingleBTC, maxSingleETH
    Limits,         \* the values an administrator gives a daily limit
    MaxDeposit,     \* bound: what an account deposits in a behaviour
    None

ASSUME ModeAssumption == AutoApprove \subseteq Process

ASSUME AmountAssumption ==
    /\ SingleCap \in [Chain -> Nat]
    /\ Limits \subseteq Nat /\ Limits # {}
    /\ MaxDeposit \in Nat

\* There is a largest daily limit.
ASSUME LimitsAssumption == IsFiniteSet(Limits)

ASSUME LevelAssumption == Level \subseteq Nat /\ Level # {}

ASSUME ReviewHostAssumption == ReviewHost \in [Review -> Process]

Account == User \X Chain

ASSUME NoneAssumption == None \notin Request /\ None \notin Account

VARIABLES
    (* the database *)
    deposited,      \* deposited[a]: sum of the confirmed deposits of a
    level,          \* level[u]: users.level
    dailyLimit,     \* dailyLimit[l]: btc_daily and eth_daily of level l
    status,         \* status[r]: withdrawals.status of the row of r
    aged,           \* rows created more than 24 hours ago
    (* the chain *)
    sent,           \* sent[r]: transactions broadcast to pay row r
    (* locals of the handlers *)
    stage,          \* stage[r]: the next call of Withdraw
    acct, amt,      \* what r asks for: account and amount
    seen,           \* seen[r]: the last value r read and still uses
    review,         \* review[v]: the next call of the review
    target,         \* target[v]: the row it loaded
    (* history, read by properties only *)
    unrecorded,     \* rows paid without the outcome ever reaching the row
    overlapped,     \* rows loaded by a review while another handler had them
    blind,          \* accounts that passed a balance check with money still
                    \* promised that the check does not count
    (* the lock *)
    owner, inside, lapsed

Lock == INSTANCE UserLock WITH Key <- Account, Session <- Request

dbVars == <<deposited, level, dailyLimit, status, aged>>
requestVars == <<stage, acct, amt, seen>>
reviewVars == <<review, target>>
historyVars == <<unrecorded, overlapped, blind>>
lockVars == <<owner, inside, lapsed>>
vars == <<dbVars, sent, requestVars, reviewVars, historyVars, lockVars>>

\* absent: no row; the others are the values of withdrawals.status.
Status == {"absent", "pending", "completed", "rejected", "failed"}
Settled == {"completed", "rejected", "failed"}

\* paid: an automatic withdrawal answered "completed"; done: any other end.
Stages == {"idle", "deposits", "balance", "level", "limit", "used", "create",
           "send", "fail", "paid", "done"}
ReviewStages == {"idle", "send", "mark", "fail", "reject", "done"}

TypeOK ==
    /\ deposited \in [Account -> Nat]
    /\ level \in [User -> Level]
    /\ dailyLimit \in [Level -> [Chain -> Limits]]
    /\ status \in [Request -> Status]
    /\ aged \subseteq Request
    /\ sent \in [Request -> Nat]
    /\ stage \in [Request -> Stages]
    /\ acct \in [Request -> Account \cup {None}]
    /\ amt \in [Request -> Nat]
    /\ seen \in [Request -> Nat]
    /\ review \in [Review -> ReviewStages]
    /\ target \in [Review -> Request \cup {None}]
    /\ unrecorded \subseteq Request
    /\ overlapped \subseteq Request
    /\ blind \subseteq Account
    /\ Lock!LockTypeOK

Init ==
    /\ deposited = [a \in Account |-> 0]
    /\ level \in [User -> Level]
    /\ dailyLimit \in [Level -> [Chain -> Limits]]
    /\ status = [r \in Request |-> "absent"]
    /\ aged = {}
    /\ sent = [r \in Request |-> 0]
    /\ stage = [r \in Request |-> "idle"]
    /\ acct = [r \in Request |-> None]
    /\ amt = [r \in Request |-> 0]
    /\ seen = [r \in Request |-> 0]
    /\ review = [v \in Review |-> "idle"]
    /\ target = [v \in Review |-> None]
    /\ unrecorded = {}
    /\ overlapped = {}
    /\ blind = {}
    /\ Lock!LockInit

-----------------------------------------------------------------------------
(* Queries.                                                                *)

Amount(R) == SumFunctionOnSet(amt, R)

Rows(a) == {r \in Request : acct[r] = a}

\* GetTotalWithdrawalByUserIDAndChain: the sum of the completed rows only.
TotalWithdrawal(a) == Amount({r \in Rows(a) : status[r] = "completed"})

\* GetLast24hWithdrawalByUserAndChain.
Last24h(a) == Amount({r \in Rows(a) \ aged : status[r] = "completed"})

\* Money of row r that left, or may still leave, without TotalWithdrawal
\* showing it: a pending row, a request past its balance check, a payment
\* under a status other than completed.
Uncounted(r) ==
    \/ status[r] = "pending"
    \/ stage[r] \in {"level", "limit", "used", "create", "send"}
    \/ sent[r] # (IF status[r] = "completed" THEN 1 ELSE 0)

\* Handlers that hold row r between loading it and recording its outcome.
Busy(r) ==
    \/ stage[r] \in {"send", "fail"}
    \/ \E v \in Review : target[v] = r /\ review[v] \in {"send", "mark", "fail", "reject"}

-----------------------------------------------------------------------------
(* Withdraw.                                                               *)

\* The deferred Release: the handler returns and its Revoke reaches etcd or
\* not.
Return(r, end) ==
    /\ stage' = [stage EXCEPT ![r] = end]
    /\ \E gone \in SUBSET {acct[r]} : Lock!Leave(r, gone)

Advance(r, from, to) ==
    /\ stage[r] = from
    /\ stage' = [stage EXCEPT ![r] = to]
    /\ UNCHANGED lockVars

\* Mutant of Submit: Acquire puts the key without comparing CreateRevision.
SubmitWithoutCompare(r, a, m) ==
    /\ m \in 1..SingleCap[a[2]]
    /\ stage[r] = "idle"
    /\ owner' = [owner EXCEPT ![a] = r]
    /\ inside' = [inside EXCEPT ![r] = a]
    /\ stage' = [stage EXCEPT ![r] = "deposits"]
    /\ acct' = [acct EXCEPT ![r] = a]
    /\ amt' = [amt EXCEPT ![r] = m]
    /\ UNCHANGED <<dbVars, sent, seen, reviewVars, historyVars, lapsed>>

\* The request is valid (0 < amount <= cap) and Acquire succeeds.
Submit(r, a, m) ==
    /\ m \in 1..SingleCap[a[2]]
    /\ Lock!Enter(r, a)
    /\ stage[r] = "idle"
    /\ stage' = [stage EXCEPT ![r] = "deposits"]
    /\ acct' = [acct EXCEPT ![r] = a]
    /\ amt' = [amt EXCEPT ![r] = m]
    /\ UNCHANGED <<dbVars, sent, seen, reviewVars, historyVars>>

\* Acquire fails: the request ends with 429.  The key may have been created
\* all the same, and then guards the account until it is revoked or lapses.
LockRefused(r) ==
    /\ stage[r] = "idle"
    /\ stage' = [stage EXCEPT ![r] = "done"]
    /\ \/ UNCHANGED lockVars
       \/ \E a \in Account : Lock!Claim(r, a)
    /\ UNCHANGED <<dbVars, sent, acct, amt, seen, reviewVars, historyVars>>

\* A query fails, or its request context is cancelled: FailInternal.
QueryFails(r) ==
    /\ stage[r] \in {"deposits", "balance", "level", "limit", "used", "create"}
    /\ Return(r, "done")
    /\ UNCHANGED <<dbVars, sent, acct, amt, seen, reviewVars, historyVars>>

\* Mutant of ReadDeposits: the amount is taken off before it is compared.
ReadDepositsLessAmount(r) ==
    /\ Advance(r, "deposits", "balance")
    /\ seen' = [seen EXCEPT ![r] = deposited[acct[r]] - amt[r]]
    /\ UNCHANGED <<dbVars, sent, acct, amt, reviewVars, historyVars>>

ReadDeposits(r) ==
    /\ Advance(r, "deposits", "balance")
    /\ seen' = [seen EXCEPT ![r] = deposited[acct[r]]]
    /\ UNCHANGED <<dbVars, sent, acct, amt, reviewVars, historyVars>>

\* Mutant of BalanceSuffices: withdrawals are not subtracted.
BalanceIgnoresWithdrawals(r) == seen[r] >= amt[r]

\* available := deposits - withdrawals; available >= amount.
BalanceSuffices(r) == seen[r] - TotalWithdrawal(acct[r]) >= amt[r]

CheckBalance(r) ==
    /\ BalanceSuffices(r)
    /\ Advance(r, "balance", "level")
    /\ blind' = IF \E q \in Rows(acct[r]) \ {r} : Uncounted(q)
                THEN blind \cup {acct[r]} ELSE blind
    /\ UNCHANGED <<dbVars, sent, acct, amt, seen, reviewVars, unrecorded, overlapped>>

InsufficientBalance(r) ==
    /\ stage[r] = "balance"
    /\ ~BalanceSuffices(r)
    /\ Return(r, "done")
    /\ UNCHANGED <<dbVars, sent, acct, amt, seen, reviewVars, historyVars>>

\* GetUserLevel.
ReadLevel(r) ==
    /\ Advance(r, "level", "limit")
    /\ seen' = [seen EXCEPT ![r] = level[acct[r][1]]]
    /\ UNCHANGED <<dbVars, sent, acct, amt, reviewVars, historyVars>>

\* GetWithdrawalLimit of the level read before.
ReadLimit(r) ==
    /\ Advance(r, "limit", "used")
    /\ seen' = [seen EXCEPT ![r] = dailyLimit[seen[r]][acct[r][2]]]
    /\ UNCHANGED <<dbVars, sent, acct, amt, reviewVars, historyVars>>

\* Mutant of WithinLimit: the amount asked for is not added.
LimitIgnoresAmount(r) == Last24h(acct[r]) <= seen[r]

\* usedToday + amount <= dailyLimit.
WithinLimit(r) == Last24h(acct[r]) + amt[r] <= seen[r]

CheckLimit(r) ==
    /\ WithinLimit(r)
    /\ Advance(r, "used", "create")
    /\ UNCHANGED <<dbVars, sent, acct, amt, seen, reviewVars, historyVars>>

LimitExceeded(r) ==
    /\ stage[r] = "used"
    /\ ~WithinLimit(r)
    /\ Return(r, "done")
    /\ UNCHANGED <<dbVars, sent, acct, amt, seen, reviewVars, historyVars>>

\* CreateWithdrawal inserts the pending row.  The handler goes on to the
\* broadcast, or returns: review comes later, or the answer was lost.
CreateRow(r) ==
    /\ stage[r] = "create"
    /\ status' = [status EXCEPT ![r] = "pending"]
    /\ \/ HostOf[r] \in AutoApprove /\ Advance(r, "create", "send")
       \/ Return(r, "done")
    /\ UNCHANGED <<deposited, level, dailyLimit, aged, sent, acct, amt, seen,
                   reviewVars, historyVars>>

\* broadcastWithdrawal in automatic mode, success: the handler answers
\* "completed" and returns.  Nothing writes the row.
AutoPaid(r) ==
    /\ stage[r] = "send"
    /\ sent' = [sent EXCEPT ![r] = @ + 1]
    /\ Return(r, "paid")
    /\ unrecorded' = unrecorded \cup {r}
    /\ UNCHANGED <<dbVars, acct, amt, seen, reviewVars, overlapped, blind>>

\* The chain call returns an error; the transaction may be out all the same.
AutoSendFails(r) ==
    /\ Advance(r, "send", "fail")
    /\ \E n \in {0, 1} : sent' = [sent EXCEPT ![r] = @ + n]
    /\ UNCHANGED <<dbVars, acct, amt, seen, reviewVars, historyVars>>

\* A write of r's status whose error is ignored: it reaches the row or not.
\* A payment whose outcome is not written is remembered in unrecorded.
WriteStatus(r, s) ==
    \/ /\ status' = [status EXCEPT ![r] = s]
       /\ UNCHANGED unrecorded
    \/ /\ unrecorded' = IF sent[r] > 0 THEN unrecorded \cup {r} ELSE unrecorded
       /\ UNCHANGED status

AutoMarkFailed(r) ==
    /\ stage[r] = "fail"
    /\ WriteStatus(r, "failed")
    /\ Return(r, "done")
    /\ UNCHANGED <<deposited, level, dailyLimit, aged, sent, acct, amt, seen,
                   reviewVars, overlapped, blind>>

WithdrawStep(r) ==
    \/ \E a \in Account : \E m \in 1..SingleCap[a[2]] : Submit(r, a, m)
    \/ LockRefused(r)
    \/ QueryFails(r)
    \/ ReadDeposits(r)
    \/ CheckBalance(r)
    \/ InsufficientBalance(r)
    \/ ReadLevel(r)
    \/ ReadLimit(r)
    \/ CheckLimit(r)
    \/ LimitExceeded(r)
    \/ CreateRow(r)
    \/ AutoPaid(r)
    \/ AutoSendFails(r)
    \/ AutoMarkFailed(r)

-----------------------------------------------------------------------------
(* ApproveWithdrawal and RejectWithdrawal.  A review that finds no pending  *)
(* row with its id changes nothing.                                        *)

\* Mutant of LoadPending: the row is looked up whatever its status.
LoadAny(v, r, next) ==
    /\ review[v] = "idle"
    /\ status[r] # "absent"
    /\ review' = [review EXCEPT ![v] = next]
    /\ target' = [target EXCEPT ![v] = r]
    /\ overlapped' = IF Busy(r) THEN overlapped \cup {r} ELSE overlapped
    /\ UNCHANGED <<dbVars, sent, requestVars, unrecorded, blind, lockVars>>

\* ListPendingWithdrawals returns r; the loaded copy is acted on later.
LoadPending(v, r, next) ==
    /\ review[v] = "idle"
    /\ status[r] = "pending"
    /\ review' = [review EXCEPT ![v] = next]
    /\ target' = [target EXCEPT ![v] = r]
    /\ overlapped' = IF Busy(r) THEN overlapped \cup {r} ELSE overlapped
    /\ UNCHANGED <<dbVars, sent, requestVars, unrecorded, blind, lockVars>>

Proceed(v, from, to) ==
    /\ review[v] = from
    /\ review' = [review EXCEPT ![v] = to]
    /\ UNCHANGED <<requestVars, target, lockVars>>

\* broadcastWithdrawal of an approval, success.
SendApproved(v) ==
    /\ Proceed(v, "send", "mark")
    /\ sent' = [sent EXCEPT ![target[v]] = @ + 1]
    /\ UNCHANGED <<dbVars, historyVars>>

\* Mutant of SendApprovedFails: a failed broadcast is marked as a success.
SendErrorIgnored(v) ==
    /\ Proceed(v, "send", "mark")
    /\ \E n \in {0, 1} : sent' = [sent EXCEPT ![target[v]] = @ + n]
    /\ UNCHANGED <<dbVars, historyVars>>

SendApprovedFails(v) ==
    /\ Proceed(v, "send", "fail")
    /\ \E n \in {0, 1} : sent' = [sent EXCEPT ![target[v]] = @ + n]
    /\ UNCHANGED <<dbVars, historyVars>>

\* AdminApproveRejectWithdrawal: UPDATE ... WHERE id, whatever the status is
\* by now; the error is ignored.
WriteOutcome(v, from, s) ==
    /\ Proceed(v, from, "done")
    /\ WriteStatus(target[v], s)
    /\ UNCHANGED <<deposited, level, dailyLimit, aged, sent, overlapped, blind>>

ReviewStep(v) ==
    \/ \E r \in Request : LoadPending(v, r, "send") \/ LoadPending(v, r, "reject")
    \/ SendApproved(v)
    \/ SendApprovedFails(v)
    \/ WriteOutcome(v, "mark", "completed")
    \/ WriteOutcome(v, "fail", "failed")
    \/ WriteOutcome(v, "reject", "rejected")

-----------------------------------------------------------------------------
(* The rest of the system.                                                 *)

\* ConfirmChecker confirms a deposit of a.
ConfirmDeposit(a) ==
    /\ deposited[a] < MaxDeposit
    /\ deposited' = [deposited EXCEPT ![a] = @ + 1]
    /\ UNCHANGED <<level, dailyLimit, status, aged, sent, requestVars, reviewVars,
                   historyVars, lockVars>>

\* UpgradeUser.
UpgradeUser(u, l) ==
    /\ level[u] # l
    /\ level' = [level EXCEPT ![u] = l]
    /\ UNCHANGED <<deposited, dailyLimit, status, aged, sent, requestVars, reviewVars,
                   historyVars, lockVars>>

\* UpdateWithdrawalLimit writes both columns of one level.
UpdateWithdrawalLimit(l, daily) ==
    /\ dailyLimit[l] # daily
    /\ dailyLimit' = [dailyLimit EXCEPT ![l] = daily]
    /\ UNCHANGED <<deposited, level, status, aged, sent, requestVars, reviewVars,
                   historyVars, lockVars>>

\* 24 hours go by.
DayPasses ==
    /\ \E r \in Request : status[r] # "absent" /\ r \notin aged
    /\ aged' = {r \in Request : status[r] # "absent"}
    /\ UNCHANGED <<deposited, level, dailyLimit, status, sent, requestVars, reviewVars,
                   historyVars, lockVars>>

\* etcd drops the lease of r, or a Revoke arrives after its sender gave up.
LeaseEnds(r) ==
    /\ \/ Lock!Lapse(r) /\ stage[r] # "idle" /\ \E a \in Account : owner[a] = r
       \/ Lock!GiveBack(r) /\ \E a \in Account : owner[a] = r
    /\ UNCHANGED <<dbVars, sent, requestVars, reviewVars, historyVars>>

\* Replica p dies with every handler it runs.
Crash(p) ==
    LET requests == {r \in Request : HostOf[r] = p /\ stage[r] \notin {"idle", "paid", "done"}}
        reviews == {v \in Review : ReviewHost[v] = p /\ review[v] \notin {"idle", "done"}}
        cut == {r \in requests : stage[r] = "fail"}
                 \cup {target[v] : v \in {w \in reviews : review[w] \in {"mark", "fail"}}}
    IN  /\ requests \cup reviews # {}
        /\ Lock!Crash(p)
        /\ stage' = [r \in Request |-> IF r \in requests THEN "done" ELSE stage[r]]
        /\ review' = [v \in Review |-> IF v \in reviews THEN "done" ELSE review[v]]
        /\ unrecorded' = unrecorded \cup {r \in cut : sent[r] > 0}
        /\ UNCHANGED <<dbVars, sent, acct, amt, seen, target, overlapped, blind>>

Next ==
    \/ \E r \in Request : WithdrawStep(r)
    \/ \E v \in Review : ReviewStep(v)
    \/ \E a \in Account : ConfirmDeposit(a)
    \/ \E u \in User, l \in Level : UpgradeUser(u, l)
    \/ \E l \in Level, daily \in [Chain -> Limits] : UpdateWithdrawalLimit(l, daily)
    \/ DayPasses
    \/ \E r \in Request : LeaseEnds(r)
    \/ \E p \in Process : Crash(p)

Spec == Init /\ [][Next]_vars

-----------------------------------------------------------------------------
(* Properties.                                                             *)

\* Money sent for an account, counted once per transaction.
Paid(R) == SumFunctionOnSet([r \in R |-> sent[r] * amt[r]], R)

\* Two requests are between their balance check and the insertion of the row
\* (lines 244-309, the section the lock is there for) of one account only if
\* the lease of one of them ran out.
CheckedSection == {"deposits", "balance", "level", "limit", "used", "create", "send", "fail"}
SectionIsExclusive ==
    \A q, r \in Request :
        /\ stage[q] \in CheckedSection /\ stage[r] \in CheckedSection
        /\ acct[q] = acct[r] /\ q # r
        => q \in lapsed \/ r \in lapsed

\* A row says "completed" only of a withdrawal that was broadcast, and money
\* leaves only for a row that was inserted first.
CompletedMeansSent ==
    \A r \in Request :
        /\ status[r] = "completed" => sent[r] > 0
        /\ sent[r] > 0 => status[r] # "absent"

\* A row is paid twice only if two handlers held it at the same time or the
\* outcome of a payment never reached it: the pending filter of
\* ApproveWithdrawal is enough in every other case.
DoublePaymentNeedsCause ==
    \A r \in Request : sent[r] > 1 => r \in unrecorded \cup overlapped

\* A row that reached a final status keeps it, unless two handlers held it at
\* the same time: the unconditional UPDATE overwrites in that case only.
SettledStays ==
    [][\A r \in Request :
        status[r] \in Settled /\ r \notin overlapped => status'[r] = status[r]]_vars

\* What was sent for an account is covered by its confirmed deposits, unless
\* a balance check passed while earlier money was promised but not counted,
\* or a row was paid twice or unrecorded.
CoveredUnlessBlind ==
    \A a \in Account :
        a \notin blind /\ Rows(a) \cap (unrecorded \cup overlapped) = {}
            => Paid(Rows(a)) <= deposited[a]

\* Under the same conditions, what was sent for rows of the last 24 hours
\* stays within the largest limit an administrator ever configured.
WithinLimitUnlessBlind ==
    \A a \in Account :
        a \notin blind /\ Rows(a) \cap (unrecorded \cup overlapped) = {}
            => Paid(Rows(a) \ aged) <= Max(Limits)

-----------------------------------------------------------------------------
(* What the documents say and the code does not do.                        *)

\* docs/design/etcd-architecture.md:11 "提币不能重复广播": no withdrawal is
\* broadcast twice.
NeverBroadcastTwice == \A r \in Request : sent[r] <= 1

\* docs/design/etcd-architecture.md:23: two requests of one user never both
\* pass the balance check and spend the same balance, each with a transaction
\* of its own.
NeverSpentTwice ==
    \A a \in Account : Amount({r \in Rows(a) : sent[r] > 0}) <= deposited[a]
=============================================================================
