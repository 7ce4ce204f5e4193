---------------------------- MODULE EthHotWallet ----------------------------
(***************************************************************************)
(* The ETH account that pays withdrawals (eth/withdraw.go, on every        *)
(* replica) and is emptied into cold storage by the sweeper                *)
(* (sweep/sweeper.go sweepETH, a process of its own).  Each reads the      *)
(* pending nonce, then the gas price or the balance, and sends several     *)
(* RPCs later; nothing but the node sees both.                             *)
(*                                                                         *)
(* The node is external: its pool holds one transaction per nonce, a       *)
(* second one with the same nonce takes its place only at a higher price,  *)
(* and what the account cannot pay for is refused.  One action is one RPC; *)
(* ChainID, which reads a constant, is left out.  A unit of money is the   *)
(* fee of a transfer at gas price 1.                                       *)
(***************************************************************************)
EXTENDS Integers, FiniteSetsExt

CONSTANTS
    Withdrawal,     \* calls to Withdraw
    Sweep,          \* runs of sweepETH
    Price,          \* gas prices
    MaxGasPrice,    \* the cap of Withdraw, "200 gwei"
    Keep,           \* HOT_WALLET_KEEP_ETH
    Amount,         \* amounts withdrawn
    MaxFunds,       \* bound: what the account is given in a behaviour
    None

Transfer == Withdrawal \cup Sweep

ASSUME TransferAssumption ==
    /\ Withdrawal \cap Sweep = {}
    /\ IsFiniteSet(Transfer)
    /\ None \notin Transfer

ASSUME MoneyAssumption ==
    /\ Price \subseteq Nat \ {0} /\ Amount \subseteq Nat \ {0}
    /\ MaxGasPrice \in Nat /\ Keep \in Nat /\ MaxFunds \in Nat

VARIABLES
    (* the node *)
    funded,         \* what the account was given
    balance,        \* its balance at the latest block
    gasPrice,       \* what SuggestGasPrice answers
    next,           \* the nonce the chain expects
    pool,           \* pool[n]: the pending transaction with nonce n
    (* locals of the callers *)
    stage,          \* stage[x]: the next RPC of x
    nonce, price, amount,
                    \* what x read or computed for its transaction
    (* history, read by properties only *)
    accepted,       \* transfers whose transaction entered the pool
    mined,          \* transfers whose transaction was mined
    rivals,         \* rivals[x]: transfers that held the nonce of x, not yet
                    \* sent, when x entered the pool
    overtaken       \* sweeps that another transfer was mined before, since
                    \* they read the balance

nodeVars == <<funded, balance, gasPrice, next, pool>>
callVars == <<stage, nonce, price, amount>>
historyVars == <<accepted, mined, rivals, overtaken>>
vars == <<nodeVars, callVars, historyVars>>

\* Each transfer takes one nonce at most.
Nonce == 0 .. Cardinality(Transfer)

Stages == {"idle", "balance", "price", "nonce", "send", "sent", "failed", "skipped"}

TypeOK ==
    /\ funded \in 0 .. MaxFunds
    /\ balance \in Nat
    /\ gasPrice \in Price
    /\ next \in Nonce
    /\ pool \in [Nonce -> Transfer \cup {None}]
    /\ stage \in [Transfer -> Stages]
    /\ nonce \in [Transfer -> Nonce]
    /\ price \in [Transfer -> Price \cup {0}]
    /\ amount \in [Transfer -> Nat]
    /\ accepted \subseteq Transfer
    /\ mined \subseteq accepted
    /\ rivals \in [Transfer -> SUBSET Transfer]
    /\ overtaken \subseteq Sweep

Init ==
    /\ funded = 0
    /\ balance = 0
    /\ gasPrice \in Price
    /\ next = 0
    /\ pool = [n \in Nonce |-> None]
    /\ stage = [x \in Transfer |-> "idle"]
    /\ nonce = [x \in Transfer |-> 0]
    /\ price = [x \in Transfer |-> 0]
    /\ amount = [x \in Transfer |-> 0]
    /\ accepted = {}
    /\ mined = {}
    /\ rivals = [x \in Transfer |-> {}]
    /\ overtaken = {}

-----------------------------------------------------------------------------
(* The node.                                                               *)

Pending == {n \in Nonce : pool[n] # None}

\* Mutant of PendingNonce: the nonce of the latest block (NonceAt).
LatestNonce == next

\* Mutant of PendingNonce: transfers that have not been sent are counted too.
ReservedNonce ==
    Min({n \in Nonce : n >= next /\ pool[n] = None})
        + Cardinality({x \in Transfer : stage[x] = "send"})

\* PendingNonceAt.
PendingNonce == Min({n \in Nonce : n >= next /\ pool[n] = None})

Cost(x) == amount[x] + price[x]

Outbids(x) == LET old == pool[nonce[x]] IN old # None => price[x] > price[old]

Affords(x) ==
    Cost(x) + MapThenSumSet(Cost, {pool[n] : n \in Pending \ {nonce[x]}}) <= balance

\* What the pool asks of transaction x.
Admits(x) == nonce[x] >= next /\ Outbids(x) /\ Affords(x)

Fund == \E d \in Amount :
    /\ funded + d <= MaxFunds
    /\ funded' = funded + d
    /\ balance' = balance + d
    /\ UNCHANGED <<gasPrice, next, pool, callVars, historyVars>>

PriceMoves == \E p \in Price :
    /\ gasPrice' = p
    /\ UNCHANGED <<funded, balance, next, pool, callVars, historyVars>>

\* Sweeps that rely on a balance they read.
Relying == {s \in Sweep :
    stage[s] \in {"price", "nonce", "send"} \/ s \in accepted \ mined}

Mine ==
    /\ next \in Pending
    /\ LET x == pool[next] IN
        /\ balance' = balance - Cost(x)
        /\ mined' = mined \cup {x}
        /\ overtaken' = overtaken \cup (Relying \ {x})
    /\ pool' = [pool EXCEPT ![next] = None]
    /\ next' = next + 1
    /\ UNCHANGED <<funded, gasPrice, callVars, accepted, rivals>>

-----------------------------------------------------------------------------
(* The callers.                                                            *)

Go(x, from, to) == stage[x] = from /\ stage' = [stage EXCEPT ![x] = to]

Running(x) == stage[x] \in {"price", "nonce", "send"}

\* An RPC fails or the context ends.
Fail(x) ==
    /\ Running(x)
    /\ stage' = [stage EXCEPT ![x] = "failed"]
    /\ UNCHANGED <<nodeVars, nonce, price, amount, historyVars>>

\* Withdraw: PendingNonceAt comes first.
ReadNonceFirst(w) == \E a \in Amount :
    /\ Go(w, "idle", "price")
    /\ amount' = [amount EXCEPT ![w] = a]
    /\ nonce' = [nonce EXCEPT ![w] = PendingNonce]
    /\ UNCHANGED <<nodeVars, price, historyVars>>

\* Withdraw: SuggestGasPrice, up to the cap.
ReadCappedPrice(w) ==
    /\ stage[w] = "price"
    /\ price' = [price EXCEPT ![w] = gasPrice]
    /\ stage' = [stage EXCEPT ![w] = IF gasPrice > MaxGasPrice THEN "failed" ELSE "send"]
    /\ UNCHANGED <<nodeVars, nonce, amount, historyVars>>

\* sweepETH: BalanceAt the latest block; amount holds the balance meanwhile.
ReadBalance(s) ==
    /\ Go(s, "idle", "price")
    /\ amount' = [amount EXCEPT ![s] = balance]
    /\ UNCHANGED <<nodeVars, nonce, price, historyVars>>

\* Mutant of SweepAmount: the fee is not subtracted.
SweepAmountWithFee(s) == amount[s] - Keep

SweepAmount(s) == amount[s] - gasPrice - Keep

\* sweepETH: SuggestGasPrice, with no cap, and what is left to sweep.
ReadPrice(s) ==
    /\ SweepAmount(s) > 0
    /\ Go(s, "price", "nonce")
    /\ price' = [price EXCEPT ![s] = gasPrice]
    /\ amount' = [amount EXCEPT ![s] = SweepAmount(s)]
    /\ UNCHANGED <<nodeVars, nonce, historyVars>>

NothingToSweep(s) ==
    /\ SweepAmount(s) <= 0
    /\ Go(s, "price", "skipped")
    /\ UNCHANGED <<nodeVars, nonce, price, amount, historyVars>>

\* sweepETH: PendingNonceAt comes last.
ReadNonceLast(s) ==
    /\ Go(s, "nonce", "send")
    /\ nonce' = [nonce EXCEPT ![s] = PendingNonce]
    /\ UNCHANGED <<nodeVars, price, amount, historyVars>>

\* A transfer that has read its nonce and has not sent: a sweep reads it last.
HoldsNonce(x) == stage[x] = "send" \/ (x \in Withdrawal /\ stage[x] = "price")

Holding(n) == {x \in Transfer : HoldsNonce(x) /\ nonce[x] = n}

\* SendTransaction; the answer may be lost, and the caller then reports an error.
Send(x) == \E answer \in {"sent", "failed"} :
    /\ Admits(x)
    /\ Go(x, "send", answer)
    /\ pool' = [pool EXCEPT ![nonce[x]] = x]
    /\ accepted' = accepted \cup {x}
    /\ rivals' = [rivals EXCEPT ![x] = Holding(nonce[x]) \ {x}]
    /\ UNCHANGED <<funded, balance, gasPrice, next, nonce, price, amount, mined, overtaken>>

SendRefused(x) ==
    /\ ~Admits(x)
    /\ Go(x, "send", "failed")
    /\ UNCHANGED <<nodeVars, nonce, price, amount, historyVars>>

Next ==
    \/ Fund \/ PriceMoves \/ Mine
    \/ \E x \in Transfer : Fail(x) \/ Send(x) \/ SendRefused(x)
    \/ \E w \in Withdrawal : ReadNonceFirst(w) \/ ReadCappedPrice(w)
    \/ \E s \in Sweep :
        ReadBalance(s) \/ ReadPrice(s) \/ NothingToSweep(s) \/ ReadNonceLast(s)

Spec == Init /\ [][Next]_vars

-----------------------------------------------------------------------------
(* Properties.                                                             *)

Displaced == accepted \ (mined \cup {pool[n] : n \in Pending})

\* A transaction that the node accepted, and that a withdrawal may have been
\* answered completed for, leaves the pool unmined only when a transfer that had
\* read the same nonce before sends at a higher price (withdraw.go:32, 63).
DisplacedByRivalOnly == \A x \in Displaced : \E y \in rivals[x] :
    y \in accepted /\ nonce[y] = nonce[x] /\ price[y] > price[x]

\* No accepted transaction waits for a nonce that nobody sends: whatever fails,
\* the nonces in the pool follow the chain without a gap.
NoNonceGap == \A n \in Pending : next .. n \subseteq Pending

\* A sweep leaves the amount to keep behind, or another transfer was mined since
\* it read the balance (sweeper.go:184: the balance of the latest block, without
\* what is pending).
SweepLeavesKeep == [][\A s \in Sweep :
    s \in mined' \ mined => balance' >= Keep \/ s \in overtaken]_vars
=============================================================================
