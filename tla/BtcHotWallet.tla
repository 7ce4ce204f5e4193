---------------------------- MODULE BtcHotWallet ----------------------------
(***************************************************************************)
(* The bitcoind wallet that pays withdrawals (btc/withdraw.go, on every    *)
(* replica) and is emptied into cold storage by the sweeper                *)
(* (sweep/sweeper.go sweepBTC).  bitcoind chooses coins and fee; the fee   *)
(* comes on top of the amount.  One action is one RPC.                     *)
(***************************************************************************)
EXTENDS Integers, FiniteSets

CONSTANTS
    Withdrawal,     \* calls to Withdraw
    Sweep,          \* runs of sweepBTC
    Fee,            \* fees bitcoind may take
    FeeBuffer,      \* SWEEP_BTC_FEE_BUFFER
    Keep,           \* HOT_WALLET_KEEP_BTC
    Amount,         \* amounts withdrawn
    MaxFunds        \* bound: what the wallet is given in a behaviour

Transfer == Withdrawal \cup Sweep

TransferAssumption == Withdrawal \cap Sweep = {}

MoneyAssumption ==
    /\ Fee \subseteq Nat /\ Fee # {}
    /\ Amount \subseteq Nat \ {0}
    /\ FeeBuffer \in Nat /\ Keep \in Nat /\ MaxFunds \in Nat

VARIABLES
    (* bitcoind *)
    funded,         \* what the wallet was given
    balance,        \* GetBalance("*")
    fee,            \* fee[x]: the fee taken for the transaction of x
    (* locals of the callers *)
    stage,          \* stage[x]: the next RPC of x
    amount,         \* amount[x]: what x sends
    noted,          \* noted[w]: WithdrawResult.Fee
    (* history, read by properties only *)
    paid,           \* transfers that bitcoind made
    overtaken       \* sweeps that another transfer was made before, since they
                    \* read the balance

vars == <<funded, balance, fee, stage, amount, noted, paid, overtaken>>

Stages == {"idle", "send", "fee", "sent", "failed", "skipped"}

TypeOK ==
    /\ funded \in 0 .. MaxFunds
    /\ balance \in Nat
    /\ fee \in [Transfer -> Fee \cup {0}]
    /\ stage \in [Transfer -> Stages]
    /\ amount \in [Transfer -> Nat]
    /\ noted \in [Withdrawal -> Fee \cup {0}]
    /\ paid \subseteq Transfer
    /\ overtaken \subseteq Sweep

Init ==
    /\ funded = 0
    /\ balance = 0
    /\ fee = [x \in Transfer |-> 0]
    /\ stage = [x \in Transfer |-> "idle"]
    /\ amount = [x \in Transfer |-> 0]
    /\ noted = [w \in Withdrawal |-> 0]
    /\ paid = {}
    /\ overtaken = {}

Go(x, from, to) == stage[x] = from /\ stage' = [stage EXCEPT ![x] = to]

Fund == \E d \in Amount :
    /\ funded + d <= MaxFunds
    /\ funded' = funded + d
    /\ balance' = balance + d
    /\ UNCHANGED <<fee, stage, amount, noted, paid, overtaken>>

\* Withdraw: the amount is given.
Ask(w) == \E a \in Amount :
    /\ Go(w, "idle", "send")
    /\ amount' = [amount EXCEPT ![w] = a]
    /\ UNCHANGED <<funded, balance, fee, noted, paid, overtaken>>

\* Mutant of SweepAmount: no room is left for the fee.
SweepAmountUnbuffered == balance - Keep

SweepAmount == balance - Keep - FeeBuffer

\* sweepBTC: GetBalance.
ReadBalance(s) ==
    /\ SweepAmount > 0
    /\ Go(s, "idle", "send")
    /\ amount' = [amount EXCEPT ![s] = SweepAmount]
    /\ UNCHANGED <<funded, balance, fee, noted, paid, overtaken>>

NothingToSweep(s) ==
    /\ SweepAmount <= 0
    /\ Go(s, "idle", "skipped")
    /\ UNCHANGED <<funded, balance, fee, amount, noted, paid, overtaken>>

\* bitcoind makes the payment of x, whether or not its answer arrives.
Pay(x, f) ==
    /\ amount[x] + f <= balance
    /\ balance' = balance - amount[x] - f
    /\ fee' = [fee EXCEPT ![x] = f]
    /\ paid' = paid \cup {x}
    /\ overtaken' = overtaken \cup {s \in Sweep \ {x} : stage[s] = "send"}

\* SendToAddress: a withdrawal then asks for the fee.
Send(x) == \E f \in Fee :
    /\ Go(x, "send", IF x \in Sweep THEN "sent" ELSE "fee")
    /\ Pay(x, f)
    /\ UNCHANGED <<funded, amount, noted>>

SendUnanswered(x) == \E f \in Fee :
    /\ Go(x, "send", "failed")
    /\ Pay(x, f)
    /\ UNCHANGED <<funded, amount, noted>>

\* Too little money, an RPC that fails, the end of the context.
SendFails(x) ==
    /\ Go(x, "send", "failed")
    /\ UNCHANGED <<funded, balance, fee, amount, noted, paid, overtaken>>

\* queryFee: GetTransaction.
QueryFee(w) ==
    /\ Go(w, "fee", "sent")
    /\ noted' = [noted EXCEPT ![w] = fee[w]]
    /\ UNCHANGED <<funded, balance, fee, amount, paid, overtaken>>

\* A fee that cannot be read is noted as 0.
QueryFeeFails(w) ==
    /\ Go(w, "fee", "sent")
    /\ UNCHANGED <<funded, balance, fee, amount, noted, paid, overtaken>>

Next ==
    \/ Fund
    \/ \E x \in Transfer : Send(x) \/ SendUnanswered(x) \/ SendFails(x)
    \/ \E w \in Withdrawal : Ask(w) \/ QueryFee(w) \/ QueryFeeFails(w)
    \/ \E s \in Sweep : ReadBalance(s) \/ NothingToSweep(s)

Spec == Init /\ [][Next]_vars

-----------------------------------------------------------------------------
(* Properties.                                                             *)

\* A sweep leaves the amount to keep behind, unless the fee was larger than the
\* buffer or another transfer was made since it read the balance
\* (sweeper.go:98-109, 140).
SweepLeavesKeep == [][\A s \in Sweep :
    s \in paid' \ paid =>
        balance' >= Keep \/ fee'[s] > FeeBuffer \/ s \in overtaken]_vars
=============================================================================
