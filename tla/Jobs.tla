-------------------------------- MODULE Jobs --------------------------------
(***************************************************************************)
(* The jobs that run beside the service: the sweeper on either hot wallet, *)
(* which it shares with withdrawals, and the reconciliation of either      *)
(* chain.  They share no state, so a behaviour follows one of them and     *)
(* leaves the others where they begin.                                     *)
(***************************************************************************)
EXTENDS EthHotWallet

CONSTANTS
    Fee, FeeBuffer, SweepBTC,                           \* BtcHotWallet
    Payment, MaxHeight, MaxReorgs, MaxDepth, Depth,     \* Reconciler
    TxOf, Value             \* for "btc" and "eth": those of Reconciler

VARIABLES
    job,
    fundedBTC, balanceBTC, fee, stageBTC, amountBTC, noted, paid, overtakenBTC,
    blocks, reorgs, place, onChain,
    rows, listed, run, known, current, snapshot, h, seen, findings,
    failed, shaken, atLoad

BTC == INSTANCE BtcHotWallet WITH
    Sweep <- SweepBTC,
    funded <- fundedBTC, balance <- balanceBTC, stage <- stageBTC,
    amount <- amountBTC, overtaken <- overtakenBTC

\* One run of reconcileBTC or reconcileETH.
Reconcile(chain) == INSTANCE Reconciler WITH
    Kind <- chain, TxOf <- TxOf[chain], Value <- Value[chain],
    mined <- onChain, stage <- run

ASSUME WalletAssumption == BTC!TransferAssumption /\ BTC!MoneyAssumption

ASSUME ReconcileAssumption == \A c \in {"btc", "eth"} :
    Reconcile(c)!ChainAssumption /\ Reconcile(c)!ReconcilerAssumption

btcVars ==
    <<fundedBTC, balanceBTC, fee, stageBTC, amountBTC, noted, paid, overtakenBTC>>

reconcileVars ==
    <<blocks, reorgs, place, onChain, rows, listed, run, known, current,
      snapshot, h, seen, findings, failed, shaken, atLoad>>

jobVars == <<job, vars, btcVars, reconcileVars>>

JobsInit ==
    /\ job \in {"sweep_eth", "sweep_btc", "reconcile_btc", "reconcile_eth"}
    /\ Init
    /\ BTC!Init
    /\ Reconcile("btc")!Init
    /\ job # "sweep_eth" => gasPrice = 1
    /\ job \notin {"reconcile_btc", "reconcile_eth"} => listed = {}

JobsNext ==
    /\ UNCHANGED job
    /\ \/ job = "sweep_eth" /\ Next /\ UNCHANGED <<btcVars, reconcileVars>>
       \/ job = "sweep_btc" /\ BTC!Next /\ UNCHANGED <<vars, reconcileVars>>
       \/ job = "reconcile_btc" /\ Reconcile("btc")!Next /\ UNCHANGED <<vars, btcVars>>
       \/ job = "reconcile_eth" /\ Reconcile("eth")!Next /\ UNCHANGED <<vars, btcVars>>

JobsSpec == JobsInit /\ [][JobsNext]_jobVars

-----------------------------------------------------------------------------
(* Properties of the jobs.                                                 *)

\* A sweep leaves the amount to keep, on either chain, unless another transfer came
\* between the balance it read and its own or bitcoind took a fee above the buffer
\* (sweeper.go:98-109, 140, 184).
SweepsLeaveKeep == SweepLeavesKeep /\ BTC!SweepLeavesKeep

\* What a reconciliation reports of a chain that moves has a known cause, and of
\* one that stands still it is exact (reconciler.go:106-216).
ReportsAreRight ==
    /\ job = "reconcile_btc" => Reconcile("btc")!ReportsAreRight
    /\ job = "reconcile_eth" => Reconcile("eth")!ReportsAreRight
=============================================================================
