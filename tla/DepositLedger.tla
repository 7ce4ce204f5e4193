---------------------------- MODULE DepositLedger ----------------------------
(***************************************************************************)
(* What the deposit pipeline promises: a row of deposits stands for a      *)
(* payment that was in the chain at the height of the row, a transaction   *)
(* has one row, rows never change or go away, and one that is confirmed is *)
(* Required blocks deep.                                                   *)
(*                                                                         *)
(* BtcWatcher and EthWatcher implement the part that adds rows,            *)
(* ConfirmChecker the part that confirms them.                             *)
(***************************************************************************)
EXTENDS Integers

CONSTANTS
    TxOf,       \* TxOf[p]: the transaction of payment p
    Required    \* BTCRequiredConfirms or ETHRequiredConfirms

VARIABLES
    tip,        \* height of the chain
    mined,      \* records that ever were in the chain
    rows,       \* rows of deposits
    confirmed   \* those with confirmed = 1

ledgerVars == <<tip, mined, rows, confirmed>>

LedgerInit == tip = 0 /\ mined = {} /\ rows = {} /\ confirmed = {}

\* The chain grows or is reorganised.
ChainMoves ==
    /\ tip' >= tip
    /\ mined \subseteq mined'
    /\ UNCHANGED <<rows, confirmed>>

Credit ==
    /\ \E r \in mined :
         /\ \A d \in rows : TxOf[d.pay] # TxOf[r.pay]
         /\ rows' = rows \cup {r}
    /\ UNCHANGED <<tip, mined, confirmed>>

Confirm ==
    /\ \E r \in rows :
         /\ tip - r.height >= Required
         /\ confirmed' = confirmed \cup {r}
    /\ UNCHANGED <<tip, mined, rows>>

LedgerSpec == LedgerInit /\ [][ChainMoves \/ Credit \/ Confirm]_ledgerVars
=============================================================================
