----------------------------- MODULE MCEthWatcher -----------------------------
(* Small instances of EthWatcher; every payment is a transaction.            *)
EXTENDS EthWatcher, TLC

CONSTANTS n1, n2, x, y

MCTxOf == [p \in Payment |-> p]

MCSymmetry == Permutations(Node) \cup Permutations(Payment)
=============================================================================
