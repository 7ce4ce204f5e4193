--------------------------- MODULE MCConfirmChecker ---------------------------
(* Small instances of ConfirmChecker; every payment is a transaction.        *)
EXTENDS ConfirmChecker, TLC

CONSTANTS n1, n2, l1, l2, l3, x, y

MCTxOf == [p \in Payment |-> p]

MCSymmetry == Permutations(Node) \cup Permutations(Lease) \cup Permutations(Payment)
=============================================================================
