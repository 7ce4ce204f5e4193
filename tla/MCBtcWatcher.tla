----------------------------- MODULE MCBtcWatcher -----------------------------
(* Small instances of BtcWatcher; x and y are outputs of one transaction     *)
(* where a run has both, z is of another.                                    *)
EXTENDS BtcWatcher, TLC

CONSTANTS n1, n2, x, y, z

MCTxOf == [p \in Payment |-> IF p = z THEN "t2" ELSE "t1"]

MCSymmetry == Permutations(Node)
=============================================================================
