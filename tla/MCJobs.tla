------------------------------- MODULE MCJobs -------------------------------
(* A small instance of Jobs.                                                 *)
EXTENDS Jobs, TLC

CONSTANTS w1, w2, s1, s2, p1, p2

\* BTC: p1 and p2 are outputs of one transaction; ETH: two transactions.
MCTxOf == [btc |-> [p \in Payment |-> "t1"], eth |-> [p \in Payment |-> p]]

\* BTC: p2 has the larger amount; ETH: one amount.
MCValue ==
    [btc |-> [p \in Payment |-> IF p = p2 THEN 2 ELSE 1], eth |-> [p \in Payment |-> 1]]

MCSymmetry ==
    Permutations(Withdrawal) \cup Permutations(SweepBTC)
=============================================================================
