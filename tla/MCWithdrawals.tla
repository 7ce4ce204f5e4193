---------------------------- MODULE MCWithdrawals ----------------------------
(* Small instances of Withdrawals.                                           *)
EXTENDS Withdrawals, TLC

CONSTANTS r1, r2, r3, v1, v2, p1, p2, btc, eth

\* Requests and reviews all run on p1, or r1 alone runs on p2.
MCHostOf == [r \in Request |-> IF r = r1 THEN p2 ELSE p1]
MCReviewHost == [v \in Review |-> p1]

MCSingleCap == [c \in Chain |-> 2]

\* Amounts of one unit.
MCUnitCap == [c \in Chain |-> 1]

\* Reviews share a host and are interchangeable.
MCSymmetry == Permutations(Review)
=============================================================================
