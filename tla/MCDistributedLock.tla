-------------------------- MODULE MCDistributedLock --------------------------
(* A small instance of DistributedLock: two replicas; s1 and s2 run on the   *)
(* first, s3 (when it is a session) on the second.                           *)
EXTENDS DistributedLock, TLC

CONSTANTS s1, s2, s3, k1, k2, p1, p2

MCHostOf == [s \in Session |-> IF s = s3 THEN p2 ELSE p1]

\* s1 and s2 run on the same replica and are interchangeable, so are the keys.
MCSymmetry == Permutations({s1, s2}) \cup Permutations({k1, k2})
=============================================================================
