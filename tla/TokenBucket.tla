----------------------------- MODULE TokenBucket -----------------------------
(***************************************************************************)
(* What a rate limiter promises each of its clients: a bucket of its own,  *)
(* full at first, that earns one unit per tick of the clock, and a request *)
(* that is let in whenever the bucket holds its cost, which it pays.       *)
(***************************************************************************)
EXTENDS Integers

CONSTANTS
    Key,        \* clients
    Cost,       \* what a request costs: the ticks that earn one token
    Capacity,   \* what a bucket holds, in the same unit
    None

VARIABLES
    level,      \* level[k]: what the bucket of k holds
    answer      \* the last answer, a pair <<client, let in>>

AtMost(n) == IF n > Capacity THEN Capacity ELSE n

BucketInit == level = [k \in Key |-> Capacity] /\ answer = None

Earn ==
    /\ level' = [k \in Key |-> AtMost(level[k] + 1)]
    /\ UNCHANGED answer

LetIn(k) ==
    /\ level[k] >= Cost
    /\ level' = [level EXCEPT ![k] = @ - Cost]
    /\ answer' = <<k, TRUE>>

Refuse(k) ==
    /\ level[k] < Cost
    /\ answer' = <<k, FALSE>>
    /\ UNCHANGED level

BucketNext == Earn \/ \E k \in Key : LetIn(k) \/ Refuse(k)

BucketSpec == BucketInit /\ [][BucketNext]_<<level, answer>>
=============================================================================
