----------------------------- MODULE RateLimiter -----------------------------
(***************************************************************************)
(* The rate limiter of internal/api/ratelimit.go, one per group of routes  *)
(* and replica.  A bucket is made at the first request of a client, filled *)
(* up when it is next looked at, and deleted by a goroutine when it was    *)
(* not used for Idle; the mutex makes Allow and cleanup atomic.            *)
(*                                                                         *)
(* Time runs in ticks, and a bucket is measured in ticks too: it earns one *)
(* unit per tick, and a token is worth Cost of them.                       *)
(***************************************************************************)
EXTENDS Integers

CONSTANTS
    Key,        \* clients, as clientIP tells them apart
    Cost,       \* 1 / rate
    Capacity,   \* capacity / rate
    Idle,       \* the five minutes of cleanup
    MaxTime,    \* bound on the clock
    None

ASSUME BucketAssumption ==
    /\ Cost \in Nat \ {0} /\ Capacity \in Nat /\ Idle \in Nat /\ MaxTime \in Nat

\* 50 seconds fill a bucket of authRL or generalRL, Idle is 300 (handler.go:34-35).
ASSUME IdleAssumption == Capacity <= Idle + 1

ASSUME NoneAssumption == None \notin [tokens : Int, lastSeen : Int]

VARIABLES
    now,        \* the clock
    buckets,    \* buckets[k]: None, or [tokens, lastSeen]
    answer      \* the last answer of Allow, a pair <<client, let in>>

vars == <<now, buckets, answer>>

Bucket == [tokens : 0..Capacity, lastSeen : 0..MaxTime]

TypeOK ==
    /\ now \in 0..MaxTime
    /\ buckets \in [Key -> Bucket \cup {None}]
    /\ answer \in (Key \X BOOLEAN) \cup {None}

Init ==
    /\ now = 0
    /\ buckets = [k \in Key |-> None]
    /\ answer = None

Tick ==
    /\ now < MaxTime
    /\ now' = now + 1
    /\ UNCHANGED <<buckets, answer>>

Full == [tokens |-> Capacity, lastSeen |-> now]

AtMost(n) == IF n > Capacity THEN Capacity ELSE n

\* The tokens that Allow computes for a bucket.
Refilled(b) == AtMost(b.tokens + (now - b.lastSeen))

Tokens(k) == Refilled(IF buckets[k] = None THEN Full ELSE buckets[k])

Grant(k) ==
    /\ Tokens(k) >= Cost
    /\ buckets' = [buckets EXCEPT ![k] = [tokens |-> Tokens(k) - Cost, lastSeen |-> now]]
    /\ answer' = <<k, TRUE>>
    /\ UNCHANGED now

Deny(k) ==
    /\ Tokens(k) < Cost
    /\ buckets' = [buckets EXCEPT ![k] = [tokens |-> Tokens(k), lastSeen |-> now]]
    /\ answer' = <<k, FALSE>>
    /\ UNCHANGED now

\* Mutant of Stale: a bucket is deleted after one tick without use.
StaleSoon(b) == now - b.lastSeen > 1

Stale(b) == now - b.lastSeen > Idle

Cleanup ==
    /\ buckets' = [k \in Key |->
         IF buckets[k] # None /\ Stale(buckets[k]) THEN None ELSE buckets[k]]
    /\ UNCHANGED <<now, answer>>

Next == Tick \/ Cleanup \/ \E k \in Key : Grant(k) \/ Deny(k)

Spec == Init /\ [][Next]_vars

-----------------------------------------------------------------------------
(* Properties.                                                             *)

\* What the bucket of k holds now, looked at or not.
Level(k) == IF buckets[k] = None THEN Capacity ELSE Refilled(buckets[k])

Promise == INSTANCE TokenBucket WITH level <- [k \in Key |-> Level(k)]

\* ratelimit.go implements TokenBucket: refilling at the next request equals
\* refilling all the time, deleting an unused bucket is not noticed, a refusal
\* costs nothing, and clients do not share.
ImplementsTokenBucket == Promise!BucketSpec
=============================================================================
