------------------------------ MODULE UserLock ------------------------------
(***************************************************************************)
(* What internal/lock promises to its callers.  A caller ("session": one   *)
(* run of DistributedLock.Acquire and what follows it) enters the critical *)
(* section of a key when no one owns the key, and leaves it later.         *)
(* Ownership is only leased: it may lapse at any moment, the session is    *)
(* not told, and it stays inside while another one enters.                 *)
(*                                                                         *)
(* DistributedLock implements this module; Withdrawals is built on it.     *)
(***************************************************************************)
CONSTANTS
    Key,        \* lock keys, one per (user, chain): "withdraw:<user>:<chain>"
    Session,    \* calls of Acquire
    Process,    \* wallet-service replicas
    HostOf,     \* HostOf[s]: the replica that runs session s
    None        \* neither a key nor a session

VARIABLES
    owner,      \* owner[k]: the session whose lease guards key k, or None
    inside,     \* inside[s]: the key whose critical section s is in, or None
    lapsed      \* sessions whose lease ran out before they gave it back

lockVars == <<owner, inside, lapsed>>

LockTypeOK ==
    /\ owner \in [Key -> Session \cup {None}]
    /\ inside \in [Session -> Key \cup {None}]
    /\ lapsed \subseteq Session

LockInit ==
    /\ owner = [k \in Key |-> None]
    /\ inside = [s \in Session |-> None]
    /\ lapsed = {}

-----------------------------------------------------------------------------

\* Acquire succeeds: the key had no owner, s becomes it and goes on.
Enter(s, k) ==
    /\ owner[k] = None
    /\ inside[s] = None
    /\ s \notin lapsed
    /\ owner' = [owner EXCEPT ![k] = s]
    /\ inside' = [inside EXCEPT ![s] = k]
    /\ UNCHANGED lapsed

\* The key is taken for s although Acquire reports an error to s.
Claim(s, k) ==
    /\ owner[k] = None
    /\ inside[s] = None
    /\ s \notin lapsed
    /\ owner' = [owner EXCEPT ![k] = s]
    /\ UNCHANGED <<inside, lapsed>>

\* s leaves the critical section; the keys in gone are given back with it
\* (none if the Revoke does not reach etcd).
Leave(s, gone) ==
    /\ inside[s] # None
    /\ \A k \in gone : owner[k] = s
    /\ inside' = [inside EXCEPT ![s] = None]
    /\ owner' = [k \in Key |-> IF k \in gone THEN None ELSE owner[k]]
    /\ UNCHANGED lapsed

\* A session that is not inside gives back the keys it owns.
GiveBack(s) ==
    /\ inside[s] = None
    /\ owner' = [k \in Key |-> IF owner[k] = s THEN None ELSE owner[k]]
    /\ UNCHANGED <<inside, lapsed>>

\* The lease of s reaches its TTL: every key it guards is free again.
Lapse(s) ==
    /\ s \notin lapsed
    /\ lapsed' = lapsed \cup {s}
    /\ owner' = [k \in Key |-> IF owner[k] = s THEN None ELSE owner[k]]
    /\ UNCHANGED inside

\* Process p dies with everything it runs; etcd still holds the leases.
Crash(p) ==
    /\ inside' = [s \in Session |-> IF HostOf[s] = p THEN None ELSE inside[s]]
    /\ UNCHANGED <<owner, lapsed>>

SessionStep(s) ==
    \/ \E k \in Key : Enter(s, k) \/ Claim(s, k)
    \/ \E gone \in SUBSET Key : Leave(s, gone)
    \/ GiveBack(s)
    \/ Lapse(s)

LockNext ==
    \/ \E s \in Session : SessionStep(s)
    \/ \E p \in Process : Crash(p)

LockSpec == LockInit /\ [][LockNext]_lockVars

-----------------------------------------------------------------------------

\* A session in a critical section whose lease has not lapsed owns the key.
InsideOwns ==
    \A s \in Session :
        inside[s] # None /\ s \notin lapsed => owner[inside[s]] = s

\* Mutual exclusion as far as a lease without keepalive can give it: two
\* sessions are in the critical section of one key only if the lease of one
\* of them ran out (lock.go grants 30 seconds and never renews).
Exclusion ==
    \A s, t \in Session :
        inside[s] # None /\ inside[s] = inside[t] /\ s # t
            => s \in lapsed \/ t \in lapsed
=============================================================================
