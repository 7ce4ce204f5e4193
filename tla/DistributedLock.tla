--------------------------- MODULE DistributedLock ---------------------------
(***************************************************************************)
(* internal/lock/lock.go against etcd: Acquire grants a lease, tries to    *)
(* create the key under it in one transaction, and revokes the lease when  *)
(* it fails; Release revokes the lease.  Every RPC may fail, or take       *)
(* effect and lose its answer; a process may die between any two of them;  *)
(* a lease that is never renewed runs out.                                 *)
(***************************************************************************)
CONSTANTS Key, Session, Process, HostOf, None

ASSUME NoneAssumption == None \notin Session /\ None \notin Key

ASSUME HostAssumption == HostOf \in [Session -> Process]

VARIABLES
    lease,      \* etcd: the lease granted to each session
    guard,      \* etcd: guard[k] is the session under whose lease key k was
                \* created; None: the key does not exist (CreateRevision 0)
    pc,         \* where each session is in lock.go
    key         \* the key it asked for

vars == <<lease, guard, pc, key>>

LeaseStates == {"none", "live", "revoked", "expired"}

(* start: Acquire not called; granted: lease granted, transaction next;    *)
(* undo: Acquire failed and revokes; locked: Acquire returned a Lock;      *)
(* done: failed, released, or its process died.                            *)
Places == {"start", "granted", "undo", "locked", "done"}

TypeOK ==
    /\ lease \in [Session -> LeaseStates]
    /\ guard \in [Key -> Session \cup {None}]
    /\ pc \in [Session -> Places]
    /\ key \in [Session -> Key \cup {None}]

Init ==
    /\ lease = [s \in Session |-> "none"]
    /\ guard = [k \in Key |-> None]
    /\ pc = [s \in Session |-> "start"]
    /\ key = [s \in Session |-> None]

-----------------------------------------------------------------------------

\* Mutant of Detach: the key is put without clientv3.WithLease.
DetachNothing(s) == UNCHANGED guard

\* etcd deletes the keys attached to a lease together with the lease.
Detach(s) == guard' = [k \in Key |-> IF guard[k] = s THEN None ELSE guard[k]]

\* A Revoke that reaches etcd; it has no effect on a lease that is gone.
Revoke(s) ==
    /\ lease' = [lease EXCEPT ![s] = IF @ = "live" THEN "revoked" ELSE @]
    /\ Detach(s)

\* client.Grant(ctx, d.ttl) succeeds.
Grant(s, k) ==
    /\ pc[s] = "start"
    /\ lease' = [lease EXCEPT ![s] = "live"]
    /\ key' = [key EXCEPT ![s] = k]
    /\ pc' = [pc EXCEPT ![s] = "granted"]
    /\ UNCHANGED guard

\* Grant returns an error: nothing was granted, or the answer was lost and
\* a lease that guards no key is left to run out.
GrantFails(s, k) ==
    /\ pc[s] = "start"
    /\ \E l \in {"none", "live"} : lease' = [lease EXCEPT ![s] = l]
    /\ key' = [key EXCEPT ![s] = k]
    /\ pc' = [pc EXCEPT ![s] = "done"]
    /\ UNCHANGED guard

\* Mutant of TxnApplies: the comparison with CreateRevision 0 is missing.
TxnOverwrites(s) ==
    /\ pc[s] = "granted"
    /\ lease[s] = "live"
    /\ guard' = [guard EXCEPT ![key[s]] = s]
    /\ UNCHANGED <<lease, key>>

\* The transaction creates the key: If(CreateRevision = 0) Then(Put under
\* the lease).  etcd refuses a Put under a lease that is gone.
TxnApplies(s) ==
    /\ pc[s] = "granted"
    /\ lease[s] = "live"
    /\ guard[key[s]] = None
    /\ guard' = [guard EXCEPT ![key[s]] = s]
    /\ UNCHANGED <<lease, key>>

TxnSucceeds(s) ==
    /\ TxnApplies(s)
    /\ pc' = [pc EXCEPT ![s] = "locked"]

\* The key was created but txn.Commit reports an error to the caller.
TxnAnswerLost(s) ==
    /\ TxnApplies(s)
    /\ pc' = [pc EXCEPT ![s] = "undo"]

\* resp.Succeeded is false (the key exists), or Commit fails without effect
\* (no connection, cancelled request, lease already gone).
TxnRefused(s) ==
    /\ pc[s] = "granted"
    /\ pc' = [pc EXCEPT ![s] = "undo"]
    /\ UNCHANGED <<lease, guard, key>>

\* Mutant of Undo: the failure path deletes the key instead of the lease.
UndoDeletesKey(s) ==
    /\ pc[s] = "undo"
    /\ pc' = [pc EXCEPT ![s] = "done"]
    /\ guard' = [guard EXCEPT ![key[s]] = None]
    /\ UNCHANGED <<lease, key>>

\* Revoke(ctx) on the failure paths of Acquire; its error is ignored.
Undo(s) ==
    /\ pc[s] = "undo"
    /\ pc' = [pc EXCEPT ![s] = "done"]
    /\ \/ Revoke(s)
       \/ UNCHANGED <<lease, guard>>
    /\ UNCHANGED key

\* Release: Revoke under a timeout of 3 seconds, error ignored.
Release(s) ==
    /\ pc[s] = "locked"
    /\ pc' = [pc EXCEPT ![s] = "done"]
    /\ \/ Revoke(s)
       \/ UNCHANGED <<lease, guard>>
    /\ UNCHANGED key

-----------------------------------------------------------------------------
\* The environment.

\* etcd: the TTL of a lease is over.  Nothing in lock.go renews it.
LeaseExpires(s) ==
    /\ lease[s] = "live"
    /\ lease' = [lease EXCEPT ![s] = "expired"]
    /\ Detach(s)
    /\ UNCHANGED <<pc, key>>

\* Process p dies: its sessions make no further call.
Crash(p) ==
    /\ \E s \in Session : HostOf[s] = p /\ pc[s] \in {"granted", "undo", "locked"}
    /\ pc' = [s \in Session |->
                IF HostOf[s] = p /\ pc[s] # "start" THEN "done" ELSE pc[s]]
    /\ UNCHANGED <<lease, guard, key>>

SessionStep(s) ==
    \/ \E k \in Key : Grant(s, k) \/ GrantFails(s, k)
    \/ TxnSucceeds(s)
    \/ TxnAnswerLost(s)
    \/ TxnRefused(s)
    \/ Undo(s)
    \/ Release(s)
    \/ LeaseExpires(s)

Next ==
    \/ \E s \in Session : SessionStep(s)
    \/ \E p \in Process : Crash(p)

\* etcd lets every lease that is not renewed run out; nothing is assumed of
\* the callers.
Fairness == \A s \in Session : WF_vars(LeaseExpires(s))

Spec == Init /\ [][Next]_vars

FairSpec == Spec /\ Fairness

-----------------------------------------------------------------------------
(* Properties.                                                             *)

\* A key exists only while the lease it was created under is live, and only
\* for the session that asked for that very key: no interleaving of Grant,
\* Txn, Revoke and expiry leaves a lock behind that nothing will remove.
GuardIsLive ==
    \A k \in Key : guard[k] # None =>
        /\ lease[guard[k]] = "live"
        /\ key[guard[k]] = k
        /\ pc[guard[k]] \in {"undo", "locked", "done"}

\* A caller that holds a Lock whose lease is live owns the key in etcd: what
\* others undo or release on their way out never takes it away (lock.go:43-51).
HolderOwns ==
    \A s \in Session :
        pc[s] = "locked" /\ lease[s] = "live" => guard[key[s]] = s

\* A caller that holds a Lock can have lost its lease by expiry only, never by
\* a Revoke that another path of lock.go sent for it.
LostByExpiryOnly ==
    \A s \in Session : pc[s] = "locked" => lease[s] \in {"live", "expired"}

\* Two callers hold the Lock of one key only if a lease ran out.
MutualExclusion ==
    \A s, t \in Session :
        pc[s] = "locked" /\ pc[t] = "locked" /\ s # t /\ key[s] = key[t]
            => lease[s] = "expired" \/ lease[t] = "expired"

\* lock.go:29 "进程崩溃也不会死锁": whatever becomes of the caller, a key that is
\* taken is free again later.
KeyIsFreedAgain ==
    \A k \in Key, s \in Session : guard[k] = s ~> guard[k] # s

\* What the callers see is the abstract lock.
Inside == [s \in Session |-> IF pc[s] = "locked" THEN key[s] ELSE None]
Lapsed == {s \in Session : lease[s] = "expired"}

Abstract == INSTANCE UserLock WITH owner <- guard, inside <- Inside, lapsed <- Lapsed

\* Every step of lock.go and etcd is a step the abstract lock allows.
ImplementsUserLock == Abstract!LockSpec
=============================================================================
