------------------------ MODULE DistributedLock_proofs ------------------------
(***************************************************************************)
(* Proofs about DistributedLock for any number of sessions, keys and       *)
(* processes: type correctness, what a key in etcd says about its lease,   *)
(* mutual exclusion up to lease expiry, and the refinement of UserLock.    *)
(***************************************************************************)
EXTENDS DistributedLock, TLAPS

\* The inductive invariant.  MutualExclusion is not inductive by itself: it
\* holds because a holder with a live lease is the one the key names
\* (HolderOwns), which in turn needs that a key is only ever attached to a
\* live lease and to the key its session asked for (GuardIsLive), and that
\* a session past Grant has a lease and a key.
Started ==
    \A s \in Session :
        /\ pc[s] \in {"granted", "undo", "locked"} => key[s] \in Key /\ lease[s] # "none"
        /\ pc[s] \in {"start", "granted"} => lease[s] # "revoked"
        /\ pc[s] = "start" => lease[s] = "none"
        /\ pc[s] \in {"start", "granted"} => \A k \in Key : guard[k] # s

IInv ==
    /\ TypeOK
    /\ Started
    /\ GuardIsLive
    /\ HolderOwns
    /\ LostByExpiryOnly

\* The initial state satisfies the invariant.
LEMMA InitIInv == Init => IInv
  BY NoneAssumption DEF Init, IInv, TypeOK, Started, GuardIsLive, HolderOwns,
       LostByExpiryOnly, LeaseStates, Places

\* Every step of a caller, of etcd or of the environment preserves it.
LEMMA NextIInv == IInv /\ [Next]_vars => IInv'
<1> SUFFICES ASSUME IInv, [Next]_vars PROVE IInv'
  OBVIOUS
<1> USE NoneAssumption DEF IInv, TypeOK, Started, GuardIsLive, HolderOwns,
        LostByExpiryOnly, LeaseStates, Places
<1>1. ASSUME NEW s \in Session, NEW k \in Key, Grant(s, k) PROVE IInv'
  BY <1>1 DEF Grant
<1>2. ASSUME NEW s \in Session, NEW k \in Key, GrantFails(s, k) PROVE IInv'
  BY <1>2 DEF GrantFails
<1>3. ASSUME NEW s \in Session, TxnSucceeds(s) PROVE IInv'
  BY <1>3 DEF TxnSucceeds, TxnApplies
<1>4. ASSUME NEW s \in Session, TxnAnswerLost(s) PROVE IInv'
  BY <1>4 DEF TxnAnswerLost, TxnApplies
<1>5. ASSUME NEW s \in Session, TxnRefused(s) PROVE IInv'
  BY <1>5 DEF TxnRefused
<1>6. ASSUME NEW s \in Session, Undo(s) PROVE IInv'
  BY <1>6 DEF Undo, Revoke, Detach
<1>7. ASSUME NEW s \in Session, Release(s) PROVE IInv'
  BY <1>7 DEF Release, Revoke, Detach
<1>8. ASSUME NEW s \in Session, LeaseExpires(s) PROVE IInv'
  BY <1>8 DEF LeaseExpires, Detach
<1>9. ASSUME NEW p \in Process, Crash(p) PROVE IInv'
  BY <1>9 DEF Crash
<1>10. CASE UNCHANGED vars
  BY <1>10 DEF vars
<1> QED
  BY <1>1, <1>2, <1>3, <1>4, <1>5, <1>6, <1>7, <1>8, <1>9, <1>10
     DEF Next, SessionStep

\* The conjuncts of the invariant imply mutual exclusion up to expiry: two
\* holders of one key with live leases would both be the session it names.
LEMMA IInvExcludes == IInv => MutualExclusion
<1> SUFFICES ASSUME IInv, NEW s \in Session, NEW t \in Session,
                    pc[s] = "locked", pc[t] = "locked", s # t, key[s] = key[t]
             PROVE  lease[s] = "expired" \/ lease[t] = "expired"
  BY DEF MutualExclusion
<1>1. CASE lease[s] = "live" /\ lease[t] = "live"
  BY <1>1 DEF IInv, HolderOwns
<1>2. CASE ~(lease[s] = "live" /\ lease[t] = "live")
  BY <1>2 DEF IInv, LostByExpiryOnly
<1> QED
  BY <1>1, <1>2

\* The invariant holds throughout.
LEMMA SpecIInv == Spec => []IInv
  BY InitIInv, NextIInv, PTL DEF Spec

\* Every variable of the lock stays within its type, whatever the number of
\* callers and replicas.
THEOREM TypeCorrect == Spec => []TypeOK
<1>1. IInv => TypeOK
  BY DEF IInv
<1> QED
  BY <1>1, SpecIInv, PTL

\* A key in etcd always names a live lease, of a session that asked for it.
THEOREM GuardAlwaysLive == Spec => []GuardIsLive
<1>1. IInv => GuardIsLive
  BY DEF IInv
<1> QED
  BY <1>1, SpecIInv, PTL

\* A caller that holds a Lock and has not lost its lease owns the key in etcd, whoever
\* else is refused, undoes or releases meanwhile.
THEOREM HolderKeepsKey == Spec => []HolderOwns
<1>1. IInv => HolderOwns
  BY DEF IInv
<1> QED
  BY <1>1, SpecIInv, PTL

\* Two callers of Acquire hold one key only if a lease ran out.
THEOREM ExclusionUpToExpiry == Spec => []MutualExclusion
  BY SpecIInv, IInvExcludes, PTL

-----------------------------------------------------------------------------
(* Refinement.                                                             *)

\* An initial state of lock.go is one of the abstract lock.
LEMMA InitRefines == Init => Abstract!LockInit
  BY DEF Init, Abstract!LockInit, Inside, Lapsed

\* Every step is an abstract step or leaves the abstract state alone.
LEMMA NextRefines == IInv /\ [Next]_vars => [Abstract!LockNext]_(Abstract!lockVars)
<1> SUFFICES ASSUME IInv, [Next]_vars
             PROVE  Abstract!LockNext \/ UNCHANGED Abstract!lockVars
  OBVIOUS
<1>1. ASSUME NEW s \in Session, NEW k \in Key, Grant(s, k) \/ GrantFails(s, k)
      PROVE  UNCHANGED Abstract!lockVars
  BY <1>1 DEF Grant, GrantFails, Abstract!lockVars, Inside, Lapsed, IInv, TypeOK,
       Started, LeaseStates, Places
<1>2. ASSUME NEW s \in Session, TxnSucceeds(s)
      PROVE  key[s] \in Key /\ Abstract!Enter(s, key[s])
  <2> USE <1>2 DEF TxnSucceeds, TxnApplies, IInv, TypeOK, Started
  <2>1. key[s] \in Key /\ key[s] # None
    BY NoneAssumption
  <2>2. Inside[s] = None /\ s \notin Lapsed
    BY DEF Inside, Lapsed
  <2>3. Inside' = [Inside EXCEPT ![s] = key[s]]
    BY <2>1 DEF Inside, Places
  <2>4. Lapsed' = Lapsed
    BY DEF Lapsed
  <2> QED
    BY <2>1, <2>2, <2>3, <2>4 DEF Abstract!Enter
<1>3. ASSUME NEW s \in Session, TxnAnswerLost(s)
      PROVE  key[s] \in Key /\ Abstract!Claim(s, key[s])
  BY <1>3 DEF TxnAnswerLost, TxnApplies, Abstract!Claim, Inside, Lapsed, IInv, TypeOK,
       Started, Places
<1>4. ASSUME NEW s \in Session, TxnRefused(s)
      PROVE  UNCHANGED Abstract!lockVars
  BY <1>4 DEF TxnRefused, Abstract!lockVars, Inside, Lapsed, IInv, TypeOK, Places
<1>5. ASSUME NEW s \in Session, Undo(s)
      PROVE  Abstract!GiveBack(s) \/ UNCHANGED Abstract!lockVars
  <2> USE <1>5 DEF Undo, Inside, Lapsed, IInv, TypeOK, Places, LeaseStates
  <2>1. CASE Revoke(s)
    BY <2>1 DEF Revoke, Detach, Abstract!GiveBack
  <2>2. CASE UNCHANGED <<lease, guard>>
    BY <2>2 DEF Abstract!lockVars
  <2> QED
    BY <2>1, <2>2
<1>6. ASSUME NEW s \in Session, Release(s)
      PROVE  \E gone \in SUBSET Key : Abstract!Leave(s, gone)
  <2> USE <1>6 DEF Release
  <2>1. Inside[s] # None
    BY NoneAssumption DEF Inside, IInv, Started
  <2>2. Inside' = [Inside EXCEPT ![s] = None]
    BY DEF Inside, IInv, TypeOK, Places
  <2>3. CASE Revoke(s)
    <3> DEFINE gone == {k \in Key : guard[k] = s}
    <3>1. Lapsed' = Lapsed
      BY <2>3 DEF Revoke, Lapsed, IInv, TypeOK, LeaseStates
    <3>2. guard' = [k \in Key |-> IF k \in gone THEN None ELSE guard[k]]
      BY <2>3 DEF Revoke, Detach
    <3>3. Abstract!Leave(s, gone)
      BY <2>1, <2>2, <3>1, <3>2 DEF Abstract!Leave
    <3>4. gone \in SUBSET Key
      OBVIOUS
    <3> HIDE DEF gone
    <3> QED
      BY <3>3, <3>4
  <2>4. CASE UNCHANGED <<lease, guard>>
    <3>1. Lapsed' = Lapsed
      BY <2>4 DEF Lapsed
    <3>2. guard' = [k \in Key |-> IF k \in {} THEN None ELSE guard[k]]
      BY <2>4 DEF IInv, TypeOK
    <3>3. Abstract!Leave(s, {})
      BY <2>1, <2>2, <3>1, <3>2 DEF Abstract!Leave
    <3> QED
      BY <3>3
  <2> QED
    BY <2>3, <2>4
<1>7. ASSUME NEW s \in Session, LeaseExpires(s)
      PROVE  Abstract!Lapse(s)
  BY <1>7 DEF LeaseExpires, Detach, Abstract!Lapse, Inside, Lapsed, IInv, TypeOK
<1>8. ASSUME NEW p \in Process, Crash(p)
      PROVE  Abstract!Crash(p)
  BY <1>8 DEF Crash, Abstract!Crash, Inside, Lapsed, IInv, TypeOK
<1>9. CASE UNCHANGED vars
  BY <1>9 DEF vars, Abstract!lockVars, Inside, Lapsed
<1> QED
  BY <1>1, <1>2, <1>3, <1>4, <1>5, <1>6, <1>7, <1>8, <1>9
     DEF Next, SessionStep, Abstract!LockNext, Abstract!SessionStep

\* lock.go over etcd implements the abstract lock, lost answers, lost
\* revocations, expiry and crashes included.
THEOREM LockRefinement == Spec => ImplementsUserLock
<1>1. Init => Abstract!LockInit
  BY InitRefines
<1>2. IInv /\ [Next]_vars => [Abstract!LockNext]_(Abstract!lockVars)
  BY NextRefines
<1> QED
  BY <1>1, <1>2, SpecIInv, PTL DEF Spec, ImplementsUserLock, Abstract!LockSpec
=============================================================================
