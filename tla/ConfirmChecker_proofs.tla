------------------------- MODULE ConfirmChecker_proofs -------------------------
(***************************************************************************)
(* Proofs about ConfirmChecker for any replicas, leases, payments and      *)
(* chain: type correctness, leadership, and the refinement of              *)
(* DepositLedger.                                                          *)
(***************************************************************************)
EXTENDS ConfirmChecker, SequenceTheorems, TLAPS

\* A replica in a campaign or in office has a lease, and no two have the same.
LeasesAreOwn ==
    /\ \A n \in Node : stage[n] \notin {"down", "idle"} => lease[n] \in Lease
    /\ \A m, n \in Node : m # n /\ lease[m] # None => lease[m] # lease[n]

\* What a check is about to confirm is deep already, and chains do not shrink.
BatchIsDeep == \A n \in Node : stage[n] = "update" => \A r \in batch[n] : Deep(r, Tip)

IInv == TypeOK /\ LeasesAreOwn /\ LeaderHoldsKey /\ BatchIsDeep

-----------------------------------------------------------------------------
(* The chain.                                                              *)

LEMMA ChainGrows ==
    ASSUME ChainTypeOK, (\E P \in SUBSET Payment : Mine(P)) \/ (\E h \in 1..Tip : Reorg(h))
    PROVE  ChainTypeOK' /\ Tip' \in Nat /\ Tip' >= Tip /\ mined \subseteq mined'
<1> USE ChainAssumption DEF ChainTypeOK
<1>1. Tip \in Nat /\ \A where : Canonical(where) \subseteq Record
  BY DEF Tip, Canonical
<1>2. ASSUME NEW P \in SUBSET Payment, Mine(P) PROVE ChainTypeOK' /\ Tip' = Tip + 1
  <2>1. blocks' \in Seq(0..MaxReorgs) /\ Len(blocks') = Len(blocks) + 1
    BY <1>2 DEF Mine
  <2>2. place' \in [Payment -> 0..MaxHeight]
    BY <1>1, <1>2 DEF Mine
  <2> QED
    BY <1>1, <1>2, <2>1, <2>2 DEF Mine, Tip
<1>3. ASSUME NEW h \in 1..Tip, Reorg(h) PROVE ChainTypeOK' /\ Tip' = Tip
  <2>1. reorgs' \in 0..MaxReorgs
    BY <1>3 DEF Reorg
  <2>2. \A i \in 1..Tip : blocks[i] \in 0..MaxReorgs
    BY DEF Tip
  <2>3. blocks' \in [1..Tip -> 0..MaxReorgs]
    BY <1>3, <2>1, <2>2 DEF Reorg
  <2>4. blocks' \in Seq(0..MaxReorgs) /\ Len(blocks') = Tip
    BY <1>1, <2>3
  <2>5. place' \in [Payment -> 0..MaxHeight]
    BY <1>1, <1>3 DEF Reorg, Tip
  <2> QED
    BY <1>1, <1>3, <2>1, <2>4, <2>5 DEF Reorg, Tip
<1>4. mined \subseteq mined'
  BY DEF Mine, Reorg
<1> QED
  BY <1>1, <1>2, <1>3, <1>4

\* A row that is deep at a tip is deep at every later one.
LEMMA DeepStays == ASSUME NEW r \in Record, NEW t \in Nat, NEW u \in Nat, u >= t, Deep(r, t)
                   PROVE  Deep(r, u)
  BY CheckerAssumption DEF Deep, Record

-----------------------------------------------------------------------------
(* The steps.                                                              *)

LEMMA InitIInv == Init => IInv
  BY ChainAssumption, CheckerAssumption
     DEF Init, ChainInit, IInv, TypeOK, ChainTypeOK, Stage, LeasesAreOwn, LeaderHoldsKey,
         Leads, Checking, BatchIsDeep

\* Steps of the election: the table, the batches and the chain stay.
LEMMA CampaignStep == ASSUME IInv, NEW n \in Node, Campaign(n) PROVE IInv'
<1> USE CheckerAssumption
    DEF Go, chainVars, etcdVars, tableVars, IInv, TypeOK, Stage, Checking, ChainTypeOK,
        LeasesAreOwn, LeaderHoldsKey, Leads, BatchIsDeep, Tip
<1>1. CASE Grant(n)
  BY <1>1 DEF Grant
\* The key was free, so that nobody leads with a live lease.
<1>2. CASE TxnWins(n)
  BY <1>2 DEF TxnWins
<1>3. CASE TxnFails(n)
  BY <1>3 DEF TxnFails
<1>4. CASE KeepAlive(n) \/ KeepAliveFails(n) \/ LeaseLost(n)
  BY <1>4 DEF KeepAlive, KeepAliveFails, LeaseLost
\* The lease that is revoked is nobody else's.
<1>5. CASE Revoke(n)
  BY <1>5 DEF Revoke, End
<1> QED
  BY <1>1, <1>2, <1>3, <1>4, <1>5 DEF Campaign

LEMMA CheckStep == ASSUME IInv, NEW n \in Node, Check(n) PROVE IInv'
<1> USE DEF Go, chainVars, etcdVars, tableVars, IInv, TypeOK, Stage, Checking, ChainTypeOK,
        LeasesAreOwn, LeaderHoldsKey, Leads, BatchIsDeep, Tip
<1>1. CASE Tick(n) \/ ListNothing(n) \/ EndCheck(n)
  BY <1>1 DEF Tick, ListNothing, EndCheck
<1>2. CASE List(n)
  BY <1>2 DEF List
\* When the RPC fails, no row is deep below a tip of 0.
<1>3. CASE Heights(n)
  <2>1. \A r \in Record : ~Deep(r, 0)
    BY CheckerAssumption DEF Deep, Record
  <2> QED
    BY <1>3, <2>1 DEF Heights
<1>4. ASSUME NEW r \in batch[n], Update(n, r) \/ UpdateFails(n, r) PROVE IInv'
  BY <1>4 DEF Update, UpdateFails
<1> QED
  BY <1>1, <1>2, <1>3, <1>4 DEF Check

LEMMA AroundStep ==
    ASSUME IInv,
           \/ \E n \in Node : Stop(n) \/ Boot(n)
           \/ \E l \in Lease : Expire(l)
           \/ \E r \in Record : Detect(r)
    PROVE  IInv'
<1> USE CheckerAssumption
    DEF Go, chainVars, etcdVars, tableVars, localVars, IInv, TypeOK, Stage, Checking,
        ChainTypeOK, LeasesAreOwn, LeaderHoldsKey, Leads, BatchIsDeep, Tip
<1>1. ASSUME NEW n \in Node, Stop(n) PROVE IInv'
  BY <1>1 DEF Stop, End
<1>2. ASSUME NEW n \in Node, Boot(n) PROVE IInv'
  BY <1>2 DEF Boot
<1>3. ASSUME NEW l \in Lease, Expire(l) PROVE IInv'
  BY <1>3 DEF Expire, End
<1>4. ASSUME NEW r \in Record, Detect(r) PROVE IInv'
  BY <1>4 DEF Detect
<1> QED
  BY <1>1, <1>2, <1>3, <1>4

LEMMA ChainStepIInv == ASSUME IInv, ChainStep PROVE IInv'
<1>1. ChainTypeOK' /\ Tip \in Nat /\ Tip' \in Nat /\ Tip' >= Tip
  BY ChainGrows DEF ChainStep, IInv, TypeOK, ChainTypeOK, Tip
<1>2. BatchIsDeep'
  BY <1>1, DeepStays DEF ChainStep, localVars, tableVars, IInv, TypeOK, BatchIsDeep
<1> QED
  BY <1>1, <1>2
     DEF ChainStep, etcdVars, tableVars, localVars, IInv, TypeOK, LeasesAreOwn,
         LeaderHoldsKey, Leads

LEMMA NextIInv == IInv /\ [Next]_vars => IInv'
<1> SUFFICES ASSUME IInv, [Next]_vars PROVE IInv'
  OBVIOUS
<1>1. CASE UNCHANGED vars
  BY <1>1 DEF vars, chainVars, etcdVars, tableVars, localVars, IInv, TypeOK, ChainTypeOK,
     LeasesAreOwn, LeaderHoldsKey, Leads, BatchIsDeep, Tip
<1> QED
  BY <1>1, CampaignStep, CheckStep, AroundStep, ChainStepIInv DEF Next

LEMMA SpecIInv == Spec => []IInv
  BY InitIInv, NextIInv, PTL DEF Spec

-----------------------------------------------------------------------------
(* The theorems.                                                           *)

\* The state of the election, the checks and the table is well typed.
THEOREM TypeCorrect == Spec => []TypeOK
  BY SpecIInv, PTL DEF IInv

\* A leader holds the key while its lease lives (confirm.go:69, 97).
THEOREM LeaderKeepsKey == Spec => []LeaderHoldsKey
  BY SpecIInv, PTL DEF IInv

\* Two replicas check at a time only if one of them lost its lease, as both would
\* hold the one key otherwise.
THEOREM OneLeader == Spec => []OneLeaderUpToExpiry
<1>1. IInv => OneLeaderUpToExpiry
  <2> SUFFICES ASSUME IInv, NEW m \in Node, NEW n \in Node, m # n, Leads(m), Leads(n),
                      lease[m] \in alive, lease[n] \in alive
               PROVE  FALSE
    BY DEF OneLeaderUpToExpiry
  <2>1. lease[m] = lease[n]
    BY DEF IInv, LeaderHoldsKey
  <2>2. lease[m] \in Lease
    BY DEF IInv, TypeOK
  <2> QED
    BY <2>1, <2>2, CheckerAssumption DEF IInv, LeasesAreOwn
<1> QED
  BY <1>1, SpecIInv, PTL

LEMMA InitRefines == Init => Ledger!LedgerInit
  BY DEF Init, ChainInit, Tip, Ledger!LedgerInit

LEMMA NextRefines == IInv /\ [Next]_vars =>
    [Ledger!ChainMoves \/ Ledger!Credit \/ Ledger!Confirm]_<<Tip, mined, rows, confirmed>>
<1> SUFFICES ASSUME IInv, [Next]_vars
             PROVE  \/ Ledger!ChainMoves \/ Ledger!Credit \/ Ledger!Confirm
                    \/ UNCHANGED <<Tip, mined, rows, confirmed>>
  OBVIOUS
<1> USE DEF chainVars, tableVars
<1>1. UNCHANGED chainVars => UNCHANGED <<Tip, mined>>
  BY DEF Tip
<1>2. CASE ChainStep
  BY <1>2, ChainGrows DEF ChainStep, IInv, TypeOK, Ledger!ChainMoves
<1>3. ASSUME NEW r \in Record, Detect(r) PROVE Ledger!Credit
  BY <1>1, <1>3 DEF Detect, Together, Ledger!Credit
<1>4. ASSUME NEW n \in Node, NEW r \in batch[n], Update(n, r) PROVE Ledger!Confirm
  BY <1>1, <1>4 DEF Update, IInv, TypeOK, BatchIsDeep, Deep, Ledger!Confirm
<1>5. CASE UNCHANGED <<chainVars, tableVars>>
  BY <1>1, <1>5
<1> QED
  BY <1>2, <1>3, <1>4, <1>5
     DEF Next, vars, Campaign, Check, Grant, TxnWins, TxnFails, KeepAlive, KeepAliveFails,
         LeaseLost, Revoke, Tick, List, ListNothing, Heights, UpdateFails, EndCheck, Stop,
         Boot, Expire

\* confirm.go confirms only rows that are Required blocks deep, and never takes a
\* confirmation back, however many replicas check at a time.
THEOREM LedgerRefinement == Spec => ImplementsLedger
  BY InitRefines, NextRefines, SpecIInv, PTL
     DEF Spec, ImplementsLedger, Ledger!LedgerSpec, Ledger!ledgerVars
=============================================================================
