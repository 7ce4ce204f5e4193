----------------------------- MODULE Jobs_proofs -----------------------------
(***************************************************************************)
(* Proofs about the jobs beside the service, for any withdrawals, sweeps,  *)
(* prices, payments and blocks.                                            *)
(*                                                                         *)
(* ETH hot wallet: the nonces in the pool follow the chain without a gap,  *)
(* an accepted transaction is displaced only by a transfer that had read   *)
(* its nonce, and a sweep leaves the amount to keep unless overtaken.  For *)
(* the nonces, balances and amounts play no part: what the account can pay *)
(* for only decides whether a transaction is accepted.                     *)
(*                                                                         *)
(* BTC hot wallet: what a sweep leaves.                                    *)
(*                                                                         *)
(* Reconciliation of either chain: what a report that is wrong was caused  *)
(* by, and that it is exact otherwise.                                     *)
(***************************************************************************)
EXTENDS Jobs, Sequences, FiniteSetTheorems, TLAPS

-----------------------------------------------------------------------------
(* The ETH hot wallet.                                                     *)

Typed ==
    /\ gasPrice \in Price
    /\ next \in Nonce
    /\ pool \in [Nonce -> Transfer \cup {None}]
    /\ stage \in [Transfer -> Stages]
    /\ nonce \in [Transfer -> Nonce]
    /\ price \in [Transfer -> Price \cup {0}]
    /\ accepted \subseteq Transfer
    /\ mined \subseteq accepted
    /\ rivals \in [Transfer -> SUBSET Transfer]

\* The pool holds accepted transactions under their nonces, none below the chain.
PoolIsOrdered ==
    /\ \A n \in Pending : n >= next /\ pool[n] \in accepted \ mined /\ nonce[pool[n]] = n
    /\ \A x \in accepted : stage[x] \in {"sent", "failed"}

\* Every mined transaction took one nonce.
MinedInOrder == Cardinality(mined) = next

\* Below a nonce that somebody holds, nothing is missing.
HeldFits == \A x \in Transfer : HoldsNonce(x) =>
    \A m \in Nonce : next <= m /\ m < nonce[x] => m \in Pending

\* Who still holds the nonce of a pending transaction held it when that was sent.
RivalsAreKnown == \A n \in Pending : \A y \in Transfer :
    HoldsNonce(y) /\ nonce[y] = n => y \in rivals[pool[n]]

IInv ==
    /\ Typed
    /\ PoolIsOrdered
    /\ MinedInOrder
    /\ NoNonceGap
    /\ HeldFits
    /\ RivalsAreKnown
    /\ DisplacedByRivalOnly

-----------------------------------------------------------------------------
(* Counting nonces.                                                        *)

LEMMA Counts == Cardinality(Transfer) \in Nat /\ Nonce \subseteq Nat
  BY TransferAssumption, FS_CardinalityType DEF Nonce

\* A pending transaction, and a nonce that none has.
LEMMA PendingIs == Typed => \A n \in Nonce :
    IF n \in Pending THEN pool[n] \in Transfer ELSE pool[n] = None
  BY DEF Typed, Pending

\* No more transactions are pending than were accepted and not mined.
LEMMA PendingCount == IInv =>
    /\ IsFiniteSet(Pending)
    /\ Cardinality(Pending) \in Nat
    /\ next + Cardinality(Pending) <= Cardinality(Transfer)
<1> SUFFICES ASSUME IInv
             PROVE  /\ IsFiniteSet(Pending)
                    /\ Cardinality(Pending) \in Nat
                    /\ next + Cardinality(Pending) <= Cardinality(Transfer)
  OBVIOUS
<1>1. /\ IsFiniteSet(accepted) /\ IsFiniteSet(accepted \ mined)
      /\ Cardinality(accepted) <= Cardinality(Transfer)
      /\ Cardinality(accepted \ mined) = Cardinality(accepted) - next
  <2>1. IsFiniteSet(accepted) /\ Cardinality(accepted) <= Cardinality(Transfer)
    BY TransferAssumption, FS_Subset DEF IInv, Typed
  <2>2. accepted \cap mined = mined
    BY DEF IInv, Typed
  <2> QED
    BY <2>1, <2>2, FS_Difference DEF IInv, MinedInOrder
<1> DEFINE f == [n \in Pending |-> pool[n]]
<1>2. f \in Injection(Pending, accepted \ mined)
  BY DEF Injection, IsInjective, IInv, PoolIsOrdered
<1>3. IsFiniteSet(Pending) /\ Cardinality(Pending) <= Cardinality(accepted \ mined)
  BY <1>1, <1>2, FS_Injection
<1> QED
  BY <1>1, <1>3, FS_CardinalityType, Counts DEF IInv, Typed

\* The pending nonces are the ones from the chain's on, as many as there are.
LEMMA PendingIsInterval == IInv => Pending = next .. next + Cardinality(Pending) - 1
<1> SUFFICES ASSUME IInv PROVE Pending = next .. next + Cardinality(Pending) - 1
  OBVIOUS
<1> DEFINE k == Cardinality(Pending)
<1>1. next \in Nat /\ k \in Nat /\ IsFiniteSet(Pending)
  BY PendingCount, Counts DEF IInv, Typed
<1>2. ASSUME NEW n \in Pending PROVE n \in next .. next + k - 1
  <2>1. n \in Nat /\ n >= next
    BY Counts DEF Pending, IInv, PoolIsOrdered
  <2>2. Cardinality(next .. n) = n - next + 1
    BY <1>1, <2>1, FS_Interval
  <2>3. Cardinality(next .. n) <= k
    BY <1>1, FS_Subset DEF IInv, NoNonceGap
  <2> QED
    BY <1>1, <2>1, <2>2, <2>3
<1> HIDE DEF k
<1>3. IsFiniteSet(next .. next + k - 1) /\ Cardinality(next .. next + k - 1) = k
  <2>1. next + k - 1 \in Int /\ (next > next + k - 1 <=> k = 0)
    BY <1>1
  <2> QED
    BY <1>1, <2>1, FS_Interval
<1> QED
  BY <1>2, <1>3, FS_Subset DEF k

\* PendingNonceAt answers the first free nonce; there is one for every transfer.
LEMMA PendingNonceIsNext == IInv =>
    /\ PendingNonce \in Nonce \ Pending
    /\ \A m \in Nonce : next <= m /\ m < PendingNonce => m \in Pending
<1> SUFFICES ASSUME IInv
             PROVE  /\ PendingNonce \in Nonce \ Pending
                    /\ \A m \in Nonce : next <= m /\ m < PendingNonce => m \in Pending
  OBVIOUS
<1> DEFINE free == next + Cardinality(Pending)
           S == {n \in Nonce : n >= next /\ pool[n] = None}
<1>1. next \in Nat /\ Cardinality(Pending) \in Nat /\ free \in Nonce
  BY PendingCount, Counts DEF IInv, Typed, Nonce
<1>2. \A n \in Nonce : n \in Pending <=> next <= n /\ n < free
  BY <1>1, PendingIsInterval, Counts
<1>3. \A n \in Nonce : n \in S <=> n >= free
  <2>1. next <= free /\ free \in Nat
    BY <1>1
  <2>2. \A n \in Nonce : n \in S <=> n >= next /\ n \notin Pending
    BY DEF Pending
  <2> HIDE DEF free, S
  <2> QED
    BY <1>1, <1>2, <2>1, <2>2, Counts
<1>4. S \subseteq Nonce
  OBVIOUS
<1> HIDE DEF S, free
<1>5. Min(S) = free
  <2>1. free \in S /\ \A m \in S : free <= m
    BY <1>1, <1>3, <1>4, Counts
  <2>2. \A m \in S : (\A y \in S : m <= y) => m = free
    BY <1>1, <1>4, <2>1, Counts
  <2> QED
    BY <2>1, <2>2 DEF Min
<1> QED
  BY <1>1, <1>2, <1>5, Counts DEF PendingNonce, S

-----------------------------------------------------------------------------
(* The steps.                                                              *)

LEMMA InitIInv == Init => IInv
<1> SUFFICES ASSUME Init PROVE IInv
  OBVIOUS
<1> USE Counts DEF Init
<1>1. Typed
  BY DEF Typed, Nonce, Stages
<1>2. Pending = {}
  BY DEF Pending
<1>3. \A x \in Transfer : ~HoldsNonce(x)
  BY TransferAssumption DEF HoldsNonce, Transfer
<1>4. MinedInOrder
  BY FS_EmptySet DEF MinedInOrder
<1> QED
  BY <1>1, <1>2, <1>3, <1>4
     DEF IInv, PoolIsOrdered, NoNonceGap, HeldFits, RivalsAreKnown, DisplacedByRivalOnly,
         Displaced

\* A step of one caller that the node does not notice: whatever nonce the caller
\* holds then, it had it before or PendingNonceAt has just answered it.
LEMMA LocalStep ==
    ASSUME IInv, NEW x \in Transfer \ accepted,
           gasPrice' = gasPrice, next' = next, pool' = pool, accepted' = accepted,
           mined' = mined, rivals' = rivals,
           stage' \in [Transfer -> Stages], nonce' \in [Transfer -> Nonce],
           price' \in [Transfer -> Price \cup {0}],
           \A y \in Transfer \ {x} :
               stage'[y] = stage[y] /\ nonce'[y] = nonce[y] /\ price'[y] = price[y],
           HoldsNonce(x)' =>
               \/ HoldsNonce(x) /\ nonce'[x] = nonce[x]
               \/ nonce'[x] = PendingNonce
    PROVE  IInv'
<1>1. Typed'
  BY DEF IInv, Typed
<1>2. Pending' = Pending /\ Displaced' = Displaced
  BY DEF Pending, Displaced
<1>3. \A y \in Transfer \ {x} : HoldsNonce(y)' <=> HoldsNonce(y)
  BY DEF HoldsNonce
<1>4. \A y \in accepted : y \in Transfer \ {x}
  BY DEF IInv, Typed
<1>5. PoolIsOrdered'
  BY <1>2, <1>4 DEF IInv, PoolIsOrdered
<1>6. MinedInOrder' /\ NoNonceGap'
  BY <1>2 DEF IInv, MinedInOrder, NoNonceGap
<1>7. HeldFits'
  BY <1>2, <1>3, PendingNonceIsNext DEF IInv, HeldFits
<1>8. RivalsAreKnown'
  BY <1>2, <1>3, PendingNonceIsNext DEF IInv, RivalsAreKnown
<1>9. DisplacedByRivalOnly'
  <2> SUFFICES ASSUME NEW z \in Displaced
               PROVE  \E y \in rivals[z] :
                        y \in accepted /\ nonce'[y] = nonce'[z] /\ price'[y] > price'[z]
    BY <1>2 DEF DisplacedByRivalOnly
  <2>1. PICK y \in rivals[z] :
          y \in accepted /\ nonce[y] = nonce[z] /\ price[y] > price[z]
    BY DEF IInv, DisplacedByRivalOnly
  <2> QED
    BY <1>4, <2>1 DEF Displaced
<1> QED
  BY <1>1, <1>5, <1>6, <1>7, <1>8, <1>9 DEF IInv

\* A caller whose transaction was accepted has returned.
LEMMA Unaccepted == IInv => \A x \in Transfer :
    stage[x] \notin {"sent", "failed"} => x \in Transfer \ accepted
  BY DEF IInv, PoolIsOrdered

LEMMA SendStep == ASSUME IInv, NEW x \in Transfer, Send(x) PROVE IInv'
<1> DEFINE n == nonce[x]
<1>1. PICK answer \in {"sent", "failed"} :
        /\ Admits(x)
        /\ stage[x] = "send" /\ stage' = [stage EXCEPT ![x] = answer]
        /\ pool' = [pool EXCEPT ![n] = x]
        /\ accepted' = accepted \cup {x}
        /\ rivals' = [rivals EXCEPT ![x] = Holding(n) \ {x}]
        /\ UNCHANGED <<gasPrice, next, nonce, price, mined>>
  BY DEF Send, Go
<1>2. n \in Nonce /\ n >= next /\ x \notin accepted /\ HoldsNonce(x)
  BY <1>1, Unaccepted DEF IInv, Typed, Admits, HoldsNonce
<1>3. n \in Pending => price[x] > price[pool[n]]
  BY <1>1 DEF Admits, Outbids, Pending
<1>4. pool'[n] = x /\ \A m \in Nonce \ {n} : pool'[m] = pool[m]
  BY <1>1, <1>2 DEF IInv, Typed
<1>5. \A y \in Transfer \ {x} : stage'[y] = stage[y] /\ rivals'[y] = rivals[y]
  BY <1>1 DEF IInv, Typed
<1>6. stage'[x] = answer /\ rivals'[x] = Holding(n) \ {x}
  BY <1>1 DEF IInv, Typed
<1>7. Pending' = Pending \cup {n}
  BY <1>2, <1>4, TransferAssumption DEF Pending
<1>8. \A y \in Transfer : HoldsNonce(y)' => y # x /\ HoldsNonce(y)
  BY <1>5, <1>6 DEF HoldsNonce
<1>9. \A m \in Pending : pool[m] \in Transfer \ {x}
  BY <1>2 DEF IInv, PoolIsOrdered, Typed
<1> HIDE DEF n
<1>10. Typed'
  <2>1. stage' \in [Transfer -> Stages] /\ pool' \in [Nonce -> Transfer \cup {None}]
    BY <1>1, <1>2 DEF IInv, Typed, Stages
  <2>2. rivals' \in [Transfer -> SUBSET Transfer]
    BY <1>1 DEF IInv, Typed, Holding
  <2> QED
    BY <1>1, <2>1, <2>2 DEF IInv, Typed
<1>11. PoolIsOrdered'
  <2>1. x \notin mined
    BY <1>2 DEF IInv, Typed
  <2>2. \A m \in Pending \cup {n} :
          m >= next /\ pool'[m] \in accepted' \ mined /\ nonce[pool'[m]] = m
    BY <1>1, <1>2, <1>4, <2>1 DEF n, IInv, PoolIsOrdered, Pending
  <2>3. \A y \in accepted' : stage'[y] \in {"sent", "failed"}
    BY <1>1, <1>5, <1>6 DEF IInv, PoolIsOrdered, Typed
  <2> QED
    BY <1>1, <1>7, <2>2, <2>3 DEF PoolIsOrdered
<1>12. MinedInOrder'
  BY <1>1 DEF IInv, MinedInOrder
<1>13. NoNonceGap'
  <2>1. \A m \in next .. n : m \in Pending \cup {n}
    <3> SUFFICES ASSUME NEW m \in next .. n, m # n PROVE m \in Pending
      OBVIOUS
    <3>1. m \in Nonce /\ next <= m /\ m < n
      BY <1>2, Counts DEF Nonce, IInv, Typed
    <3> QED
      BY <1>2, <3>1 DEF n, IInv, HeldFits
  <2> QED
    BY <1>1, <1>7, <2>1 DEF IInv, NoNonceGap
<1>14. HeldFits'
  BY <1>1, <1>7, <1>8 DEF IInv, HeldFits
<1>15. RivalsAreKnown'
  <2> SUFFICES ASSUME NEW m \in Pending \cup {n}, NEW y \in Transfer,
                      HoldsNonce(y)', nonce[y] = m
               PROVE  y \in rivals'[pool'[m]]
    BY <1>1, <1>7 DEF RivalsAreKnown
  <2>1. CASE m = n
    BY <1>4, <1>6, <1>8, <2>1 DEF Holding
  <2>2. CASE m # n
    BY <1>4, <1>5, <1>8, <1>9, <2>2 DEF IInv, RivalsAreKnown, Pending
  <2> QED
    BY <2>1, <2>2
<1>16. DisplacedByRivalOnly'
  <2> SUFFICES ASSUME NEW z \in Displaced'
               PROVE  \E y \in rivals'[z] :
                        y \in accepted' /\ nonce[y] = nonce[z] /\ price[y] > price[z]
    BY <1>1 DEF DisplacedByRivalOnly
  <2>1. z \in accepted \cup {x} /\ z \notin mined /\ \A m \in Pending \cup {n} : pool'[m] # z
    BY <1>1, <1>7 DEF Displaced
  <2>2. z \in Transfer \ {x} /\ z \in accepted /\ rivals'[z] = rivals[z]
    BY <1>4, <1>5, <2>1 DEF IInv, Typed
  <2>3. CASE \E m \in Pending : pool[m] = z
    <3>1. n \in Pending /\ pool[n] = z /\ nonce[z] = n
      BY <1>4, <2>1, <2>3 DEF IInv, PoolIsOrdered, Pending
    <3>2. x \in rivals[z]
      BY <1>2, <3>1 DEF n, IInv, RivalsAreKnown
    <3> QED
      BY <1>1, <1>3, <2>2, <3>1, <3>2 DEF n
  <2>4. CASE \A m \in Pending : pool[m] # z
    <3>1. z \in Displaced
      BY <2>1, <2>2, <2>4 DEF Displaced
    <3> QED
      BY <1>1, <2>2, <3>1 DEF IInv, DisplacedByRivalOnly
  <2> QED
    BY <2>3, <2>4
<1> QED
  BY <1>10, <1>11, <1>12, <1>13, <1>14, <1>15, <1>16 DEF IInv

LEMMA MineStep == ASSUME IInv, Mine PROVE IInv'
<1> DEFINE x == pool[next]
<1>1. /\ next \in Pending
      /\ mined' = mined \cup {x}
      /\ pool' = [pool EXCEPT ![next] = None]
      /\ next' = next + 1
      /\ UNCHANGED <<gasPrice, stage, nonce, price, accepted, rivals>>
  BY DEF Mine, callVars
<1>2. x \in accepted \ mined /\ x \in Transfer /\ next \in Nat /\ next \in Nonce
  BY <1>1, Counts DEF IInv, PoolIsOrdered, Typed
<1>3. pool'[next] = None /\ \A m \in Nonce \ {next} : pool'[m] = pool[m]
  BY <1>1, <1>2 DEF IInv, Typed
<1>4. Pending' = Pending \ {next}
  BY <1>3 DEF Pending
<1>5. \A m \in Pending \ {next} : m > next /\ pool'[m] = pool[m] /\ pool[m] # x
  BY <1>1, <1>2, <1>3, Counts DEF Pending, IInv, PoolIsOrdered
<1>6. \A y \in Transfer : HoldsNonce(y)' <=> HoldsNonce(y)
  BY <1>1 DEF HoldsNonce
<1>7. Cardinality(mined') = next + 1 /\ next + 1 \in Nonce
  <2>1. IsFiniteSet(mined) /\ IsFiniteSet(mined')
    BY <1>1, <1>2, TransferAssumption, FS_Subset DEF IInv, Typed
  <2>2. Cardinality(mined') = next + 1
    BY <1>1, <1>2, <2>1, FS_AddElement DEF IInv, MinedInOrder
  <2>3. Cardinality(mined') <= Cardinality(Transfer)
    BY <1>1, <1>2, TransferAssumption, FS_Subset DEF IInv, Typed
  <2> QED
    BY <1>2, <2>2, <2>3, Counts DEF Nonce
<1> HIDE DEF x
<1>8. Typed'
  BY <1>1, <1>2, <1>7 DEF IInv, Typed
<1>9. PoolIsOrdered'
  <2>1. \A m \in Pending \ {next} :
          m \in Nat /\ pool[m] \in accepted \ mined' /\ nonce[pool[m]] = m
    BY <1>1, <1>5, Counts DEF IInv, PoolIsOrdered, Pending
  <2>2. \A m \in Pending \ {next} :
          m >= next + 1 /\ pool'[m] \in accepted \ mined' /\ nonce[pool'[m]] = m
    BY <1>2, <1>5, <2>1
  <2> QED
    BY <1>1, <1>4, <2>2 DEF IInv, PoolIsOrdered
<1>10. MinedInOrder'
  BY <1>1, <1>7 DEF MinedInOrder
<1>11. NoNonceGap'
  <2> SUFFICES ASSUME NEW m \in Pending \ {next}, NEW i \in next + 1 .. m
               PROVE  i \in Pending \ {next}
    BY <1>1, <1>4 DEF NoNonceGap
  <2>1. i \in next .. m /\ i # next
    BY <1>2
  <2> QED
    BY <2>1 DEF IInv, NoNonceGap
<1>12. HeldFits'
  BY <1>1, <1>2, <1>4, <1>6, Counts DEF IInv, HeldFits
<1>13. RivalsAreKnown'
  BY <1>1, <1>4, <1>5, <1>6 DEF IInv, RivalsAreKnown
<1>14. Displaced' \subseteq Displaced
  BY <1>1, <1>4, <1>5 DEF x, Displaced
<1>15. DisplacedByRivalOnly'
  BY <1>1, <1>14 DEF IInv, DisplacedByRivalOnly
<1> QED
  BY <1>8, <1>9, <1>10, <1>11, <1>12, <1>13, <1>15 DEF IInv

\* The steps of the callers before they send, and the ones that end them.
LEMMA CallerStep ==
    ASSUME IInv, NEW x \in Transfer,
           \/ Fail(x) \/ SendRefused(x)
           \/ x \in Withdrawal /\ (ReadNonceFirst(x) \/ ReadCappedPrice(x))
           \/ x \in Sweep /\ (ReadBalance(x) \/ ReadPrice(x) \/ NothingToSweep(x)
                                \/ ReadNonceLast(x))
    PROVE  IInv'
<1> USE DEF nodeVars, historyVars, Go, IInv, Typed, Stages
<1>1. x \in Transfer \ accepted
  BY Unaccepted DEF Fail, Running, SendRefused, ReadNonceFirst, ReadCappedPrice, ReadBalance,
     ReadPrice, NothingToSweep, ReadNonceLast
<1>2. UNCHANGED <<gasPrice, next, pool, accepted, mined, rivals>>
  BY DEF Fail, SendRefused, ReadNonceFirst, ReadCappedPrice, ReadBalance, ReadPrice,
     NothingToSweep, ReadNonceLast
<1>3. PendingNonce \in Nonce
  BY PendingNonceIsNext
<1>4. x \in Sweep => x \notin Withdrawal
  BY TransferAssumption
<1>5. CASE Fail(x) \/ SendRefused(x)
  BY <1>1, <1>2, <1>5, LocalStep DEF Fail, SendRefused, HoldsNonce
<1>6. CASE x \in Withdrawal /\ ReadNonceFirst(x)
  BY <1>1, <1>2, <1>3, <1>6, LocalStep DEF ReadNonceFirst
<1>7. CASE x \in Withdrawal /\ ReadCappedPrice(x)
  BY <1>1, <1>2, <1>7, LocalStep DEF ReadCappedPrice, HoldsNonce
<1>8. CASE x \in Sweep /\ ReadBalance(x)
  BY <1>1, <1>2, <1>4, <1>8, LocalStep DEF ReadBalance, HoldsNonce
<1>9. CASE x \in Sweep /\ ReadPrice(x)
  BY <1>1, <1>2, <1>4, <1>9, LocalStep DEF ReadPrice, HoldsNonce
<1>10. CASE x \in Sweep /\ NothingToSweep(x)
  BY <1>1, <1>2, <1>4, <1>10, LocalStep DEF NothingToSweep, HoldsNonce
<1>11. CASE x \in Sweep /\ ReadNonceLast(x)
  BY <1>1, <1>2, <1>3, <1>11, LocalStep DEF ReadNonceLast
<1> QED
  BY <1>5, <1>6, <1>7, <1>8, <1>9, <1>10, <1>11

\* What the invariant does not see: money, and the price of the day.
LEMMA OutsideStep ==
    ASSUME IInv, gasPrice' \in Price,
           UNCHANGED <<next, pool, stage, nonce, price, accepted, mined, rivals>>
    PROVE  IInv'
<1>1. Pending' = Pending /\ Displaced' = Displaced
  BY DEF Pending, Displaced
<1>2. \A y \in Transfer : HoldsNonce(y)' <=> HoldsNonce(y)
  BY DEF HoldsNonce
<1> QED
  BY <1>1, <1>2 DEF IInv, Typed, PoolIsOrdered, MinedInOrder, NoNonceGap, HeldFits,
     RivalsAreKnown, DisplacedByRivalOnly

LEMMA NextIInv == IInv /\ [Next]_vars => IInv'
<1> SUFFICES ASSUME IInv, [Next]_vars PROVE IInv'
  OBVIOUS
<1>1. CASE Fund \/ PriceMoves \/ UNCHANGED vars
  BY <1>1, OutsideStep
     DEF Fund, PriceMoves, vars, nodeVars, callVars, historyVars, IInv, Typed
<1>2. CASE Mine
  BY <1>2, MineStep
<1>3. ASSUME NEW x \in Transfer, Send(x) PROVE IInv'
  BY <1>3, SendStep
<1>4. ASSUME NEW x \in Transfer, Fail(x) \/ SendRefused(x) PROVE IInv'
  BY <1>4, CallerStep
<1>5. ASSUME NEW w \in Withdrawal, ReadNonceFirst(w) \/ ReadCappedPrice(w) PROVE IInv'
  BY <1>5, CallerStep DEF Transfer
<1>6. ASSUME NEW s \in Sweep,
             ReadBalance(s) \/ ReadPrice(s) \/ NothingToSweep(s) \/ ReadNonceLast(s)
      PROVE  IInv'
  BY <1>6, CallerStep DEF Transfer
<1> QED
  BY <1>1, <1>2, <1>3, <1>4, <1>5, <1>6 DEF Next

LEMMA SpecIInv == Spec => []IInv
  BY InitIInv, NextIInv, PTL DEF Spec

\* Whatever fails and whoever else sends, no accepted transaction waits for a nonce
\* that nobody sends (withdraw.go:32, sweeper.go:234).
THEOREM NonceGapFree == Spec => []NoNonceGap
  BY SpecIInv, PTL DEF IInv

\* Only a transfer that read the same nonce before can push an accepted transaction
\* out of the pool, and it pays more (withdraw.go:32, 63).
THEOREM DisplacementCause == Spec => []DisplacedByRivalOnly
  BY SpecIInv, PTL DEF IInv

-----------------------------------------------------------------------------
(* What a sweep of the ETH account leaves.                                 *)

\* A sweep that was not overtaken finds what it read, and what it keeps.
Funded(s) ==
    /\ stage[s] = "price" => balance >= amount[s]
    /\ stage[s] \in {"nonce", "send"} \/ s \in accepted \ mined =>
          balance >= amount[s] + price[s] + Keep

KInv ==
    /\ IInv
    /\ balance \in Int /\ amount \in [Transfer -> Int]
    /\ \A s \in Sweep \ overtaken : Funded(s)

\* A step of one caller that is not a transfer of money.
LEMMA CallerKeeps ==
    ASSUME KInv, IInv', NEW x \in Transfer, UNCHANGED <<balance, mined, overtaken>>,
           amount' \in [Transfer -> Int],
           \A y \in Transfer \ {x} :
               /\ stage'[y] = stage[y] /\ price'[y] = price[y] /\ amount'[y] = amount[y]
               /\ y \in accepted' => y \in accepted,
           x \in Sweep => Funded(x)' \/ x \in overtaken
    PROVE  KInv'
  BY DEF KInv, Funded, Transfer

LEMMA KeepStep == KInv /\ [Next]_vars => KInv'
<1> SUFFICES ASSUME KInv, [Next]_vars PROVE KInv'
  OBVIOUS
<1> USE DEF nodeVars, callVars, historyVars, Go
<1>1. IInv /\ IInv'
  BY NextIInv DEF KInv
<1>2. /\ balance \in Int /\ amount \in [Transfer -> Int] /\ stage \in [Transfer -> Stages]
      /\ gasPrice \in Nat /\ Keep \in Nat /\ price \in [Transfer -> Nat]
      /\ Price \subseteq Nat
  <2>1. Price \cup {0} \subseteq Nat /\ Keep \in Nat
    BY MoneyAssumption
  <2>2. gasPrice \in Price /\ price \in [Transfer -> Price \cup {0}] /\ stage \in [Transfer -> Stages]
    BY <1>1 DEF IInv, Typed
  <2>3. price \in [Transfer -> Nat]
    <3> DEFINE Bid == Price \cup {0}
    <3>1. Bid \subseteq Nat /\ price \in [Transfer -> Bid]
      BY <2>1, <2>2
    <3> HIDE DEF Bid
    <3> QED
      BY <3>1
  <2> QED
    BY <2>1, <2>2, <2>3 DEF KInv
<1>3. \A x \in Transfer : stage[x] \notin {"sent", "failed"} => x \notin accepted
  BY <1>1, Unaccepted
<1>4. CASE Fund
  <2>1. PICK d \in Amount : balance' = balance + d
    BY <1>4 DEF Fund
  <2>2. d \in Nat
    BY MoneyAssumption
  <2>3. UNCHANGED <<callVars, historyVars>>
    BY <1>4 DEF Fund
  <2>4. \A s \in Sweep : s \in Transfer
    BY DEF Transfer
  <2> QED
    BY <1>1, <1>2, <2>1, <2>2, <2>3, <2>4 DEF KInv, Funded
<1>5. CASE PriceMoves \/ UNCHANGED vars
  <2>1. UNCHANGED <<balance, callVars, historyVars>>
    BY <1>5 DEF PriceMoves, vars
  <2> QED
    BY <1>1, <2>1 DEF KInv, Funded
<1>6. CASE Mine
  <2> DEFINE x == pool[next]
  <2>1. /\ next \in Pending /\ balance' = balance - Cost(x) /\ mined' = mined \cup {x}
        /\ overtaken' = overtaken \cup (Relying \ {x})
        /\ UNCHANGED <<stage, nonce, price, amount, accepted>>
    BY <1>6 DEF Mine
  <2>2. x \in Transfer /\ x \in accepted /\ stage[x] \in {"sent", "failed"}
    BY <1>1, <2>1 DEF IInv, Typed, PoolIsOrdered
  <2>3. balance' \in Int
    BY <1>2, <2>1, <2>2 DEF Cost
  <2>4. ASSUME NEW s \in Sweep \ overtaken' PROVE Funded(s)'
    <3>1. s = x \/ s \notin Relying
      BY <2>1
    <3> QED
      BY <2>1, <2>2, <3>1 DEF Relying, Funded
  <2> QED
    BY <1>1, <2>1, <2>3, <2>4 DEF KInv
<1>7. ASSUME NEW x \in Transfer, Fail(x) \/ SendRefused(x) PROVE KInv'
  BY <1>1, <1>2, <1>3, <1>7, CallerKeeps DEF Fail, Running, SendRefused, Funded
<1>8. ASSUME NEW x \in Transfer, Send(x) PROVE KInv'
  <2>1. PICK answer \in {"sent", "failed"} :
          /\ stage[x] = "send" /\ stage' = [stage EXCEPT ![x] = answer]
          /\ accepted' = accepted \cup {x}
          /\ UNCHANGED <<balance, price, amount, mined, overtaken>>
    BY <1>8 DEF Send
  <2>2. x \in Sweep => Funded(x)' \/ x \in overtaken
    BY <1>2, <2>1 DEF KInv, Funded
  <2> QED
    BY <1>1, <1>2, <2>1, <2>2, CallerKeeps
<1>9. ASSUME NEW w \in Withdrawal, ReadNonceFirst(w) \/ ReadCappedPrice(w) PROVE KInv'
  <2>1. w \in Transfer /\ w \notin Sweep
    BY TransferAssumption DEF Transfer
  <2>2. /\ amount' \in [Transfer -> Int]
        /\ \A y \in Transfer \ {w} :
              stage'[y] = stage[y] /\ price'[y] = price[y] /\ amount'[y] = amount[y]
        /\ UNCHANGED <<balance, accepted, mined, overtaken>>
    BY <1>2, <1>9, MoneyAssumption DEF ReadNonceFirst, ReadCappedPrice
  <2> QED
    BY <1>1, <2>1, <2>2, CallerKeeps
<1>10. ASSUME NEW s \in Sweep,
              ReadBalance(s) \/ ReadPrice(s) \/ NothingToSweep(s) \/ ReadNonceLast(s)
       PROVE  KInv'
  <2>1. s \in Transfer /\ s \notin accepted
    BY <1>3, <1>10 DEF Transfer, ReadBalance, ReadPrice, NothingToSweep, ReadNonceLast
  <2>2. /\ amount' \in [Transfer -> Int]
        /\ \A y \in Transfer \ {s} :
              stage'[y] = stage[y] /\ price'[y] = price[y] /\ amount'[y] = amount[y]
        /\ UNCHANGED <<balance, accepted, mined, overtaken>>
    BY <1>2, <1>10, <2>1 DEF ReadBalance, ReadPrice, NothingToSweep, ReadNonceLast, SweepAmount
  <2>3. Funded(s)' \/ s \in overtaken
    <3> SUFFICES ASSUME s \notin overtaken PROVE Funded(s)'
      OBVIOUS
    <3>1. Funded(s)
      BY DEF KInv
    <3>2. CASE ReadBalance(s)
      BY <1>2, <2>1, <2>2, <3>2 DEF ReadBalance, Funded
    <3>3. CASE ReadPrice(s)
      BY <1>2, <2>1, <2>2, <3>1, <3>3 DEF ReadPrice, SweepAmount, Funded
    <3>4. CASE NothingToSweep(s) \/ ReadNonceLast(s)
      BY <1>2, <2>1, <2>2, <3>1, <3>4 DEF NothingToSweep, ReadNonceLast, Funded
    <3> QED
      BY <1>10, <3>2, <3>3, <3>4
  <2> QED
    BY <1>1, <2>1, <2>2, <2>3, CallerKeeps
<1> QED
  BY <1>4, <1>5, <1>6, <1>7, <1>8, <1>9, <1>10 DEF Next

LEMMA SpecKInv == Spec => []KInv
<1>1. Init => KInv
  BY InitIInv DEF Init, KInv, Funded, Transfer
<1> QED
  BY <1>1, KeepStep, PTL DEF Spec

\* A sweep of the ETH account leaves the amount to keep behind, unless another
\* transfer was mined since it read the balance (sweeper.go:184).
THEOREM SweepKeeps == Spec => SweepLeavesKeep
<1>1. KInv /\ [Next]_vars =>
        [\A s \in Sweep : s \in mined' \ mined => balance' >= Keep \/ s \in overtaken]_vars
  <2> SUFFICES ASSUME KInv, [Next]_vars, NEW s \in Sweep, s \in mined' \ mined, s \notin overtaken
               PROVE  balance' >= Keep
    OBVIOUS
  <2>1. Mine
    BY DEF Next, Fund, PriceMoves, Fail, Send, SendRefused, ReadNonceFirst, ReadCappedPrice,
       ReadBalance, ReadPrice, NothingToSweep, ReadNonceLast, vars, nodeVars, callVars, historyVars
  <2>2. s = pool[next] /\ next \in Pending /\ balance' = balance - Cost(s)
    BY <2>1 DEF Mine
  <2>3. s \in accepted \ mined
    BY <2>2 DEF KInv, IInv, PoolIsOrdered
  <2>4. balance >= amount[s] + price[s] + Keep
    BY <2>3 DEF KInv, Funded
  <2>5. /\ balance \in Int /\ amount[s] \in Int /\ price[s] \in Int /\ Keep \in Int
        /\ s \in Transfer
    <3>1. s \in Transfer /\ Price \cup {0} \subseteq Nat /\ Keep \in Nat
      BY MoneyAssumption DEF Transfer
    <3>2. price[s] \in Price \cup {0}
      BY <3>1 DEF KInv, IInv, Typed
    <3>3. price[s] \in Int
      BY <3>1, <3>2
    <3> QED
      BY <3>1, <3>3 DEF KInv
  <2> QED
    BY <2>2, <2>4, <2>5 DEF Cost
<1> QED
  BY <1>1, SpecKInv, PTL DEF Spec, SweepLeavesKeep

-----------------------------------------------------------------------------
(* What a sweep of the BTC wallet leaves.                                  *)

BTCInv ==
    /\ balanceBTC \in Int /\ amountBTC \in [BTC!Transfer -> Int]
    /\ stageBTC \in [BTC!Transfer -> BTC!Stages]
    /\ fee \in [BTC!Transfer -> Int]
    /\ \A s \in SweepBTC \ overtakenBTC :
          stageBTC[s] = "send" => balanceBTC >= amountBTC[s] + Keep + FeeBuffer

LEMMA BTCMoney ==
    /\ Withdrawal \cap SweepBTC = {}
    /\ Fee \subseteq Nat /\ Amount \subseteq Nat /\ FeeBuffer \in Nat /\ Keep \in Nat
  BY WalletAssumption DEF BTC!TransferAssumption, BTC!MoneyAssumption

LEMMA BTCPay ==
    ASSUME BTCInv, NEW x \in BTC!Transfer, BTC!Send(x) \/ BTC!SendUnanswered(x)
    PROVE  /\ BTCInv'
           /\ paid' = paid \cup {x}
           /\ x \in SweepBTC \ overtakenBTC => balanceBTC' >= Keep \/ fee'[x] > FeeBuffer
<1> USE BTCMoney
<1>1. PICK f \in Fee, to \in BTC!Stages :
        /\ stageBTC[x] = "send" /\ stageBTC' = [stageBTC EXCEPT ![x] = to] /\ to # "send"
        /\ BTC!Pay(x, f) /\ UNCHANGED amountBTC
  BY DEF BTC!Send, BTC!SendUnanswered, BTC!Go, BTC!Stages
<1>2. /\ balanceBTC' = balanceBTC - amountBTC[x] - f
      /\ fee' = [fee EXCEPT ![x] = f] /\ paid' = paid \cup {x}
      /\ overtakenBTC' = overtakenBTC \cup {s \in SweepBTC \ {x} : stageBTC[s] = "send"}
  BY <1>1 DEF BTC!Pay
<1>3. f \in Nat /\ amountBTC[x] \in Int /\ balanceBTC' \in Int /\ fee'[x] = f
  BY <1>2 DEF BTCInv
<1>4. \A s \in SweepBTC \ overtakenBTC' : stageBTC'[s] # "send"
  BY <1>1, <1>2 DEF BTCInv, BTC!Transfer
<1>5. BTCInv'
  BY <1>1, <1>2, <1>3, <1>4 DEF BTCInv
<1>6. x \in SweepBTC \ overtakenBTC => balanceBTC' >= Keep \/ fee'[x] > FeeBuffer
  BY <1>1, <1>2, <1>3 DEF BTCInv
<1> QED
  BY <1>2, <1>5, <1>6

LEMMA BTCStep ==
    ASSUME BTCInv, [BTC!Next]_(BTC!vars)
    PROVE  /\ BTCInv'
           /\ \A s \in SweepBTC : s \in paid' \ paid =>
                balanceBTC' >= Keep \/ fee'[s] > FeeBuffer \/ s \in overtakenBTC
<1> USE BTCMoney DEF BTC!Go
<1>1. CASE UNCHANGED BTC!vars
  BY <1>1 DEF BTC!vars, BTCInv
<1>2. CASE BTC!Fund
  <2>1. PICK d \in Amount : balanceBTC' = balanceBTC + d
    BY <1>2 DEF BTC!Fund
  <2>2. UNCHANGED <<stageBTC, amountBTC, paid, fee, overtakenBTC>>
    BY <1>2 DEF BTC!Fund
  <2>3. \A s \in SweepBTC : amountBTC[s] \in Int
    BY DEF BTCInv, BTC!Transfer
  <2> QED
    BY <2>1, <2>2, <2>3 DEF BTCInv
<1>3. ASSUME NEW x \in BTC!Transfer, BTC!Send(x) \/ BTC!SendUnanswered(x)
      PROVE  /\ BTCInv'
             /\ \A s \in SweepBTC : s \in paid' \ paid =>
                  balanceBTC' >= Keep \/ fee'[s] > FeeBuffer \/ s \in overtakenBTC
  BY <1>3, BTCPay
<1>4. ASSUME NEW x \in BTC!Transfer, BTC!SendFails(x) PROVE BTCInv' /\ UNCHANGED paid
  BY <1>4 DEF BTC!SendFails, BTCInv, BTC!Stages, BTC!Transfer
<1>5. ASSUME NEW w \in Withdrawal, BTC!Ask(w) \/ BTC!QueryFee(w) \/ BTC!QueryFeeFails(w)
      PROVE  BTCInv' /\ UNCHANGED paid
  <2>1. w \in BTC!Transfer /\ w \notin SweepBTC
    BY DEF BTC!Transfer
  <2>2. CASE BTC!Ask(w)
    BY <2>1, <2>2 DEF BTC!Ask, BTCInv, BTC!Stages, BTC!Transfer
  <2>3. CASE BTC!QueryFee(w) \/ BTC!QueryFeeFails(w)
    BY <2>1, <2>3 DEF BTC!QueryFee, BTC!QueryFeeFails, BTCInv, BTC!Stages, BTC!Transfer
  <2> QED
    BY <1>5, <2>2, <2>3
<1>6. ASSUME NEW s \in SweepBTC, BTC!ReadBalance(s) \/ BTC!NothingToSweep(s)
      PROVE  BTCInv' /\ UNCHANGED paid
  BY <1>6 DEF BTC!ReadBalance, BTC!NothingToSweep, BTC!SweepAmount, BTCInv, BTC!Stages, BTC!Transfer
<1> QED
  BY <1>1, <1>2, <1>3, <1>4, <1>5, <1>6 DEF BTC!Next, BTC!Fund

-----------------------------------------------------------------------------
(* The reconciliation of one chain.                                        *)

Chains == {"btc", "eth"}

Low(c) == Reconcile(c)!MinHeight
RowOf(c, p) == Reconcile(c)!RowOf(p)
Found(type, p) == [type |-> type, pay |-> p] \in findings

\* Payments to known addresses in the blocks of the window that were passed.
Past(c, p) ==
    /\ p \in known /\ place[p] # 0
    /\ Low(c) <= place[p] /\ place[p] < h /\ place[p] <= current

\* The window lies in the chain, the snapshot is its part of the table, and
\* nothing is there before it is loaded; phantoms are the last thing reported.
RunPart(c) ==
    /\ current <= Len(blocks)
    /\ run \in {"idle", "height", "load"} =>
          snapshot = {} /\ atLoad = {} /\ findings = {} /\ seen = {} /\ failed = {}
    /\ run = "idle" => ~shaken
    /\ snapshot = {d \in atLoad : Low(c) <= d.height /\ d.height <= current}
    /\ run \in {"scan", "done"} => Low(c) <= h
    /\ run = "done" => h > current
    /\ \A p \in Payment : Found("phantom", p) =>
          run = "done" /\ TxOf[c][p] \notin seen

\* A row whose block was fetched is seen, as long as no block is replaced.
SeenPart(c) ==
    ~shaken => \A d \in snapshot :
        /\ d.pay \in known /\ place[d.pay] = d.height
        /\ d.height < h /\ d.height \notin failed
        => TxOf[c][d.pay] \in seen

\* A payment reported as missing had no row in the snapshot.
MissingPart(c) == \A p \in Payment : Found("missing", p) => RowOf(c, p) = {}

\* What a quiet run has reported is exact for the blocks it has passed.
Exact(c) ==
    /\ \A p \in Payment :
          /\ Found("missing", p) <=> Past(c, p) /\ RowOf(c, p) = {}
          /\ Found("amount_mismatch", p) <=>
                Past(c, p) /\ \E d \in RowOf(c, p) : Value[c][d.pay] # Value[c][p]
          /\ run = "done" =>
                (Found("phantom", p) <=> \E d \in snapshot : d.pay = p /\ TxOf[c][p] \notin seen)
    /\ \A x : x \in seen <=>
          \E p \in Payment : Past(c, p) /\ RowOf(c, p) # {} /\ TxOf[c][p] = x

QuietPart(c) == run \in {"scan", "done"} /\ failed = {} /\ ~shaken => Exact(c)

RTyped(c) == Reconcile(c)!TypeOK
RInv(c) == RTyped(c) /\ RunPart(c) /\ SeenPart(c) /\ MissingPart(c) /\ QuietPart(c)

-----------------------------------------------------------------------------
LEMMA ChainBounds == MaxHeight \in Nat /\ MaxReorgs \in Nat /\ MaxDepth \in Nat /\ Depth \in Nat
  BY ReconcileAssumption DEF Reconcile!ChainAssumption, Reconcile!ReconcilerAssumption

LEMMA LowType == ASSUME NEW c \in Chains, RTyped(c) PROVE Low(c) \in 0..current
  BY ChainBounds DEF Chains, RTyped, Reconcile!TypeOK, Low, Reconcile!MinHeight,
     Reconcile!MinHeightBTC, Reconcile!MinHeightETH

\* Rows stand for payments in blocks.
LEMMA RowType == ASSUME NEW c \in Chains, RTyped(c), NEW d \in rows
                 PROVE  d.pay \in Payment /\ d.height \in 1..MaxHeight
  BY DEF RTyped, Reconcile!TypeOK, Reconcile!ChainTypeOK, Reconcile!Record

\* The types of the chain.
LEMMA ReorgTypes ==
    ASSUME NEW c \in Chains, Reconcile(c)!ChainTypeOK, NEW b \in 1..MaxHeight,
           Reconcile(c)!Reorg(b)
    PROVE  Reconcile(c)!ChainTypeOK' /\ Len(blocks') = Len(blocks) /\ onChain \subseteq onChain'
<1> USE ChainBounds DEF Reconcile!ChainTypeOK, Reconcile!Tip
<1>1. reorgs' \in 0..MaxReorgs /\ Len(blocks) \in Nat
  BY DEF Reconcile!Reorg
<1>2. blocks' \in [1..Len(blocks) -> 0..MaxReorgs]
  BY <1>1 DEF Reconcile!Reorg
<1>3. blocks' \in Seq(0..MaxReorgs) /\ Len(blocks') = Len(blocks)
  BY <1>1, <1>2
<1>4. place' \in [Payment -> 0..MaxHeight]
  BY <1>1 DEF Reconcile!Reorg
<1> QED
  BY <1>1, <1>3, <1>4 DEF Reconcile!Reorg, Reconcile!Canonical

LEMMA MineTypes ==
    ASSUME NEW c \in Chains, Reconcile(c)!ChainTypeOK, NEW P \in SUBSET Payment,
           Reconcile(c)!Mine(P)
    PROVE  /\ Reconcile(c)!ChainTypeOK' /\ Len(blocks') = Len(blocks) + 1
           /\ onChain \subseteq onChain'
           /\ \A p \in Payment : place'[p] = place[p] \/ (place[p] = 0 /\ place'[p] = Len(blocks) + 1)
<1> USE ChainBounds DEF Reconcile!ChainTypeOK, Reconcile!Tip
<1>1. blocks' = Append(blocks, reorgs) /\ Len(blocks) < MaxHeight /\ Len(blocks) \in Nat
  BY DEF Reconcile!Mine
<1>2. blocks' \in Seq(0..MaxReorgs) /\ Len(blocks') = Len(blocks) + 1
  BY <1>1
<1>3. place' \in [Payment -> 0..MaxHeight]
  BY <1>1 DEF Reconcile!Mine
<1> QED
  BY <1>1, <1>2, <1>3 DEF Reconcile!Mine, Reconcile!Canonical

-----------------------------------------------------------------------------
(* What a step leaves alone.                                                *)

LEMMA SameWindow ==
    ASSUME NEW c \in Chains, UNCHANGED <<current, snapshot, findings>>
    PROVE  /\ Low(c)' = Low(c)
           /\ \A p : RowOf(c, p)' = RowOf(c, p)
           /\ \A type, p : Found(type, p)' <=> Found(type, p)
<1>1. Low(c)' = Low(c)
  BY DEF Low, Reconcile!MinHeight, Reconcile!MinHeightBTC, Reconcile!MinHeightETH
<1>2. ASSUME NEW p PROVE RowOf(c, p)' = RowOf(c, p)
  BY DEF RowOf, Reconcile!RowOf, Reconcile!Together
<1>3. ASSUME NEW type, NEW p PROVE Found(type, p)' <=> Found(type, p)
  BY DEF Found
<1> QED
  BY <1>1, <1>2, <1>3, Zenon

\* The database and the chain may change behind a run: blocks only come on top and
\* rows are only added, until the chain is reorganised.
LEMMA BehindTheRun ==
    ASSUME NEW c \in Chains, RInv(c), RTyped(c)',
           UNCHANGED <<run, known, current, snapshot, h, seen, findings, failed, atLoad>>,
           Len(blocks') >= Len(blocks), Len(blocks') \in Nat,
           IF run = "idle" THEN ~shaken' ELSE shaken => shaken',
           run # "idle" /\ ~shaken' => \A p \in Payment :
               place'[p] = place[p] \/ (place[p] = 0 /\ place'[p] > Len(blocks))
    PROVE  RInv(c)'
<1> USE SameWindow, LowType, RowType
<1>1. current \in Nat /\ Len(blocks) \in Nat /\ current <= Len(blocks) /\ Low(c) \in Nat
  <2>1. current \in Nat /\ Len(blocks) \in Nat
    BY DEF RInv, RTyped, Reconcile!TypeOK, Reconcile!ChainTypeOK
  <2>2. current <= Len(blocks)
    BY DEF RInv, RunPart
  <2>3. Low(c) \in 0..current
    BY DEF RInv
  <2> QED
    BY <2>1, <2>2, <2>3
<1>2. RunPart(c)'
  <2>1. Low(c)' = Low(c)
    OBVIOUS
  <2>2. run = "idle" => ~shaken'
    OBVIOUS
  <2>3. \A p \in Payment : Found("phantom", p)' => run = "done" /\ TxOf[c][p] \notin seen
    BY DEF RInv, RunPart
  <2>4. current <= Len(blocks')
    BY <1>1
  <2> QED
    BY <2>1, <2>2, <2>3, <2>4 DEF RInv, RunPart
<1>3. MissingPart(c)'
  BY DEF RInv, MissingPart
<1>4. SeenPart(c)'
  <2> SUFFICES ASSUME ~shaken', NEW d \in snapshot, d.pay \in known, place'[d.pay] = d.height,
                      d.height < h, d.height \notin failed
               PROVE  TxOf[c][d.pay] \in seen
    BY DEF SeenPart
  <2>1. run # "idle" /\ ~shaken
    BY DEF RInv, RunPart
  <2>2. d \in rows /\ d.height <= current
    BY DEF RInv, RunPart, RTyped, Reconcile!TypeOK
  <2>3. place[d.pay] = d.height
    BY <1>1, <2>1, <2>2 DEF RInv
  <2> QED
    BY <2>1, <2>3 DEF RInv, SeenPart
<1>5. QuietPart(c)'
  <2> SUFFICES ASSUME run \in {"scan", "done"}, failed = {}, ~shaken' PROVE Exact(c)'
    BY DEF QuietPart
  <2>1. Exact(c)
    BY DEF RInv, QuietPart
  <2>2. \A p \in Payment : Past(c, p)' <=> Past(c, p)
    <3> SUFFICES ASSUME NEW p \in Payment PROVE Past(c, p)' <=> Past(c, p)
      OBVIOUS
    <3>1. place'[p] = place[p] \/ (place[p] = 0 /\ place'[p] > Len(blocks))
      OBVIOUS
    <3>2. place'[p] \in Nat
      BY ChainBounds DEF RTyped, Reconcile!TypeOK, Reconcile!ChainTypeOK
    <3> QED
      BY <1>1, <3>1, <3>2 DEF Past
  <2> QED
    BY <2>1, <2>2 DEF Exact
<1> QED
  BY <1>2, <1>3, <1>4, <1>5 DEF RInv

LEMMA ServiceStep ==
    ASSUME NEW c \in Chains, RInv(c),
           Reconcile(c)!Grow \/ Reconcile(c)!Reorganise \/ Reconcile(c)!Credit \/ Reconcile(c)!List
    PROVE  RInv(c)'
<1> USE DEF Reconcile!runVars, Reconcile!historyVars, Reconcile!dbVars, Reconcile!chainVars
<1>1. Len(blocks) \in Nat
  BY DEF RInv, RTyped, Reconcile!TypeOK, Reconcile!ChainTypeOK
<1>2. run = "idle" => ~shaken
  BY DEF RInv, RunPart
<1>3. CASE Reconcile(c)!Grow
  <2>1. PICK P \in SUBSET Payment :
          Reconcile(c)!Mine(P) /\ UNCHANGED <<rows, listed, run, known, current, snapshot, h,
            seen, findings, failed, shaken, atLoad>>
    BY <1>3 DEF Reconcile!Grow
  <2>2. /\ Reconcile(c)!ChainTypeOK' /\ Len(blocks') = Len(blocks) + 1
        /\ onChain \subseteq onChain'
        /\ \A p \in Payment : place'[p] = place[p] \/ (place[p] = 0 /\ place'[p] = Len(blocks) + 1)
    BY <2>1, MineTypes DEF RInv, RTyped, Reconcile!TypeOK
  <2>3. RTyped(c)'
    BY <2>1, <2>2 DEF RInv, RTyped, Reconcile!TypeOK, Reconcile!Finding
  <2> QED
    BY <1>1, <1>2, <2>1, <2>2, <2>3, BehindTheRun
<1>4. CASE Reconcile(c)!Reorganise
  <2>1. PICK b \in 1..MaxHeight :
          /\ Reconcile(c)!Reorg(b) /\ shaken' = (run # "idle")
          /\ UNCHANGED <<rows, listed, run, known, current, snapshot, h, seen, findings,
               failed, atLoad>>
    BY <1>4 DEF Reconcile!Reorganise
  <2>2. Reconcile(c)!ChainTypeOK' /\ Len(blocks') = Len(blocks) /\ onChain \subseteq onChain'
    BY <2>1, ReorgTypes DEF RInv, RTyped, Reconcile!TypeOK
  <2>3. RTyped(c)'
    BY <2>1, <2>2 DEF RInv, RTyped, Reconcile!TypeOK, Reconcile!Finding
  <2>4. shaken' <=> run # "idle"
    BY <2>1
  <2> QED
    BY <1>1, <2>1, <2>2, <2>3, <2>4, BehindTheRun
<1>5. CASE Reconcile(c)!Credit
  <2>1. RTyped(c)'
    BY <1>5 DEF Reconcile!Credit, RInv, RTyped, Reconcile!TypeOK, Reconcile!ChainTypeOK,
       Reconcile!Record, Reconcile!Finding
  <2> QED
    BY <1>1, <1>2, <1>5, <2>1, BehindTheRun DEF Reconcile!Credit
<1>6. CASE Reconcile(c)!List
  <2>1. RTyped(c)'
    BY <1>6 DEF Reconcile!List, RInv, RTyped, Reconcile!TypeOK, Reconcile!ChainTypeOK,
       Reconcile!Record, Reconcile!Finding
  <2> QED
    BY <1>1, <1>2, <1>6, <2>1, BehindTheRun DEF Reconcile!List
<1> QED
  BY <1>3, <1>4, <1>5, <1>6

-----------------------------------------------------------------------------
(* The steps of a run.                                                      *)

LEMMA RunBegins ==
    ASSUME NEW c \in Chains, RInv(c), Reconcile(c)!LoadAddresses \/ Reconcile(c)!ReadHeight
    PROVE  RInv(c)'
<1> USE DEF Reconcile!historyVars, Reconcile!dbVars, Reconcile!chainVars
<1>1. /\ run' \in {"height", "load"}
      /\ run \in {"idle", "height"}
      /\ UNCHANGED <<blocks, reorgs, place, onChain, rows, listed, snapshot, h, seen, findings,
           failed, shaken, atLoad>>
  BY DEF Reconcile!LoadAddresses, Reconcile!ReadHeight
<1>2. /\ Len(blocks) \in 0..MaxHeight
      /\ current' \in 0..MaxHeight /\ current' <= Len(blocks)
      /\ known' \subseteq listed
  <2>1. Len(blocks) \in 0..MaxHeight
    BY ChainBounds DEF RInv, RTyped, Reconcile!TypeOK, Reconcile!ChainTypeOK
  <2> QED
    BY <2>1 DEF RInv, RTyped, RunPart, Reconcile!TypeOK, Reconcile!LoadAddresses,
       Reconcile!ReadHeight, Reconcile!Tip
<1>3. snapshot = {} /\ atLoad = {} /\ findings = {} /\ seen = {} /\ failed = {}
  BY <1>1 DEF RInv, RunPart
<1>4. RTyped(c)'
  BY <1>1, <1>2 DEF RInv, RTyped, Reconcile!TypeOK, Reconcile!ChainTypeOK, Reconcile!Record,
     Reconcile!Finding, Reconcile!Stages
<1>5. RunPart(c)'
  BY <1>1, <1>2, <1>3 DEF RunPart, Found
<1>6. SeenPart(c)' /\ MissingPart(c)' /\ QuietPart(c)'
  BY <1>1, <1>3 DEF SeenPart, MissingPart, QuietPart, Found
<1> QED
  BY <1>4, <1>5, <1>6 DEF RInv

LEMMA LoadStep == ASSUME NEW c \in Chains, RInv(c), Reconcile(c)!LoadRows PROVE RInv(c)'
<1> USE DEF Reconcile!dbVars, Reconcile!chainVars
<1>1. /\ run = "load" /\ run' = "scan" /\ h' = Low(c) /\ atLoad' = rows
      /\ snapshot' = {d \in rows : Low(c) <= d.height /\ d.height <= current}
      /\ UNCHANGED <<blocks, reorgs, place, onChain, rows, listed, known, current, seen,
           findings, failed, shaken>>
  BY DEF Reconcile!LoadRows, Low, Reconcile!ListDepositsByChainAndHeightRange
<1>2. Low(c)' = Low(c)
  BY <1>1 DEF Low, Reconcile!MinHeight, Reconcile!MinHeightBTC, Reconcile!MinHeightETH
<1>3. Low(c) \in 0..current /\ current \in 0..MaxHeight
  BY LowType DEF RInv, RTyped, Reconcile!TypeOK
<1>4. findings = {} /\ seen = {} /\ failed = {}
  BY <1>1 DEF RInv, RunPart
<1>5. \A d \in rows : d.height \in Nat
  BY RowType, ChainBounds DEF RInv
<1>6. RTyped(c)'
  BY <1>1, <1>3, ChainBounds DEF RInv, RTyped, Reconcile!TypeOK, Reconcile!ChainTypeOK,
     Reconcile!Record, Reconcile!Finding, Reconcile!Stages
<1>7. RunPart(c)'
  BY <1>1, <1>2, <1>3, <1>4 DEF RInv, RunPart, Found
<1>8. SeenPart(c)'
  BY <1>1, <1>3, <1>5 DEF SeenPart
<1>9. MissingPart(c)'
  BY <1>1, <1>4 DEF MissingPart, Found
<1>10. QuietPart(c)'
  <2>1. \A p \in Payment : ~Past(c, p)'
    <3> SUFFICES ASSUME NEW p \in Payment, Past(c, p)' PROVE FALSE
      OBVIOUS
    <3>1. place[p] \in Nat
      BY ChainBounds DEF RInv, RTyped, Reconcile!TypeOK, Reconcile!ChainTypeOK
    <3> QED
      BY <1>1, <1>2, <1>3, <3>1 DEF Past
  <2>2. run' # "done" /\ findings' = {} /\ seen' = {}
    BY <1>1, <1>4
  <2> QED
    BY <2>1, <2>2 DEF QuietPart, Exact, Found
<1> QED
  BY <1>6, <1>7, <1>8, <1>9, <1>10 DEF RInv

LEMMA GiveUpStep == ASSUME NEW c \in Chains, RInv(c), Reconcile(c)!GiveUp PROVE RInv(c)'
<1> USE DEF Reconcile!historyVars, Reconcile!dbVars, Reconcile!chainVars
<1>1. /\ run \in {"height", "load", "scan"} /\ run' = "gone"
      /\ UNCHANGED <<blocks, reorgs, place, onChain, rows, listed, known, current, snapshot, h,
           seen, findings, failed, shaken, atLoad>>
  BY DEF Reconcile!GiveUp
<1>2. Low(c)' = Low(c) /\ \A p : RowOf(c, p)' = RowOf(c, p)
  BY <1>1, SameWindow
<1>3. RTyped(c)'
  BY <1>1 DEF RInv, RTyped, Reconcile!TypeOK, Reconcile!ChainTypeOK, Reconcile!Record,
     Reconcile!Finding, Reconcile!Stages
<1>4. RunPart(c)'
  BY <1>1, <1>2 DEF RInv, RunPart, Found
<1>5. SeenPart(c)'
  BY <1>1 DEF RInv, SeenPart
<1>6. MissingPart(c)' /\ QuietPart(c)'
  BY <1>1, <1>2 DEF RInv, MissingPart, QuietPart, Found
<1> QED
  BY <1>3, <1>4, <1>5, <1>6 DEF RInv

\* The payments of the block that is compared.
Here(p) == p \in known /\ h > 0 /\ place[p] = h

LEMMA ComparedOutputs ==
    ASSUME NEW c \in Chains, RTyped(c), Reconcile(c)!CompareOutputs
    PROVE  /\ \A x : x \in seen' <=>
                \/ x \in seen
                \/ \E p \in Payment : Here(p) /\ RowOf(c, p) # {} /\ TxOf[c][p] = x
           /\ \A p : Found("missing", p)' <=>
                Found("missing", p) \/ (Here(p) /\ RowOf(c, p) = {})
           /\ \A p : Found("amount_mismatch", p)' <=>
                \/ Found("amount_mismatch", p)
                \/ Here(p) /\ \E d \in RowOf(c, p) : Value[c][d.pay] # Value[c][p]
           /\ \A p : Found("phantom", p)' <=> Found("phantom", p)
           /\ findings' \subseteq Reconcile(c)!Finding
           /\ seen' \subseteq {TxOf[c][p] : p \in Payment}
<1> DEFINE found == {p \in Reconcile(c)!InBlock(h) : RowOf(c, p) # {}}
           differ == {p \in found : \E d \in RowOf(c, p) : Value[c][d.pay] # Value[c][p]}
<1>1. /\ seen' = seen \cup {TxOf[c][p] : p \in found}
      /\ findings' = findings
           \cup [type : {"missing"}, pay : Reconcile(c)!InBlock(h) \ found]
           \cup [type : {"amount_mismatch"}, pay : differ]
  BY DEF Reconcile!CompareOutputs, RowOf
<1>2. known \subseteq Payment
  BY DEF RTyped, Reconcile!TypeOK
<1>3. \A p : p \in Reconcile(c)!InBlock(h) <=> Here(p)
  BY DEF Reconcile!InBlock, Here
<1>4. \A p : Here(p) => p \in Payment
  BY <1>2 DEF Here
<1>5. \A p : /\ p \in found <=> Here(p) /\ RowOf(c, p) # {}
             /\ p \in differ <=>
                  Here(p) /\ \E d \in RowOf(c, p) : Value[c][d.pay] # Value[c][p]
  BY <1>3
<1>6. found \subseteq Payment /\ differ \subseteq Payment /\ Reconcile(c)!InBlock(h) \subseteq Payment
  BY <1>3, <1>4
<1> HIDE DEF found, differ
<1>7. \A x : x \in seen' <=>
        x \in seen \/ \E p \in Payment : Here(p) /\ RowOf(c, p) # {} /\ TxOf[c][p] = x
  BY <1>1, <1>5, <1>6
<1>8. ASSUME NEW p PROVE Found("missing", p)' <=>
        Found("missing", p) \/ (Here(p) /\ RowOf(c, p) = {})
  BY <1>1, <1>3, <1>5 DEF Found
<1>9. ASSUME NEW p PROVE Found("amount_mismatch", p)' <=>
        \/ Found("amount_mismatch", p)
        \/ Here(p) /\ \E d \in RowOf(c, p) : Value[c][d.pay] # Value[c][p]
  BY <1>1, <1>5 DEF Found
<1>10. ASSUME NEW p PROVE Found("phantom", p)' <=> Found("phantom", p)
  BY <1>1 DEF Found
<1>11. findings' \subseteq Reconcile(c)!Finding
  BY <1>1, <1>6 DEF RTyped, Reconcile!TypeOK, Reconcile!Finding
<1>12. seen' \subseteq {TxOf[c][p] : p \in Payment}
  BY <1>1, <1>6 DEF RTyped, Reconcile!TypeOK
<1> QED
  BY <1>7, <1>8, <1>9, <1>10, <1>11, <1>12

\* The next block of the window is passed, fetched or not.
LEMMA PastNext ==
    ASSUME NEW c \in Chains, RTyped(c), RunPart(c), run = "scan", h <= current, h' = h + 1,
           UNCHANGED <<place, known, current>>
    PROVE  /\ h' \in 0..MaxHeight + 1
           /\ \A p \in Payment : Past(c, p)' <=> Past(c, p) \/ Here(p)
<1>1. h \in Nat /\ current \in 0..MaxHeight /\ Low(c) \in Nat /\ Low(c) <= h
  BY LowType DEF RTyped, RunPart, Reconcile!TypeOK
<1>2. \A p \in Payment : place[p] \in Nat
  BY ChainBounds DEF RTyped, Reconcile!TypeOK, Reconcile!ChainTypeOK
<1>3. Low(c)' = Low(c)
  BY DEF Low, Reconcile!MinHeight, Reconcile!MinHeightBTC, Reconcile!MinHeightETH
<1> QED
  BY <1>1, <1>2, <1>3, ChainBounds DEF Past, Here

LEMMA CompareStep ==
    ASSUME NEW c \in Chains, RInv(c), Reconcile(c)!ScanBTC \/ Reconcile(c)!ScanETH
    PROVE  RInv(c)'
<1> USE DEF Reconcile!historyVars, Reconcile!dbVars, Reconcile!chainVars
<1>1. /\ run = "scan" /\ h <= current /\ h' = h + 1
      /\ Reconcile(c)!CompareOutputs
      /\ UNCHANGED <<blocks, reorgs, place, onChain, rows, listed, run, known, current,
           snapshot, failed, shaken, atLoad>>
  BY DEF Reconcile!ScanBTC, Reconcile!ScanETH
<1>2. Low(c)' = Low(c) /\ \A p : RowOf(c, p)' = RowOf(c, p)
  <2>1. Low(c)' = Low(c)
    BY <1>1 DEF Low, Reconcile!MinHeight, Reconcile!MinHeightBTC, Reconcile!MinHeightETH
  <2>2. ASSUME NEW p PROVE RowOf(c, p)' = RowOf(c, p)
    BY <1>1 DEF RowOf, Reconcile!RowOf, Reconcile!Together
  <2> QED
    BY <2>1, <2>2
<1>3. RTyped(c) /\ RunPart(c)
  BY DEF RInv
<1>4. /\ h' \in 0..MaxHeight + 1
      /\ \A p \in Payment : Past(c, p)' <=> Past(c, p) \/ Here(p)
  BY <1>1, <1>3, PastNext
<1>5. /\ \A x : x \in seen' <=>
            \/ x \in seen
            \/ \E p \in Payment : Here(p) /\ RowOf(c, p) # {} /\ TxOf[c][p] = x
      /\ \A p : Found("missing", p)' <=>
            Found("missing", p) \/ (Here(p) /\ RowOf(c, p) = {})
      /\ \A p : Found("amount_mismatch", p)' <=>
            \/ Found("amount_mismatch", p)
            \/ Here(p) /\ \E d \in RowOf(c, p) : Value[c][d.pay] # Value[c][p]
      /\ \A p : Found("phantom", p)' <=> Found("phantom", p)
      /\ findings' \subseteq Reconcile(c)!Finding
      /\ seen' \subseteq {TxOf[c][p] : p \in Payment}
  BY <1>1, <1>3, ComparedOutputs
<1>6. RTyped(c)'
  BY <1>1, <1>4, <1>5 DEF RInv, RTyped, Reconcile!TypeOK, Reconcile!ChainTypeOK,
     Reconcile!Record, Reconcile!Finding
<1>7. RunPart(c)'
  <2>1. Low(c) <= h /\ h \in Nat /\ Low(c) \in Nat
    BY <1>1, <1>3, LowType DEF RunPart, RTyped, Reconcile!TypeOK
  <2>2. Low(c)' <= h'
    BY <1>1, <1>2, <2>1
  <2>3. \A p \in Payment : ~Found("phantom", p)
    BY <1>1, <1>3 DEF RunPart
  <2> QED
    BY <1>1, <1>2, <1>3, <1>5, <2>2, <2>3 DEF RunPart
<1>8. SeenPart(c)'
  <2> SUFFICES ASSUME ~shaken, NEW d \in snapshot, d.pay \in known, place[d.pay] = d.height,
                      d.height < h', d.height \notin failed
               PROVE  TxOf[c][d.pay] \in seen'
    BY <1>1 DEF SeenPart
  <2>1. h \in Nat /\ d.pay \in Payment /\ d.height \in 1..MaxHeight
    BY <1>3, RowType DEF RTyped, Reconcile!TypeOK
  <2>2. CASE d.height < h
    BY <1>5, <2>2 DEF RInv, SeenPart
  <2>3. CASE d.height = h
    <3>1. Here(d.pay) /\ d \in RowOf(c, d.pay)
      BY <2>1, <2>3 DEF Here, RowOf, Reconcile!RowOf, Reconcile!Together
    <3> QED
      BY <1>5, <2>1, <3>1
  <2> QED
    BY <1>1, <2>1, <2>2, <2>3, ChainBounds
<1>9. MissingPart(c)'
  BY <1>2, <1>5 DEF RInv, MissingPart
<1>10. QuietPart(c)'
  <2> SUFFICES ASSUME failed = {}, ~shaken PROVE Exact(c)'
    BY <1>1 DEF QuietPart
  <2>1. Exact(c)
    BY <1>1 DEF RInv, QuietPart
  <2>2. ASSUME NEW p \in Payment
        PROVE  /\ Found("missing", p)' <=> Past(c, p)' /\ RowOf(c, p) = {}
               /\ Found("amount_mismatch", p)' <=>
                    Past(c, p)' /\ \E d \in RowOf(c, p) : Value[c][d.pay] # Value[c][p]
    BY <1>4, <1>5, <2>1 DEF Exact
  <2>3. ASSUME NEW x
        PROVE  x \in seen' <=>
                 \E p \in Payment : Past(c, p)' /\ RowOf(c, p) # {} /\ TxOf[c][p] = x
    BY <1>4, <1>5, <2>1 DEF Exact
  <2> QED
    BY <1>1, <1>2, <2>2, <2>3 DEF Exact
<1> QED
  BY <1>6, <1>7, <1>8, <1>9, <1>10 DEF RInv

LEMMA SkipStep == ASSUME NEW c \in Chains, RInv(c), Reconcile(c)!FetchFails PROVE RInv(c)'
<1> USE DEF Reconcile!dbVars, Reconcile!chainVars
<1>1. /\ run = "scan" /\ h <= current /\ h' = h + 1 /\ failed' = failed \cup {h}
      /\ UNCHANGED <<blocks, reorgs, place, onChain, rows, listed, run, known, current,
           snapshot, seen, findings, shaken, atLoad>>
  BY DEF Reconcile!FetchFails
<1>2. Low(c)' = Low(c) /\ \A p : RowOf(c, p)' = RowOf(c, p)
  BY <1>1, SameWindow
<1>3. RTyped(c) /\ RunPart(c)
  BY DEF RInv
<1>4. h' \in 0..MaxHeight + 1 /\ h \in 0..MaxHeight
  BY <1>1, <1>3, PastNext, ChainBounds DEF RTyped, Reconcile!TypeOK
<1>5. RTyped(c)'
  BY <1>1, <1>4 DEF RInv, RTyped, Reconcile!TypeOK, Reconcile!ChainTypeOK,
     Reconcile!Record, Reconcile!Finding
<1>6. RunPart(c)'
  <2>1. Low(c) <= h /\ h \in Nat /\ Low(c) \in Nat
    BY <1>1, <1>3, LowType DEF RunPart, RTyped, Reconcile!TypeOK
  <2>2. Low(c)' <= h'
    BY <1>1, <1>2, <2>1
  <2> QED
    BY <1>1, <1>2, <1>3, <2>2 DEF RunPart, Found
<1>7. SeenPart(c)'
  <2> SUFFICES ASSUME ~shaken, NEW d \in snapshot, d.pay \in known, place[d.pay] = d.height,
                      d.height < h', d.height \notin failed'
               PROVE  TxOf[c][d.pay] \in seen
    BY <1>1 DEF SeenPart
  <2>1. d.height \in 1..MaxHeight
    BY <1>3, RowType DEF RTyped, Reconcile!TypeOK
  <2>2. d.height < h /\ d.height \notin failed
    BY <1>1, <1>4, <2>1, ChainBounds
  <2> QED
    BY <2>2 DEF RInv, SeenPart
<1>8. MissingPart(c)'
  BY <1>1, <1>2 DEF RInv, MissingPart, Found
<1>9. QuietPart(c)'
  BY <1>1 DEF QuietPart
<1> QED
  BY <1>5, <1>6, <1>7, <1>8, <1>9 DEF RInv

LEMMA ReportStep == ASSUME NEW c \in Chains, RInv(c), Reconcile(c)!ReportPhantoms PROVE RInv(c)'
<1> USE DEF Reconcile!historyVars, Reconcile!dbVars, Reconcile!chainVars
<1>1. /\ run = "scan" /\ h > current /\ run' = "done"
      /\ findings' = findings \cup
           [type : {"phantom"}, pay : {d.pay : d \in {e \in snapshot : TxOf[c][e.pay] \notin seen}}]
      /\ UNCHANGED <<blocks, reorgs, place, onChain, rows, listed, known, current, snapshot, h,
           seen, failed, shaken, atLoad>>
  BY DEF Reconcile!ReportPhantoms, Reconcile!Phantoms
<1>2. Low(c)' = Low(c) /\ \A p : RowOf(c, p)' = RowOf(c, p)
  <2>1. Low(c)' = Low(c)
    BY <1>1 DEF Low, Reconcile!MinHeight, Reconcile!MinHeightBTC, Reconcile!MinHeightETH
  <2>2. ASSUME NEW p PROVE RowOf(c, p)' = RowOf(c, p)
    BY <1>1 DEF RowOf, Reconcile!RowOf, Reconcile!Together
  <2> QED
    BY <2>1, <2>2
<1>3. ASSUME NEW p \in Payment
      PROVE  /\ Found("phantom", p)' <=> \E d \in snapshot : d.pay = p /\ TxOf[c][p] \notin seen
             /\ Found("missing", p)' <=> Found("missing", p)
             /\ Found("amount_mismatch", p)' <=> Found("amount_mismatch", p)
  <2>1. ~Found("phantom", p)
    BY <1>1 DEF RInv, RunPart
  <2>2. Found("phantom", p)' <=>
          p \in {d.pay : d \in {e \in snapshot : TxOf[c][e.pay] \notin seen}}
    BY <1>1, <2>1 DEF Found
  <2>3. Found("phantom", p)' <=> \E d \in snapshot : d.pay = p /\ TxOf[c][p] \notin seen
    BY <2>2
  <2> QED
    BY <1>1, <2>3 DEF Found
<1>4. \A d \in snapshot : d.pay \in Payment
  BY RowType DEF RInv, RTyped, Reconcile!TypeOK
<1>5. RTyped(c)'
  <2>1. findings' \subseteq Reconcile(c)!Finding
    BY <1>1, <1>4 DEF RInv, RTyped, Reconcile!TypeOK, Reconcile!Finding
  <2> QED
    BY <1>1, <2>1 DEF RInv, RTyped, Reconcile!TypeOK, Reconcile!ChainTypeOK,
       Reconcile!Record, Reconcile!Finding, Reconcile!Stages
<1>6. RunPart(c)'
  BY <1>1, <1>2, <1>3 DEF RInv, RunPart
<1>7. SeenPart(c)'
  BY <1>1 DEF RInv, SeenPart
<1>8. MissingPart(c)'
  BY <1>2, <1>3 DEF RInv, MissingPart
<1>9. QuietPart(c)'
  <2> SUFFICES ASSUME failed = {}, ~shaken PROVE Exact(c)'
    BY <1>1 DEF QuietPart
  <2>1. Exact(c)
    BY <1>1 DEF RInv, QuietPart
  <2>2. \A p \in Payment : Past(c, p)' <=> Past(c, p)
    BY <1>1, <1>2 DEF Past
  <2>3. ASSUME NEW p \in Payment
        PROVE  /\ Found("missing", p)' <=> Past(c, p)' /\ RowOf(c, p) = {}
               /\ Found("amount_mismatch", p)' <=>
                    Past(c, p)' /\ \E d \in RowOf(c, p) : Value[c][d.pay] # Value[c][p]
    BY <1>3, <2>1, <2>2 DEF Exact
  <2>4. ASSUME NEW x
        PROVE  x \in seen <=>
                 \E p \in Payment : Past(c, p)' /\ RowOf(c, p) # {} /\ TxOf[c][p] = x
    BY <2>1, <2>2 DEF Exact
  <2> QED
    BY <1>1, <1>2, <1>3, <2>3, <2>4 DEF Exact
<1> QED
  BY <1>5, <1>6, <1>7, <1>8, <1>9 DEF RInv

LEMMA InitRInv == ASSUME NEW c \in Chains, Reconcile(c)!Init PROVE RInv(c)
<1> USE ChainBounds DEF Reconcile!Init, Reconcile!ChainInit
<1>1. RTyped(c)
  <2>1. blocks \in Seq(0..MaxReorgs) /\ Len(blocks) = 0
    OBVIOUS
  <2>2. /\ place \in [Payment -> 0..MaxHeight]
        /\ reorgs \in 0..MaxReorgs /\ current \in 0..MaxHeight /\ h \in 0..MaxHeight + 1
    OBVIOUS
  <2>3. Reconcile(c)!ChainTypeOK
    BY <2>1, <2>2 DEF Reconcile!ChainTypeOK
  <2> QED
    BY <2>2, <2>3 DEF RTyped, Reconcile!TypeOK, Reconcile!Stages
<1>2. RunPart(c)
  <2>1. Low(c) \in 0..current
    BY <1>1, LowType
  <2> QED
    BY <2>1 DEF RunPart, Found
<1>3. SeenPart(c) /\ MissingPart(c) /\ QuietPart(c)
  BY DEF SeenPart, MissingPart, QuietPart, Found
<1> QED
  BY <1>1, <1>2, <1>3 DEF RInv

LEMMA NextRInv ==
    ASSUME NEW c \in Chains, RInv(c), Reconcile(c)!Next \/ UNCHANGED reconcileVars
    PROVE  RInv(c)'
<1>1. CASE Reconcile(c)!Next
  BY <1>1, ServiceStep, RunBegins, LoadStep, CompareStep, SkipStep, ReportStep, GiveUpStep
     DEF Reconcile!Next
<1>2. CASE UNCHANGED reconcileVars
  <2>1. RTyped(c)'
    BY <1>2 DEF reconcileVars, RInv, RTyped, Reconcile!TypeOK, Reconcile!ChainTypeOK,
       Reconcile!Record, Reconcile!Finding, Reconcile!Stages
  <2>2. /\ UNCHANGED <<run, known, current, snapshot, h, seen, findings, failed, atLoad>>
        /\ UNCHANGED <<blocks, place, shaken>>
    BY <1>2 DEF reconcileVars
  <2>3. Len(blocks) \in Nat /\ (run = "idle" => ~shaken)
    BY DEF RInv, RunPart, RTyped, Reconcile!TypeOK, Reconcile!ChainTypeOK
  <2> QED
    BY <2>1, <2>2, <2>3, BehindTheRun
<1> QED
  BY <1>1, <1>2

\* What is reported, payment by payment.
LEMMA ReportedIs ==
    ASSUME NEW c \in Chains, RInv(c), NEW type
    PROVE  \A p : p \in Reconcile(c)!Reported(type) <=> p \in Payment /\ Found(type, p)
<1>1. \A f \in findings : f = [type |-> f.type, pay |-> f.pay] /\ f.pay \in Payment
  BY DEF RInv, RTyped, Reconcile!TypeOK, Reconcile!Finding
<1> QED
  BY <1>1 DEF Reconcile!Reported, Found

LEMMA ReportsFromInv == ASSUME NEW c \in Chains, RInv(c) PROVE Reconcile(c)!ReportsAreRight
<1>1. /\ \A p : RowOf(c, p) = {d \in snapshot : TxOf[c][d.pay] = TxOf[c][p]}
      /\ \A d \in snapshot : d \in rows /\ Low(c) <= d.height /\ d.height <= current
      /\ Low(c) \in Nat /\ current \in Nat
      /\ \A d \in rows : d.pay \in Payment /\ d.height \in Nat \ {0}
  <2>1. \A p : RowOf(c, p) = {d \in snapshot : TxOf[c][d.pay] = TxOf[c][p]}
    BY DEF RowOf, Reconcile!RowOf, Reconcile!Together
  <2>2. \A d \in snapshot : d \in rows /\ Low(c) <= d.height /\ d.height <= current
    BY DEF RInv, RunPart, RTyped, Reconcile!TypeOK
  <2>3. current \in Nat /\ Low(c) \in 0..current
    BY LowType, ChainBounds DEF RInv, RTyped, Reconcile!TypeOK
  <2>4. \A d \in rows : d.pay \in Payment /\ d.height \in 1..MaxHeight
    BY RowType DEF RInv
  <2> QED
    BY <2>1, <2>2, <2>3, <2>4, ChainBounds
<1>2. \A type, p : p \in Reconcile(c)!Reported(type) <=> p \in Payment /\ Found(type, p)
  BY ReportedIs
<1>3. Reconcile(c)!PhantomHasCause
  <2> SUFFICES ASSUME NEW d \in snapshot, Found("phantom", d.pay), d.pay \in Payment,
                      place[d.pay] = d.height, d.height \notin failed, ~shaken, d.pay \in known
               PROVE  FALSE
    BY <1>2 DEF Reconcile!PhantomHasCause
  <2>1. h > current /\ h \in Nat /\ TxOf[c][d.pay] \notin seen
    BY ChainBounds DEF RInv, RunPart, RTyped, Reconcile!TypeOK
  <2>2. d.height < h
    BY <1>1, <2>1
  <2> QED
    BY <2>1, <2>2 DEF RInv, SeenPart
<1>4. Reconcile(c)!MissingHasCause
  <2> SUFFICES ASSUME NEW p \in Payment, Found("missing", p), NEW d \in rows,
                      TxOf[c][d.pay] = TxOf[c][p], d \in atLoad, d.height \in Low(c) .. current
               PROVE  FALSE
    BY <1>2 DEF Reconcile!MissingHasCause, Reconcile!Together, Low
  <2>1. d \in snapshot
    BY <1>1 DEF RInv, RunPart
  <2> QED
    BY <1>1, <2>1 DEF RInv, MissingPart
<1>5. Reconcile(c)!QuietRunIsExact
  <2> SUFFICES ASSUME run = "done", failed = {}, ~shaken
               PROVE  /\ Reconcile(c)!Reported("missing") =
                            {p \in Reconcile(c)!Window : RowOf(c, p) = {}}
                      /\ Reconcile(c)!Reported("amount_mismatch") =
                            {p \in Reconcile(c)!Window :
                                \E d \in RowOf(c, p) : Value[c][d.pay] # Value[c][p]}
                      /\ Reconcile(c)!Reported("phantom") =
                            {d.pay : d \in {e \in snapshot :
                                \A p \in Reconcile(c)!Window : TxOf[c][e.pay] # TxOf[c][p]}}
    BY DEF Reconcile!QuietRunIsExact, Reconcile!Together, RowOf
  <2>1. Exact(c)
    BY DEF RInv, QuietPart
  <2>2. \A p : p \in Reconcile(c)!Window <=> p \in Payment /\ Past(c, p)
    <3> SUFFICES ASSUME NEW p
                 PROVE  p \in Reconcile(c)!Window <=> p \in Payment /\ Past(c, p)
      OBVIOUS
    <3>1. known \subseteq Payment /\ h \in Nat /\ h > current
      BY ChainBounds DEF RInv, RunPart, RTyped, Reconcile!TypeOK
    <3>2. p \in Payment => place[p] \in Nat
      BY ChainBounds DEF RInv, RTyped, Reconcile!TypeOK, Reconcile!ChainTypeOK
    <3>3. p \in Reconcile(c)!Window <=>
            p \in known /\ place[p] # 0 /\ place[p] \in Low(c) .. current
      BY DEF Reconcile!Window, Low
    <3> QED
      BY <1>1, <3>1, <3>2, <3>3 DEF Past
  <2>3. \A p : p \in Reconcile(c)!Reported("missing") <=>
          p \in Reconcile(c)!Window /\ RowOf(c, p) = {}
    BY <1>2, <2>1, <2>2 DEF Exact
  <2>4. \A p : p \in Reconcile(c)!Reported("amount_mismatch") <=>
          p \in Reconcile(c)!Window /\ \E d \in RowOf(c, p) : Value[c][d.pay] # Value[c][p]
    BY <1>2, <2>1, <2>2 DEF Exact
  <2>5. ASSUME NEW e \in snapshot
        PROVE  TxOf[c][e.pay] \notin seen <=>
                 \A p \in Reconcile(c)!Window : TxOf[c][e.pay] # TxOf[c][p]
    <3>1. TxOf[c][e.pay] \in seen <=>
            \E p \in Payment : Past(c, p) /\ RowOf(c, p) # {} /\ TxOf[c][p] = TxOf[c][e.pay]
      BY <2>1 DEF Exact
    <3>2. \A p : TxOf[c][p] = TxOf[c][e.pay] => RowOf(c, p) # {}
      BY <1>1
    <3> QED
      BY <2>2, <3>1, <3>2
  <2>6. \A p : p \in Reconcile(c)!Reported("phantom") <=>
          \E d \in snapshot : d.pay = p /\ TxOf[c][d.pay] \notin seen
    <3>1. \A p \in Payment :
            Found("phantom", p) <=> \E d \in snapshot : d.pay = p /\ TxOf[c][p] \notin seen
      BY <2>1 DEF Exact
    <3> QED
      BY <1>1, <1>2, <3>1
  <2>7. Reconcile(c)!Reported("phantom") =
          {d.pay : d \in {e \in snapshot :
              \A p \in Reconcile(c)!Window : TxOf[c][e.pay] # TxOf[c][p]}}
    BY <2>5, <2>6
  <2> QED
    BY <2>3, <2>4, <2>7
<1> QED
  BY <1>3, <1>4, <1>5 DEF Reconcile!ReportsAreRight

\* The invariant of the chain that is reconciled.
JobInv ==
    /\ job = "reconcile_btc" => RInv("btc")
    /\ job = "reconcile_eth" => RInv("eth")

LEMMA SpecJobInv == JobsSpec => []JobInv
<1>1. JobsInit => JobInv
  <2> SUFFICES ASSUME JobsInit PROVE RInv("btc") /\ RInv("eth")
    BY DEF JobInv
  <2>1. Reconcile("btc")!Init /\ Reconcile("eth")!Init
    BY DEF JobsInit, Reconcile!Init, Reconcile!ChainInit
  <2> QED
    BY <2>1, InitRInv DEF Chains
<1>2. JobInv /\ [JobsNext]_jobVars => JobInv'
  <2> SUFFICES ASSUME JobInv, [JobsNext]_jobVars PROVE JobInv'
    OBVIOUS
  <2>1. UNCHANGED job
    BY DEF JobsNext, jobVars
  <2>2. ASSUME job = "reconcile_btc" PROVE RInv("btc")'
    <3>1. Reconcile("btc")!Next \/ UNCHANGED reconcileVars
      BY <2>2 DEF JobsNext, jobVars
    <3> QED
      BY <2>2, <3>1, NextRInv DEF Chains, JobInv
  <2>3. ASSUME job = "reconcile_eth" PROVE RInv("eth")'
    <3>1. Reconcile("eth")!Next \/ UNCHANGED reconcileVars
      BY <2>3 DEF JobsNext, jobVars
    <3> QED
      BY <2>3, <3>1, NextRInv DEF Chains, JobInv
  <2> QED
    BY <2>1, <2>2, <2>3 DEF JobInv
<1> QED
  BY <1>1, <1>2, PTL DEF JobsSpec

\* Whatever the chain, the watchers and the nodes do during a reconciliation, what it
\* reports has a known cause, and is exact if the chain stood still and every block
\* was fetched (reconciler.go:106-216).
THEOREM ReconciliationIsRight == JobsSpec => []ReportsAreRight
<1>1. JobInv => ReportsAreRight
  BY ReportsFromInv DEF JobInv, ReportsAreRight, Chains
<1> QED
  BY <1>1, SpecJobInv, PTL

-----------------------------------------------------------------------------
(* The jobs together.                                                      *)

LEMMA BTCInitially == BTC!Init => BTCInv
  BY DEF BTC!Init, BTCInv, BTC!Stages, BTC!Transfer

\* A sweep leaves the amount to keep, on either chain, unless another transfer came
\* between the balance it read and its own or bitcoind took a fee above the buffer
\* (sweeper.go:98-109, 140, 184).
THEOREM KeepIsLeft == JobsSpec => SweepsLeaveKeep
<1>1. JobsSpec => Spec
  <2>1. JobsInit => Init
    BY DEF JobsInit
  <2>2. [JobsNext]_jobVars => [Next]_vars
    BY DEF JobsNext, jobVars
  <2> QED
    BY <2>1, <2>2, PTL DEF JobsSpec, Spec
<1>2. JobsSpec => [][BTC!Next]_(BTC!vars) /\ BTC!Init
  <2>1. JobsInit => BTC!Init
    BY DEF JobsInit
  <2>2. [JobsNext]_jobVars => [BTC!Next]_(BTC!vars)
    BY DEF JobsNext, jobVars, btcVars, BTC!vars
  <2> QED
    BY <2>1, <2>2, PTL DEF JobsSpec
<1>3. BTC!Init /\ [][BTC!Next]_(BTC!vars) => BTC!SweepLeavesKeep
  <2>1. BTCInv /\ [BTC!Next]_(BTC!vars) => BTCInv'
    BY BTCStep
  <2>2. BTCInv /\ [BTC!Next]_(BTC!vars) =>
          [\A s \in SweepBTC : s \in paid' \ paid =>
              balanceBTC' >= Keep \/ fee'[s] > FeeBuffer \/ s \in overtakenBTC]_(BTC!vars)
    BY BTCStep
  <2> QED
    BY <2>1, <2>2, BTCInitially, PTL DEF BTC!SweepLeavesKeep
<1> QED
  BY <1>1, <1>2, <1>3, SweepKeeps DEF SweepsLeaveKeep
=============================================================================
