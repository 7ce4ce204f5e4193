--------------------------- MODULE BtcWatcher_proofs ---------------------------
(***************************************************************************)
(* Proofs about BtcWatcher for any replicas, payments, chain, capacity and *)
(* number of retries: type correctness, what a scan offers, what becomes   *)
(* of offered records, and the refinement of DepositLedger.  What is said  *)
(* of the chain, the channel and the consumer is as in EthWatcher_proofs;  *)
(* the scan never ends early and a failed fetch only passes one block by.  *)
(***************************************************************************)
EXTENDS BtcWatcher, SequenceTheorems, TLAPS

\* Where a scan is: above the last height and below the goal, which was a tip.
ScanIsInside ==
    /\ \A n \in Node : n \in up <=> watch[n] # "off"
    /\ \A n \in Node : lastHeight[n] <= Tip /\ goal[n] <= Tip
    /\ \A n \in Node : watch[n] \in {"fetch", "block"} =>
        lastHeight[n] < height[n] /\ height[n] <= goal[n] + 1
    /\ \A n \in Node : watch[n] = "block" => height[n] <= goal[n]
    /\ \A n \in Node : watch[n] # "alarm"

\* A record stands for a payment that was in the chain, wherever it is.
RecordsAreMined ==
    /\ \A p \in Payment : place[p] # 0 =>
        place[p] <= Tip /\ [pay |-> p, height |-> place[p]] \in mined
    /\ \A n \in Node : watch[n] = "block" =>
        \A p \in todo[n] : [pay |-> p, height |-> height[n]] \in mined
    /\ \A n \in Node : InFlight(n) \subseteq mined

\* The block of p was worked through: p was offered unless the fetch failed.
Handled(n, p) == place[p] \in skipped[n] \/ Offered(p)

\* A payment that concerns a watcher is known to its replica, and handled as soon
\* as the scan has passed its block.
SeenSoFar == reorgs = 0 =>
    \A n \in Node, p \in Payment : Concerns(n, p) =>
        /\ p \in known[n]
        /\ place[p] <= lastHeight[n] => Handled(n, p)
        /\ watch[n] \in {"fetch", "block"} /\ place[p] < height[n] => Handled(n, p)
        /\ watch[n] = "block" /\ place[p] = height[n] => p \in todo[n] \/ Offered(p)

TodoIsHere == reorgs = 0 =>
    \A n \in Node : watch[n] = "block" => \A p \in todo[n] : place[p] = height[n]

IInv ==
    /\ TypeOK
    /\ ScanIsInside
    /\ RecordsAreMined
    /\ TodoIsHere
    /\ SeenSoFar
    /\ OfferedIsAccountedFor

-----------------------------------------------------------------------------
(* The chain.                                                              *)

LEMMA TipType == ChainTypeOK =>
    /\ Tip \in 0..MaxHeight
    /\ \A where : Canonical(where) \subseteq Record
  BY ChainAssumption DEF ChainTypeOK, Tip, Canonical

LEMMA MineChain ==
    ASSUME ChainTypeOK, NEW P \in SUBSET Payment, Mine(P)
    PROVE  ChainTypeOK' /\ Tip' = Tip + 1 /\ mined \subseteq mined'
<1> USE ChainAssumption DEF ChainTypeOK
<1>1. blocks' = Append(blocks, reorgs) /\ Tip < MaxHeight
  BY DEF Mine
<1>2. blocks' \in Seq(0..MaxReorgs) /\ Tip' = Tip + 1
  BY <1>1 DEF Tip
<1>3. place' \in [Payment -> 0..MaxHeight]
  BY TipType DEF Mine
<1> QED
  BY <1>1, <1>2, <1>3, TipType DEF Mine, Tip

LEMMA ReorgChainTypes ==
    ASSUME ChainTypeOK, NEW h \in 1..Tip, Reorg(h)
    PROVE  ChainTypeOK' /\ Tip' = Tip /\ mined \subseteq mined' /\ reorgs' # 0
<1> USE ChainAssumption DEF ChainTypeOK
<1>1. reorgs' \in 0..MaxReorgs /\ reorgs' # 0
  BY DEF Reorg
<1>2. \A i \in 1..Tip : blocks[i] \in 0..MaxReorgs
  BY DEF Tip
<1>3. blocks' \in [1..Tip -> 0..MaxReorgs]
  BY <1>1, <1>2 DEF Reorg
<1>4. blocks' \in Seq(0..MaxReorgs) /\ Len(blocks') = Tip
  <2>1. Tip \in Nat
    BY TipType
  <2> QED
    BY <1>3, <2>1
<1>5. place' \in [Payment -> 0..MaxHeight]
  BY TipType DEF Reorg
<1> QED
  BY <1>1, <1>4, <1>5, TipType DEF Reorg, Tip

\* Records do not vanish on their way: what was in flight still is, or lies somewhere.
LEMMA StillAccounted ==
    ASSUME IInv, offered' \subseteq offered,
           deposits \subseteq deposits', deadLetters \subseteq deadLetters',
           lost \subseteq lost',
           \A n \in up : \A r \in InFlight(n) :
               \/ n \in up' /\ r \in InFlight(n)'
               \/ r \in deposits' \cup deadLetters' \cup lost'
    PROVE  OfferedIsAccountedFor'
  BY DEF IInv, OfferedIsAccountedFor

LEMMA InitIInv == Init => IInv
<1> SUFFICES ASSUME Init PROVE IInv
  OBVIOUS
<1> USE ChainAssumption, QueueAssumption
    DEF Init, WatcherInit, ChainInit, ServiceInit
<1>1. TypeOK
  BY TipType DEF TypeOK, WatcherTypeOK, ChainTypeOK, ServiceTypeOK, Watch
<1>2. \A n \in Node : InFlight(n) = {}
  BY DEF InFlight
<1> QED
  BY <1>1, <1>2 DEF IInv, ScanIsInside, RecordsAreMined, SeenSoFar, TodoIsHere, Watching,
     Concerns, OfferedIsAccountedFor, Tip

\* The chain moves.
LEMMA MineStep == ASSUME IInv, NEW P \in SUBSET Payment, MineBlock(P), UNCHANGED skipped
                  PROVE  IInv'
<1> USE DEF MineBlock, serviceVars, addressVars, queueVars, tableVars
<1>1. ChainTypeOK' /\ Tip' = Tip + 1 /\ mined \subseteq mined' /\ Tip \in Nat
  BY MineChain, TipType DEF IInv, TypeOK, WatcherTypeOK
<1>2. \A n \in Node : InFlight(n)' = InFlight(n)
  BY DEF InFlight
<1>3. TypeOK'
  BY <1>1 DEF IInv, TypeOK, WatcherTypeOK, ServiceTypeOK
<1>4. ScanIsInside'
  BY <1>1 DEF IInv, TypeOK, WatcherTypeOK, ScanIsInside
<1>5. RecordsAreMined'
  <2>1. \A p \in Payment : place'[p] # 0 =>
          place'[p] <= Tip' /\ [pay |-> p, height |-> place'[p]] \in mined'
    BY <1>1 DEF Mine, Canonical, Record, IInv, TypeOK, WatcherTypeOK, ChainTypeOK, RecordsAreMined
  <2> QED
    BY <1>1, <1>2, <2>1 DEF IInv, RecordsAreMined
<1>6. TodoIsHere'
  BY <1>1 DEF Mine, IInv, TypeOK, WatcherTypeOK, ChainTypeOK, TodoIsHere, ScanIsInside
<1>7. SeenSoFar'
  BY <1>1 DEF Mine, IInv, TypeOK, WatcherTypeOK, ServiceTypeOK, ChainTypeOK, SeenSoFar, Concerns,
     Handled, Offered, Watching, ScanIsInside
<1>8. OfferedIsAccountedFor'
  <2>1. UNCHANGED <<offered, deposits, deadLetters, up, lost>>
    OBVIOUS
  <2> QED
    BY <1>2, <2>1, StillAccounted DEF IInv, TypeOK, WatcherTypeOK, ServiceTypeOK
<1> QED
  BY <1>3, <1>4, <1>5, <1>6, <1>7, <1>8 DEF IInv

LEMMA ReorgStep == ASSUME IInv, NEW h \in 1..Tip, ReorgChain(h), UNCHANGED skipped
                   PROVE  IInv'
<1> USE DEF ReorgChain, serviceVars, addressVars, queueVars, tableVars, watcherVars
<1>1. ChainTypeOK' /\ Tip' = Tip /\ mined \subseteq mined' /\ reorgs' # 0
  BY ReorgChainTypes DEF IInv, TypeOK, WatcherTypeOK
<1>2. \A n \in Node : InFlight(n)' = InFlight(n)
  BY DEF InFlight
<1>3. TypeOK'
  BY <1>1 DEF IInv, TypeOK, WatcherTypeOK, ServiceTypeOK
<1>4. ScanIsInside'
  BY <1>1 DEF IInv, ScanIsInside
<1>5. RecordsAreMined'
  <2>1. \A p \in Payment : place'[p] # 0 =>
          place'[p] <= Tip' /\ [pay |-> p, height |-> place'[p]] \in mined'
    <3>1. \A p \in Payment : place'[p] \in 0..MaxHeight
      BY <1>1 DEF ChainTypeOK
    <3>2. mined' = mined \cup {r \in Record : place'[r.pay] = r.height}
      BY DEF Reorg, Canonical
    <3>3. \A p \in Payment : place'[p] <= Tip
      BY TipType, ChainAssumption DEF Reorg, IInv, TypeOK, WatcherTypeOK, ChainTypeOK, RecordsAreMined
    <3> QED
      BY <1>1, <3>1, <3>2, <3>3, ChainAssumption DEF Record
  <2> QED
    BY <1>1, <1>2, <2>1 DEF IInv, RecordsAreMined
<1>6. TodoIsHere' /\ SeenSoFar'
  BY <1>1 DEF TodoIsHere, SeenSoFar
<1>7. OfferedIsAccountedFor'
  <2>1. UNCHANGED <<offered, deposits, deadLetters, up, lost>>
    OBVIOUS
  <2> QED
    BY <1>2, <2>1, StillAccounted DEF IInv, TypeOK, WatcherTypeOK, ServiceTypeOK
<1> QED
  BY <1>3, <1>4, <1>5, <1>6, <1>7 DEF IInv

-----------------------------------------------------------------------------
(* Addresses, the channel and the consumer.                                *)

\* Steps that change neither chain nor watcher; what they deliver was in the chain.
LEMMA ServiceStep ==
    ASSUME IInv, ServiceTypeOK', UNCHANGED <<chainVars, watcherVars, skipped>>,
           up' = up, offered' = offered, OfferedIsAccountedFor',
           \A n \in Node : known[n] \subseteq known'[n],
           \A n \in Node : InFlight(n)' \subseteq InFlight(n)
    PROVE  IInv'
<1> USE DEF chainVars, watcherVars, IInv
<1>1. TypeOK'
  BY DEF TypeOK, WatcherTypeOK, ChainTypeOK
<1>2. Tip' = Tip
  BY DEF Tip
<1>3. ScanIsInside' /\ RecordsAreMined' /\ TodoIsHere'
  BY <1>2 DEF ScanIsInside, RecordsAreMined, TodoIsHere
<1>4. SeenSoFar'
  BY DEF SeenSoFar, Concerns, Watching, Handled, Offered
<1> QED
  BY <1>1, <1>3, <1>4

LEMMA AddressStep ==
    ASSUME IInv, NEW n \in Node, NEW p \in Payment, NewAddress(n, p), UNCHANGED skipped
    PROVE  IInv'
<1> USE DEF NewAddress, GenerateAddress, queueVars, tableVars
<1>1. ServiceTypeOK'
  BY DEF IInv, TypeOK, WatcherTypeOK, ServiceTypeOK
<1>2. \A m \in Node : known[m] \subseteq known'[m]
  BY DEF IInv, TypeOK, WatcherTypeOK, ServiceTypeOK
<1>3. \A m \in Node : InFlight(m)' = InFlight(m)
  BY DEF InFlight
<1>4. OfferedIsAccountedFor'
  <2>1. UNCHANGED <<offered, deposits, deadLetters, up, lost>>
    OBVIOUS
  <2> QED
    BY <1>3, <2>1, StillAccounted DEF IInv, TypeOK, WatcherTypeOK, ServiceTypeOK
<1> QED
  BY <1>1, <1>2, <1>3, <1>4, ServiceStep

\* Taking a record from the channel loses none of them.
LEMMA TakeKeeps == ASSUME IInv, NEW n \in Node, Take(n)
                   PROVE  /\ ServiceTypeOK'
                          /\ \A m \in Node : InFlight(m)' = InFlight(m)
<1> USE DEF IInv, TypeOK, WatcherTypeOK, ServiceTypeOK
<1> DEFINE q == queue[n]
<1>1. q \in Seq(Record) /\ q # <<>> /\ hand[n] = None /\ Len(q) <= Capacity
  BY DEF Take
<1>2. Head(q) \in Record /\ Tail(q) \in Seq(Record) /\ Len(Tail(q)) = Len(q) - 1 /\ Len(q) \in Nat
  BY <1>1
<1>3. \A i \in 1 .. Len(q) - 1 : Tail(q)[i] = q[i + 1]
  BY <1>1
<1>4. Head(q) = q[1] /\ Len(q) >= 1
  BY <1>1
<1>5. /\ queue' = [queue EXCEPT ![n] = Tail(q)] /\ hand' = [hand EXCEPT ![n] = Head(q)]
      /\ tries' = [tries EXCEPT ![n] = 0]
      /\ UNCHANGED <<addressVars, tableVars, up, offered, lost>>
  BY DEF Take
<1> HIDE DEF q
<1>6. ServiceTypeOK'
  <2>1. queue' \in [Node -> Seq(Record)] /\ hand' \in [Node -> Record \cup {None}]
    BY <1>2, <1>5
  <2>2. \A m \in Node : Len(queue'[m]) <= Capacity
    BY <1>1, <1>2, <1>5, QueueAssumption
  <2>3. tries' \in [Node -> 0..MaxRetries]
    BY <1>5, QueueAssumption
  <2> QED
    BY <1>5, <2>1, <2>2, <2>3 DEF addressVars, tableVars
<1>7. {q[i] : i \in DOMAIN q} = {Tail(q)[i] : i \in DOMAIN Tail(q)} \cup {Head(q)}
  <2>1. DOMAIN q = 1 .. Len(q) /\ DOMAIN Tail(q) = 1 .. Len(q) - 1
    BY <1>1, <1>2
  <2>2. \A i \in 1 .. Len(q) : i = 1 \/ (i - 1 \in 1 .. Len(q) - 1 /\ q[i] = Tail(q)[i - 1])
    BY <1>2, <1>3
  <2>3. ASSUME NEW i \in 1 .. Len(q)
        PROVE  q[i] \in {Tail(q)[k] : k \in 1 .. Len(q) - 1} \cup {Head(q)}
    <3>1. CASE i = 1
      BY <1>4, <3>1
    <3>2. CASE i # 1
      <4>1. i - 1 \in 1 .. Len(q) - 1 /\ q[i] = Tail(q)[i - 1]
        BY <2>2, <3>2
      <4> QED
        BY <4>1
    <3> QED
      BY <3>1, <3>2
  <2>4. \A i \in 1 .. Len(q) - 1 : Tail(q)[i] = q[i + 1] /\ i + 1 \in 1 .. Len(q)
    BY <1>2, <1>3
  <2>5. Head(q) \in {q[i] : i \in 1 .. Len(q)}
    BY <1>2, <1>4
  <2>6. ASSUME NEW k \in 1 .. Len(q) - 1 PROVE Tail(q)[k] \in {q[i] : i \in 1 .. Len(q)}
    BY <2>4
  <2> QED
    BY <2>1, <2>3, <2>5, <2>6
<1>8. InFlight(n)' = InFlight(n)
  <2>1. queue'[n] = Tail(q) /\ hand'[n] = Head(q) /\ Head(q) # None
    BY <1>2, <1>5, NoneAssumption
  <2> QED
    BY <1>1, <1>7, <2>1 DEF InFlight, q
<1>9. \A m \in Node \ {n} : InFlight(m)' = InFlight(m)
  BY <1>5 DEF InFlight
<1> QED
  BY <1>6, <1>8, <1>9

LEMMA ConsumeStep ==
    ASSUME IInv, NEW n \in Node, ConsumeOne(n), UNCHANGED skipped
    PROVE  IInv'
<1> USE DEF ConsumeOne, addressVars
<1>1. CASE Take(n)
  <2>1. OfferedIsAccountedFor'
    <3>1. UNCHANGED <<offered, deposits, deadLetters, up, lost>>
      BY <1>1 DEF Take, tableVars
    <3> QED
      BY <1>1, <3>1, TakeKeeps, StillAccounted DEF IInv, TypeOK, WatcherTypeOK, ServiceTypeOK
  <2> QED
    BY <1>1, <2>1, TakeKeeps, ServiceStep DEF Take
<1>2. CASE StoreFails(n)
  <2>1. ServiceTypeOK'
    BY <1>2, QueueAssumption
       DEF StoreFails, Trying, IInv, TypeOK, WatcherTypeOK, ServiceTypeOK
  <2>2. \A m \in Node : InFlight(m)' = InFlight(m)
    BY <1>2 DEF StoreFails, InFlight
  <2>3. OfferedIsAccountedFor'
    <3>1. UNCHANGED <<offered, deadLetters, up, lost>> /\ deposits \subseteq deposits'
      BY <1>2 DEF StoreFails
    <3> QED
      BY <2>2, <3>1, StillAccounted DEF IInv, TypeOK, WatcherTypeOK, ServiceTypeOK
  <2> QED
    BY <1>2, <2>1, <2>2, <2>3, ServiceStep DEF StoreFails
\* The record leaves the hand of the consumer for a row, a dead letter or a loss.
<1>3. CASE Stored(n) \/ GiveUp(n)
  <2>1. hand[n] # None /\ hand' = [hand EXCEPT ![n] = None] /\ UNCHANGED <<queue, tries, up, offered, known, issued, saved>>
    BY <1>3 DEF Stored, GiveUp, Trying
  <2>2. ServiceTypeOK'
    BY <1>3, <2>1 DEF Stored, GiveUp, IInv, TypeOK, WatcherTypeOK, ServiceTypeOK
  <2>3. \A m \in Node :
          InFlight(m)' = IF m = n THEN {queue[n][i] : i \in DOMAIN queue[n]} ELSE InFlight(m)
    BY <2>1 DEF InFlight, IInv, TypeOK, WatcherTypeOK, ServiceTypeOK
  <2>4. \A m \in Node : InFlight(m)' \subseteq InFlight(m)
    BY <2>3 DEF InFlight
  <2>5. \A m \in Node : \A r \in InFlight(m) : r \in InFlight(m)' \/ r = hand[n]
    BY <2>3 DEF InFlight
  <2>6. /\ deposits \subseteq deposits' /\ deadLetters \subseteq deadLetters' /\ lost \subseteq lost'
        /\ hand[n] \in deposits' \cup deadLetters' \cup lost'
    BY <1>3 DEF Stored, GiveUp
  <2>7. OfferedIsAccountedFor'
    BY <2>1, <2>5, <2>6 DEF IInv, TypeOK, WatcherTypeOK, ServiceTypeOK, OfferedIsAccountedFor
  <2> QED
    BY <2>1, <2>2, <2>4, <2>7, ServiceStep
<1> QED
  BY <1>1, <1>2, <1>3 DEF Consume

-----------------------------------------------------------------------------
(* The watcher of one replica.                                             *)

\* What the invariant says of the watcher of n.
WellAt(n) ==
    /\ n \in up <=> watch[n] # "off"
    /\ lastHeight[n] <= Tip /\ goal[n] <= Tip
    /\ watch[n] \in {"fetch", "block"} => lastHeight[n] < height[n] /\ height[n] <= goal[n] + 1
    /\ watch[n] = "block" => height[n] <= goal[n]
    /\ watch[n] # "alarm"
    /\ watch[n] = "block" => \A p \in todo[n] : [pay |-> p, height |-> height[n]] \in mined
    /\ reorgs = 0 /\ watch[n] = "block" => \A p \in todo[n] : place[p] = height[n]
    /\ reorgs = 0 => \A p \in Payment : Concerns(n, p) =>
         /\ p \in known[n]
         /\ place[p] <= lastHeight[n] => Handled(n, p)
         /\ watch[n] \in {"fetch", "block"} /\ place[p] < height[n] => Handled(n, p)
         /\ watch[n] = "block" /\ place[p] = height[n] => p \in todo[n] \/ Offered(p)

LEMMA IInvAt == ASSUME IInv, NEW n \in Node PROVE WellAt(n)
  BY DEF IInv, WellAt, ScanIsInside, RecordsAreMined, TodoIsHere, SeenSoFar

\* A step of n leaves the other watchers as they are.
LEMMA WatchStep ==
    ASSUME IInv, NEW n \in Node, TypeOK', WellAt(n)', OfferedIsAccountedFor',
           UNCHANGED <<chainVars, knew>>, offered \subseteq offered',
           \A m \in Node : InFlight(m)' \subseteq mined,
           \A m \in Node \ {n} :
             /\ watch'[m] = watch[m] /\ lastHeight'[m] = lastHeight[m] /\ goal'[m] = goal[m]
             /\ height'[m] = height[m] /\ todo'[m] = todo[m] /\ since'[m] = since[m]
             /\ skipped'[m] = skipped[m] /\ known'[m] = known[m] /\ (m \in up' <=> m \in up)
    PROVE  IInv'
<1>1. \A m \in Node : WellAt(m)'
  <2>1. \A m \in Node \ {n} : WellAt(m)
    BY IInvAt
  <2>2. Tip' = Tip
    BY DEF chainVars, Tip
  <2>3. \A m \in Node \ {n} : WellAt(m)'
    BY <2>1, <2>2 DEF WellAt, chainVars, Watching, Concerns, Handled, Offered
  <2> QED
    BY <2>3
<1>2. RecordsAreMined'
  BY <1>1 DEF WellAt, RecordsAreMined, IInv, chainVars, Tip
<1>3. ScanIsInside' /\ TodoIsHere' /\ SeenSoFar'
  BY <1>1 DEF WellAt, ScanIsInside, TodoIsHere, SeenSoFar
<1> QED
  BY <1>2, <1>3 DEF IInv

\* Steps that leave the service alone too.
LEMMA QuietStep ==
    ASSUME IInv, NEW n \in Node, TypeOK', WellAt(n)',
           UNCHANGED <<chainVars, serviceVars, knew>>,
           \A m \in Node \ {n} :
             /\ watch'[m] = watch[m] /\ lastHeight'[m] = lastHeight[m] /\ goal'[m] = goal[m]
             /\ height'[m] = height[m] /\ todo'[m] = todo[m] /\ since'[m] = since[m]
             /\ skipped'[m] = skipped[m]
    PROVE  IInv'
<1> USE DEF serviceVars, addressVars, queueVars, tableVars
<1>1. \A m \in Node : InFlight(m)' = InFlight(m)
  BY DEF InFlight
<1>2. OfferedIsAccountedFor'
  <2>1. UNCHANGED <<offered, deposits, deadLetters, up, lost>>
    OBVIOUS
  <2> QED
    BY <1>1, <2>1, StillAccounted DEF IInv, TypeOK, WatcherTypeOK, ServiceTypeOK
<1>3. \A m \in Node : InFlight(m)' \subseteq mined
  BY <1>1 DEF IInv, RecordsAreMined
<1> QED
  BY <1>2, <1>3, WatchStep

LEMMA QuietTypes == ASSUME TypeOK, UNCHANGED <<chainVars, serviceVars, knew>>
                    PROVE  ChainTypeOK' /\ ServiceTypeOK' /\ knew' \in [Payment -> SUBSET Node]
<1>1. ChainTypeOK'
  BY DEF TypeOK, WatcherTypeOK, ChainTypeOK, chainVars
<1> QED
  BY <1>1 DEF TypeOK, WatcherTypeOK, ServiceTypeOK, serviceVars, addressVars, queueVars, tableVars

LEMMA WaitStep ==
    ASSUME IInv, NEW n \in Node, UNCHANGED skipped,
           StartFails(n) \/ Tick(n) \/ PollInVain(n) \/ Poll(n) \/ EndScan(n)
    PROVE  IInv'
<1> USE DEF Go, Watch
<1>1. WellAt(n) /\ TypeOK /\ Tip \in 0..MaxHeight
  BY IInvAt, TipType DEF IInv, TypeOK, WatcherTypeOK
<1>2. CASE StartFails(n)
  <2>1. TypeOK'
    BY <1>1, <1>2 DEF StartFails, TypeOK, WatcherTypeOK, ServiceTypeOK, serviceVars, addressVars,
       queueVars, tableVars, chainVars, ChainTypeOK
  <2>2. WellAt(n)'
    BY <1>1, <1>2 DEF StartFails, TypeOK, WatcherTypeOK, WellAt, serviceVars, addressVars,
       chainVars, Watching, Concerns, Tip
  <2> QED
    BY <1>2, <2>1, <2>2, QuietStep DEF StartFails
<1>3. CASE Poll(n)
  <2>1. TypeOK'
    <3>1. lastHeight[n] + 1 \in 0..MaxHeight + 1
      BY <1>1, ChainAssumption DEF TypeOK, WatcherTypeOK
    <3>2. goal' \in [Node -> 0..MaxHeight] /\ height' \in [Node -> 0..MaxHeight + 1]
      BY <1>1, <1>3, <3>1, ChainAssumption DEF Poll, TypeOK, WatcherTypeOK
    <3> QED
      BY <1>1, <1>3, <3>2, QuietTypes DEF Poll, TypeOK, WatcherTypeOK
  <2>2. WellAt(n)'
    BY <1>1, <1>3, ChainAssumption DEF Poll, TypeOK, WatcherTypeOK, ChainTypeOK, WellAt, serviceVars,
       addressVars, chainVars, Watching, Concerns, Handled, Offered, Tip
  <2> QED
    BY <1>3, <2>1, <2>2, QuietStep DEF Poll
<1>4. CASE EndScan(n)
  <2>1. TypeOK'
    BY <1>1, <1>4 DEF EndScan, TypeOK, WatcherTypeOK, ServiceTypeOK, serviceVars, addressVars,
       queueVars, tableVars, chainVars, ChainTypeOK
  <2>2. WellAt(n)'
    BY <1>1, <1>4, ChainAssumption DEF EndScan, TypeOK, WatcherTypeOK, ChainTypeOK, WellAt, serviceVars,
       addressVars, chainVars, Watching, Concerns, Handled, Offered, Tip
  <2> QED
    BY <1>4, <2>1, <2>2, QuietStep DEF EndScan
<1>5. CASE Tick(n) \/ PollInVain(n)
  <2>1. TypeOK'
    BY <1>1, <1>5 DEF Tick, PollInVain, TypeOK, WatcherTypeOK, ServiceTypeOK, serviceVars,
       addressVars, queueVars, tableVars, chainVars, ChainTypeOK
  <2>2. /\ watch[n] \in {"wait", "poll"} /\ watch'[n] \in {"wait", "poll"}
        /\ UNCHANGED <<lastHeight, goal, height, todo, since, knew, known, up, offered, skipped,
                       place, mined, reorgs, Tip>>
    BY <1>1, <1>5 DEF Tick, PollInVain, TypeOK, WatcherTypeOK, serviceVars, addressVars,
       chainVars, Tip
  <2>3. WellAt(n)'
    BY <1>1, <2>2 DEF WellAt, Watching, Concerns, Handled, Offered
  <2>4. UNCHANGED <<chainVars, serviceVars, lastHeight, goal, height, todo, since, knew>>
        /\ \A m \in Node \ {n} : watch'[m] = watch[m]
    BY <1>1, <1>5 DEF Tick, PollInVain, TypeOK, WatcherTypeOK
  <2> QED
    BY <2>1, <2>3, <2>4, QuietStep
<1> QED
  BY <1>2, <1>3, <1>4, <1>5

LEMMA StartStep ==
    ASSUME IInv, NEW n \in Node, StartWatching(n), UNCHANGED skipped
    PROVE  IInv'
<1> USE DEF StartWatching, Go, Watch
<1>1. WellAt(n) /\ TypeOK /\ Tip \in 0..MaxHeight
  BY IInvAt, TipType DEF IInv, TypeOK, WatcherTypeOK
<1>2. TypeOK'
  BY <1>1, ChainAssumption DEF TypeOK, WatcherTypeOK, ServiceTypeOK, serviceVars, addressVars,
     queueVars, tableVars, chainVars, ChainTypeOK
<1>3. watch'[n] = "wait" /\ lastHeight'[n] = Tip /\ since'[n] = Tip
  BY <1>1 DEF TypeOK, WatcherTypeOK
<1>4. Tip' = Tip /\ reorgs' = reorgs /\ place' = place
  BY DEF chainVars, Tip
<1>5. \A p \in Payment : ~Concerns(n, p)'
  <2>1. \A p \in Payment : place[p] # 0 => place[p] <= Tip
    BY DEF IInv, RecordsAreMined
  <2>2. \A p \in Payment : place[p] \in Nat
    BY <1>1, ChainAssumption DEF TypeOK, WatcherTypeOK, ChainTypeOK
  <2>3. \A p \in Payment : ~(Tip < place[p])
    BY <1>1, <2>1, <2>2, ChainAssumption
  <2> QED
    BY <1>3, <1>4, <2>3 DEF Concerns
<1>6. WellAt(n)'
  BY <1>1, <1>3, <1>4, <1>5, ChainAssumption
     DEF TypeOK, WatcherTypeOK, WellAt, serviceVars, addressVars, Watching
<1> QED
  BY <1>2, <1>6, QuietStep

LEMMA FetchStep == ASSUME IInv, NEW n \in Node, Fetch(n) PROVE IInv'
<1> USE DEF Fetch, TakeBlock, Go, Watch
<1>1. WellAt(n) /\ TypeOK /\ Tip \in 0..MaxHeight
  BY IInvAt, TipType DEF IInv, TypeOK, WatcherTypeOK
<1>2. height[n] \in 1..Tip
  BY <1>1, ChainAssumption DEF WellAt, TypeOK, WatcherTypeOK
<1>3. TypeOK'
  BY <1>1 DEF TypeOK, WatcherTypeOK, ServiceTypeOK, serviceVars, addressVars,
     queueVars, tableVars, chainVars, ChainTypeOK
<1>4. /\ watch[n] = "fetch" /\ watch'[n] = "block"
      /\ todo'[n] = {p \in Payment : place[p] = height[n]}
  BY <1>1 DEF TypeOK, WatcherTypeOK
<1>5. \A p \in todo'[n] : [pay |-> p, height |-> height[n]] \in mined
  BY <1>2, <1>4 DEF IInv, RecordsAreMined
<1>6. WellAt(n)'
  BY <1>1, <1>2, <1>4, <1>5, ChainAssumption
     DEF TypeOK, WatcherTypeOK, ChainTypeOK, WellAt, chainVars, serviceVars, addressVars, Watching, Concerns,
     Handled, Offered, Tip
<1> QED
  BY <1>3, <1>6, QuietStep

\* A block that cannot be fetched is noted as skipped, one that was worked through has
\* nothing left to offer.
LEMMA PassStep ==
    ASSUME IInv, NEW n \in Node, FetchFails(n) \/ (NextBlock(n) /\ UNCHANGED skipped)
    PROVE  IInv'
<1> USE DEF Go, Watch
<1>1. WellAt(n) /\ TypeOK /\ Tip \in 0..MaxHeight
  BY IInvAt, TipType DEF IInv, TypeOK, WatcherTypeOK
<1>2. height[n] \in 1..Tip /\ watch[n] \in {"fetch", "block"}
  BY <1>1, ChainAssumption DEF FetchFails, NextBlock, WellAt, TypeOK, WatcherTypeOK
<1>3. /\ height' = [height EXCEPT ![n] = @ + 1]
      /\ UNCHANGED <<chainVars, serviceVars, lastHeight, goal, todo, since, knew>>
      /\ watch' = [watch EXCEPT ![n] = "fetch"]
  BY <1>1 DEF FetchFails, NextBlock, TypeOK, WatcherTypeOK
<1>4. skipped' = skipped \/ skipped' = [skipped EXCEPT ![n] = @ \cup {height[n]}]
  BY DEF FetchFails, NextBlock
<1>5. TypeOK'
  <2>1. height' \in [Node -> 0..MaxHeight + 1]
    BY <1>1, <1>2, <1>3, ChainAssumption DEF TypeOK, WatcherTypeOK
  <2>2. skipped' \in [Node -> SUBSET (1..MaxHeight)]
    BY <1>1, <1>2, <1>4, ChainAssumption DEF TypeOK
  <2> QED
    BY <1>1, <1>3, <2>1, <2>2, QuietTypes DEF TypeOK, WatcherTypeOK
<1>6. \A p \in Payment : Handled(n, p) => Handled(n, p)'
  BY <1>1, <1>3, <1>4 DEF Handled, Offered, TypeOK, chainVars, serviceVars
<1>7. reorgs = 0 => \A p \in Payment : Concerns(n, p) /\ place[p] = height[n] => Handled(n, p)'
  <2>1. CASE FetchFails(n)
    BY <1>1, <2>1 DEF FetchFails, Handled, TypeOK, chainVars
  <2>2. CASE NextBlock(n)
    BY <1>1, <2>2 DEF NextBlock, WellAt, Handled, Offered, chainVars, serviceVars
  <2> QED
    BY <2>1, <2>2
<1>8. \A p \in Payment : place[p] \in Nat
  BY <1>1, ChainAssumption DEF TypeOK, WatcherTypeOK, ChainTypeOK
<1>9. \A p \in Payment : Concerns(n, p)' <=> Concerns(n, p)
  BY <1>1, <1>2, <1>3 DEF Concerns, Watching, TypeOK, WatcherTypeOK, chainVars
<1>10. WellAt(n)'
  <2>1. /\ height'[n] = height[n] + 1 /\ watch'[n] = "fetch" /\ height[n] \in Nat
        /\ UNCHANGED <<Tip, reorgs, place, lastHeight, goal, known, up>>
    BY <1>1, <1>2, <1>3 DEF TypeOK, WatcherTypeOK, chainVars, serviceVars, addressVars, Tip
  <2>2. height[n] <= goal[n]
    BY <1>1 DEF FetchFails, NextBlock, WellAt
  <2>3. reorgs = 0 => \A p \in Payment : Concerns(n, p) =>
          /\ p \in known[n]
          /\ place[p] <= lastHeight[n] => Handled(n, p)'
          /\ place[p] < height[n] + 1 => Handled(n, p)'
    BY <1>1, <1>2, <1>6, <1>7, <1>8, <2>1 DEF WellAt
  <2>4. lastHeight[n] < height[n] + 1 /\ height[n] + 1 <= goal[n] + 1
    BY <1>1, <1>2, <2>1, <2>2, ChainAssumption DEF WellAt, TypeOK, WatcherTypeOK
  <2> QED
    BY <1>1, <1>2, <1>9, <2>1, <2>3, <2>4 DEF WellAt
<1>11. \A m \in Node \ {n} : skipped'[m] = skipped[m]
  BY <1>1, <1>4 DEF TypeOK
<1> QED
  BY <1>1, <1>3, <1>5, <1>10, <1>11, QuietStep DEF TypeOK, WatcherTypeOK

\* One round over the payments of a block.
LEMMA LookStep ==
    ASSUME IInv, NEW n \in Node, NEW p \in Payment, Look(n, p), UNCHANGED skipped
    PROVE  IInv'
<1> DEFINE r == [pay |-> p, height |-> height[n]]
<1>1. /\ WellAt(n) /\ TypeOK /\ Tip \in 0..MaxHeight
      /\ watch[n] = "block" /\ p \in todo[n] /\ r \in mined /\ r \in Record
  <2>1. WellAt(n) /\ TypeOK /\ Tip \in 0..MaxHeight
    BY IInvAt, TipType DEF IInv, TypeOK, WatcherTypeOK
  <2>2. watch[n] = "block" /\ p \in todo[n]
    BY DEF Look
  <2>3. r \in mined
    BY <2>1, <2>2 DEF WellAt
  <2> QED
    BY <2>1, <2>2, <2>3 DEF TypeOK, WatcherTypeOK, ChainTypeOK
<1>2. /\ todo' = [todo EXCEPT ![n] = @ \ {p}]
      /\ UNCHANGED <<chainVars, watch, lastHeight, goal, height, since, knew, skipped,
                     addressVars, hand, tries, tableVars, up>>
  BY DEF Look, Offer
\* The record is in the channel or lost, unless the address is not known.
<1>3. \/ p \notin known[n] /\ UNCHANGED <<queue, offered, lost>>
      \/ /\ offered' = offered \cup {r} /\ lost' = lost
         /\ Len(queue[n]) < Capacity /\ queue' = [queue EXCEPT ![n] = Append(@, r)]
      \/ offered' = offered \cup {r} /\ lost' = lost \cup {r} /\ queue' = queue
  BY DEF Look, Offer
<1>4. \A m \in Node : InFlight(m) \subseteq InFlight(m)' /\ InFlight(m)' \subseteq InFlight(m) \cup {r}
  <2>1. CASE queue' = queue
    BY <1>2, <2>1 DEF InFlight
  <2>2. CASE queue' = [queue EXCEPT ![n] = Append(@, r)]
    <3>1. queue[n] \in Seq(Record)
      BY <1>1 DEF TypeOK, WatcherTypeOK, ServiceTypeOK
    <3>2. queue'[n] = Append(queue[n], r) /\ \A m \in Node \ {n} : queue'[m] = queue[m]
      BY <1>1, <2>2 DEF TypeOK, WatcherTypeOK, ServiceTypeOK
    <3>3. /\ DOMAIN queue[n] = 1 .. Len(queue[n]) /\ DOMAIN queue'[n] = 1 .. Len(queue[n]) + 1
          /\ \A i \in 1 .. Len(queue[n]) : queue'[n][i] = queue[n][i]
          /\ queue'[n][Len(queue[n]) + 1] = r
          /\ Len(queue[n]) \in Nat
      BY <1>1, <3>1, <3>2
    <3>4. \A i \in 1 .. Len(queue[n]) + 1 : i \in 1 .. Len(queue[n]) \/ i = Len(queue[n]) + 1
      BY <3>3
    <3>5. \A i \in 1 .. Len(queue[n]) : i \in 1 .. Len(queue[n]) + 1
      BY <3>3
    <3>6. {queue'[n][i] : i \in DOMAIN queue'[n]} \subseteq {queue[n][i] : i \in DOMAIN queue[n]} \cup {r}
      BY <3>3, <3>4
    <3>7. {queue[n][i] : i \in DOMAIN queue[n]} \subseteq {queue'[n][i] : i \in DOMAIN queue'[n]}
      BY <3>3, <3>5
    <3>8. InFlight(n) \subseteq InFlight(n)' /\ InFlight(n)' \subseteq InFlight(n) \cup {r}
      BY <1>2, <3>6, <3>7 DEF InFlight
    <3>9. \A m \in Node \ {n} : InFlight(m)' = InFlight(m)
      BY <1>2, <3>2 DEF InFlight
    <3> QED
      BY <3>8, <3>9
  <2> QED
    BY <1>3, <2>1, <2>2
<1>5. offered' = offered \/ (offered' = offered \cup {r} /\ \E m \in up : r \in InFlight(m)')
      \/ (offered' = offered \cup {r} /\ r \in lost')
  <2>1. CASE queue' = [queue EXCEPT ![n] = Append(@, r)]
    <3>1. n \in up
      BY <1>1 DEF WellAt
    <3>2. queue'[n] = Append(queue[n], r) /\ queue[n] \in Seq(Record)
      BY <1>1, <2>1 DEF TypeOK, WatcherTypeOK, ServiceTypeOK
    <3>3. /\ Len(queue[n]) + 1 \in DOMAIN queue'[n]
          /\ queue'[n][Len(queue[n]) + 1] = r
      BY <1>1, <3>2
    <3>4. r \in InFlight(n)'
      BY <3>3 DEF InFlight
    <3> QED
      BY <1>3, <3>1, <3>4
  <2> QED
    BY <1>3, <2>1
<1>6. ServiceTypeOK'
  <2>1. queue' \in [Node -> Seq(Record)] /\ \A m \in Node : Len(queue'[m]) <= Capacity
    <3>1. CASE queue' = queue
      BY <1>1, <3>1 DEF TypeOK, WatcherTypeOK, ServiceTypeOK
    <3>2. CASE Len(queue[n]) < Capacity /\ queue' = [queue EXCEPT ![n] = Append(@, r)]
      <4>1. queue \in [Node -> Seq(Record)] /\ \A m \in Node : Len(queue[m]) <= Capacity
        BY <1>1 DEF TypeOK, WatcherTypeOK, ServiceTypeOK
      <4>2. Append(queue[n], r) \in Seq(Record) /\ Len(Append(queue[n], r)) = Len(queue[n]) + 1
        BY <1>1, <4>1
      <4>3. queue' = [queue EXCEPT ![n] = Append(queue[n], r)]
        BY <3>2
      <4>4. Len(queue[n]) + 1 <= Capacity
        BY <3>2, <4>1, QueueAssumption
      <4> HIDE DEF r
      <4> QED
        BY <4>1, <4>2, <4>3, <4>4
    <3> QED
      BY <1>3, <3>1, <3>2
  <2>2. offered' \subseteq Record /\ lost' \subseteq Record
    BY <1>1, <1>3 DEF TypeOK, WatcherTypeOK, ServiceTypeOK
  <2> QED
    BY <1>1, <1>2, <2>1, <2>2 DEF TypeOK, WatcherTypeOK, ServiceTypeOK, addressVars, tableVars
<1> HIDE DEF r
<1>7. TypeOK'
  <2>1. ChainTypeOK'
    BY <1>1, <1>2 DEF TypeOK, WatcherTypeOK, ChainTypeOK, chainVars
  <2>2. todo' \in [Node -> SUBSET Payment]
    BY <1>1, <1>2 DEF TypeOK, WatcherTypeOK
  <2> QED
    BY <1>1, <1>2, <1>6, <2>1, <2>2 DEF TypeOK, WatcherTypeOK
<1>8. offered \subseteq offered' /\ (p \in known[n] => r \in offered')
  BY <1>3
<1>9. WellAt(n)'
  <2>1. todo'[n] = todo[n] \ {p}
    BY <1>1, <1>2 DEF TypeOK, WatcherTypeOK
  <2>2. reorgs = 0 => (p \in known[n] => Offered(p)')
    BY <1>1, <1>2, <1>8 DEF WellAt, Offered, r, chainVars
  <2>3. ASSUME NEW q \in Payment
        PROVE  /\ Concerns(n, q)' <=> Concerns(n, q)
               /\ Offered(q) => Offered(q)'
               /\ Handled(n, q) => Handled(n, q)'
    BY <1>2, <1>8 DEF Concerns, Handled, Offered, Watching, chainVars
  <2>4. ASSUME NEW q \in Payment, reorgs = 0, Concerns(n, q)'
        PROVE  /\ q \in known[n]
               /\ place[q] <= lastHeight[n] => Handled(n, q)'
               /\ place[q] < height[n] => Handled(n, q)'
               /\ place[q] = height[n] => q \in todo'[n] \/ Offered(q)'
    <3>1. Concerns(n, q)
      BY <2>3, <2>4
    <3>2. /\ q \in known[n]
          /\ place[q] <= lastHeight[n] => Handled(n, q)
          /\ place[q] < height[n] => Handled(n, q)
          /\ place[q] = height[n] => q \in todo[n] \/ Offered(q)
      BY <1>1, <2>4, <3>1 DEF WellAt
    <3>3. q \in todo[n] => q = p \/ q \in todo'[n]
      BY <2>1
    <3>4. q = p /\ p \in known[n] => Offered(q)'
      BY <2>2, <2>4
    <3>5. (Offered(q) => Offered(q)') /\ (Handled(n, q) => Handled(n, q)')
      BY <2>3
    <3> QED
      BY <3>2, <3>3, <3>4, <3>5
  <2>5. UNCHANGED <<known, up, Tip, place, mined, reorgs, watch, lastHeight, goal, height, since>>
    BY <1>2 DEF chainVars, addressVars, Tip
  <2> QED
    BY <1>1, <2>1, <2>4, <2>5 DEF WellAt, Watching
<1>10. OfferedIsAccountedFor'
  <2>1. deposits' = deposits /\ deadLetters' = deadLetters /\ lost \subseteq lost' /\ up' = up
    BY <1>2, <1>3 DEF tableVars
  <2>2. \A x \in offered : \/ \E d \in deposits' : d.pay = x.pay
                           \/ x \in deadLetters'
                           \/ \E m \in up' : x \in InFlight(m)'
                           \/ x \in lost'
    BY <1>1, <1>4, <2>1 DEF IInv, OfferedIsAccountedFor, TypeOK, WatcherTypeOK, ServiceTypeOK
  <2> QED
    BY <1>5, <2>1, <2>2 DEF OfferedIsAccountedFor
<1>11. \A m \in Node : InFlight(m)' \subseteq mined
  BY <1>1, <1>4 DEF IInv, RecordsAreMined
<1> QED
  BY <1>1, <1>2, <1>7, <1>8, <1>9, <1>10, <1>11, WatchStep
     DEF chainVars, addressVars, TypeOK, WatcherTypeOK

-----------------------------------------------------------------------------
(* The life of a replica.                                                  *)

LEMMA BootStep == ASSUME IInv, NEW n \in Node, BootNode(n), UNCHANGED skipped PROVE IInv'
<1>1. WellAt(n) /\ TypeOK
  BY IInvAt DEF IInv
<1>2. /\ n \notin up /\ up' = up \cup {n} /\ watch' = [watch EXCEPT ![n] = "start"]
      /\ \E found \in {saved, {}} : known' = [known EXCEPT ![n] = found]
      /\ UNCHANGED <<issued, saved, queueVars, tableVars, offered, lost, skipped,
                     chainVars, lastHeight, goal, height, todo, since, knew>>
  BY DEF BootNode, Boot
<1> USE DEF queueVars, tableVars
<1>3. TypeOK'
  <2>1. ChainTypeOK'
    BY <1>1, <1>2 DEF TypeOK, WatcherTypeOK, ChainTypeOK, chainVars
  <2>2. ServiceTypeOK'
    BY <1>1, <1>2 DEF TypeOK, WatcherTypeOK, ServiceTypeOK
  <2> QED
    BY <1>1, <1>2, <2>1, <2>2 DEF TypeOK, WatcherTypeOK, Watch
<1>4. \A m \in Node : InFlight(m)' = InFlight(m)
  BY <1>2 DEF InFlight
<1>5. OfferedIsAccountedFor'
  BY <1>1, <1>2, <1>4, StillAccounted DEF TypeOK, WatcherTypeOK, ServiceTypeOK
<1>6. WellAt(n)'
  BY <1>1, <1>2 DEF WellAt, TypeOK, WatcherTypeOK, chainVars, Watching, Concerns, Tip
<1>7. \A m \in Node : InFlight(m)' \subseteq mined
  BY <1>4 DEF IInv, RecordsAreMined
<1> QED
  BY <1>1, <1>2, <1>3, <1>5, <1>6, <1>7, WatchStep DEF TypeOK, WatcherTypeOK, ServiceTypeOK, chainVars

LEMMA StopStep ==
    ASSUME IInv, NEW n \in Node, StopNode(n), skipped' = [skipped EXCEPT ![n] = {}]
    PROVE  IInv'
<1>1. WellAt(n) /\ TypeOK
  BY IInvAt DEF IInv
<1>2. /\ up' = up \ {n} /\ lost' = lost \cup InFlight(n)
      /\ UNCHANGED <<issued, saved, tableVars, offered, chainVars, knew>>
  BY DEF StopNode, Stop
<1>3. /\ known' = [known EXCEPT ![n] = {}] /\ queue' = [queue EXCEPT ![n] = <<>>]
      /\ hand' = [hand EXCEPT ![n] = None] /\ tries' = [tries EXCEPT ![n] = 0]
  BY DEF StopNode, Stop
<1>4. /\ watch' = [watch EXCEPT ![n] = "off"] /\ lastHeight' = [lastHeight EXCEPT ![n] = 0]
      /\ goal' = [goal EXCEPT ![n] = 0] /\ height' = [height EXCEPT ![n] = 0]
      /\ todo' = [todo EXCEPT ![n] = {}] /\ since' = [since EXCEPT ![n] = 0]
  BY DEF StopNode
<1> USE DEF tableVars
<1>6. InFlight(n)' = {} /\ \A m \in Node \ {n} : InFlight(m)' = InFlight(m)
  BY <1>1, <1>3 DEF InFlight, TypeOK, WatcherTypeOK, ServiceTypeOK
<1>7. InFlight(n) \subseteq mined
  BY DEF IInv, RecordsAreMined
<1>8. TypeOK'
  <2>1. ChainTypeOK'
    BY <1>1, <1>2 DEF TypeOK, WatcherTypeOK, ChainTypeOK, chainVars
  <2>2. lost' \subseteq Record
    BY <1>1, <1>2, <1>7 DEF TypeOK, WatcherTypeOK, ServiceTypeOK, ChainTypeOK
  <2>3. queue' \in [Node -> Seq(Record)] /\ \A m \in Node : Len(queue'[m]) <= Capacity
    BY <1>1, <1>3, QueueAssumption DEF TypeOK, WatcherTypeOK, ServiceTypeOK
  <2>4. ServiceTypeOK'
    BY <1>1, <1>2, <1>3, <2>2, <2>3, QueueAssumption DEF TypeOK, WatcherTypeOK, ServiceTypeOK
  <2> QED
    BY <1>1, <1>2, <1>4, <2>1, <2>4, ChainAssumption DEF TypeOK, WatcherTypeOK, Watch
<1>9. OfferedIsAccountedFor'
  BY <1>1, <1>2, <1>6, StillAccounted DEF TypeOK, WatcherTypeOK, ServiceTypeOK
<1>10. WellAt(n)'
  <2>1. watch'[n] = "off" /\ n \notin up' /\ lastHeight'[n] = 0 /\ goal'[n] = 0
    BY <1>1, <1>2, <1>4 DEF TypeOK, WatcherTypeOK
  <2>2. Tip' \in Nat
    BY <1>8, TipType, ChainAssumption DEF TypeOK, WatcherTypeOK, ChainTypeOK, Tip
  <2> QED
    BY <2>1, <2>2 DEF WellAt, Watching, Concerns
<1>11. \A m \in Node : InFlight(m)' \subseteq mined
  BY <1>6 DEF IInv, RecordsAreMined
<1> QED
  BY <1>1, <1>2, <1>3, <1>4, <1>8, <1>9, <1>10, <1>11, WatchStep
     DEF TypeOK, WatcherTypeOK, ServiceTypeOK, chainVars

-----------------------------------------------------------------------------
(* The whole.                                                              *)

LEMMA NextIInv == IInv /\ [Next]_vars => IInv'
<1> SUFFICES ASSUME IInv, [Next]_vars PROVE IInv'
  OBVIOUS
<1>1. ASSUME NEW n \in Node, WatcherStep(n) PROVE IInv'
  BY <1>1, StartStep, WaitStep, LookStep, FetchStep, PassStep DEF WatcherStep
<1>2. ASSUME NEW n \in Node, BootNode(n) /\ UNCHANGED skipped PROVE IInv'
  BY <1>2, BootStep
<1>3. ASSUME NEW n \in Node, StopNode(n), skipped' = [skipped EXCEPT ![n] = {}] PROVE IInv'
  BY <1>3, StopStep
<1>4. CASE Around /\ UNCHANGED skipped
  BY <1>4, ConsumeStep, AddressStep, MineStep, ReorgStep DEF Around
<1>5. CASE UNCHANGED vars
  <2> USE <1>5 DEF vars, serviceVars, addressVars, queueVars, tableVars
  <2>1. ServiceTypeOK'
    BY DEF IInv, TypeOK, WatcherTypeOK, ServiceTypeOK
  <2>2. \A n \in Node : InFlight(n)' = InFlight(n)
    BY DEF InFlight
  <2>3. OfferedIsAccountedFor'
    BY <2>2, StillAccounted DEF IInv, TypeOK, WatcherTypeOK, ServiceTypeOK
  <2> QED
    BY <2>1, <2>2, <2>3, ServiceStep
<1> QED
  BY <1>1, <1>2, <1>3, <1>4, <1>5 DEF Next, Replica

LEMMA SpecIInv == Spec => []IInv
  BY InitIInv, NextIInv, PTL DEF Spec

\* Type correctness.
THEOREM TypeCorrect == Spec => []TypeOK
<1>1. IInv => TypeOK
  BY DEF IInv
<1> QED
  BY <1>1, SpecIInv, PTL

\* A payment whose block the scan has passed and whose address the replica knew was
\* offered to the channel, unless the fetch of its block failed (watcher.go:63-126).
THEOREM ScanSeesPayments == Spec => []SeenUnlessSkipped
<1>1. IInv => SeenUnlessSkipped
  BY DEF IInv, SeenSoFar, Handled, SeenUnlessSkipped
<1> QED
  BY <1>1, SpecIInv, PTL

\* A record the watcher put into the channel is a row, a dead letter, on its way, or
\* one of those the code drops: a full channel, a stop, a failed dead letter.
THEOREM OfferedAccounted == Spec => []OfferedIsAccountedFor
<1>1. IInv => OfferedIsAccountedFor
  BY DEF IInv
<1> QED
  BY <1>1, SpecIInv, PTL

\* consumeDeposits under retries and the watcher under reorganisations write the
\* ledger of DepositLedger: a row stands for a payment that was mined at the row's
\* height, one row for a transaction, and no row changes.
LEMMA LedgerInitial == Init => Ledger!LedgerInit
  BY DEF Init, WatcherInit, ChainInit, ServiceInit, Ledger!LedgerInit, Tip

LEMMA LedgerStep == IInv /\ IInv' /\ [Next]_vars =>
    [Ledger!ChainMoves \/ Ledger!Credit \/ Ledger!Confirm]_(Ledger!ledgerVars)
<1> SUFFICES ASSUME IInv, [Next]_vars
             PROVE  [Ledger!ChainMoves \/ Ledger!Credit \/ Ledger!Confirm]_(Ledger!ledgerVars)
  OBVIOUS
<1>1. ASSUME UNCHANGED <<chainVars, deposits>> PROVE UNCHANGED Ledger!ledgerVars
  BY <1>1 DEF Ledger!ledgerVars, chainVars, Tip
<1>2. ASSUME NEW n \in Node, Replica(n) PROVE UNCHANGED <<chainVars, deposits>>
  <2>1. CASE WatcherStep(n)
    BY <2>1 DEF WatcherStep, StartWatching, StartFails, Tick, PollInVain, Poll, EndScan,
       Look, Offer, Fetch, TakeBlock, FetchFails, NextBlock, serviceVars, tableVars
  <2>2. CASE BootNode(n)
    BY <2>2 DEF BootNode, Boot, tableVars
  <2>3. CASE StopNode(n)
    BY <2>3 DEF StopNode, Stop, tableVars
  <2> QED
    BY <1>2, <2>1, <2>2, <2>3 DEF Replica
<1>3. ASSUME NEW n \in Node, NEW p \in Payment, NewAddress(n, p)
      PROVE  UNCHANGED <<chainVars, deposits>>
  BY <1>3 DEF NewAddress, GenerateAddress, tableVars
<1>4. ASSUME NEW n \in Node, ConsumeOne(n)
      PROVE  Ledger!Credit \/ UNCHANGED <<chainVars, deposits>>
  <2>1. UNCHANGED chainVars /\ Tip' = Tip
    BY <1>4 DEF ConsumeOne, chainVars, Tip
  <2>2. CASE Take(n) \/ GiveUp(n) \/ deposits' = deposits
    BY <2>1, <2>2 DEF Take, GiveUp, tableVars
  <2>3. CASE ~Conflicts(hand[n]) /\ hand[n] # None /\ deposits' = deposits \cup {hand[n]}
    <3>1. hand[n] \in mined
      BY <2>3 DEF IInv, RecordsAreMined, InFlight
    <3>2. \A d \in deposits : TxOf[d.pay] # TxOf[hand[n].pay]
      BY <2>3 DEF Conflicts
    <3>3. mined' = mined
      BY <2>1 DEF chainVars
    <3> QED
      BY <2>1, <2>3, <3>1, <3>2, <3>3 DEF Ledger!Credit
  <2> QED
    BY <1>4, <2>2, <2>3 DEF ConsumeOne, Consume, Stored, StoreFails, Trying
<1>5. ASSUME NEW P \in SUBSET Payment, MineBlock(P) PROVE Ledger!ChainMoves
  <2>1. Tip' = Tip + 1 /\ mined \subseteq mined' /\ Tip \in Int
    BY <1>5, MineChain, TipType DEF MineBlock, IInv, TypeOK, WatcherTypeOK
  <2>2. deposits' = deposits
    BY <1>5 DEF MineBlock, serviceVars, tableVars
  <2> QED
    BY <2>1, <2>2 DEF Ledger!ChainMoves
<1>6. ASSUME NEW h \in 1..Tip, ReorgChain(h) PROVE Ledger!ChainMoves
  <2>1. Tip' = Tip /\ mined \subseteq mined' /\ Tip \in Int
    BY <1>6, ReorgChainTypes, TipType DEF ReorgChain, IInv, TypeOK, WatcherTypeOK
  <2>2. deposits' = deposits
    BY <1>6 DEF ReorgChain, serviceVars, tableVars
  <2> QED
    BY <2>1, <2>2 DEF Ledger!ChainMoves
<1>7. CASE UNCHANGED vars
  BY <1>1, <1>7 DEF vars, serviceVars, tableVars
<1> QED
  BY <1>1, <1>2, <1>3, <1>4, <1>5, <1>6, <1>7 DEF Next, Around

\* The scan, the channel and the consumer implement the ledger.
THEOREM LedgerRefinement == Spec => ImplementsLedger
  BY LedgerInitial, LedgerStep, SpecIInv, PTL DEF Spec, ImplementsLedger, Ledger!LedgerSpec
=============================================================================
