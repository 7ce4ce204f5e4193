--------------------------- MODULE EthWatcher_proofs ---------------------------
(***************************************************************************)
(* Proofs about EthWatcher for any replicas, payments, chain, capacity and *)
(* number of retries: type correctness, what a scan works through and      *)
(* offers, the cause of an alarm, what becomes of offered records, and the *)
(* refinement of DepositLedger.                                            *)
(***************************************************************************)
EXTENDS EthWatcher, SequenceTheorems, TLAPS

\* Where a scan is: above the last height and below the goal, which was a tip.
ScanIsInside ==
    /\ \A n \in Node : n \in up <=> watch[n] # "off"
    /\ \A n \in Node : lastHeight[n] <= Tip /\ goal[n] <= Tip
    /\ \A n \in Node : watch[n] \in {"fetch", "block", "alarm"} =>
        lastHeight[n] < height[n] /\ height[n] <= goal[n] + 1
    /\ \A n \in Node : watch[n] \in {"block", "alarm"} => height[n] <= goal[n]

ScanIsComplete == \A n \in Node : watch[n] \in {"fetch", "block", "alarm"} =>
    since[n] + 1 .. height[n] - 1 \subseteq scanned[n]

\* A record stands for a payment that was in the chain, wherever it is.
RecordsAreMined ==
    /\ \A p \in Payment : place[p] # 0 =>
        place[p] <= Tip /\ [pay |-> p, height |-> place[p]] \in mined
    /\ \A n \in Node : watch[n] = "block" =>
        \A p \in todo[n] : [pay |-> p, height |-> height[n]] \in mined
    /\ \A n \in Node : InFlight(n) \subseteq mined

\* Until the first reorganisation every hash is the height with a 0.
FirstVersion == reorgs = 0 => \A i \in 1..Tip : blocks[i] = 0

\* Until the first reorganisation, and while no scan that was cut short left lastHash
\* ahead, lastHash is the parent of the block a scan looks at.
HashFollows == \A n \in Node : reorgs = 0 /\ n \notin broken =>
    /\ watch[n] \in {"wait", "poll"} => lastHash[n] = <<lastHeight[n], 0>>
    /\ watch[n] = "fetch" => lastHash[n] = <<height[n] - 1, 0>>
    /\ watch[n] = "block" => block[n] = <<height[n], 0>>

\* A payment that concerns a watcher is known to its replica, and offered as soon
\* as its block is worked through.
SeenSoFar == reorgs = 0 =>
    \A n \in Node, p \in Payment : Concerns(n, p) =>
        /\ p \in known[n]
        /\ place[p] <= lastHeight[n] => Offered(p)
        /\ watch[n] \in {"fetch", "block", "alarm"} /\ place[p] < height[n] => Offered(p)
        /\ watch[n] = "block" /\ place[p] = height[n] => p \in todo[n] \/ Offered(p)

TodoIsHere == reorgs = 0 =>
    \A n \in Node : watch[n] = "block" => \A p \in todo[n] : place[p] = height[n]

IInv ==
    /\ TypeOK
    /\ ScanIsInside
    /\ ScanIsComplete
    /\ NoHeightSkipped
    /\ RecordsAreMined
    /\ FirstVersion
    /\ HashFollows
    /\ AlarmHasCause
    /\ TodoIsHere
    /\ SeenSoFar
    /\ OfferedIsAccountedFor

-----------------------------------------------------------------------------
(* The chain.                                                              *)

LEMMA TipType == ChainTypeOK =>
    /\ Tip \in 0..MaxHeight
    /\ \A h \in 0..Tip : Hash(h) \in Hashes
    /\ \A where : Canonical(where) \subseteq Record
  BY ChainAssumption DEF ChainTypeOK, Tip, Hash, Hashes, Canonical

LEMMA MineChain ==
    ASSUME ChainTypeOK, NEW P \in SUBSET Payment, Mine(P)
    PROVE  /\ ChainTypeOK' /\ Tip' = Tip + 1 /\ mined \subseteq mined'
           /\ blocks' = Append(blocks, reorgs)
<1> USE ChainAssumption DEF ChainTypeOK
<1>1. blocks' = Append(blocks, reorgs) /\ Tip < MaxHeight
  BY DEF Mine
<1>2. blocks' \in Seq(0..MaxReorgs) /\ Tip' = Tip + 1
  BY <1>1 DEF Tip
<1>3. place' \in [Payment -> 0..MaxHeight]
  BY TipType DEF Mine
<1> QED
  BY <1>1, <1>2, <1>3, TipType DEF Mine, Tip

LEMMA ReorgChainTypes ==
    ASSUME ChainTypeOK, NEW h \in 1..Tip, Reorg(h)
    PROVE  ChainTypeOK' /\ Tip' = Tip /\ mined \subseteq mined' /\ reorgs' # 0
<1> USE ChainAssumption DEF ChainTypeOK
<1>1. reorgs' \in 0..MaxReorgs /\ reorgs' # 0
  BY DEF Reorg
<1>2. \A i \in 1..Tip : blocks[i] \in 0..MaxReorgs
  BY DEF Tip
<1>3. blocks' \in [1..Tip -> 0..MaxReorgs]
  BY <1>1, <1>2 DEF Reorg
<1>4. blocks' \in Seq(0..MaxReorgs) /\ Len(blocks') = Tip
  <2>1. Tip \in Nat
    BY TipType
  <2> QED
    BY <1>3, <2>1
<1>5. place' \in [Payment -> 0..MaxHeight]
  BY TipType DEF Reorg
<1> QED
  BY <1>1, <1>4, <1>5, TipType DEF Reorg, Tip

\* Records do not vanish on their way: what was in flight still is, or lies somewhere.
LEMMA StillAccounted ==
    ASSUME IInv, offered' \subseteq offered,
           deposits \subseteq deposits', deadLetters \subseteq deadLetters',
           lost \subseteq lost',
           \A n \in up : \A r \in InFlight(n) :
               \/ n \in up' /\ r \in InFlight(n)'
               \/ r \in deposits' \cup deadLetters' \cup lost'
    PROVE  OfferedIsAccountedFor'
  BY DEF IInv, OfferedIsAccountedFor

LEMMA InitIInv == Init => IInv
<1> SUFFICES ASSUME Init PROVE IInv
  OBVIOUS
<1> USE ChainAssumption, QueueAssumption
    DEF Init, WatcherInit, ChainInit, ServiceInit
<1>1. TypeOK
  BY TipType DEF TypeOK, WatcherTypeOK, ChainTypeOK, ServiceTypeOK, Watch, Hash, Hashes
<1>2. \A n \in Node : InFlight(n) = {}
  BY DEF InFlight
<1> QED
  BY <1>1, <1>2 DEF IInv, ScanIsInside, ScanIsComplete, NoHeightSkipped, RecordsAreMined,
     FirstVersion, HashFollows, AlarmHasCause, SeenSoFar, TodoIsHere,
     Watching, Concerns, OfferedIsAccountedFor, Tip

\* The chain moves.
LEMMA MineStep == ASSUME IInv, NEW P \in SUBSET Payment, MineBlock(P), UNCHANGED ethVars
                  PROVE  IInv'
<1> USE DEF MineBlock, serviceVars, addressVars, queueVars, tableVars, ethVars
<1>1. /\ ChainTypeOK' /\ Tip' = Tip + 1 /\ mined \subseteq mined'
      /\ blocks' = Append(blocks, reorgs) /\ Tip \in Nat
  BY MineChain, TipType DEF IInv, TypeOK, WatcherTypeOK
<1>2. \A n \in Node : InFlight(n)' = InFlight(n)
  BY DEF InFlight
<1>3. TypeOK'
  BY <1>1 DEF IInv, TypeOK, WatcherTypeOK, ServiceTypeOK
<1>4. ScanIsInside' /\ ScanIsComplete' /\ NoHeightSkipped'
  BY <1>1 DEF IInv, TypeOK, WatcherTypeOK, ScanIsInside, ScanIsComplete, NoHeightSkipped, Watching
<1>5. RecordsAreMined'
  <2>1. \A p \in Payment : place'[p] # 0 =>
          place'[p] <= Tip' /\ [pay |-> p, height |-> place'[p]] \in mined'
    BY <1>1 DEF Mine, Canonical, Record, IInv, TypeOK, WatcherTypeOK, ChainTypeOK, RecordsAreMined
  <2> QED
    BY <1>1, <1>2, <2>1 DEF IInv, RecordsAreMined
<1>6. FirstVersion'
  <2>1. reorgs' = reorgs
    BY DEF Mine
  <2>2. \A i \in 1..Tip + 1 : blocks'[i] = IF i \in 1..Tip THEN blocks[i] ELSE reorgs
    BY <1>1 DEF IInv, TypeOK, WatcherTypeOK, ChainTypeOK, Tip
  <2> QED
    BY <1>1, <2>1, <2>2 DEF IInv, FirstVersion
<1>7. HashFollows' /\ AlarmHasCause'
  BY DEF Mine, IInv, HashFollows, AlarmHasCause
<1>8. TodoIsHere'
  BY <1>1 DEF Mine, IInv, TypeOK, WatcherTypeOK, ChainTypeOK, TodoIsHere, ScanIsInside
<1>9. SeenSoFar'
  BY <1>1 DEF Mine, IInv, TypeOK, WatcherTypeOK, ServiceTypeOK, ChainTypeOK, SeenSoFar, Concerns, Offered,
     Watching, ScanIsInside
<1>10. OfferedIsAccountedFor'
  <2>1. UNCHANGED <<offered, deposits, deadLetters, up, lost>>
    OBVIOUS
  <2> QED
    BY <1>2, <2>1, StillAccounted DEF IInv, TypeOK, WatcherTypeOK, ServiceTypeOK
<1> QED
  BY <1>3, <1>4, <1>5, <1>6, <1>7, <1>8, <1>9, <1>10 DEF IInv

LEMMA ReorgStep == ASSUME IInv, NEW h \in 1..Tip, ReorgChain(h), UNCHANGED ethVars
                   PROVE  IInv'
<1> USE DEF ReorgChain, serviceVars, addressVars, queueVars, tableVars, watcherVars, ethVars
<1>1. ChainTypeOK' /\ Tip' = Tip /\ mined \subseteq mined' /\ reorgs' # 0
  BY ReorgChainTypes DEF IInv, TypeOK, WatcherTypeOK
<1>2. \A n \in Node : InFlight(n)' = InFlight(n)
  BY DEF InFlight
<1>3. TypeOK'
  BY <1>1 DEF IInv, TypeOK, WatcherTypeOK, ServiceTypeOK
<1>4. ScanIsInside' /\ ScanIsComplete' /\ NoHeightSkipped'
  BY <1>1 DEF IInv, ScanIsInside, ScanIsComplete, NoHeightSkipped, Watching
<1>5. RecordsAreMined'
  <2>1. \A p \in Payment : place'[p] # 0 =>
          place'[p] <= Tip' /\ [pay |-> p, height |-> place'[p]] \in mined'
    <3>1. \A p \in Payment : place'[p] \in 0..MaxHeight
      BY <1>1 DEF ChainTypeOK
    <3>2. mined' = mined \cup {r \in Record : place'[r.pay] = r.height}
      BY DEF Reorg, Canonical
    <3>3. \A p \in Payment : place'[p] <= Tip
      BY TipType, ChainAssumption DEF Reorg, IInv, TypeOK, WatcherTypeOK, ChainTypeOK, RecordsAreMined
    <3> QED
      BY <1>1, <3>1, <3>2, <3>3, ChainAssumption DEF Record
  <2> QED
    BY <1>1, <1>2, <2>1 DEF IInv, RecordsAreMined
<1>6. FirstVersion' /\ HashFollows' /\ TodoIsHere' /\ SeenSoFar'
  BY <1>1 DEF FirstVersion, HashFollows, TodoIsHere, SeenSoFar
<1>7. AlarmHasCause'
  BY <1>1 DEF IInv, TypeOK, WatcherTypeOK, ChainTypeOK, AlarmHasCause
<1>8. OfferedIsAccountedFor'
  <2>1. UNCHANGED <<offered, deposits, deadLetters, up, lost>>
    OBVIOUS
  <2> QED
    BY <1>2, <2>1, StillAccounted DEF IInv, TypeOK, WatcherTypeOK, ServiceTypeOK
<1> QED
  BY <1>3, <1>4, <1>5, <1>6, <1>7, <1>8 DEF IInv

-----------------------------------------------------------------------------
(* Addresses, the channel and the consumer.                                *)

\* Steps that change neither chain nor watcher; what they deliver was in the chain.
LEMMA ServiceStep ==
    ASSUME IInv, ServiceTypeOK', UNCHANGED <<chainVars, watcherVars, ethVars>>,
           up' = up, offered' = offered, OfferedIsAccountedFor',
           \A n \in Node : known[n] \subseteq known'[n],
           \A n \in Node : InFlight(n)' \subseteq InFlight(n)
    PROVE  IInv'
<1> USE DEF chainVars, watcherVars, ethVars, IInv
<1>1. TypeOK'
  BY DEF TypeOK, WatcherTypeOK, ChainTypeOK
<1>2. Tip' = Tip
  BY DEF Tip
<1>3. ScanIsInside' /\ ScanIsComplete' /\ NoHeightSkipped'
  BY <1>2 DEF ScanIsInside, ScanIsComplete, NoHeightSkipped, Watching
<1>4. RecordsAreMined'
  BY <1>2 DEF RecordsAreMined
<1>5. FirstVersion' /\ HashFollows' /\ AlarmHasCause' /\ TodoIsHere'
  BY <1>2 DEF FirstVersion, HashFollows, AlarmHasCause, TodoIsHere
<1>6. SeenSoFar'
  BY DEF SeenSoFar, Concerns, Watching, Offered
<1> QED
  BY <1>1, <1>3, <1>4, <1>5, <1>6

LEMMA AddressStep ==
    ASSUME IInv, NEW n \in Node, NEW p \in Payment, NewAddress(n, p), UNCHANGED ethVars
    PROVE  IInv'
<1> USE DEF NewAddress, GenerateAddress, queueVars, tableVars
<1>1. ServiceTypeOK'
  BY DEF IInv, TypeOK, WatcherTypeOK, ServiceTypeOK
<1>2. \A m \in Node : known[m] \subseteq known'[m]
  BY DEF IInv, TypeOK, WatcherTypeOK, ServiceTypeOK
<1>3. \A m \in Node : InFlight(m)' = InFlight(m)
  BY DEF InFlight
<1>4. OfferedIsAccountedFor'
  <2>1. UNCHANGED <<offered, deposits, deadLetters, up, lost>>
    OBVIOUS
  <2> QED
    BY <1>3, <2>1, StillAccounted DEF IInv, TypeOK, WatcherTypeOK, ServiceTypeOK
<1> QED
  BY <1>1, <1>2, <1>3, <1>4, ServiceStep

\* Taking a record from the channel loses none of them.
LEMMA TakeKeeps == ASSUME IInv, NEW n \in Node, Take(n)
                   PROVE  /\ ServiceTypeOK'
                          /\ \A m \in Node : InFlight(m)' = InFlight(m)
<1> USE DEF IInv, TypeOK, WatcherTypeOK, ServiceTypeOK
<1> DEFINE q == queue[n]
<1>1. q \in Seq(Record) /\ q # <<>> /\ hand[n] = None /\ Len(q) <= Capacity
  BY DEF Take
<1>2. Head(q) \in Record /\ Tail(q) \in Seq(Record) /\ Len(Tail(q)) = Len(q) - 1 /\ Len(q) \in Nat
  BY <1>1
<1>3. \A i \in 1 .. Len(q) - 1 : Tail(q)[i] = q[i + 1]
  BY <1>1
<1>4. Head(q) = q[1] /\ Len(q) >= 1
  BY <1>1
<1>5. /\ queue' = [queue EXCEPT ![n] = Tail(q)] /\ hand' = [hand EXCEPT ![n] = Head(q)]
      /\ tries' = [tries EXCEPT ![n] = 0]
      /\ UNCHANGED <<addressVars, tableVars, up, offered, lost>>
  BY DEF Take
<1> HIDE DEF q
<1>6. ServiceTypeOK'
  <2>1. queue' \in [Node -> Seq(Record)] /\ hand' \in [Node -> Record \cup {None}]
    BY <1>2, <1>5
  <2>2. \A m \in Node : Len(queue'[m]) <= Capacity
    BY <1>1, <1>2, <1>5, QueueAssumption
  <2>3. tries' \in [Node -> 0..MaxRetries]
    BY <1>5, QueueAssumption
  <2> QED
    BY <1>5, <2>1, <2>2, <2>3 DEF addressVars, tableVars
<1>7. {q[i] : i \in DOMAIN q} = {Tail(q)[i] : i \in DOMAIN Tail(q)} \cup {Head(q)}
  <2>1. DOMAIN q = 1 .. Len(q) /\ DOMAIN Tail(q) = 1 .. Len(q) - 1
    BY <1>1, <1>2
  <2>2. \A i \in 1 .. Len(q) : i = 1 \/ (i - 1 \in 1 .. Len(q) - 1 /\ q[i] = Tail(q)[i - 1])
    BY <1>2, <1>3
  <2>3. ASSUME NEW i \in 1 .. Len(q)
        PROVE  q[i] \in {Tail(q)[k] : k \in 1 .. Len(q) - 1} \cup {Head(q)}
    <3>1. CASE i = 1
      BY <1>4, <3>1
    <3>2. CASE i # 1
      <4>1. i - 1 \in 1 .. Len(q) - 1 /\ q[i] = Tail(q)[i - 1]
        BY <2>2, <3>2
      <4> QED
        BY <4>1
    <3> QED
      BY <3>1, <3>2
  <2>4. \A i \in 1 .. Len(q) - 1 : Tail(q)[i] = q[i + 1] /\ i + 1 \in 1 .. Len(q)
    BY <1>2, <1>3
  <2>5. Head(q) \in {q[i] : i \in 1 .. Len(q)}
    BY <1>2, <1>4
  <2>6. ASSUME NEW k \in 1 .. Len(q) - 1 PROVE Tail(q)[k] \in {q[i] : i \in 1 .. Len(q)}
    BY <2>4
  <2> QED
    BY <2>1, <2>3, <2>5, <2>6
<1>8. InFlight(n)' = InFlight(n)
  <2>1. queue'[n] = Tail(q) /\ hand'[n] = Head(q) /\ Head(q) # None
    BY <1>2, <1>5, NoneAssumption
  <2> QED
    BY <1>1, <1>7, <2>1 DEF InFlight, q
<1>9. \A m \in Node \ {n} : InFlight(m)' = InFlight(m)
  BY <1>5 DEF InFlight
<1> QED
  BY <1>6, <1>8, <1>9

LEMMA ConsumeStep ==
    ASSUME IInv, NEW n \in Node, ConsumeOne(n), UNCHANGED ethVars
    PROVE  IInv'
<1> USE DEF ConsumeOne, addressVars
<1>1. CASE Take(n)
  <2>1. OfferedIsAccountedFor'
    <3>1. UNCHANGED <<offered, deposits, deadLetters, up, lost>>
      BY <1>1 DEF Take, tableVars
    <3> QED
      BY <1>1, <3>1, TakeKeeps, StillAccounted DEF IInv, TypeOK, WatcherTypeOK, ServiceTypeOK
  <2> QED
    BY <1>1, <2>1, TakeKeeps, ServiceStep DEF Take
<1>2. CASE StoreFails(n)
  <2>1. ServiceTypeOK'
    BY <1>2, QueueAssumption
       DEF StoreFails, Trying, IInv, TypeOK, WatcherTypeOK, ServiceTypeOK
  <2>2. \A m \in Node : InFlight(m)' = InFlight(m)
    BY <1>2 DEF StoreFails, InFlight
  <2>3. OfferedIsAccountedFor'
    <3>1. UNCHANGED <<offered, deadLetters, up, lost>> /\ deposits \subseteq deposits'
      BY <1>2 DEF StoreFails
    <3> QED
      BY <2>2, <3>1, StillAccounted DEF IInv, TypeOK, WatcherTypeOK, ServiceTypeOK
  <2> QED
    BY <1>2, <2>1, <2>2, <2>3, ServiceStep DEF StoreFails
\* The record leaves the hand of the consumer for a row, a dead letter or a loss.
<1>3. CASE Stored(n) \/ GiveUp(n)
  <2>1. hand[n] # None /\ hand' = [hand EXCEPT ![n] = None] /\ UNCHANGED <<queue, tries, up, offered, known, issued, saved>>
    BY <1>3 DEF Stored, GiveUp, Trying
  <2>2. ServiceTypeOK'
    BY <1>3, <2>1 DEF Stored, GiveUp, IInv, TypeOK, WatcherTypeOK, ServiceTypeOK
  <2>3. \A m \in Node :
          InFlight(m)' = IF m = n THEN {queue[n][i] : i \in DOMAIN queue[n]} ELSE InFlight(m)
    BY <2>1 DEF InFlight, IInv, TypeOK, WatcherTypeOK, ServiceTypeOK
  <2>4. \A m \in Node : InFlight(m)' \subseteq InFlight(m)
    BY <2>3 DEF InFlight
  <2>5. \A m \in Node : \A r \in InFlight(m) : r \in InFlight(m)' \/ r = hand[n]
    BY <2>3 DEF InFlight
  <2>6. /\ deposits \subseteq deposits' /\ deadLetters \subseteq deadLetters' /\ lost \subseteq lost'
        /\ hand[n] \in deposits' \cup deadLetters' \cup lost'
    BY <1>3 DEF Stored, GiveUp
  <2>7. OfferedIsAccountedFor'
    BY <2>1, <2>5, <2>6 DEF IInv, TypeOK, WatcherTypeOK, ServiceTypeOK, OfferedIsAccountedFor
  <2> QED
    BY <2>1, <2>2, <2>4, <2>7, ServiceStep
<1> QED
  BY <1>1, <1>2, <1>3 DEF Consume

-----------------------------------------------------------------------------
(* The watcher of one replica.                                             *)

\* What the invariant says of the watcher of n.
WellAt(n) ==
    /\ n \in up <=> watch[n] # "off"
    /\ lastHeight[n] <= Tip /\ goal[n] <= Tip
    /\ watch[n] \in {"fetch", "block", "alarm"} =>
         /\ lastHeight[n] < height[n] /\ height[n] <= goal[n] + 1
         /\ since[n] + 1 .. height[n] - 1 \subseteq scanned[n]
    /\ watch[n] \in {"block", "alarm"} => height[n] <= goal[n]
    /\ Watching(n) => since[n] + 1 .. lastHeight[n] \subseteq scanned[n]
    /\ watch[n] = "block" => \A p \in todo[n] : [pay |-> p, height |-> height[n]] \in mined
    /\ reorgs = 0 /\ n \notin broken =>
         /\ watch[n] \in {"wait", "poll"} => lastHash[n] = <<lastHeight[n], 0>>
         /\ watch[n] = "fetch" => lastHash[n] = <<height[n] - 1, 0>>
         /\ watch[n] = "block" => block[n] = <<height[n], 0>>
    /\ watch[n] = "alarm" => reorgs > 0 \/ n \in broken
    /\ reorgs = 0 /\ watch[n] = "block" => \A p \in todo[n] : place[p] = height[n]
    /\ reorgs = 0 => \A p \in Payment : Concerns(n, p) =>
         /\ p \in known[n]
         /\ place[p] <= lastHeight[n] => Offered(p)
         /\ watch[n] \in {"fetch", "block", "alarm"} /\ place[p] < height[n] => Offered(p)
         /\ watch[n] = "block" /\ place[p] = height[n] => p \in todo[n] \/ Offered(p)

LEMMA IInvAt == ASSUME IInv, NEW n \in Node PROVE WellAt(n)
  BY DEF IInv, WellAt, ScanIsInside, ScanIsComplete, NoHeightSkipped, RecordsAreMined,
     HashFollows, AlarmHasCause, TodoIsHere, SeenSoFar

\* A step of n leaves the other watchers as they are.
LEMMA WatchStep ==
    ASSUME IInv, NEW n \in Node, TypeOK', WellAt(n)', OfferedIsAccountedFor',
           UNCHANGED <<chainVars, knew>>, offered \subseteq offered',
           \A m \in Node : InFlight(m)' \subseteq mined,
           \A m \in Node \ {n} :
             /\ watch'[m] = watch[m] /\ lastHeight'[m] = lastHeight[m] /\ goal'[m] = goal[m]
             /\ height'[m] = height[m] /\ todo'[m] = todo[m] /\ since'[m] = since[m]
             /\ lastHash'[m] = lastHash[m] /\ block'[m] = block[m] /\ scanned'[m] = scanned[m]
             /\ known'[m] = known[m]
             /\ (m \in broken' <=> m \in broken) /\ (m \in alarmed' <=> m \in alarmed)
             /\ (m \in up' <=> m \in up)
    PROVE  IInv'
<1>1. \A m \in Node : WellAt(m)'
  <2>1. \A m \in Node \ {n} : WellAt(m)
    BY IInvAt
  <2>2. Tip' = Tip
    BY DEF chainVars, Tip
  <2>3. \A m \in Node \ {n} : WellAt(m)'
    BY <2>1, <2>2 DEF WellAt, chainVars, Watching, Concerns, Offered
  <2> QED
    BY <2>3
<1>2. RecordsAreMined'
  BY <1>1 DEF WellAt, RecordsAreMined, IInv, chainVars, Tip
<1>3. FirstVersion'
  BY DEF IInv, FirstVersion, chainVars, Tip
<1>4. /\ ScanIsInside' /\ ScanIsComplete' /\ NoHeightSkipped' /\ HashFollows'
      /\ AlarmHasCause' /\ TodoIsHere' /\ SeenSoFar'
  BY <1>1 DEF WellAt, ScanIsInside, ScanIsComplete, NoHeightSkipped, HashFollows,
     AlarmHasCause, TodoIsHere, SeenSoFar
<1> QED
  BY <1>2, <1>3, <1>4 DEF IInv

\* Steps that leave the service alone too.
LEMMA QuietStep ==
    ASSUME IInv, NEW n \in Node, TypeOK', WellAt(n)',
           UNCHANGED <<chainVars, serviceVars, knew>>,
           \A m \in Node \ {n} :
             /\ watch'[m] = watch[m] /\ lastHeight'[m] = lastHeight[m] /\ goal'[m] = goal[m]
             /\ height'[m] = height[m] /\ todo'[m] = todo[m] /\ since'[m] = since[m]
             /\ lastHash'[m] = lastHash[m] /\ block'[m] = block[m] /\ scanned'[m] = scanned[m]
             /\ (m \in broken' <=> m \in broken) /\ (m \in alarmed' <=> m \in alarmed)
    PROVE  IInv'
<1> USE DEF serviceVars, addressVars, queueVars, tableVars
<1>1. \A m \in Node : InFlight(m)' = InFlight(m)
  BY DEF InFlight
<1>2. OfferedIsAccountedFor'
  <2>1. UNCHANGED <<offered, deposits, deadLetters, up, lost>>
    OBVIOUS
  <2> QED
    BY <1>1, <2>1, StillAccounted DEF IInv, TypeOK, WatcherTypeOK, ServiceTypeOK
<1>3. \A m \in Node : InFlight(m)' \subseteq mined
  BY <1>1 DEF IInv, RecordsAreMined
<1> QED
  BY <1>2, <1>3, WatchStep

LEMMA QuietTypes == ASSUME TypeOK, UNCHANGED <<chainVars, serviceVars, knew>>
                    PROVE  ChainTypeOK' /\ ServiceTypeOK' /\ knew' \in [Payment -> SUBSET Node]
<1>1. ChainTypeOK'
  BY DEF TypeOK, WatcherTypeOK, ChainTypeOK, chainVars
<1> QED
  BY <1>1 DEF TypeOK, WatcherTypeOK, ServiceTypeOK, serviceVars, addressVars, queueVars, tableVars

\* Before the first reorganisation the hash of a block is its height with a 0.
LEMMA FirstHash == ASSUME IInv, reorgs = 0, NEW h \in 0..Tip PROVE Hash(h) = <<h, 0>>
  BY DEF IInv, FirstVersion, Hash, Tip

LEMMA WaitStep ==
    ASSUME IInv, NEW n \in Node, UNCHANGED ethVars,
           StartFails(n) \/ Tick(n) \/ PollInVain(n) \/ Poll(n) \/ EndScan(n)
    PROVE  IInv'
<1> USE DEF ethVars, Go, Watch
<1>1. WellAt(n) /\ TypeOK /\ Tip \in 0..MaxHeight
  BY IInvAt, TipType DEF IInv, TypeOK, WatcherTypeOK
<1>2. CASE StartFails(n)
  <2>1. TypeOK'
    BY <1>1, <1>2 DEF StartFails, TypeOK, WatcherTypeOK, ServiceTypeOK, serviceVars, addressVars,
       queueVars, tableVars, chainVars, ChainTypeOK
  <2>2. WellAt(n)'
    BY <1>1, <1>2 DEF StartFails, TypeOK, WatcherTypeOK, WellAt, serviceVars, addressVars,
       chainVars, Watching, Concerns, Tip
  <2> QED
    BY <1>2, <2>1, <2>2, QuietStep DEF StartFails
<1>3. CASE Poll(n)
  <2>1. TypeOK'
    <3>1. lastHeight[n] + 1 \in 0..MaxHeight + 1
      BY <1>1, ChainAssumption DEF TypeOK, WatcherTypeOK
    <3>2. goal' \in [Node -> 0..MaxHeight] /\ height' \in [Node -> 0..MaxHeight + 1]
      BY <1>1, <1>3, <3>1, ChainAssumption DEF Poll, TypeOK, WatcherTypeOK
    <3> QED
      BY <1>1, <1>3, <3>2, QuietTypes DEF Poll, TypeOK, WatcherTypeOK
  <2>2. WellAt(n)'
    BY <1>1, <1>3, ChainAssumption DEF Poll, TypeOK, WatcherTypeOK, ChainTypeOK, WellAt, serviceVars,
       addressVars, chainVars, Watching, Concerns, Offered, Tip
  <2> QED
    BY <1>3, <2>1, <2>2, QuietStep DEF Poll
<1>4. CASE EndScan(n)
  <2>1. TypeOK'
    BY <1>1, <1>4 DEF EndScan, TypeOK, WatcherTypeOK, ServiceTypeOK, serviceVars, addressVars,
       queueVars, tableVars, chainVars, ChainTypeOK
  <2>2. WellAt(n)'
    BY <1>1, <1>4, ChainAssumption DEF EndScan, TypeOK, WatcherTypeOK, ChainTypeOK, WellAt, serviceVars,
       addressVars, chainVars, Watching, Concerns, Offered, Tip
  <2> QED
    BY <1>4, <2>1, <2>2, QuietStep DEF EndScan
<1>5. CASE Tick(n) \/ PollInVain(n)
  <2>1. TypeOK'
    BY <1>1, <1>5 DEF Tick, PollInVain, TypeOK, WatcherTypeOK, ServiceTypeOK, serviceVars,
       addressVars, queueVars, tableVars, chainVars, ChainTypeOK
  <2>2. /\ watch[n] \in {"wait", "poll"} /\ watch'[n] \in {"wait", "poll"}
        /\ UNCHANGED <<lastHeight, goal, height, todo, since, knew, known, up, offered,
                       lastHash, block, scanned, broken, place, mined, reorgs, Tip>>
    BY <1>1, <1>5 DEF Tick, PollInVain, TypeOK, WatcherTypeOK, serviceVars, addressVars,
       chainVars, Tip
  <2>3. WellAt(n)'
    BY <1>1, <2>2 DEF WellAt, Watching, Concerns, Offered
  <2>4. UNCHANGED <<chainVars, serviceVars, lastHeight, goal, height, todo, since, knew>>
        /\ \A m \in Node \ {n} : watch'[m] = watch[m]
    BY <1>1, <1>5 DEF Tick, PollInVain, TypeOK, WatcherTypeOK
  <2> QED
    BY <2>1, <2>3, <2>4, QuietStep
<1> QED
  BY <1>2, <1>3, <1>4, <1>5

LEMMA BeginStep == ASSUME IInv, NEW n \in Node, Begin(n) PROVE IInv'
<1> USE DEF Begin, StartWatching, Go, Watch
<1>1. WellAt(n) /\ TypeOK /\ Tip \in 0..MaxHeight /\ Hash(Tip) \in Hashes
  BY IInvAt, TipType DEF IInv, TypeOK, WatcherTypeOK
<1>2. TypeOK'
  BY <1>1, ChainAssumption DEF TypeOK, WatcherTypeOK, ServiceTypeOK, serviceVars, addressVars,
     queueVars, tableVars, chainVars, ChainTypeOK
<1>3. watch'[n] = "wait" /\ lastHeight'[n] = Tip /\ since'[n] = Tip /\ lastHash'[n] = Hash(Tip)
  BY <1>1 DEF TypeOK, WatcherTypeOK
<1>4. Tip' = Tip /\ reorgs' = reorgs /\ place' = place
  BY DEF chainVars, Tip
<1>5. \A p \in Payment : ~Concerns(n, p)'
  <2>1. \A p \in Payment : place[p] # 0 => place[p] <= Tip
    BY DEF IInv, RecordsAreMined
  <2>2. \A p \in Payment : place[p] \in Nat
    BY <1>1, ChainAssumption DEF TypeOK, WatcherTypeOK, ChainTypeOK
  <2>3. \A p \in Payment : ~(Tip < place[p])
    BY <1>1, <2>1, <2>2, ChainAssumption
  <2> QED
    BY <1>3, <1>4, <2>3 DEF Concerns
<1>6. reorgs = 0 => Hash(Tip) = <<Tip, 0>>
  BY <1>1, FirstHash
<1>7. WellAt(n)'
  BY <1>1, <1>3, <1>4, <1>5, <1>6, ChainAssumption
     DEF TypeOK, WatcherTypeOK, WellAt, serviceVars, addressVars, Watching
<1> QED
  BY <1>2, <1>7, QuietStep

LEMMA FetchStep == ASSUME IInv, NEW n \in Node, Fetch(n) PROVE IInv'
<1> USE DEF Fetch, TakeBlock, Go, Watch
<1>1. /\ WellAt(n) /\ TypeOK /\ Tip \in 0..MaxHeight
      /\ height[n] \in 1..Tip /\ Hash(height[n]) \in Hashes
  <2>1. WellAt(n) /\ TypeOK /\ Tip \in 0..MaxHeight
    BY IInvAt, TipType DEF IInv, TypeOK, WatcherTypeOK
  <2>2. height[n] \in 1..Tip
    BY <2>1, ChainAssumption DEF WellAt, TypeOK, WatcherTypeOK
  <2> QED
    BY <2>1, <2>2, TipType DEF TypeOK, WatcherTypeOK
<1>2. TypeOK'
  BY <1>1 DEF TypeOK, WatcherTypeOK, ServiceTypeOK, serviceVars, addressVars,
     queueVars, tableVars, chainVars, ChainTypeOK
<1>3. /\ watch[n] = "fetch" /\ watch'[n] = "block" /\ block'[n] = Hash(height[n])
      /\ todo'[n] = {p \in Payment : place[p] = height[n]}
  BY <1>1 DEF TypeOK, WatcherTypeOK
<1>4. reorgs = 0 => Hash(height[n]) = <<height[n], 0>>
  BY <1>1, FirstHash
<1>5. \A p \in todo'[n] : [pay |-> p, height |-> height[n]] \in mined
  BY <1>1, <1>3 DEF IInv, RecordsAreMined
<1>6. WellAt(n)'
  BY <1>1, <1>3, <1>4, <1>5, ChainAssumption
     DEF TypeOK, WatcherTypeOK, ChainTypeOK, WellAt, chainVars, serviceVars, addressVars, Watching, Concerns,
     Offered, Tip
<1> QED
  BY <1>2, <1>6, QuietStep

\* A scan that is cut short leaves the last height where it was, and lastHash ahead of
\* it if a block was worked through; before the first reorganisation an alarm needs that.
LEMMA CutShort == ASSUME IInv, NEW n \in Node, FetchFails(n) \/ Alarm(n) \/ StepBackFails(n)
                  PROVE  IInv'
<1> USE DEF Go, Watch
<1>1. WellAt(n) /\ TypeOK /\ Tip \in 0..MaxHeight
  BY IInvAt, TipType DEF IInv, TypeOK, WatcherTypeOK
<1>2. CASE FetchFails(n)
  <2>1. TypeOK'
    BY <1>1, <1>2 DEF FetchFails, BrokenBy, TypeOK, WatcherTypeOK, ServiceTypeOK, serviceVars, addressVars,
       queueVars, tableVars, chainVars, ChainTypeOK
  <2>2. WellAt(n)'
    BY <1>1, <1>2, ChainAssumption DEF FetchFails, BrokenBy, TypeOK, WatcherTypeOK, ChainTypeOK, WellAt, serviceVars, addressVars,
       chainVars, Watching, Concerns, Offered, Tip
  <2> QED
    BY <1>2, <2>1, <2>2, QuietStep DEF FetchFails, BrokenBy
<1>3. CASE Alarm(n)
  <2>1. TypeOK'
    BY <1>1, <1>3 DEF Alarm, TypeOK, WatcherTypeOK, ServiceTypeOK, serviceVars, addressVars,
       queueVars, tableVars, chainVars, ChainTypeOK
  <2>2. reorgs > 0 \/ n \in broken
    <3>1. height[n] - 1 \in 0..Tip
      BY <1>1, <1>3, ChainAssumption DEF Alarm, WellAt, TypeOK, WatcherTypeOK
    <3>2. reorgs = 0 => Hash(height[n] - 1) = <<height[n] - 1, 0>>
      BY <3>1, FirstHash
    <3>3. reorgs \in Nat
      BY <1>1, ChainAssumption DEF TypeOK, WatcherTypeOK, ChainTypeOK
    <3>4. watch[n] = "fetch" /\ Hash(height[n] - 1) # lastHash[n]
      BY <1>3 DEF Alarm, Fits
    <3>5. reorgs = 0 /\ n \notin broken => lastHash[n] = <<height[n] - 1, 0>>
      BY <1>1, <3>4 DEF WellAt
    <3> QED
      BY <3>2, <3>3, <3>4, <3>5
  <2>3. WellAt(n)'
    BY <1>1, <1>3, <2>2 DEF Alarm, TypeOK, WatcherTypeOK, WellAt, serviceVars, addressVars,
       chainVars, Watching, Concerns, Offered, Tip
  <2> QED
    BY <1>3, <2>1, <2>3, QuietStep DEF Alarm
<1>4. CASE StepBackFails(n)
  <2>1. TypeOK'
    BY <1>1, <1>4 DEF StepBackFails, TypeOK, WatcherTypeOK, ServiceTypeOK, serviceVars, addressVars,
       queueVars, tableVars, chainVars, ChainTypeOK, ethVars
  <2>2. WellAt(n)'
    BY <1>1, <1>4, ChainAssumption DEF StepBackFails, TypeOK, WatcherTypeOK, ChainTypeOK, WellAt, serviceVars,
       addressVars, chainVars, Watching, Concerns, Offered, Tip, ethVars
  <2> QED
    BY <1>4, <2>1, <2>2, QuietStep DEF StepBackFails, ethVars
<1> QED
  BY <1>2, <1>3, <1>4

LEMMA StepBackStep == ASSUME IInv, NEW n \in Node, StepBack(n) PROVE IInv'
<1> USE DEF StepBack, Go, Watch
<1>1. WellAt(n) /\ TypeOK /\ Tip \in 0..MaxHeight
  BY IInvAt, TipType DEF IInv, TypeOK, WatcherTypeOK
<1>2. height[n] - 1 \in 0..Tip
  BY <1>1, ChainAssumption DEF WellAt, TypeOK, WatcherTypeOK
<1>3. Hash(height[n] - 1) \in Hashes /\ (reorgs = 0 => Hash(height[n] - 1) = <<height[n] - 1, 0>>)
  BY <1>1, <1>2, TipType, FirstHash DEF TypeOK, WatcherTypeOK
<1>4. TypeOK'
  <2>1. lastHeight' \in [Node -> 0..MaxHeight] /\ lastHash' \in [Node -> Hashes]
    BY <1>1, <1>2, <1>3, ChainAssumption DEF TypeOK, WatcherTypeOK
  <2> QED
    BY <1>1, <2>1, QuietTypes DEF TypeOK, WatcherTypeOK
<1>5. /\ watch[n] = "alarm" /\ watch'[n] = "wait" /\ lastHeight'[n] = height[n] - 1
      /\ lastHash'[n] = Hash(height[n] - 1)
  BY <1>1 DEF TypeOK, WatcherTypeOK
<1>6. WellAt(n)'
  BY <1>1, <1>2, <1>3, <1>5, ChainAssumption
     DEF TypeOK, WatcherTypeOK, ChainTypeOK, WellAt, chainVars, serviceVars, addressVars, Watching, Concerns,
     Offered, Tip
<1> QED
  BY <1>4, <1>6, QuietStep

LEMMA EndBlockStep == ASSUME IInv, NEW n \in Node, EndBlock(n) PROVE IInv'
<1> USE DEF EndBlock, NextBlock, Go, Watch
<1>1. WellAt(n) /\ TypeOK /\ Tip \in 0..MaxHeight
  BY IInvAt, TipType DEF IInv, TypeOK, WatcherTypeOK
<1>2. height[n] \in 1..Tip
  BY <1>1, ChainAssumption DEF WellAt, TypeOK, WatcherTypeOK
<1>3. TypeOK'
  <2>1. /\ watch' \in [Node -> Watch] /\ height' \in [Node -> 0..MaxHeight + 1]
        /\ lastHash' \in [Node -> Hashes] /\ scanned' \in [Node -> SUBSET (1..MaxHeight)]
    BY <1>1, <1>2, ChainAssumption DEF TypeOK, WatcherTypeOK
  <2> QED
    BY <1>1, <2>1, QuietTypes DEF TypeOK, WatcherTypeOK
<1>4. /\ watch[n] = "block" /\ watch'[n] = "fetch" /\ height'[n] = height[n] + 1
      /\ lastHash'[n] = block[n] /\ scanned'[n] = scanned[n] \cup {height[n]}
  BY <1>1 DEF TypeOK, WatcherTypeOK
<1>5. WellAt(n)'
  BY <1>1, <1>2, <1>4, ChainAssumption
     DEF TypeOK, WatcherTypeOK, ChainTypeOK, WellAt, chainVars, serviceVars, addressVars, Watching, Concerns,
     Offered, Tip
<1> QED
  BY <1>3, <1>5, QuietStep

\* One round over the payments of a block.
LEMMA LookStep ==
    ASSUME IInv, NEW n \in Node, NEW p \in Payment, Look(n, p), UNCHANGED ethVars
    PROVE  IInv'
<1> DEFINE r == [pay |-> p, height |-> height[n]]
<1>1. /\ WellAt(n) /\ TypeOK /\ Tip \in 0..MaxHeight
      /\ watch[n] = "block" /\ p \in todo[n] /\ r \in mined /\ r \in Record
  <2>1. WellAt(n) /\ TypeOK /\ Tip \in 0..MaxHeight
    BY IInvAt, TipType DEF IInv, TypeOK, WatcherTypeOK
  <2>2. watch[n] = "block" /\ p \in todo[n]
    BY DEF Look
  <2>3. r \in mined
    BY <2>1, <2>2 DEF WellAt
  <2> QED
    BY <2>1, <2>2, <2>3 DEF TypeOK, WatcherTypeOK, ChainTypeOK
<1>2. /\ todo' = [todo EXCEPT ![n] = @ \ {p}]
      /\ UNCHANGED <<chainVars, watch, lastHeight, goal, height, since, knew, ethVars,
                     addressVars, hand, tries, tableVars, up>>
  BY DEF Look, Offer
\* The record is in the channel or lost, unless the address is not known.
<1>3. \/ p \notin known[n] /\ UNCHANGED <<queue, offered, lost>>
      \/ /\ offered' = offered \cup {r} /\ lost' = lost
         /\ Len(queue[n]) < Capacity /\ queue' = [queue EXCEPT ![n] = Append(@, r)]
      \/ offered' = offered \cup {r} /\ lost' = lost \cup {r} /\ queue' = queue
  BY DEF Look, Offer
<1>4. \A m \in Node : InFlight(m) \subseteq InFlight(m)' /\ InFlight(m)' \subseteq InFlight(m) \cup {r}
  <2>1. CASE queue' = queue
    BY <1>2, <2>1 DEF InFlight
  <2>2. CASE queue' = [queue EXCEPT ![n] = Append(@, r)]
    <3>1. queue[n] \in Seq(Record)
      BY <1>1 DEF TypeOK, WatcherTypeOK, ServiceTypeOK
    <3>2. queue'[n] = Append(queue[n], r) /\ \A m \in Node \ {n} : queue'[m] = queue[m]
      BY <1>1, <2>2 DEF TypeOK, WatcherTypeOK, ServiceTypeOK
    <3>3. /\ DOMAIN queue[n] = 1 .. Len(queue[n]) /\ DOMAIN queue'[n] = 1 .. Len(queue[n]) + 1
          /\ \A i \in 1 .. Len(queue[n]) : queue'[n][i] = queue[n][i]
          /\ queue'[n][Len(queue[n]) + 1] = r
          /\ Len(queue[n]) \in Nat
      BY <1>1, <3>1, <3>2
    <3>4. \A i \in 1 .. Len(queue[n]) + 1 : i \in 1 .. Len(queue[n]) \/ i = Len(queue[n]) + 1
      BY <3>3
    <3>5. \A i \in 1 .. Len(queue[n]) : i \in 1 .. Len(queue[n]) + 1
      BY <3>3
    <3>6. {queue'[n][i] : i \in DOMAIN queue'[n]} \subseteq {queue[n][i] : i \in DOMAIN queue[n]} \cup {r}
      BY <3>3, <3>4
    <3>7. {queue[n][i] : i \in DOMAIN queue[n]} \subseteq {queue'[n][i] : i \in DOMAIN queue'[n]}
      BY <3>3, <3>5
    <3>8. InFlight(n) \subseteq InFlight(n)' /\ InFlight(n)' \subseteq InFlight(n) \cup {r}
      BY <1>2, <3>6, <3>7 DEF InFlight
    <3>9. \A m \in Node \ {n} : InFlight(m)' = InFlight(m)
      BY <1>2, <3>2 DEF InFlight
    <3> QED
      BY <3>8, <3>9
  <2> QED
    BY <1>3, <2>1, <2>2
<1>5. offered' = offered \/ (offered' = offered \cup {r} /\ \E m \in up : r \in InFlight(m)')
      \/ (offered' = offered \cup {r} /\ r \in lost')
  <2>1. CASE queue' = [queue EXCEPT ![n] = Append(@, r)]
    <3>1. n \in up
      BY <1>1 DEF WellAt
    <3>2. queue'[n] = Append(queue[n], r) /\ queue[n] \in Seq(Record)
      BY <1>1, <2>1 DEF TypeOK, WatcherTypeOK, ServiceTypeOK
    <3>3. /\ Len(queue[n]) + 1 \in DOMAIN queue'[n]
          /\ queue'[n][Len(queue[n]) + 1] = r
      BY <1>1, <3>2
    <3>4. r \in InFlight(n)'
      BY <3>3 DEF InFlight
    <3> QED
      BY <1>3, <3>1, <3>4
  <2> QED
    BY <1>3, <2>1
<1>6. ServiceTypeOK'
  <2>1. queue' \in [Node -> Seq(Record)] /\ \A m \in Node : Len(queue'[m]) <= Capacity
    <3>1. CASE queue' = queue
      BY <1>1, <3>1 DEF TypeOK, WatcherTypeOK, ServiceTypeOK
    <3>2. CASE Len(queue[n]) < Capacity /\ queue' = [queue EXCEPT ![n] = Append(@, r)]
      <4>1. queue \in [Node -> Seq(Record)] /\ \A m \in Node : Len(queue[m]) <= Capacity
        BY <1>1 DEF TypeOK, WatcherTypeOK, ServiceTypeOK
      <4>2. Append(queue[n], r) \in Seq(Record) /\ Len(Append(queue[n], r)) = Len(queue[n]) + 1
        BY <1>1, <4>1
      <4>3. queue' = [queue EXCEPT ![n] = Append(queue[n], r)]
        BY <3>2
      <4>4. Len(queue[n]) + 1 <= Capacity
        BY <3>2, <4>1, QueueAssumption
      <4> HIDE DEF r
      <4> QED
        BY <4>1, <4>2, <4>3, <4>4
    <3> QED
      BY <1>3, <3>1, <3>2
  <2>2. offered' \subseteq Record /\ lost' \subseteq Record
    BY <1>1, <1>3 DEF TypeOK, WatcherTypeOK, ServiceTypeOK
  <2> QED
    BY <1>1, <1>2, <2>1, <2>2 DEF TypeOK, WatcherTypeOK, ServiceTypeOK, addressVars, tableVars
<1> HIDE DEF r
<1>7. TypeOK'
  <2>1. ChainTypeOK'
    BY <1>1, <1>2 DEF TypeOK, WatcherTypeOK, ChainTypeOK, chainVars
  <2>2. todo' \in [Node -> SUBSET Payment]
    BY <1>1, <1>2 DEF TypeOK, WatcherTypeOK
  <2> QED
    BY <1>1, <1>2, <1>6, <2>1, <2>2 DEF TypeOK, WatcherTypeOK, ethVars
<1>8. offered \subseteq offered' /\ (p \in known[n] => r \in offered')
  BY <1>3
<1>9. WellAt(n)'
  <2>1. todo'[n] = todo[n] \ {p}
    BY <1>1, <1>2 DEF TypeOK, WatcherTypeOK
  <2>2. reorgs = 0 => (p \in known[n] => Offered(p)')
    BY <1>1, <1>2, <1>8 DEF WellAt, Offered, r, chainVars
  <2>3. \A q \in Payment : (Concerns(n, q)' <=> Concerns(n, q)) /\ (Offered(q) => Offered(q)')
    BY <1>2, <1>8 DEF Concerns, Offered, Watching, chainVars
  <2>4. reorgs = 0 => \A q \in Payment : Concerns(n, q) =>
          /\ q \in known[n]
          /\ place[q] <= lastHeight[n] => Offered(q)'
          /\ place[q] < height[n] => Offered(q)'
          /\ place[q] = height[n] => q \in todo'[n] \/ Offered(q)'
    BY <1>1, <2>1, <2>2, <2>3 DEF WellAt
  <2>5. UNCHANGED <<known, up, Tip, place, mined, reorgs, watch, lastHeight, goal, height, since,
                    lastHash, block, scanned, broken, alarmed>>
    BY <1>2 DEF chainVars, addressVars, ethVars, Tip
  <2>6. \A q \in Payment : Concerns(n, q)' =>
          (reorgs = 0 => /\ q \in known[n]
                         /\ place[q] <= lastHeight[n] => Offered(q)'
                         /\ place[q] < height[n] => Offered(q)'
                         /\ place[q] = height[n] => q \in todo'[n] \/ Offered(q)')
    BY <2>3, <2>4
  <2> QED
    BY <1>1, <2>1, <2>5, <2>6 DEF WellAt, Watching
<1>10. OfferedIsAccountedFor'
  <2>1. deposits' = deposits /\ deadLetters' = deadLetters /\ lost \subseteq lost' /\ up' = up
    BY <1>2, <1>3 DEF tableVars
  <2>2. \A x \in offered : \/ \E d \in deposits' : d.pay = x.pay
                           \/ x \in deadLetters'
                           \/ \E m \in up' : x \in InFlight(m)'
                           \/ x \in lost'
    BY <1>1, <1>4, <2>1 DEF IInv, OfferedIsAccountedFor, TypeOK, WatcherTypeOK, ServiceTypeOK
  <2> QED
    BY <1>5, <2>1, <2>2 DEF OfferedIsAccountedFor
<1>11. \A m \in Node : InFlight(m)' \subseteq mined
  BY <1>1, <1>4 DEF IInv, RecordsAreMined
<1> QED
  BY <1>1, <1>2, <1>7, <1>8, <1>9, <1>10, <1>11, WatchStep
     DEF chainVars, addressVars, ethVars, TypeOK, WatcherTypeOK

-----------------------------------------------------------------------------
(* The life of a replica.                                                  *)

LEMMA BootStep == ASSUME IInv, NEW n \in Node, BootNode(n), UNCHANGED ethVars PROVE IInv'
<1>1. WellAt(n) /\ TypeOK
  BY IInvAt DEF IInv
<1>2. /\ n \notin up /\ up' = up \cup {n} /\ watch' = [watch EXCEPT ![n] = "start"]
      /\ \E found \in {saved, {}} : known' = [known EXCEPT ![n] = found]
      /\ UNCHANGED <<issued, saved, queueVars, tableVars, offered, lost, ethVars,
                     chainVars, lastHeight, goal, height, todo, since, knew>>
  BY DEF BootNode, Boot
<1> USE DEF queueVars, tableVars, ethVars
<1>3. TypeOK'
  <2>1. ChainTypeOK'
    BY <1>1, <1>2 DEF TypeOK, WatcherTypeOK, ChainTypeOK, chainVars
  <2>2. ServiceTypeOK'
    BY <1>1, <1>2 DEF TypeOK, WatcherTypeOK, ServiceTypeOK
  <2> QED
    BY <1>1, <1>2, <2>1, <2>2 DEF TypeOK, WatcherTypeOK, Watch
<1>4. \A m \in Node : InFlight(m)' = InFlight(m)
  BY <1>2 DEF InFlight
<1>5. OfferedIsAccountedFor'
  BY <1>1, <1>2, <1>4, StillAccounted DEF TypeOK, WatcherTypeOK, ServiceTypeOK
<1>6. WellAt(n)'
  BY <1>1, <1>2 DEF WellAt, TypeOK, WatcherTypeOK, chainVars, Watching, Concerns, Tip
<1>7. \A m \in Node : InFlight(m)' \subseteq mined
  BY <1>4 DEF IInv, RecordsAreMined
<1> QED
  BY <1>1, <1>2, <1>3, <1>5, <1>6, <1>7, WatchStep DEF TypeOK, WatcherTypeOK, ServiceTypeOK, chainVars

LEMMA StopStep == ASSUME IInv, NEW n \in Node, StopWatcher(n) PROVE IInv'
<1>1. WellAt(n) /\ TypeOK
  BY IInvAt DEF IInv
<1>2. /\ up' = up \ {n} /\ lost' = lost \cup InFlight(n)
      /\ UNCHANGED <<issued, saved, tableVars, offered, chainVars, knew>>
  BY DEF StopWatcher, StopNode, Stop
<1>3. /\ known' = [known EXCEPT ![n] = {}] /\ queue' = [queue EXCEPT ![n] = <<>>]
      /\ hand' = [hand EXCEPT ![n] = None] /\ tries' = [tries EXCEPT ![n] = 0]
  BY DEF StopWatcher, StopNode, Stop
<1>4. /\ watch' = [watch EXCEPT ![n] = "off"] /\ lastHeight' = [lastHeight EXCEPT ![n] = 0]
      /\ goal' = [goal EXCEPT ![n] = 0] /\ height' = [height EXCEPT ![n] = 0]
      /\ todo' = [todo EXCEPT ![n] = {}] /\ since' = [since EXCEPT ![n] = 0]
  BY DEF StopWatcher, StopNode
<1>5. /\ lastHash' = [lastHash EXCEPT ![n] = Hash(0)] /\ block' = [block EXCEPT ![n] = Hash(0)]
      /\ scanned' = [scanned EXCEPT ![n] = {}]
      /\ broken' = broken \ {n} /\ alarmed' = alarmed \ {n}
  BY DEF StopWatcher
<1> USE DEF tableVars
<1>6. InFlight(n)' = {} /\ \A m \in Node \ {n} : InFlight(m)' = InFlight(m)
  BY <1>1, <1>3 DEF InFlight, TypeOK, WatcherTypeOK, ServiceTypeOK
<1>7. InFlight(n) \subseteq mined
  BY DEF IInv, RecordsAreMined
<1>8. TypeOK'
  <2>1. ChainTypeOK'
    BY <1>1, <1>2 DEF TypeOK, WatcherTypeOK, ChainTypeOK, chainVars
  <2>2. lost' \subseteq Record
    BY <1>1, <1>2, <1>7 DEF TypeOK, WatcherTypeOK, ServiceTypeOK, ChainTypeOK
  <2>3. queue' \in [Node -> Seq(Record)] /\ \A m \in Node : Len(queue'[m]) <= Capacity
    BY <1>1, <1>3, QueueAssumption DEF TypeOK, WatcherTypeOK, ServiceTypeOK
  <2>4. ServiceTypeOK'
    BY <1>1, <1>2, <1>3, <2>2, <2>3, QueueAssumption DEF TypeOK, WatcherTypeOK, ServiceTypeOK
  <2>5. Hash(0) \in Hashes
    BY <1>1, TipType DEF TypeOK, WatcherTypeOK, ChainTypeOK, Tip
  <2> QED
    BY <1>1, <1>2, <1>4, <1>5, <2>1, <2>4, <2>5, ChainAssumption DEF TypeOK, WatcherTypeOK, Watch
<1>9. OfferedIsAccountedFor'
  BY <1>1, <1>2, <1>6, StillAccounted DEF TypeOK, WatcherTypeOK, ServiceTypeOK
<1>10. WellAt(n)'
  <2>1. watch'[n] = "off" /\ n \notin up' /\ lastHeight'[n] = 0 /\ goal'[n] = 0
    BY <1>1, <1>2, <1>4, <1>5 DEF TypeOK, WatcherTypeOK
  <2>2. Tip' \in Nat
    BY <1>8, TipType, ChainAssumption DEF TypeOK, WatcherTypeOK, ChainTypeOK, Tip
  <2> QED
    BY <2>1, <2>2 DEF WellAt, Watching, Concerns
<1>11. \A m \in Node : InFlight(m)' \subseteq mined
  BY <1>6 DEF IInv, RecordsAreMined
<1> QED
  BY <1>1, <1>2, <1>3, <1>4, <1>5, <1>8, <1>9, <1>10, <1>11, WatchStep
     DEF TypeOK, WatcherTypeOK, ServiceTypeOK, chainVars

-----------------------------------------------------------------------------
(* The whole.                                                              *)

LEMMA NextIInv == IInv /\ [Next]_vars => IInv'
<1> SUFFICES ASSUME IInv, [Next]_vars PROVE IInv'
  OBVIOUS
<1>1. ASSUME NEW n \in Node, WatcherStep(n) PROVE IInv'
  BY <1>1, WaitStep, LookStep, BeginStep, FetchStep, CutShort, StepBackStep, EndBlockStep
     DEF WatcherStep
<1>2. ASSUME NEW n \in Node, BootNode(n) /\ UNCHANGED ethVars PROVE IInv'
  BY <1>2, BootStep
<1>3. ASSUME NEW n \in Node, StopWatcher(n) PROVE IInv'
  BY <1>3, StopStep
<1>4. CASE Around /\ UNCHANGED ethVars
  BY <1>4, ConsumeStep, AddressStep, MineStep, ReorgStep DEF Around
<1>5. CASE UNCHANGED vars
  <2> USE <1>5 DEF vars, serviceVars, addressVars, queueVars, tableVars
  <2>1. ServiceTypeOK'
    BY DEF IInv, TypeOK, WatcherTypeOK, ServiceTypeOK
  <2>2. \A n \in Node : InFlight(n)' = InFlight(n)
    BY DEF InFlight
  <2>3. OfferedIsAccountedFor'
    BY <2>2, StillAccounted DEF IInv, TypeOK, WatcherTypeOK, ServiceTypeOK
  <2> QED
    BY <2>1, <2>2, <2>3, ServiceStep
<1> QED
  BY <1>1, <1>2, <1>3, <1>4, <1>5 DEF Next, Replica

LEMMA SpecIInv == Spec => []IInv
  BY InitIInv, NextIInv, PTL DEF Spec

\* Type correctness.
THEOREM TypeCorrect == Spec => []TypeOK
<1>1. IInv => TypeOK
  BY DEF IInv
<1> QED
  BY <1>1, SpecIInv, PTL

\* scanNewBlocks leaves no gap: every height from the start of a watcher up to its
\* lastHeight was worked through in some version of the block, whatever fetches,
\* alarms and steps back failed on the way.
THEOREM ScanWithoutGap == Spec => []NoHeightSkipped
<1>1. IInv => NoHeightSkipped
  BY DEF IInv
<1> QED
  BY <1>1, SpecIInv, PTL

\* As long as no block is replaced, every payment in the scanned blocks whose address
\* the replica knew was offered to the channel.
THEOREM ScanSeesPayments == Spec => []SeenUnlessReplaced
<1>1. IInv => SeenUnlessReplaced
  BY DEF IInv, SeenSoFar, SeenUnlessReplaced
<1> QED
  BY <1>1, SpecIInv, PTL

\* The reorganisation alarm has a reorganisation behind it, or lastHash is ahead of
\* lastHeight since a failed fetch cut a scan short.
THEOREM AlarmCause == Spec => []AlarmHasCause
<1>1. IInv => AlarmHasCause
  BY DEF IInv
<1> QED
  BY <1>1, SpecIInv, PTL

\* A record the watcher put into the channel is a row, a dead letter, on its way, or
\* one of those the code drops: a full channel, a stop, a failed dead letter.
THEOREM OfferedAccounted == Spec => []OfferedIsAccountedFor
<1>1. IInv => OfferedIsAccountedFor
  BY DEF IInv
<1> QED
  BY <1>1, SpecIInv, PTL

\* consumeDeposits under retries and the watcher under reorganisations write the
\* ledger of DepositLedger: a row stands for a payment that was mined at the row's
\* height, one row for a transaction, and no row changes.
LEMMA LedgerInitial == Init => Ledger!LedgerInit
  BY DEF Init, WatcherInit, ChainInit, ServiceInit, Ledger!LedgerInit, Tip

LEMMA LedgerStep == IInv /\ IInv' /\ [Next]_vars =>
    [Ledger!ChainMoves \/ Ledger!Credit \/ Ledger!Confirm]_(Ledger!ledgerVars)
<1> SUFFICES ASSUME IInv, [Next]_vars
             PROVE  [Ledger!ChainMoves \/ Ledger!Credit \/ Ledger!Confirm]_(Ledger!ledgerVars)
  OBVIOUS
<1>1. ASSUME UNCHANGED <<chainVars, deposits>> PROVE UNCHANGED Ledger!ledgerVars
  BY <1>1 DEF Ledger!ledgerVars, chainVars, Tip
<1>2. ASSUME NEW n \in Node, Replica(n) PROVE UNCHANGED <<chainVars, deposits>>
  <2>1. CASE WatcherStep(n)
    BY <2>1 DEF WatcherStep, StartFails, Tick, PollInVain, Poll, EndScan, Look, Offer, Begin,
       StartWatching, Fetch,
       TakeBlock, FetchFails, Alarm, StepBack, StepBackFails, EndBlock, NextBlock, serviceVars,
       tableVars
  <2>2. CASE BootNode(n)
    BY <2>2 DEF BootNode, Boot, tableVars
  <2>3. CASE StopWatcher(n)
    BY <2>3 DEF StopWatcher, StopNode, Stop, tableVars
  <2> QED
    BY <1>2, <2>1, <2>2, <2>3 DEF Replica
<1>3. ASSUME NEW n \in Node, NEW p \in Payment, NewAddress(n, p)
      PROVE  UNCHANGED <<chainVars, deposits>>
  BY <1>3 DEF NewAddress, GenerateAddress, tableVars
<1>4. ASSUME NEW n \in Node, ConsumeOne(n)
      PROVE  Ledger!Credit \/ UNCHANGED <<chainVars, deposits>>
  <2>1. UNCHANGED chainVars /\ Tip' = Tip
    BY <1>4 DEF ConsumeOne, chainVars, Tip
  <2>2. CASE Take(n) \/ GiveUp(n) \/ deposits' = deposits
    BY <2>1, <2>2 DEF Take, GiveUp, tableVars
  <2>3. CASE ~Conflicts(hand[n]) /\ hand[n] # None /\ deposits' = deposits \cup {hand[n]}
    <3>1. hand[n] \in mined
      BY <2>3 DEF IInv, RecordsAreMined, InFlight
    <3>2. \A d \in deposits : TxOf[d.pay] # TxOf[hand[n].pay]
      BY <2>3 DEF Conflicts
    <3>3. mined' = mined
      BY <2>1 DEF chainVars
    <3> QED
      BY <2>1, <2>3, <3>1, <3>2, <3>3 DEF Ledger!Credit
  <2> QED
    BY <1>4, <2>2, <2>3 DEF ConsumeOne, Consume, Stored, StoreFails, Trying
<1>5. ASSUME NEW P \in SUBSET Payment, MineBlock(P) PROVE Ledger!ChainMoves
  <2>1. Tip' = Tip + 1 /\ mined \subseteq mined' /\ Tip \in Int
    BY <1>5, MineChain, TipType DEF MineBlock, IInv, TypeOK, WatcherTypeOK
  <2>2. deposits' = deposits
    BY <1>5 DEF MineBlock, serviceVars, tableVars
  <2> QED
    BY <2>1, <2>2 DEF Ledger!ChainMoves
<1>6. ASSUME NEW h \in 1..Tip, ReorgChain(h) PROVE Ledger!ChainMoves
  <2>1. Tip' = Tip /\ mined \subseteq mined' /\ Tip \in Int
    BY <1>6, ReorgChainTypes, TipType DEF ReorgChain, IInv, TypeOK, WatcherTypeOK
  <2>2. deposits' = deposits
    BY <1>6 DEF ReorgChain, serviceVars, tableVars
  <2> QED
    BY <2>1, <2>2 DEF Ledger!ChainMoves
<1>7. CASE UNCHANGED vars
  BY <1>1, <1>7 DEF vars, serviceVars, tableVars
<1> QED
  BY <1>1, <1>2, <1>3, <1>4, <1>5, <1>6, <1>7 DEF Next, Around

\* The scan, the channel and the consumer implement the ledger.
THEOREM LedgerRefinement == Spec => ImplementsLedger
  BY LedgerInitial, LedgerStep, SpecIInv, PTL DEF Spec, ImplementsLedger, Ledger!LedgerSpec
=============================================================================
