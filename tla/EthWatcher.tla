------------------------------ MODULE EthWatcher ------------------------------
(***************************************************************************)
(* internal/wallet/eth/watcher.go on every replica.  A scan ends at the    *)
(* first block that cannot be fetched, and lastHeight then stays what it   *)
(* was; lastHash follows every block that was worked through, and a block  *)
(* whose parent is not lastHash raises the reorganisation alarm.           *)
(***************************************************************************)
EXTENDS BlockWatcher

VARIABLES
    lastHash,   \* lastHash[n]: w.lastHash
    block,      \* block[n]: the hash of the block n works on
    (* history *)
    scanned,    \* scanned[n]: heights n worked through, in some version
    broken,     \* replicas whose lastHash is ahead of lastHeight: a failed
                \* fetch cut a scan short after it had worked through a block
    alarmed     \* replicas that raised an alarm since they started

ethVars == <<lastHash, block, scanned, broken, alarmed>>
vars == <<chainVars, serviceVars, watcherVars, ethVars>>

TypeOK ==
    /\ WatcherTypeOK
    /\ lastHash \in [Node -> Hashes]
    /\ block \in [Node -> Hashes]
    /\ scanned \in [Node -> SUBSET (1..MaxHeight)]
    /\ broken \subseteq Node /\ alarmed \subseteq Node

Init ==
    /\ WatcherInit
    /\ lastHash = [n \in Node |-> Hash(0)]
    /\ block = [n \in Node |-> Hash(0)]
    /\ scanned = [n \in Node |-> {}]
    /\ broken = {} /\ alarmed = {}

-----------------------------------------------------------------------------

\* Start: HeaderByNumber(nil) gives height and hash.
Begin(n) ==
    /\ StartWatching(n)
    /\ lastHash' = [lastHash EXCEPT ![n] = Hash(Tip)]
    /\ UNCHANGED <<block, scanned, broken, alarmed>>

Fits(n) == Hash(height[n] - 1) = lastHash[n]

\* BlockByNumber gives the successor of the last block.
Fetch(n) ==
    /\ TakeBlock(n)
    /\ Fits(n)
    /\ block' = [block EXCEPT ![n] = Hash(height[n])]
    /\ UNCHANGED <<lastHash, scanned, broken, alarmed>>

BrokenBy(n) == IF height[n] > lastHeight[n] + 1 THEN broken \cup {n} ELSE broken

\* Mutant of FetchFails: the scan ends as if it were complete.
FetchFailsAndMovesOn(n) ==
    /\ height[n] <= goal[n]
    /\ Go(n, "fetch", "wait")
    /\ lastHeight' = [lastHeight EXCEPT ![n] = goal[n]]
    /\ broken' = BrokenBy(n)
    /\ UNCHANGED <<chainVars, serviceVars, goal, height, todo, since, knew>>
    /\ UNCHANGED <<lastHash, block, scanned, alarmed>>

\* BlockByNumber fails: the scan ends without moving lastHeight.
FetchFails(n) ==
    /\ height[n] <= goal[n]
    /\ Go(n, "fetch", "wait")
    /\ broken' = BrokenBy(n)
    /\ UNCHANGED <<chainVars, serviceVars, lastHeight, goal, height, todo, since, knew>>
    /\ UNCHANGED <<lastHash, block, scanned, alarmed>>

\* The parent of the block is not lastHash.
Alarm(n) ==
    /\ Go(n, "fetch", "alarm")
    /\ height[n] <= goal[n] /\ ~Fits(n)
    /\ alarmed' = alarmed \cup {n}
    /\ UNCHANGED <<chainVars, serviceVars, lastHeight, goal, height, todo, since, knew>>
    /\ UNCHANGED <<lastHash, block, scanned, broken>>

\* Mutant of StepBack: lastHash is not corrected.
StepBackKeepsHash(n) ==
    /\ Go(n, "alarm", "wait")
    /\ lastHeight' = [lastHeight EXCEPT ![n] = height[n] - 1]
    /\ UNCHANGED <<chainVars, serviceVars, goal, height, todo, since, knew>>
    /\ UNCHANGED ethVars

\* The block before is fetched and becomes the last one; the scan ends.
StepBack(n) ==
    /\ Go(n, "alarm", "wait")
    /\ lastHash' = [lastHash EXCEPT ![n] = Hash(height[n] - 1)]
    /\ lastHeight' = [lastHeight EXCEPT ![n] = height[n] - 1]
    /\ broken' = broken \ {n}
    /\ UNCHANGED <<chainVars, serviceVars, goal, height, todo, since, knew>>
    /\ UNCHANGED <<block, scanned, alarmed>>

StepBackFails(n) ==
    /\ Go(n, "alarm", "wait")
    /\ UNCHANGED <<chainVars, serviceVars, lastHeight, goal, height, todo, since, knew>>
    /\ UNCHANGED ethVars

\* Mutant of EndBlock: lastHash is left behind.
EndBlockKeepsHash(n) ==
    /\ NextBlock(n)
    /\ scanned' = [scanned EXCEPT ![n] = @ \cup {height[n]}]
    /\ UNCHANGED <<lastHash, block, broken, alarmed>>

\* The end of processBlock.
EndBlock(n) ==
    /\ NextBlock(n)
    /\ lastHash' = [lastHash EXCEPT ![n] = block[n]]
    /\ scanned' = [scanned EXCEPT ![n] = @ \cup {height[n]}]
    /\ UNCHANGED <<block, broken, alarmed>>

WatcherStep(n) ==
    \/ /\ \/ StartFails(n) \/ EndScan(n)
          \/ Tick(n) \/ PollInVain(n) \/ Poll(n)
          \/ \E p \in Payment : Look(n, p)
       /\ UNCHANGED ethVars
    \/ Begin(n) \/ Fetch(n) \/ FetchFails(n) \/ Alarm(n)
    \/ StepBack(n) \/ StepBackFails(n) \/ EndBlock(n)

StopWatcher(n) ==
    /\ StopNode(n)
    /\ lastHash' = [lastHash EXCEPT ![n] = Hash(0)]
    /\ block' = [block EXCEPT ![n] = Hash(0)]
    /\ scanned' = [scanned EXCEPT ![n] = {}]
    /\ broken' = broken \ {n} /\ alarmed' = alarmed \ {n}

Replica(n) ==
    \/ WatcherStep(n)
    \/ BootNode(n) /\ UNCHANGED ethVars
    \/ StopWatcher(n)

Next == (\E n \in Node : Replica(n)) \/ (Around /\ UNCHANGED ethVars)

Spec == Init /\ [][Next]_vars

\* The loops run, polls for the newest header do not fail for ever, and no
\* block stays out of reach for ever.
FairSpec ==
    /\ Spec
    /\ \A n \in Node :
        /\ WF_vars(WatcherStep(n))
        /\ WF_vars(ConsumeOne(n) /\ UNCHANGED ethVars)
        /\ SF_vars(Poll(n) /\ UNCHANGED ethVars)
        /\ SF_vars(StepBack(n))
        /\ \A h \in 1..MaxHeight : SF_vars(height[n] = h /\ (Fetch(n) \/ Alarm(n)))

-----------------------------------------------------------------------------
(* Properties.                                                             *)

\* Every height from the start up to lastHeight was worked through, in some
\* version of the block: a failed fetch, an alarm and the step back leave no
\* gap.
NoHeightSkipped ==
    \A n \in Node : Watching(n) => since[n] + 1 .. lastHeight[n] \subseteq scanned[n]

\* Without a reorganisation, every payment up to lastHeight that concerns the
\* watcher was offered to the channel.
SeenUnlessReplaced ==
    reorgs = 0 =>
        \A n \in Node, p \in Payment :
            Concerns(n, p) /\ place[p] <= lastHeight[n] => Offered(p)

\* An alarm means that the chain was reorganised, or that lastHash is ahead of
\* lastHeight since a failed fetch cut a scan short, and no step back has put
\* them in step again.
AlarmHasCause ==
    \A n \in Node : watch[n] = "alarm" => reorgs > 0 \/ n \in broken

\* A watcher that falls behind catches up with the chain.
CatchesUp ==
    \A n \in Node : Watching(n) /\ Tip > lastHeight[n] ~> ~Watching(n) \/ lastHeight[n] = Tip

\* internal/wallet/eth/watcher.go:97 "[REORG] 回退到块高 %d 重新扫描": after a
\* watcher saw a reorganisation and came to rest at the tip, the payments in
\* the blocks it is answerable for have been offered.
ReplacedIsRescanned ==
    \A n \in Node, p \in Payment :
        /\ Concerns(n, p) /\ n \in alarmed
        /\ watch[n] = "wait" /\ lastHeight[n] = Tip /\ lastHash[n] = Hash(Tip)
        => \E h \in 1..MaxHeight : [pay |-> p, height |-> h] \in offered
=============================================================================
