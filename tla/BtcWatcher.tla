------------------------------ MODULE BtcWatcher ------------------------------
(***************************************************************************)
(* internal/wallet/btc/watcher.go on every replica.  A block that cannot   *)
(* be fetched is logged and passed over, and lastHeight becomes the tip    *)
(* whatever became of the blocks on the way.                               *)
(***************************************************************************)
EXTENDS BlockWatcher

VARIABLES
    skipped     \* history: skipped[n]: heights n passed over after a failed fetch

vars == <<chainVars, serviceVars, watcherVars, skipped>>

TypeOK == WatcherTypeOK /\ skipped \in [Node -> SUBSET (1..MaxHeight)]

Init == WatcherInit /\ skipped = [n \in Node |-> {}]

-----------------------------------------------------------------------------

\* GetBlockHash and GetBlockVerboseTx.
Fetch(n) == TakeBlock(n) /\ UNCHANGED skipped

\* One of them fails: processBlock returns and the loop goes on.
FetchFails(n) ==
    /\ watch[n] = "fetch" /\ height[n] <= goal[n]
    /\ height' = [height EXCEPT ![n] = @ + 1]
    /\ skipped' = [skipped EXCEPT ![n] = @ \cup {height[n]}]
    /\ UNCHANGED <<chainVars, serviceVars, watch, lastHeight, goal, todo, since, knew>>

WatcherStep(n) ==
    \/ /\ \/ StartWatching(n) \/ StartFails(n)
          \/ Tick(n) \/ PollInVain(n) \/ Poll(n)
          \/ NextBlock(n) \/ EndScan(n)
          \/ \E p \in Payment : Look(n, p)
       /\ UNCHANGED skipped
    \/ Fetch(n)
    \/ FetchFails(n)

Replica(n) ==
    \/ WatcherStep(n)
    \/ BootNode(n) /\ UNCHANGED skipped
    \/ StopNode(n) /\ skipped' = [skipped EXCEPT ![n] = {}]

Next == (\E n \in Node : Replica(n)) \/ (Around /\ UNCHANGED skipped)

Spec == Init /\ [][Next]_vars

\* Both loops run: the ticker fires, calls return, the consumer is scheduled.
\* A call may fail each time, except that polls for a tip with new blocks,
\* repeated at every tick, do not fail for ever.
FairSpec ==
    /\ Spec
    /\ \A n \in Node :
        /\ WF_vars(WatcherStep(n))
        /\ WF_vars(ConsumeOne(n) /\ UNCHANGED skipped)
        /\ SF_vars(Poll(n) /\ UNCHANGED skipped)

-----------------------------------------------------------------------------
(* Properties.                                                             *)

\* A payment up to lastHeight that concerns the watcher was offered to the
\* channel, unless the fetch of its block failed (or the chain was reorganised).
SeenUnlessSkipped ==
    reorgs = 0 =>
        \A n \in Node, p \in Payment :
            Concerns(n, p) /\ place[p] <= lastHeight[n]
                => place[p] \in skipped[n] \/ Offered(p)

\* A payment that concerns a watcher ends as a row, a dead letter, or a loss
\* the code is known for: a block passed over, a full channel, a stop.
PaymentSettles ==
    \A n \in Node, p \in Payment :
        Concerns(n, p) /\ reorgs = 0 ~>
            \/ \E r \in deposits \cup deadLetters \cup lost : r.pay = p
            \/ place[p] \in skipped[n]
            \/ ~Concerns(n, p) \/ reorgs > 0
=============================================================================
