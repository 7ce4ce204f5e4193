----------------------------- MODULE BlockWatcher -----------------------------
(***************************************************************************)
(* What DepositWatcher (internal/wallet/btc/watcher.go) and                *)
(* ETHDepositWatcher (internal/wallet/eth/watcher.go) have in common: they *)
(* remember the tip at start, poll, walk through the new blocks, and look  *)
(* every payment of a block up in the registry of their replica.  They     *)
(* differ in what they do with a block that cannot be fetched or does not  *)
(* fit; that is in BtcWatcher and EthWatcher.                              *)
(***************************************************************************)
EXTENDS DepositService

VARIABLES
    watch,      \* watch[n]: where the watcher of replica n is
    lastHeight, \* lastHeight[n]: w.lastHeight
    goal,       \* goal[n]: currentHeight of the scan under way
    height,     \* height[n]: the block it is at
    todo,       \* todo[n]: payments of the fetched block not yet looked at
    (* history *)
    since,      \* since[n]: the tip the watcher started from
    knew        \* knew[p]: replicas that knew the address when p was mined

watcherVars == <<watch, lastHeight, goal, height, todo, since, knew>>

\* start: before the first RPC; dead: it failed and Start returned; wait:
\* between ticks; poll: scanNewBlocks asks for the tip; fetch, block, alarm:
\* inside processBlock.
Watch == {"off", "start", "dead", "wait", "poll", "fetch", "block", "alarm"}

Watching(n) == watch[n] \in {"wait", "poll", "fetch", "block", "alarm"}

WatcherTypeOK ==
    /\ ChainTypeOK /\ ServiceTypeOK
    /\ watch \in [Node -> Watch]
    /\ lastHeight \in [Node -> 0..MaxHeight]
    /\ goal \in [Node -> 0..MaxHeight]
    /\ height \in [Node -> 0..MaxHeight + 1]
    /\ todo \in [Node -> SUBSET Payment]
    /\ since \in [Node -> 0..MaxHeight]
    /\ knew \in [Payment -> SUBSET Node]

WatcherInit ==
    /\ ChainInit /\ ServiceInit
    /\ watch = [n \in Node |-> "off"]
    /\ lastHeight = [n \in Node |-> 0]
    /\ goal = [n \in Node |-> 0]
    /\ height = [n \in Node |-> 0]
    /\ todo = [n \in Node |-> {}]
    /\ since = [n \in Node |-> 0]
    /\ knew = [p \in Payment |-> {}]

-----------------------------------------------------------------------------

Go(n, from, to) ==
    /\ watch[n] = from
    /\ watch' = [watch EXCEPT ![n] = to]

\* Start: lastHeight is the tip of this moment.
StartWatching(n) ==
    /\ Go(n, "start", "wait")
    /\ lastHeight' = [lastHeight EXCEPT ![n] = Tip]
    /\ since' = [since EXCEPT ![n] = Tip]
    /\ UNCHANGED <<chainVars, serviceVars, goal, height, todo, knew>>

\* Its first RPC fails: the watcher of this replica never runs.
StartFails(n) ==
    /\ Go(n, "start", "dead")
    /\ UNCHANGED <<chainVars, serviceVars, lastHeight, goal, height, todo, since, knew>>

\* The ticker fires and scanNewBlocks asks the node for its tip.
Tick(n) ==
    /\ Go(n, "wait", "poll")
    /\ UNCHANGED <<chainVars, serviceVars, lastHeight, goal, height, todo, since, knew>>

\* scanNewBlocks returns at once: the RPC failed, or there is no new block.
PollInVain(n) ==
    /\ Go(n, "poll", "wait")
    /\ UNCHANGED <<chainVars, serviceVars, lastHeight, goal, height, todo, since, knew>>

\* Mutant of Poll: the newest block is left for the next tick.
PollLate(n) ==
    /\ Tip > lastHeight[n] + 1
    /\ Go(n, "poll", "fetch")
    /\ goal' = [goal EXCEPT ![n] = Tip]
    /\ height' = [height EXCEPT ![n] = lastHeight[n] + 1]
    /\ UNCHANGED <<chainVars, serviceVars, lastHeight, todo, since, knew>>

\* The answer shows new blocks.
Poll(n) ==
    /\ Tip > lastHeight[n]
    /\ Go(n, "poll", "fetch")
    /\ goal' = [goal EXCEPT ![n] = Tip]
    /\ height' = [height EXCEPT ![n] = lastHeight[n] + 1]
    /\ UNCHANGED <<chainVars, serviceVars, lastHeight, todo, since, knew>>

\* processBlock has the block of its height.
TakeBlock(n) ==
    /\ height[n] <= goal[n]
    /\ Go(n, "fetch", "block")
    /\ todo' = [todo EXCEPT ![n] = {p \in Payment : place[p] = height[n]}]
    /\ UNCHANGED <<chainVars, serviceVars, lastHeight, goal, height, since, knew>>

\* Mutant of Look: the record carries currentHeight instead of the block's.
LookFromTip(n, p) ==
    /\ watch[n] = "block" /\ p \in todo[n]
    /\ todo' = [todo EXCEPT ![n] = @ \ {p}]
    /\ Offer(n, p, goal[n])
    /\ UNCHANGED <<chainVars, watch, lastHeight, goal, height, since, knew>>

\* One round of the loop over the payments of the block.
Look(n, p) ==
    /\ watch[n] = "block" /\ p \in todo[n]
    /\ todo' = [todo EXCEPT ![n] = @ \ {p}]
    /\ Offer(n, p, height[n])
    /\ UNCHANGED <<chainVars, watch, lastHeight, goal, height, since, knew>>

NextBlock(n) ==
    /\ todo[n] = {}
    /\ Go(n, "block", "fetch")
    /\ height' = [height EXCEPT ![n] = @ + 1]
    /\ UNCHANGED <<chainVars, serviceVars, lastHeight, goal, todo, since, knew>>

\* Mutant of EndScan: lastHeight is the tip of now, not of the poll.
EndScanAtTip(n) ==
    /\ height[n] > goal[n]
    /\ Go(n, "fetch", "wait")
    /\ lastHeight' = [lastHeight EXCEPT ![n] = Tip]
    /\ UNCHANGED <<chainVars, serviceVars, goal, height, todo, since, knew>>

\* w.lastHeight = currentHeight.
EndScan(n) ==
    /\ height[n] > goal[n]
    /\ Go(n, "fetch", "wait")
    /\ lastHeight' = [lastHeight EXCEPT ![n] = goal[n]]
    /\ UNCHANGED <<chainVars, serviceVars, goal, height, todo, since, knew>>

\* The replica comes up: main starts the watcher after the registry.
BootNode(n) ==
    /\ Boot(n)
    /\ watch' = [watch EXCEPT ![n] = "start"]
    /\ UNCHANGED <<chainVars, lastHeight, goal, height, todo, since, knew>>

StopNode(n) ==
    /\ Stop(n)
    /\ watch' = [watch EXCEPT ![n] = "off"]
    /\ lastHeight' = [lastHeight EXCEPT ![n] = 0]
    /\ goal' = [goal EXCEPT ![n] = 0]
    /\ height' = [height EXCEPT ![n] = 0]
    /\ todo' = [todo EXCEPT ![n] = {}]
    /\ since' = [since EXCEPT ![n] = 0]
    /\ UNCHANGED <<chainVars, knew>>

\* A user pays to addresses she was given.
MineBlock(P) ==
    /\ P \subseteq issued
    /\ Mine(P)
    /\ knew' = [p \in Payment |-> IF p \in P THEN {n \in Node : p \in known[n]} ELSE knew[p]]
    /\ UNCHANGED <<serviceVars, watch, lastHeight, goal, height, todo, since>>

ReorgChain(h) == Reorg(h) /\ UNCHANGED <<serviceVars, watcherVars>>

NewAddress(n, p) == GenerateAddress(n, p) /\ UNCHANGED <<chainVars, watcherVars>>

ConsumeOne(n) == Consume(n) /\ UNCHANGED <<chainVars, watcherVars>>

\* What goes on around the watchers.
Around ==
    \/ \E n \in Node :
        \/ ConsumeOne(n)
        \/ \E p \in Payment : NewAddress(n, p)
    \/ \E P \in SUBSET Payment : MineBlock(P)
    \/ \E h \in 1..Tip : ReorgChain(h)

-----------------------------------------------------------------------------

\* p is a payment the watcher of n is answerable for: mined after it started,
\* when its replica knew the address.
Concerns(n, p) ==
    /\ Watching(n) /\ n \in knew[p]
    /\ since[n] < place[p]

Offered(p) == [pay |-> p, height |-> place[p]] \in offered
=============================================================================
