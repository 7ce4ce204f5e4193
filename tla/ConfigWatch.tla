----------------------------- MODULE ConfigWatch -----------------------------
(***************************************************************************)
(* The hot update of RPC addresses: config/watcher.go and config/rpc.go,   *)
(* on every replica, and the keys of etcd it watches.  A replica takes its *)
(* first addresses from the environment (main.go), then follows the events *)
(* of a watch that starts at the current revision; it never reads what is  *)
(* stored.  When the channel of the watch closes, Start returns.           *)
(***************************************************************************)
EXTENDS Integers, Sequences

CONSTANTS
    Node,       \* replicas
    Host,       \* addresses an operator puts
    Env,        \* the address in the environment
    Empty,      \* the value of a delete event
    MaxWrites,  \* bound on the changes of a key
    MaxBoots    \* bound on the starts of a replica

Keys == {"btc_rpc_host", "eth_rpc_host"}

Value == Host \cup {Env, Empty}

ValueAssumption == Env \notin Host /\ Empty \notin Host /\ Env # Empty
BoundAssumption == MaxWrites \in Nat /\ MaxBoots \in Nat

VARIABLES
    (* etcd *)
    stored,     \* stored[k]: the value of k; Empty: none
    writes,     \* writes[k]: how often it changed
    (* replicas *)
    watch,      \* watch[n]: down, starting, open or closed
    boots,      \* boots[n]: how often n was started
    queue,      \* queue[n]: events of its watch, not handled yet
    client,     \* client[n][k]: the address its holder is connected to
    (* history, read by properties only *)
    missed,     \* missed[n]: keys whose value was put while n did not watch
    refused     \* refused[n]: keys whose last event n could not connect to

etcdVars == <<stored, writes>>
historyVars == <<missed, refused>>
vars == <<etcdVars, watch, boots, queue, client, historyVars>>

Watches == {"down", "starting", "open", "closed"}

TypeOK ==
    /\ stored \in [Keys -> Host \cup {Empty}]
    /\ writes \in [Keys -> 0..MaxWrites]
    /\ watch \in [Node -> Watches]
    /\ boots \in [Node -> 0..MaxBoots]
    /\ queue \in [Node -> Seq(Keys \X (Host \cup {Empty}))]
    /\ client \in [Node -> [Keys -> Value]]
    /\ missed \in [Node -> SUBSET Keys]
    /\ refused \in [Node -> SUBSET Keys]

Init ==
    /\ stored = [k \in Keys |-> Empty]
    /\ writes = [k \in Keys |-> 0]
    /\ watch = [n \in Node |-> "down"]
    /\ boots = [n \in Node |-> 0]
    /\ queue = [n \in Node |-> <<>>]
    /\ client = [n \in Node |-> [k \in Keys |-> Env]]
    /\ missed = [n \in Node |-> {}]
    /\ refused = [n \in Node |-> {}]

-----------------------------------------------------------------------------
(* The operator.                                                           *)

\* Every open watch gets the event, every other replica misses it.
Write(k, v) ==
    /\ writes[k] < MaxWrites
    /\ writes' = [writes EXCEPT ![k] = @ + 1]
    /\ stored' = [stored EXCEPT ![k] = v]
    /\ queue' = [n \in Node |->
         IF watch[n] = "open" THEN Append(queue[n], <<k, v>>) ELSE queue[n]]
    /\ missed' = [n \in Node |->
         IF watch[n] = "open" THEN missed[n] \ {k} ELSE missed[n] \cup {k}]
    /\ UNCHANGED <<watch, boots, client, refused>>

Put == \E k \in Keys, h \in Host : Write(k, h)

Delete == \E k \in Keys : stored[k] # Empty /\ Write(k, Empty)

-----------------------------------------------------------------------------
(* A replica.                                                              *)

\* main: both clients from the environment, then the watcher's goroutine.
Boot(n) ==
    /\ watch[n] = "down" /\ boots[n] < MaxBoots
    /\ boots' = [boots EXCEPT ![n] = @ + 1]
    /\ watch' = [watch EXCEPT ![n] = "starting"]
    /\ client' = [client EXCEPT ![n] = [k \in Keys |-> Env]]
    /\ missed' = [missed EXCEPT ![n] = {k \in Keys : writes[k] > 0}]
    /\ refused' = [refused EXCEPT ![n] = {}]
    /\ UNCHANGED <<etcdVars, queue>>

\* Start: the watch begins at the current revision.
OpenWatch(n) ==
    /\ watch[n] = "starting"
    /\ watch' = [watch EXCEPT ![n] = "open"]
    /\ UNCHANGED <<etcdVars, boots, queue, client, historyVars>>

\* The channel closes, as after a compaction; the client library may drop events
\* that were not received yet.
CloseWatch(n) == \E i \in 0 .. Len(queue[n]) :
    /\ watch[n] = "open"
    /\ watch' = [watch EXCEPT ![n] = "closed"]
    /\ queue' = [queue EXCEPT ![n] = SubSeq(@, 1, i)]
    /\ missed' = [missed EXCEPT ![n] =
         @ \cup {queue[n][j][1] : j \in i + 1 .. Len(queue[n])}]
    /\ UNCHANGED <<etcdVars, boots, client, refused>>

Stop(n) ==
    /\ watch[n] # "down"
    /\ watch' = [watch EXCEPT ![n] = "down"]
    /\ queue' = [queue EXCEPT ![n] = <<>>]
    /\ UNCHANGED <<etcdVars, boots, client, historyVars>>

\* BTCRPCHolder.Set, ETHRPCHolder.Set.
Set(n, k, v) ==
    /\ client' = [client EXCEPT ![n][k] = v]
    /\ refused' = [refused EXCEPT ![n] = @ \ {k}]

\* Mutant of NextEvent: of the events that wait only the last is looked at.
LastEvent(n, k, v) ==
    /\ queue[n] # <<>>
    /\ queue[n][Len(queue[n])] = <<k, v>>
    /\ queue' = [queue EXCEPT ![n] = <<>>]
    /\ UNCHANGED <<etcdVars, watch, boots, missed>>

NextEvent(n, k, v) ==
    /\ queue[n] # <<>>
    /\ Head(queue[n]) = <<k, v>>
    /\ queue' = [queue EXCEPT ![n] = Tail(@)]
    /\ UNCHANGED <<etcdVars, watch, boots, missed>>

\* rpcclient.New in HTTP POST mode does not connect: any address is taken, also
\* the empty one of a delete event.
UpdateBTC(n) == \E v \in Host \cup {Empty} :
    /\ NextEvent(n, "btc_rpc_host", v)
    /\ Set(n, "btc_rpc_host", v)

\* ethclient.DialContext refuses the empty address.
UpdateETH(n) == \E v \in Host :
    /\ NextEvent(n, "eth_rpc_host", v)
    /\ Set(n, "eth_rpc_host", v)

\* Mutant of UpdateETHFails: the event is tried again for ever.
UpdateETHRetries(n) == \E v \in Host \cup {Empty} :
    /\ queue[n] # <<>> /\ Head(queue[n]) = <<"eth_rpc_host", v>>
    /\ refused' = [refused EXCEPT ![n] = @ \cup {"eth_rpc_host"}]
    /\ UNCHANGED <<etcdVars, watch, boots, queue, client, missed>>

\* It may refuse any other: the old client stays.
UpdateETHFails(n) == \E v \in Host \cup {Empty} :
    /\ NextEvent(n, "eth_rpc_host", v)
    /\ refused' = [refused EXCEPT ![n] = @ \cup {"eth_rpc_host"}]
    /\ UNCHANGED client

Handle(n) == UpdateBTC(n) \/ UpdateETH(n) \/ UpdateETHFails(n)

Next ==
    \/ Put \/ Delete
    \/ \E n \in Node :
        Boot(n) \/ OpenWatch(n) \/ CloseWatch(n) \/ Stop(n) \/ Handle(n)

Spec == Init /\ [][Next]_vars

\* A replica that runs gets on; nothing makes one start, or a watch open again.
FairSpec == Spec /\ \A n \in Node : WF_vars(OpenWatch(n)) /\ WF_vars(Handle(n))

-----------------------------------------------------------------------------
(* Properties.                                                             *)

Running(n) == watch[n] # "down"

\* A running replica with no event left uses the stored address of every key
\* that was written, or it did not watch when it was written, or the connection
\* to the last address failed (watcher.go:43, 76, 86).
CurrentUnlessMissed == \A n \in Node, k \in Keys :
    Running(n) /\ queue[n] = <<>> /\ writes[k] > 0 =>
        client[n][k] = stored[k] \/ k \in missed[n] \cup refused[n]

\* What is written while a replica watches is used by it in the end, unless it
\* is overwritten, refused, dropped with the watch, or the replica stops.
WatchedIsUsed == \A n \in Node, k \in Keys, h \in Host :
    watch[n] = "open" /\ k \notin missed[n] /\ writes[k] > 0 /\ stored[k] = h ~>
        client[n][k] = h \/ stored[k] # h \/ k \in refused[n] \cup missed[n] \/ ~Running(n)
=============================================================================
