---------------------------- MODULE ConfirmChecker ----------------------------
(***************************************************************************)
(* internal/wallet/core/confirm.go.  Every replica campaigns for one etcd  *)
(* key with a lease that etcd's client keeps alive; the winner looks every *)
(* 30 seconds for unconfirmed deposits and confirms those that are         *)
(* Required blocks deep.  It learns that its lease is gone only between    *)
(* two checks.                                                             *)
(*                                                                         *)
(* One chain is modelled; check treats the two alike.  The rows come from  *)
(* the watchers, as DepositLedger promises.                                *)
(***************************************************************************)
EXTENDS Chain

CONSTANTS
    Node,       \* replicas of wallet-service
    Lease,      \* lease identities; the bound on leases that exist at a time
    Required,   \* BTCRequiredConfirms (6) or ETHRequiredConfirms (12)
    MaxCrashes, \* bound on the crashes of a behaviour
    None

ASSUME CheckerAssumption ==
    /\ Required \in Nat \ {0} /\ MaxCrashes \in Nat
    /\ None \notin Lease

VARIABLES
    (* etcd *)
    alive,      \* leases that etcd holds
    leader,     \* the lease leaderKey is attached to, or None: no key
    (* the database *)
    rows,       \* rows of deposits
    confirmed,  \* those with confirmed = 1
    (* locals of campaign and check *)
    stage,      \* stage[n]: the next call of replica n
    lease,      \* lease[n]: its lease, or None
    batch,      \* batch[n]: rows its check has yet to look at
    (* history *)
    crashes

etcdVars == <<alive, leader>>
tableVars == <<rows, confirmed>>
localVars == <<stage, lease, batch>>
vars == <<chainVars, etcdVars, tableVars, localVars, crashes>>

\* idle: before Grant; txn: before Commit; won: before KeepAlive; lead: in the
\* select; list, heights, update: inside check; undo: before Revoke.
Checking == {"list", "heights", "update"}
Stage == {"down", "idle", "txn", "won", "lead", "undo"} \cup Checking

TypeOK ==
    /\ ChainTypeOK
    /\ alive \subseteq Lease
    /\ leader \in alive \cup {None}
    /\ rows \subseteq Record /\ confirmed \subseteq rows
    /\ stage \in [Node -> Stage]
    /\ lease \in [Node -> Lease \cup {None}]
    /\ batch \in [Node -> SUBSET rows]
    /\ crashes \in 0..MaxCrashes

Init ==
    /\ ChainInit
    /\ alive = {} /\ leader = None
    /\ rows = {} /\ confirmed = {}
    /\ stage = [n \in Node |-> "idle"]
    /\ lease = [n \in Node |-> None]
    /\ batch = [n \in Node |-> {}]
    /\ crashes = 0

Go(n, from, to) ==
    /\ stage[n] = from
    /\ stage' = [stage EXCEPT ![n] = to]

-----------------------------------------------------------------------------
(* campaign.                                                               *)

\* Grant; when it fails the replica is back here three seconds later.
Grant(n) ==
    /\ Go(n, "idle", "txn")
    /\ \E l \in Lease \ alive :
         /\ \A m \in Node : lease[m] # l
         /\ alive' = alive \cup {l}
         /\ lease' = [lease EXCEPT ![n] = l]
    /\ UNCHANGED <<chainVars, leader, tableVars, batch, crashes>>

\* Mutant of TxnWins: a plain put.
TxnOverwrites(n) ==
    /\ lease[n] \in alive
    /\ Go(n, "txn", "won")
    /\ leader' = lease[n]
    /\ UNCHANGED <<chainVars, alive, tableVars, lease, batch, crashes>>

\* The transaction finds no key; etcd refuses a put under an expired lease.
TxnWins(n) ==
    /\ leader = None /\ lease[n] \in alive
    /\ Go(n, "txn", "won")
    /\ leader' = lease[n]
    /\ UNCHANGED <<chainVars, alive, tableVars, lease, batch, crashes>>

\* It does not succeed, or Commit returns an error, with or without effect.
TxnFails(n) ==
    /\ Go(n, "txn", "undo")
    /\ leader' \in {leader} \cup (IF leader = None THEN {lease[n]} \cap alive ELSE {})
    /\ UNCHANGED <<chainVars, alive, tableVars, lease, batch, crashes>>

\* KeepAlive returns its channel, or an error.
KeepAlive(n) ==
    /\ Go(n, "won", "lead")
    /\ UNCHANGED <<chainVars, etcdVars, tableVars, lease, batch, crashes>>

KeepAliveFails(n) ==
    /\ Go(n, "won", "undo")
    /\ UNCHANGED <<chainVars, etcdVars, tableVars, lease, batch, crashes>>

\* The keepalive channel is closed: the deferred Revoke, then a new campaign.
LeaseLost(n) ==
    /\ lease[n] \notin alive
    /\ Go(n, "lead", "undo")
    /\ UNCHANGED <<chainVars, etcdVars, tableVars, lease, batch, crashes>>

\* Mutant of End: the key was put without the lease.
EndKeepsKey(l) ==
    /\ alive' = alive \ {l}
    /\ UNCHANGED leader

\* A lease that ends takes the key with it.
End(l) ==
    /\ alive' = alive \ {l}
    /\ leader' = IF leader = l THEN None ELSE leader

\* Mutant of Revoke: a Delete of the key, whoever holds it.
RevokeDeletesKey(n) ==
    /\ Go(n, "undo", "idle")
    /\ alive' = alive \ {lease[n]}
    /\ leader' = None
    /\ lease' = [lease EXCEPT ![n] = None]
    /\ UNCHANGED <<chainVars, tableVars, batch, crashes>>

\* Revoke, whose error is ignored.
Revoke(n) ==
    /\ Go(n, "undo", "idle")
    /\ End(lease[n]) \/ UNCHANGED etcdVars
    /\ lease' = [lease EXCEPT ![n] = None]
    /\ UNCHANGED <<chainVars, tableVars, batch, crashes>>

-----------------------------------------------------------------------------
(* check.                                                                  *)

\* The ticker; Go's select may prefer it to a closed channel.
Tick(n) ==
    /\ Go(n, "lead", "list")
    /\ UNCHANGED <<chainVars, etcdVars, tableVars, lease, batch, crashes>>

\* ListUnconfirmedDeposits.
List(n) ==
    /\ rows # confirmed
    /\ Go(n, "list", "heights")
    /\ batch' = [batch EXCEPT ![n] = rows \ confirmed]
    /\ UNCHANGED <<chainVars, etcdVars, tableVars, lease, crashes>>

\* Nothing to do, or the query fails.
ListNothing(n) ==
    /\ Go(n, "list", "lead")
    /\ UNCHANGED <<chainVars, etcdVars, tableVars, lease, batch, crashes>>

\* Mutant of Deep: the block of the deposit counts as its first confirmation.
DeepByCount(r, tip) == tip - r.height + 1 >= Required

Deep(r, tip) == tip - r.height >= Required

\* The height of the chain, which stays 0 when the RPC fails; rows that are
\* not deep enough are passed over.
Heights(n) ==
    /\ Go(n, "heights", "update")
    /\ \E tip \in {0, Tip} : batch' = [batch EXCEPT ![n] = {r \in @ : Deep(r, tip)}]
    /\ UNCHANGED <<chainVars, etcdVars, tableVars, lease, crashes>>

\* UpdateDepositConfirmed.
Update(n, r) ==
    /\ stage[n] = "update" /\ r \in batch[n]
    /\ confirmed' = confirmed \cup {r}
    /\ batch' = [batch EXCEPT ![n] = @ \ {r}]
    /\ UNCHANGED <<chainVars, etcdVars, rows, stage, lease, crashes>>

UpdateFails(n, r) ==
    /\ stage[n] = "update" /\ r \in batch[n]
    /\ batch' = [batch EXCEPT ![n] = @ \ {r}]
    /\ UNCHANGED <<chainVars, etcdVars, tableVars, stage, lease, crashes>>

EndCheck(n) ==
    /\ batch[n] = {}
    /\ Go(n, "update", "lead")
    /\ UNCHANGED <<chainVars, etcdVars, tableVars, lease, batch, crashes>>

-----------------------------------------------------------------------------
(* Around the checkers.                                                    *)

\* A lease reaches its TTL: its replica died, or did not get through to etcd.
Expire(l) ==
    /\ l \in alive
    /\ End(l)
    /\ UNCHANGED <<chainVars, tableVars, localVars, crashes>>

\* The process ends; a deferred Revoke may still run.
Stop(n) ==
    /\ crashes < MaxCrashes
    /\ stage[n] # "down"
    /\ stage' = [stage EXCEPT ![n] = "down"]
    /\ \/ stage[n] = "lead" /\ End(lease[n])
       \/ UNCHANGED etcdVars
    /\ lease' = [lease EXCEPT ![n] = None]
    /\ batch' = [batch EXCEPT ![n] = {}]
    /\ crashes' = crashes + 1
    /\ UNCHANGED <<chainVars, tableVars>>

Boot(n) ==
    /\ Go(n, "down", "idle")
    /\ UNCHANGED <<chainVars, etcdVars, tableVars, lease, batch, crashes>>

\* A watcher's record becomes a row.
Detect(r) ==
    /\ r \in mined
    /\ \A d \in rows : ~Together(d.pay, r.pay)
    /\ rows' = rows \cup {r}
    /\ UNCHANGED <<chainVars, etcdVars, confirmed, localVars, crashes>>

ChainStep ==
    /\ (\E P \in SUBSET Payment : Mine(P)) \/ (\E h \in 1..Tip : Reorg(h))
    /\ UNCHANGED <<etcdVars, tableVars, localVars, crashes>>

Campaign(n) ==
    Grant(n) \/ TxnWins(n) \/ TxnFails(n) \/ KeepAlive(n) \/ KeepAliveFails(n)
        \/ LeaseLost(n) \/ Revoke(n)

Check(n) ==
    \/ Tick(n) \/ List(n) \/ ListNothing(n) \/ Heights(n) \/ EndCheck(n)
    \/ \E r \in batch[n] : Update(n, r) \/ UpdateFails(n, r)

Next ==
    \/ \E n \in Node : Campaign(n) \/ Check(n) \/ Stop(n) \/ Boot(n)
    \/ \E l \in Lease : Expire(l)
    \/ \E r \in Record : Detect(r)
    \/ ChainStep

Spec == Init /\ [][Next]_vars

\* The goroutines run, a dead replica is restarted, the lease of a dead
\* replica expires, and a call that is made again and again succeeds one day,
\* so that a lease is also kept alive through a whole check one day.
FairSpec ==
    /\ Spec
    /\ \A n \in Node : WF_vars(Campaign(n)) /\ WF_vars(Check(n)) /\ WF_vars(Boot(n))
    /\ \A l \in Lease : WF_vars(Expire(l) /\ \A n \in Node : lease[n] # l)
    /\ SF_vars(\E n \in Node : TxnWins(n))
    /\ SF_vars(\E n \in Node : KeepAlive(n))
    /\ SF_vars(\E n \in Node : Tick(n))
    /\ SF_vars(\E n \in Node : List(n))
    /\ SF_vars(\E n \in Node :
                 Heights(n) /\ batch'[n] = {r \in batch[n] : Deep(r, Tip)})
    /\ \A p \in Payment :
         SF_vars(\E n \in Node : \E r \in batch[n] : r.pay = p /\ Update(n, r))

-----------------------------------------------------------------------------
(* Properties.                                                             *)

Leads(n) == stage[n] \in {"won", "lead"} \cup Checking

\* A replica that acts as leader holds the key as long as its lease lives: no
\* campaign, failed transaction or Revoke of another replica takes it away.
LeaderHoldsKey == \A n \in Node : Leads(n) /\ lease[n] \in alive => leader = lease[n]

\* Two replicas act as leader only if one of them has lost its lease.
OneLeaderUpToExpiry ==
    \A m, n \in Node :
        m # n /\ Leads(m) /\ Leads(n) => lease[m] \notin alive \/ lease[n] \notin alive

\* The checkers confirm only what DepositLedger allows: each confirmed row is
\* Required blocks deep, and stays confirmed.
Ledger == INSTANCE DepositLedger WITH tip <- Tip

ImplementsLedger == Ledger!LedgerSpec

\* A row that is deep enough is confirmed, whoever leads and dies.
DeepIsConfirmed ==
    \A r \in Record : r \in rows /\ Deep(r, Tip) ~> r \in confirmed
=============================================================================
