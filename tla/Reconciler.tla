----------------------------- MODULE Reconciler -----------------------------
(***************************************************************************)
(* One run of the reconciliation of internal/wallet/reconcile/reconciler.go*)
(* for one chain: the deposit addresses and the rows of deposits are loaded*)
(* once, then the last blocks are fetched one by one and compared with     *)
(* them.  Meanwhile the chain moves and the watchers insert rows (Credit,  *)
(* as in DepositLedger).  One action is one query or one block.            *)
(***************************************************************************)
EXTENDS Chain

CONSTANTS
    Kind,       \* "btc" or "eth": reconcileBTC or reconcileETH
    Depth,      \* RECONCILE_BLOCK_DEPTH_BTC, RECONCILE_BLOCK_DEPTH_ETH
    Value       \* Value[p]: the amount of payment p, with eight decimals

ReconcilerAssumption ==
    /\ Kind \in {"btc", "eth"}
    /\ Depth \in Nat \ {0}
    /\ Kind = "eth" => \A p, q \in Payment : p # q => TxOf[p] # TxOf[q]

VARIABLES
    (* the database *)
    rows,       \* deposits
    listed,     \* payments whose address is in deposit_addresses
    (* locals of the run *)
    stage,
    known,      \* addrSet, as the payments to its addresses
    current,    \* currentHeight
    snapshot,   \* dbByTxID
    h,          \* the loop variable
    seen,       \* seenOnChain
    findings,   \* what was logged and counted, as records [type, pay]
    (* history, read by properties only *)
    failed,     \* heights that were not fetched
    shaken,     \* the chain was reorganised during the run
    atLoad      \* all rows when the snapshot was taken

dbVars == <<rows, listed>>
runVars == <<stage, known, current, snapshot, h, seen, findings>>
historyVars == <<failed, shaken, atLoad>>
vars == <<chainVars, dbVars, runVars, historyVars>>

Stages == {"idle", "height", "load", "scan", "done", "gone"}
Finding == [type : {"missing", "phantom", "amount_mismatch"}, pay : Payment]

TypeOK ==
    /\ ChainTypeOK
    /\ rows \subseteq mined
    /\ listed \subseteq Payment
    /\ stage \in Stages
    /\ known \subseteq listed
    /\ current \in 0..MaxHeight
    /\ snapshot \subseteq atLoad
    /\ h \in 0..MaxHeight + 1
    /\ seen \subseteq {TxOf[p] : p \in Payment}
    /\ findings \subseteq Finding
    /\ failed \subseteq 0..MaxHeight
    /\ shaken \in BOOLEAN
    /\ atLoad \subseteq rows

Init ==
    /\ ChainInit
    /\ rows = {}
    /\ listed \in SUBSET Payment
    /\ stage = "idle"
    /\ known = {}
    /\ current = 0
    /\ snapshot = {}
    /\ h = 0
    /\ seen = {}
    /\ findings = {}
    /\ failed = {}
    /\ shaken = FALSE
    /\ atLoad = {}

-----------------------------------------------------------------------------
(* The chain and the rest of the service.                                  *)

Grow == \E P \in SUBSET Payment :
    /\ Mine(P)
    /\ UNCHANGED <<dbVars, runVars, historyVars>>

Reorganise == \E b \in 1..MaxHeight :
    /\ Reorg(b)
    /\ shaken' = (stage # "idle")
    /\ UNCHANGED <<dbVars, runVars, failed, atLoad>>

\* A watcher inserts the row of a payment it was shown; tx_id is UNIQUE.
Credit == \E r \in mined :
    /\ \A d \in rows : ~Together(d.pay, r.pay)
    /\ rows' = rows \cup {r}
    /\ UNCHANGED <<chainVars, listed, runVars, historyVars>>

\* An address is created.  One whose insert failed is never listed.
List == \E p \in Payment \ listed :
    /\ listed' = listed \cup {p}
    /\ UNCHANGED <<chainVars, rows, runVars, historyVars>>

-----------------------------------------------------------------------------
(* The run.                                                                *)

MinHeightBTC == IF current - Depth < 0 THEN 0 ELSE current - Depth

MinHeightETH == IF current > Depth THEN current - Depth ELSE 0

MinHeight == IF Kind = "btc" THEN MinHeightBTC ELSE MinHeightETH

\* Run: ListAllDepositAddresses.  A chain without addresses is skipped.
LoadAddresses ==
    /\ stage = "idle" /\ listed # {}
    /\ known' = listed
    /\ stage' = "height"
    /\ UNCHANGED <<chainVars, dbVars, current, snapshot, h, seen, findings, historyVars>>

\* GetBlockChainInfo, HeaderByNumber.
ReadHeight ==
    /\ stage = "height"
    /\ current' = Tip
    /\ stage' = "load"
    /\ UNCHANGED <<chainVars, dbVars, known, snapshot, h, seen, findings, historyVars>>

\* Mutant of ListDepositsByChainAndHeightRange: the lower bound is exclusive.
ListDepositsAbove(low, high) == {d \in rows : low < d.height /\ d.height <= high}

ListDepositsByChainAndHeightRange(low, high) == {d \in rows : low <= d.height /\ d.height <= high}

\* Mutant of LoadRows: the loop starts one block late.
LoadRowsSkipFirst ==
    /\ stage = "load"
    /\ snapshot' = ListDepositsByChainAndHeightRange(MinHeight, current)
    /\ atLoad' = rows
    /\ h' = MinHeight + 1
    /\ stage' = "scan"
    /\ UNCHANGED <<chainVars, dbVars, known, current, seen, findings, failed, shaken>>

LoadRows ==
    /\ stage = "load"
    /\ snapshot' = ListDepositsByChainAndHeightRange(MinHeight, current)
    /\ atLoad' = rows
    /\ h' = MinHeight
    /\ stage' = "scan"
    /\ UNCHANGED <<chainVars, dbVars, known, current, seen, findings, failed, shaken>>

\* Payments of block n to addresses of addrSet.
InBlock(n) == {p \in known : n > 0 /\ place[p] = n}

RowOf(p) == {d \in snapshot : Together(d.pay, p)}

\* Every output (BTC) or transaction (ETH) to a known address, looked up by its
\* transaction.
CompareOutputs ==
    LET found == {p \in InBlock(h) : RowOf(p) # {}}
        differ == {p \in found : \E d \in RowOf(p) : Value[d.pay] # Value[p]}
    IN  /\ seen' = seen \cup {TxOf[p] : p \in found}
        /\ findings' = findings
             \cup [type : {"missing"}, pay : InBlock(h) \ found]
             \cup [type : {"amount_mismatch"}, pay : differ]

ScanETH ==
    /\ Kind = "eth" /\ stage = "scan" /\ h <= current
    /\ CompareOutputs
    /\ h' = h + 1
    /\ UNCHANGED <<chainVars, dbVars, stage, known, current, snapshot, historyVars>>

\* The content of the block is the one its hash was read for.
ScanBTC ==
    /\ Kind = "btc" /\ stage = "scan" /\ h <= current
    /\ CompareOutputs
    /\ h' = h + 1
    /\ UNCHANGED <<chainVars, dbVars, stage, known, current, snapshot, historyVars>>

\* A block that cannot be fetched is passed over.
FetchFails ==
    /\ stage = "scan" /\ h <= current
    /\ failed' = failed \cup {h}
    /\ h' = h + 1
    /\ UNCHANGED <<chainVars, dbVars, stage, known, current, snapshot, seen, findings, shaken, atLoad>>

\* Mutant of Phantoms: rows are looked up by payment.
PhantomsByPayment == {d \in snapshot : d.pay \notin seen}

Phantoms == {d \in snapshot : TxOf[d.pay] \notin seen}

ReportPhantoms ==
    /\ stage = "scan" /\ h > current
    /\ findings' = findings \cup [type : {"phantom"}, pay : {d.pay : d \in Phantoms}]
    /\ stage' = "done"
    /\ UNCHANGED <<chainVars, dbVars, known, current, snapshot, h, seen, historyVars>>

\* A query or the height fails, or the four minutes of the run are over.
GiveUp ==
    /\ stage \in {"height", "load", "scan"}
    /\ stage' = "gone"
    /\ UNCHANGED <<chainVars, dbVars, known, current, snapshot, h, seen, findings, historyVars>>

Next ==
    \/ Grow \/ Reorganise \/ Credit \/ List
    \/ LoadAddresses \/ ReadHeight \/ LoadRows
    \/ ScanBTC \/ ScanETH \/ FetchFails \/ ReportPhantoms \/ GiveUp

Spec == Init /\ [][Next]_vars

-----------------------------------------------------------------------------
(* Properties.                                                             *)

Reported(type) == {f.pay : f \in {g \in findings : g.type = type}}

\* A row reported as phantom has its payment where the row says, only if that
\* block was not fetched, the chain was reorganised during the run, or the
\* address is not in deposit_addresses, as when its insert failed
\* (reconciler.go:141-153, 162, btc.go:69).
PhantomHasCause == \A d \in snapshot :
    d.pay \in Reported("phantom") /\ place[d.pay] = d.height =>
        d.height \in failed \/ shaken \/ d.pay \notin known

\* A payment reported as missing has a row, only if the row was inserted after
\* the snapshot or names a height outside the window (reconciler.go:106-127).
MissingHasCause == \A p \in Reported("missing"), d \in rows :
    Together(d.pay, p) => d \notin atLoad \/ d.height \notin MinHeight .. current

Window == {p \in known : place[p] # 0 /\ place[p] \in MinHeight .. current}

\* A run that fetched every block of a chain that stood still reports exactly
\* what a comparison of the window with the snapshot gives: the outputs without
\* a row of their transaction, those whose row has another amount, and the rows
\* without a payment.
QuietRunIsExact ==
    stage = "done" /\ failed = {} /\ ~shaken =>
        /\ Reported("missing") = {p \in Window : RowOf(p) = {}}
        /\ Reported("amount_mismatch") =
             {p \in Window : \E d \in RowOf(p) : Value[d.pay] # Value[p]}
        /\ Reported("phantom") =
             {d.pay : d \in {e \in snapshot : \A p \in Window : ~Together(e.pay, p)}}

\* The report of a run: phantoms and missing payments have a cause, and a quiet run
\* is exact.
ReportsAreRight == PhantomHasCause /\ MissingHasCause /\ QuietRunIsExact
=============================================================================
