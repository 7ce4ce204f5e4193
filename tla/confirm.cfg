\* Two checkers, crashes, expiring leases, a reorganisation.
SPECIFICATION FairSpec
CONSTANTS
    n1 = n1
    n2 = n2
    l1 = l1
    l2 = l2
    l3 = l3
    x = x
    y = y
    None = None
    Node = {n1, n2}
    Lease = {l1, l2}
    Payment = {x}
    TxOf <- MCTxOf
    Required = 2
    MaxHeight = 3
    MaxReorgs = 1
    MaxDepth = 1
    MaxCrashes = 1
INVARIANTS
    LeaderHoldsKey
    OneLeaderUpToExpiry
PROPERTIES
    ImplementsLedger
    DeepIsConfirmed
\* the chain of a run is finite
CHECK_DEADLOCK FALSE
