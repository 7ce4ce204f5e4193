\* One replica that stops and restarts, two payments, blocks it cannot fetch.
SPECIFICATION FairSpec
CONSTANTS
    n1 = n1
    n2 = n2
    x = x
    y = y
    z = z
    None = None
    Node = {n1}
    Payment = {x, y}
    TxOf <- MCTxOf
    MaxHeight = 2
    MaxReorgs = 0
    MaxDepth = 0
    Capacity = 1
    MaxRetries = 2
INVARIANTS
    OfferedIsAccountedFor
    SeenUnlessSkipped
PROPERTIES
    ImplementsLedger
    PaymentSettles
\* the chain of a run is finite
CHECK_DEADLOCK FALSE
