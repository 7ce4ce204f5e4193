\* One replica; the chain is reorganised once, up to two blocks deep.
SPECIFICATION FairSpec
CONSTANTS
    n1 = n1
    n2 = n2
    x = x
    y = y
    None = None
    Node = {n1}
    Payment = {x}
    TxOf <- MCTxOf
    MaxHeight = 2
    MaxReorgs = 1
    MaxDepth = 2
    Capacity = 1
    MaxRetries = 1
INVARIANTS
    NoHeightSkipped
    SeenUnlessReplaced
    AlarmHasCause
PROPERTIES
    ImplementsLedger
    CatchesUp
\* the chain of a run is finite
CHECK_DEADLOCK FALSE
