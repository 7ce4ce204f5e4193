\* Two replicas look at the same payment and share the tables; the last block
\* may be replaced.
SPECIFICATION Spec
CONSTANTS
    n1 = n1
    n2 = n2
    x = x
    y = y
    z = z
    None = None
    Node = {n1, n2}
    Payment = {x}
    TxOf <- MCTxOf
    MaxHeight = 2
    MaxReorgs = 1
    MaxDepth = 1
    Capacity = 1
    MaxRetries = 1
SYMMETRY MCSymmetry
PROPERTIES
    ImplementsLedger
\* the chain of a run is finite
CHECK_DEADLOCK FALSE
