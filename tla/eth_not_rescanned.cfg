\* A payment that a reorganisation moves below lastHeight is never looked at.
SPECIFICATION Spec
CONSTANTS
    n1 = n1
    n2 = n2
    x = x
    y = y
    None = None
    Node = {n1}
    Payment = {x}
    TxOf <- MCTxOf
    MaxHeight = 3
    MaxReorgs = 1
    MaxDepth = 2
    Capacity = 1
    MaxRetries = 1
INVARIANTS
    ReplacedIsRescanned
CHECK_DEADLOCK FALSE
