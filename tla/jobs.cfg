\* Two withdrawals beside a sweep (ETH) or two (BTC); a window of two blocks.
SPECIFICATION JobsSpec
CONSTANTS
    w1 = w1
    w2 = w2
    s1 = s1
    s2 = s2
    None = None
    Withdrawal = {w1, w2}
    Sweep = {s1}
    Price = {1, 2, 3}
    MaxGasPrice = 2
    Keep = 2
    Amount = {1, 3}
    MaxFunds = 7
    Fee = {1, 2}
    FeeBuffer = 1
    SweepBTC = {s1, s2}
    p1 = p1
    p2 = p2
    Payment = {p1, p2}
    TxOf <- MCTxOf
    Value <- MCValue
    Depth = 1
    MaxHeight = 3
    MaxReorgs = 1
    MaxDepth = 2
SYMMETRY MCSymmetry
INVARIANTS
    DisplacedByRivalOnly
    NoNonceGap
    ReportsAreRight
PROPERTIES
    SweepsLeaveKeep
\* every transfer is made once, and the chain is bounded
CHECK_DEADLOCK FALSE
