\* Two requests and two reviews of one account, all amounts of one unit; r1 runs
\* on a replica that approves automatically, r2 and the reviews on one that does
\* not. Levels and limits change meanwhile.
SPECIFICATION Spec
CONSTANTS
    r1 = r1
    r2 = r2
    r3 = r3
    v1 = v1
    v2 = v2
    p1 = p1
    p2 = p2
    btc = btc
    eth = eth
    None = None
    User = {1}
    Chain = {btc}
    Level = {0, 1}
    Request = {r1, r2}
    Review = {v1, v2}
    Process = {p1, p2}
    HostOf <- MCHostOf
    ReviewHost <- MCReviewHost
    AutoApprove = {p2}
    SingleCap <- MCUnitCap
    Limits = {0, 1}
    MaxDeposit = 2
SYMMETRY MCSymmetry
INVARIANTS
    TypeOK
    SectionIsExclusive
    CompletedMeansSent
    DoublePaymentNeedsCause
    CoveredUnlessBlind
    WithinLimitUnlessBlind
PROPERTIES
    SettledStays
\* the requests and reviews of a run are finitely many
CHECK_DEADLOCK FALSE
