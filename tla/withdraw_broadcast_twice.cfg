\* Manual review: is a withdrawal ever broadcast twice?
SPECIFICATION Spec
CONSTANTS
    r1 = r1
    r2 = r2
    r3 = r3
    v1 = v1
    v2 = v2
    p1 = p1
    p2 = p2
    btc = btc
    eth = eth
    None = None
    User = {1}
    Chain = {btc}
    Level = {0}
    Request = {r1, r2}
    Review = {v1, v2}
    Process = {p1, p2}
    HostOf <- MCHostOf
    ReviewHost <- MCReviewHost
    AutoApprove = {}
    SingleCap <- MCSingleCap
    Limits = {2}
    MaxDeposit = 3
SYMMETRY MCSymmetry
INVARIANTS
    NeverBroadcastTwice
\* the requests and reviews of a run are finitely many
CHECK_DEADLOCK FALSE
