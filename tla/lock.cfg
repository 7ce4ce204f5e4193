\* Three callers on two replicas, two keys: safety and refinement.
SPECIFICATION FairSpec
CONSTANTS
    s1 = s1
    s2 = s2
    s3 = s3
    k1 = k1
    k2 = k2
    p1 = p1
    p2 = p2
    None = None
    Session = {s1, s2, s3}
    Key = {k1, k2}
    Process = {p1, p2}
    HostOf <- MCHostOf
INVARIANTS
    GuardIsLive
    HolderOwns
    MutualExclusion
PROPERTIES
    ImplementsUserLock
    KeyIsFreedAgain
\* every session ends in "done": the requests of a run are finitely many
CHECK_DEADLOCK FALSE
