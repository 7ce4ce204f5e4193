\* Two clients; a token takes two ticks, a bucket holds two tokens.  One replica
\* that stops and starts again, two changes of each key.  Addresses for two of
\* eleven users; up to five branches.  Floats of eight bits, rows of two decimals,
\* requests four times as fine.
SPECIFICATION PartsSpec
CONSTANTS
    k1 = k1
    k2 = k2
    None = None
    Key = {k1, k2}
    Cost = 2
    Capacity = 4
    Idle = 3
    MaxTime = 10
    n1 = n1
    h1 = h1
    h2 = h2
    Env = Env
    Empty = Empty
    Node = {n1}
    Host = {h1, h2}
    MaxWrites = 2
    MaxBoots = 2
    Id <- MCId
    MaxUsers = 2
    MaxBranches = 5
    Precision = 8
    Scale = 100
    Finer = 4
    Exponent = 18
    MaxUnits = 36
    Single = 30
    DailyLimit = 33
INVARIANTS
    CurrentUnlessMissed
    AddressesAreRight
    RoundingIsHarmless
PROPERTIES
    ImplementsTokenBucket
    RotationIsSafe
    WatchedIsUsed
\* the clock, the changes, the starts and the lengths of a run are bounded
CHECK_DEADLOCK FALSE
