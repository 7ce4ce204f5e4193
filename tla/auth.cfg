\* One user and many requests, or two users and fewer.
SPECIFICATION Spec
CONSTANTS
    u1 = u1
    u2 = u2
    s1 = s1
    s2 = s2
    l1 = l1
    l2 = l2
    f1 = f1
    f2 = f2
    o1 = o1
    g1 = g1
    x1 = x1
    x2 = x2
    None = None
    User = {u1, u2}
    SignUp = {s1, s2}
    Login = {l1, l2}
    Refresh = {f1, f2}
    Logout = {o1}
    Forgot = {g1}
    Reset = {x1, x2}
    Rounds <- MCRounds
SYMMETRY MCSymmetry
INVARIANTS
    StaleSessionHasCause
    NeverLockedOut
    LinkSpentTwiceHasCause
PROPERTIES
    ImplementsSessions
\* every request is made once
CHECK_DEADLOCK FALSE
