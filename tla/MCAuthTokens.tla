---------------------------- MODULE MCAuthTokens ----------------------------
(* Small instances of AuthTokens.                                            *)
EXTENDS AuthTokens, TLC

CONSTANTS u1, u2, s1, s2, l1, l2, f1, f2, o1, g1, x1, x2

\* A session renewed up to twice, a logout and a reset; two resets by one link;
\* or two users, the tokens of both, and a reset.
MCRounds == {
    {s1, l1, f1, f2, o1, g1, x1},
    {s1, l1, f1, o1, g1, x1, x2},
    {s1, s2, l1, l2, f1, g1, x1}}

\* Users are interchangeable, and so are requests to one handler.
MCSymmetry == Permutations(User) \cup Permutations(Refresh) \cup Permutations(Reset)
=============================================================================
