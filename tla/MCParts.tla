------------------------------- MODULE MCParts -------------------------------
(* A small instance of Parts.                                                *)
EXTENDS Parts, TLC

CONSTANTS k1, k2, n1, h1, h2

\* Short ids, the last and the first around the seventh digit, long ones; 1012 and
\* 14669600 have one index.
MCId == {
    <<1>>, <<9>>, <<1, 0>>, <<2, 7>>, <<3, 0>>, <<9, 9>>, <<1, 0, 1, 2>>,
    <<9, 9, 9, 9, 9, 9>>, <<1, 0, 0, 0, 0, 0, 0>>, <<9, 9, 9, 9, 9, 9, 9>>,
    <<1, 4, 6, 6, 9, 6, 0, 0>>}
=============================================================================
