--------------------------- MODULE MCURLTestGroup ---------------------------
(* Small instances of URLTestGroup for TLC.                                *)
EXTENDS URLTestGroup, TLC

CONSTANTS x, g, y, c1, l1, l2

\* An outbound x and a nested group g that stands for y.
Pair == <<x, g>>
MCRealTag == (x :> x) @@ (g :> y)

\* Both support TCP only.
TCPOnly == (x :> {"tcp"}) @@ (g :> {"tcp"})

\* x is better than y by no more than a tolerance of 1, or worse by more.
NearAndFar == (x :> {2, 5}) @@ (y :> {3}) @@ (g :> {})
=============================================================================
