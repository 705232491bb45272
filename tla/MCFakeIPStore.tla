---------------------------- MODULE MCFakeIPStore ----------------------------
(* Small instances of FakeIPStore for TLC.                                 *)
EXTENDS FakeIPStore, TLC

CONSTANTS c1, c2, d1, d2, d3

\* Two usable addresses in the first range, one in the other two; the second
\* is written with host bits and lies above the first.
Narrow == [net |-> 0, addr |-> 0, last |-> 4]
Moved  == [net |-> 3, addr |-> 4, last |-> 7]
Tiny   == [net |-> 0, addr |-> 0, last |-> 3]

\* IPv4 alone, then IPv4 elsewhere together with IPv6.
MovedAndTiny == {("4" :> Narrow) @@ ("6" :> None), ("4" :> Moved) @@ ("6" :> Tiny)}

Symmetry == Permutations(Clients) \cup Permutations(Domains)
=============================================================================
