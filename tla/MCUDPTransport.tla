--------------------------- MODULE MCUDPTransport ---------------------------
(* Small instances of UDPTransport for TLC.                                *)
EXTENDS UDPTransport, TLC

CONSTANTS w1, w2, c1, c2, k1, k2

\* One worker asks for a larger UDP size than the other.
OneLarge == (w1 :> 1) @@ (w2 :> 2)
AllSmall == [w \in Workers |-> 1]

ConnSymmetry == Permutations(Conns) \cup Permutations(Closers)
=============================================================================
