----------------------------- MODULE MCSelector -----------------------------
(* Small instances of Selector for TLC.                                    *)
EXTENDS Selector, TLC

CONSTANTS c, x, y, u1, u2

AnyKind == c :> {"stream", "packet", "internal"}
=============================================================================
