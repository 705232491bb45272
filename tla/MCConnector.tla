----------------------------- MODULE MCConnector -----------------------------
(***************************************************************************)
(* TLC instance of Connector: independent callers and one that calls   *)
(* Get from inside the dial of the first.                                  *)
(***************************************************************************)
EXTENDS Connector

CONSTANTS a, b, r

\* r is called from inside the dial of a; the other calls are independent.
MCDialedFrom == [c \in Calls |-> IF c = r THEN a ELSE NoCall]
=============================================================================
