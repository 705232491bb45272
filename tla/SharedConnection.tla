--------------------------- MODULE SharedConnection ---------------------------
(***************************************************************************)
(* What the connector of a DNS transport promises its users: one slot for  *)
(* one connection, one dial at a time, and nothing left open outside them. *)
(* A connection is named by the call of Get that dialed it.                *)
(***************************************************************************)
CONSTANTS Calls, NoCall

VARIABLES
    slot,    \* the connection handed to every caller, or NoCall
    flight,  \* the call whose dial is under way, or NoCall
    open,    \* the connections that are open
    shut     \* the connector has been closed

vars == <<slot, flight, open, shut>>

Init ==
    /\ slot = NoCall
    /\ flight = NoCall
    /\ open = {}
    /\ shut = FALSE

\* A caller that finds the slot empty or dead empties it ...
Forget ==
    /\ slot \notin open
    /\ ~shut
    /\ slot' = NoCall
    /\ UNCHANGED <<flight, open, shut>>

\* ... and may start the only dial.
Launch(c) ==
    /\ slot \notin open
    /\ ~shut
    /\ flight = NoCall
    /\ flight' = c
    /\ slot' = NoCall
    /\ UNCHANGED <<open, shut>>

\* The dial under way produces its connection.
Establish(c) ==
    /\ flight = c
    /\ open' = open \cup {c}
    /\ UNCHANGED <<slot, flight, shut>>

\* The dial ends and its connection becomes the shared one.
Install(c) ==
    /\ flight = c
    /\ ~shut
    /\ slot' = c
    /\ flight' = NoCall
    /\ UNCHANGED <<open, shut>>

\* The dial ends without a connection, or with one nobody wants any more.
Discard(c) ==
    /\ flight = c
    /\ flight' = NoCall
    /\ open' = open \ {c}
    /\ UNCHANGED <<slot, shut>>

Die(c) ==
    /\ open' = open \ {c}
    /\ UNCHANGED <<slot, flight, shut>>

Drop ==
    /\ slot' = NoCall
    /\ open' = open \ {slot}
    /\ UNCHANGED <<flight, shut>>

Shut ==
    /\ shut' = TRUE
    /\ slot' = NoCall
    /\ open' = open \ {slot}
    /\ UNCHANGED flight

Next ==
    \/ Forget \/ Drop \/ Shut
    \/ \E c \in Calls :
        Launch(c) \/ Establish(c) \/ Install(c) \/ Discard(c) \/ Die(c)

Spec == Init /\ [][Next]_vars
=============================================================================
