---------------------------- MODULE BaseTransport ----------------------------
(***************************************************************************)
(* The state machine every remote DNS transport is built on                *)
(* (dns/transport/base.go): it admits queries between Start and Close, and *)
(* Close waits, up to a timeout, for the queries in flight.                *)
(*                                                                         *)
(* A step is one section under t.mutex, one call of closeCancel, or the    *)
(* choice a select makes.                                                  *)
(***************************************************************************)
EXTENDS Naturals, FiniteSets

CONSTANTS
    Workers,  \* the goroutines that run queries, one at a time each
    Closers   \* the goroutines that call Close

ASSUME BaseAssumption == IsFiniteSet(Workers)

VARIABLES
    state,            \* t.state
    inFlight,         \* t.inFlight
    queriesComplete,  \* "nil", "open": t.queriesComplete is set, "closed": it was closed
    closeCtxDone,     \* closeCancel has been called
    query,            \* is a worker between BeginQuery and EndQuery
    closer            \* where each call of Shutdown is

baseVars == <<state, inFlight, queriesComplete, closeCtxDone, query, closer>>

\* "cancel" and "cancelWait" have left the mutex and are about to call
\* closeCancel; "waiting" is the select; "returned" and "timedOut" the results.
CloserStates == {"idle", "cancel", "cancelWait", "waiting", "returned", "timedOut"}

BaseTypeOK ==
    /\ state \in {"new", "started", "closing", "closed"}
    /\ inFlight \in Nat
    /\ queriesComplete \in {"nil", "open", "closed"}
    /\ closeCtxDone \in BOOLEAN
    /\ query \in [Workers -> {"idle", "running"}]
    /\ closer \in [Closers -> CloserStates]

BaseInit ==
    /\ state = "new"
    /\ inFlight = 0
    /\ queriesComplete = "nil"
    /\ closeCtxDone = FALSE
    /\ query = [w \in Workers |-> "idle"]
    /\ closer = [c \in Closers |-> "idle"]

\* Started again is no change, started after Close an error.
SetStarted ==
    /\ state = "new"
    /\ state' = "started"
    /\ UNCHANGED <<inFlight, queriesComplete, closeCtxDone, query, closer>>

\* Mutant: queries are admitted until the transport is closed.
AdmitsWhileClosing == state \in {"started", "closing"}

\* t.state == StateStarted
Admits == state = "started"

\* A query refused by BeginQuery changes nothing.
BeginQuery(w) ==
    /\ query[w] = "idle"
    /\ Admits
    /\ inFlight' = inFlight + 1
    /\ query' = [query EXCEPT ![w] = "running"]
    /\ UNCHANGED <<state, queriesComplete, closeCtxDone, closer>>

\* Mutant: the waiting Shutdown is not told.
NeverComplete(n) == FALSE

\* t.inFlight == 0 && t.queriesComplete != nil, after the decrement
Complete(n) == n = 0 /\ queriesComplete = "open"

EndQuery(w) ==
    /\ query[w] = "running"
    /\ inFlight' = IF inFlight > 0 THEN inFlight - 1 ELSE inFlight
    /\ queriesComplete' = IF Complete(inFlight') THEN "closed" ELSE queriesComplete
    /\ query' = [query EXCEPT ![w] = "idle"]
    /\ UNCHANGED <<state, closeCtxDone, closer>>

\* The section of Shutdown under the mutex.
ShutdownBegins(c) ==
    /\ closer[c] = "idle"
    /\ \/ /\ state \in {"closing", "closed"}
          /\ closer' = [closer EXCEPT ![c] = "returned"]
          /\ UNCHANGED <<state, queriesComplete>>
       \/ /\ state = "new" \/ (state = "started" /\ inFlight = 0)
          /\ state' = "closed"
          /\ closer' = [closer EXCEPT ![c] = "cancel"]
          /\ UNCHANGED queriesComplete
       \/ /\ state = "started" /\ inFlight # 0
          /\ state' = "closing"
          /\ queriesComplete' = "open"
          /\ closer' = [closer EXCEPT ![c] = "cancelWait"]
    /\ UNCHANGED <<inFlight, closeCtxDone, query>>

\* Mutant: the queries are waited for without being told.
CancelForgotten(c) ==
    /\ closer[c] \in {"cancel", "cancelWait"}
    /\ closer' = [closer EXCEPT ![c] = IF @ = "cancel" THEN "returned" ELSE "waiting"]
    /\ UNCHANGED <<state, inFlight, queriesComplete, closeCtxDone, query>>

\* closeCancel(), after the mutex is released.
CloseCancel(c) ==
    /\ closer[c] \in {"cancel", "cancelWait"}
    /\ closeCtxDone' = TRUE
    /\ closer' = [closer EXCEPT ![c] = IF @ = "cancel" THEN "returned" ELSE "waiting"]
    /\ UNCHANGED <<state, inFlight, queriesComplete, query>>

\* The select of Shutdown: the queries are complete, or the timeout passes.
ShutdownDrained(c) ==
    /\ closer[c] = "waiting"
    /\ queriesComplete = "closed"
    /\ state' = "closed"
    /\ closer' = [closer EXCEPT ![c] = "returned"]
    /\ UNCHANGED <<inFlight, queriesComplete, closeCtxDone, query>>

ShutdownTimesOut(c) ==
    /\ closer[c] = "waiting"
    /\ state' = "closed"
    /\ closer' = [closer EXCEPT ![c] = "timedOut"]
    /\ UNCHANGED <<inFlight, queriesComplete, closeCtxDone, query>>

ShutdownStep(c) == ShutdownBegins(c) \/ CloseCancel(c) \/ ShutdownDrained(c)

BaseNext ==
    \/ SetStarted
    \/ \E w \in Workers : BeginQuery(w) \/ EndQuery(w)
    \/ \E c \in Closers : ShutdownStep(c) \/ ShutdownTimesOut(c)

BaseSpec == BaseInit /\ [][BaseNext]_baseVars

-----------------------------------------------------------------------------
(* Properties.                                                             *)

Running == {w \in Workers : query[w] = "running"}

\* The counter is the number of queries in flight, so it never underflows:
\* its guard in EndQuery is never needed.
CounterExact == inFlight = Cardinality(Running)

\* No lost wakeup: while Shutdown waits or is about to, its channel is closed
\* as soon as no query is left.
DrainSignalled ==
    \A c \in Closers : closer[c] \in {"cancelWait", "waiting"} =>
        queriesComplete = IF Running = {} THEN "closed" ELSE "open"

\* A closed transport is quiet: unless Shutdown ran into its timeout, no
\* query is in flight once the state is closed, and none will be.
ClosedIsQuiet ==
    state = "closed" /\ (\A c \in Closers : closer[c] # "timedOut") => Running = {}

\* At most one Shutdown waits; the channel it waits on was made when it
\* entered the closing state, with queries in flight; a new transport has
\* none.
ClosersInv ==
    /\ \A c, d \in Closers :
        closer[c] \in {"cancelWait", "waiting"} /\ closer[d] \in {"cancelWait", "waiting"} => c = d
    /\ state = "closing" <=> \E c \in Closers : closer[c] \in {"cancelWait", "waiting"}
    /\ state = "new" => inFlight = 0
    /\ state \in {"new", "started"} => queriesComplete = "nil"
    /\ queriesComplete = "open" => inFlight # 0

BaseInv == BaseTypeOK /\ CounterExact /\ DrainSignalled /\ ClosedIsQuiet /\ ClosersInv
=============================================================================
