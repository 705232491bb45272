------------------------------ MODULE Connector ------------------------------
(***************************************************************************)
(* The singleflight connector of the DNS transports                        *)
(* (dns/transport/connector.go).  Any number of goroutines ask for the one *)
(* shared connection through Get; the first one that finds none dials, the *)
(* others wait on the dial's channel.  Close and Reset may run at any      *)
(* moment, and so may the cancellation of a caller's context, the          *)
(* cancellation of the transport's context and the death of a connection.  *)
(*                                                                         *)
(* A Get call dials at most once, because it returns right after its dial. *)
(* So one identifier, an element of Calls, names the call, the channel it  *)
(* stores in c.connecting, the goroutine that dials for it, the context of *)
(* its connection and the connection itself.  A step is one section under  *)
(* c.access, or one step of a goroutine that takes no lock.                *)
(***************************************************************************)
EXTENDS Naturals, FiniteSets

CONSTANTS
    Calls,      \* the calls of Get
    NoCall,     \* the nil channel, the nil cancel function, no connection
    DialedFrom  \* the call whose dial context a call carries, or NoCall

ASSUME CallsAssumption ==
    /\ NoCall \notin Calls
    /\ DialedFrom \in [Calls -> Calls \cup {NoCall}]

VARIABLES
    connection,        \* c.connection, by the call that dialed it
    hasConnection,     \* c.hasConnection
    connectionCancel,  \* c.connectionCancel
    connecting,        \* c.connecting
    closed,            \* c.closed
    closeCtxDone,      \* the transport's context has been cancelled
    ctxDone,           \* the calls whose own context is done
    released,          \* the connecting channels that have been closed
    pc,                \* where each call of Get is
    waitOn,            \* the channel a waiting call selects on
    result,            \* what a call of Get returned
    dial,              \* the goroutine that runs dialWithCancellation
    connCtx,           \* the context made for the dialed connection
    conn               \* the connection a dial produced

connectorVars == <<connection, hasConnection, connectionCancel, connecting, closed>>
callVars == <<pc, waitOn, result>>
envVars  == <<closeCtxDone, ctxDone>>
vars == <<connectorVars, callVars, envVars, released, dial, connCtx, conn>>

(***************************************************************************)
(* "fetch" is a call about to take c.access, "wait" one that selects on    *)
(* another call's channel, "dialing" one that selects on its own dial's    *)
(* result, "left" one that has returned but left a goroutine behind to     *)
(* complete its dial.                                                      *)
(***************************************************************************)
Positions == {"idle", "fetch", "wait", "dialing", "left", "done"}
Results == {"none", "closed", "canceled", "recursive", "failed", "ok"}

(***************************************************************************)
(* "spawned": not yet run; "running": inside c.dial; "returned": c.dial    *)
(* has returned but dialComplete is not set; "ready" and "error": the      *)
(* result is in the buffered channel; "taken": completeDial has used it.   *)
(***************************************************************************)
DialStates == {"none", "spawned", "running", "returned", "ready", "error", "taken"}

TypeOK ==
    /\ connection \in Calls \cup {NoCall}
    /\ hasConnection \in BOOLEAN
    /\ connectionCancel \in Calls \cup {NoCall}
    /\ connecting \in Calls \cup {NoCall}
    /\ closed \in BOOLEAN
    /\ closeCtxDone \in BOOLEAN
    /\ ctxDone \in SUBSET Calls
    /\ released \in SUBSET Calls
    /\ pc \in [Calls -> Positions]
    /\ waitOn \in [Calls -> Calls \cup {NoCall}]
    /\ result \in [Calls -> Results]
    /\ dial \in [Calls -> DialStates]
    /\ connCtx \in [Calls -> {"none", "live", "canceled"}]
    /\ conn \in [Calls -> {"none", "open", "closed"}]

Init ==
    /\ connection = NoCall
    /\ hasConnection = FALSE
    /\ connectionCancel = NoCall
    /\ connecting = NoCall
    /\ closed = FALSE
    /\ closeCtxDone = FALSE
    /\ ctxDone = {}
    /\ released = {}
    /\ pc = [c \in Calls |-> "idle"]
    /\ waitOn = [c \in Calls |-> NoCall]
    /\ result = [c \in Calls |-> "none"]
    /\ dial = [c \in Calls |-> "none"]
    /\ connCtx = [c \in Calls |-> "none"]
    /\ conn = [c \in Calls |-> "none"]

-----------------------------------------------------------------------------
(* The operators of the code.                                              *)

\* c.connectionCancel(): cancel the context of call d's connection.
Cancel(ctxs, d) == IF d = NoCall THEN ctxs ELSE [ctxs EXCEPT ![d] = "canceled"]

\* Mutant: the connection is forgotten without being closed.
CloseConnForgotten(conns, d) == conns

\* callbacks.Close and callbacks.Reset: closing is idempotent (closeOnce).
CloseConn(conns, d) == [conns EXCEPT ![d] = "closed"]

\* c.hasConnection && !c.callbacks.IsClosed(c.connection)
Usable == hasConnection /\ conn[connection] # "closed"

\* Mutant: the connecting key of the context is not looked at.
NeverRecursive(c) == FALSE

\* The connector's own dial is below this call on the context chain.
isRecursiveConnectorDial(c) == DialedFrom[c] # NoCall

\* A call whose context hangs off a dial is done when that dial's is.
CtxErr(c) ==
    \/ c \in ctxDone
    \/ DialedFrom[c] # NoCall /\ connCtx[DialedFrom[c]] = "canceled"

\* Mutant: every miss starts a dial of its own.
NoDialUnderWay == FALSE

\* c.connecting != nil
DialUnderWay == connecting # NoCall

Return(c, r) ==
    /\ pc' = [pc EXCEPT ![c] = "done"]
    /\ result' = [result EXCEPT ![c] = r]
    /\ UNCHANGED waitOn

-----------------------------------------------------------------------------
(* Get.                                                                    *)

\* A caller enters Get: at any time, or from inside the dial it hangs off.
CallGet(c) ==
    /\ pc[c] = "idle"
    /\ DialedFrom[c] # NoCall => dial[DialedFrom[c]] = "running"
    /\ pc' = [pc EXCEPT ![c] = "fetch"]
    /\ UNCHANGED <<connectorVars, waitOn, result, envVars, released, dial, connCtx, conn>>

\* The section under c.access finds the connector closed.
GetClosed(c) ==
    /\ pc[c] = "fetch"
    /\ closed
    /\ Return(c, "closed")
    /\ UNCHANGED <<connectorVars, envVars, released, dial, connCtx, conn>>

\* The section finds a live connection and returns it.
GetCached(c) ==
    /\ pc[c] = "fetch"
    /\ ~closed /\ Usable
    /\ Return(c, "ok")
    /\ UNCHANGED <<connectorVars, envVars, released, dial, connCtx, conn>>

\* The section finds none: it drops the stale one and refuses a recursive
\* call, joins the dial under way, gives up, or starts a dial.
GetMiss(c) ==
    /\ pc[c] = "fetch"
    /\ ~closed /\ ~Usable
    /\ hasConnection' = FALSE
    /\ connectionCancel' = NoCall
    /\ connCtx' = Cancel(connCtx, connectionCancel)
    /\ \/ /\ isRecursiveConnectorDial(c)
          /\ Return(c, "recursive")
          /\ UNCHANGED <<connecting, dial>>
       \/ /\ ~isRecursiveConnectorDial(c)
          /\ DialUnderWay
          /\ pc' = [pc EXCEPT ![c] = "wait"]
          /\ waitOn' = [waitOn EXCEPT ![c] = connecting]
          /\ UNCHANGED <<connecting, dial, result>>
       \/ /\ ~isRecursiveConnectorDial(c)
          /\ ~DialUnderWay
          /\ CtxErr(c)
          /\ Return(c, "canceled")
          /\ UNCHANGED <<connecting, dial>>
       \/ /\ ~isRecursiveConnectorDial(c)
          /\ ~DialUnderWay
          /\ ~CtxErr(c)
          /\ connecting' = c
          /\ dial' = [dial EXCEPT ![c] = "spawned"]
          /\ pc' = [pc EXCEPT ![c] = "dialing"]
          /\ UNCHANGED <<waitOn, result>>
    /\ UNCHANGED <<connection, closed, envVars, released, conn>>

\* The select of a waiting call: the channel is closed and the loop runs again.
WaitReleased(c) ==
    /\ pc[c] = "wait"
    /\ waitOn[c] \in released
    /\ pc' = [pc EXCEPT ![c] = "fetch"]
    /\ UNCHANGED <<connectorVars, waitOn, result, envVars, released, dial, connCtx, conn>>

\* ... or the caller's context is done, or the transport's.
WaitGivesUp(c) ==
    /\ pc[c] = "wait"
    /\ \/ CtxErr(c) /\ Return(c, "canceled")
       \/ closeCtxDone /\ Return(c, "closed")
    /\ UNCHANGED <<connectorVars, envVars, released, dial, connCtx, conn>>

\* The select of a dialing call: a context is done first, and the call
\* returns, leaving a goroutine that will complete the dial.
DialGivesUp(c) ==
    /\ pc[c] = "dialing"
    /\ \/ CtxErr(c) /\ result' = [result EXCEPT ![c] = "canceled"]
       \/ closeCtxDone /\ result' = [result EXCEPT ![c] = "closed"]
    /\ pc' = [pc EXCEPT ![c] = "left"]
    /\ UNCHANGED <<connectorVars, waitOn, envVars, released, dial, connCtx, conn>>

-----------------------------------------------------------------------------
(* dialWithCancellation.                                                   *)

\* The goroutine starts: the context is done and it does not dial ...
DialRefused(c) ==
    /\ dial[c] = "spawned"
    /\ CtxErr(c)
    /\ dial' = [dial EXCEPT ![c] = "error"]
    /\ UNCHANGED <<connectorVars, callVars, envVars, released, connCtx, conn>>

\* ... or it makes the connection's context, a child of closeCtx, and dials.
DialBegins(c) ==
    /\ dial[c] = "spawned"
    /\ ~CtxErr(c)
    /\ connCtx' = [connCtx EXCEPT ![c] = IF closeCtxDone THEN "canceled" ELSE "live"]
    /\ dial' = [dial EXCEPT ![c] = "running"]
    /\ UNCHANGED <<connectorVars, callVars, envVars, released, conn>>

\* dialComplete is unset: stopCancel has not been reached.
AfterFuncArmed(c) == dial[c] \in {"running", "returned"}

\* The context.AfterFunc of the caller's context, while dialComplete is unset.
AfterFuncCancels(c) ==
    /\ AfterFuncArmed(c)
    /\ CtxErr(c)
    /\ connCtx[c] = "live"
    /\ connCtx' = Cancel(connCtx, c)
    /\ UNCHANGED <<connectorVars, callVars, envVars, released, dial, conn>>

\* No call made from inside this dial is still under way.
DialIsIdle(c) == \A d \in Calls : DialedFrom[d] = c => pc[d] \in {"idle", "done"}

\* c.dial returns a connection: a late success is possible under a
\* cancelled context.
DialReturns(c) ==
    /\ dial[c] = "running"
    /\ DialIsIdle(c)
    /\ dial' = [dial EXCEPT ![c] = "returned"]
    /\ conn' = [conn EXCEPT ![c] = "open"]
    /\ UNCHANGED <<connectorVars, callVars, envVars, released, connCtx>>

\* c.dial returns an error: dialComplete is set and the context cancelled.
DialFails(c) ==
    /\ dial[c] = "running"
    /\ DialIsIdle(c)
    /\ dial' = [dial EXCEPT ![c] = "error"]
    /\ connCtx' = Cancel(connCtx, c)
    /\ UNCHANGED <<connectorVars, callVars, envVars, released, conn>>

\* dialComplete is set and the connection sent to the result channel.
DialPublishes(c) ==
    /\ dial[c] = "returned"
    /\ dial' = [dial EXCEPT ![c] = "ready"]
    /\ UNCHANGED <<connectorVars, callVars, envVars, released, connCtx, conn>>

-----------------------------------------------------------------------------
(* completeDial: one section under c.access, run by the call itself or by  *)
(* the goroutine it left behind.                                           *)

\* Mutant: the channel is forgotten and never closed.
ReleaseNobody(c) ==
    /\ connecting' = IF connecting = c THEN NoCall ELSE connecting
    /\ dial' = [dial EXCEPT ![c] = "taken"]
    /\ UNCHANGED released

\* The deferred function: forget the channel and close it.
ReleaseWaiters(c) ==
    /\ connecting' = IF connecting = c THEN NoCall ELSE connecting
    /\ released' = released \cup {c}
    /\ dial' = [dial EXCEPT ![c] = "taken"]

\* What the call returns; a call that has left has returned already.
CompleteReturns(c, r) ==
    /\ pc' = [pc EXCEPT ![c] = "done"]
    /\ result' = [result EXCEPT ![c] = IF pc[c] = "dialing" THEN r ELSE @]
    /\ UNCHANGED waitOn

\* Mutant: the check of the caller's context after the dial is missing.
DiscardIgnoringCaller(c) == closed \/ closeCtxDone

\* c.closed || c.closeCtx.Err() != nil, and then ctx.Err() != nil
MustDiscard(c) == closed \/ closeCtxDone \/ CtxErr(c)

CompleteError(c) ==
    /\ pc[c] \in {"dialing", "left"}
    /\ dial[c] = "error"
    /\ ReleaseWaiters(c)
    /\ CompleteReturns(c, "failed")
    /\ UNCHANGED <<connection, hasConnection, connectionCancel, closed, envVars, connCtx, conn>>

CompleteDiscards(c) ==
    /\ pc[c] \in {"dialing", "left"}
    /\ dial[c] = "ready"
    /\ MustDiscard(c)
    /\ ReleaseWaiters(c)
    /\ connCtx' = Cancel(connCtx, c)
    /\ conn' = CloseConn(conn, c)
    /\ CompleteReturns(c, IF closed \/ closeCtxDone THEN "closed" ELSE "canceled")
    /\ UNCHANGED <<connection, hasConnection, connectionCancel, closed, envVars>>

CompleteInstalls(c) ==
    /\ pc[c] \in {"dialing", "left"}
    /\ dial[c] = "ready"
    /\ ~MustDiscard(c)
    /\ ReleaseWaiters(c)
    /\ connection' = c
    /\ hasConnection' = TRUE
    /\ connectionCancel' = c
    /\ CompleteReturns(c, "ok")
    /\ UNCHANGED <<closed, envVars, connCtx, conn>>

-----------------------------------------------------------------------------
(* Close, Reset, and what happens outside the connector.                   *)

\* Close and Reset both cancel the context, close the connection, forget it.
DropConnection ==
    /\ connectionCancel' = NoCall
    /\ connCtx' = Cancel(connCtx, connectionCancel)
    /\ conn' = IF hasConnection THEN CloseConn(conn, connection) ELSE conn
    /\ hasConnection' = FALSE

Close ==
    /\ ~closed
    /\ closed' = TRUE
    /\ DropConnection
    /\ UNCHANGED <<connection, connecting, callVars, envVars, released, dial>>

Reset ==
    /\ DropConnection
    /\ UNCHANGED <<connection, connecting, closed, callVars, envVars, released, dial>>

\* closeCancel of the transport: every connection context is its child.
CloseCtxCancelled ==
    /\ ~closeCtxDone
    /\ closeCtxDone' = TRUE
    /\ connCtx' = [c \in Calls |-> IF connCtx[c] = "live" THEN "canceled" ELSE connCtx[c]]
    /\ UNCHANGED <<connectorVars, callVars, ctxDone, released, dial, conn>>

\* The caller cancels or its deadline passes.
CtxCancelled(c) ==
    /\ c \notin ctxDone
    /\ ctxDone' = ctxDone \cup {c}
    /\ UNCHANGED <<connectorVars, callVars, closeCtxDone, released, dial, connCtx, conn>>

\* A read or write fails and the transport calls conn.CloseWithError.
ConnectionDies(c) ==
    /\ conn[c] = "open"
    /\ conn' = CloseConn(conn, c)
    /\ UNCHANGED <<connectorVars, callVars, envVars, released, dial, connCtx>>

-----------------------------------------------------------------------------
Caller(c) ==
    \/ GetClosed(c) \/ GetCached(c) \/ GetMiss(c)
    \/ WaitReleased(c) \/ WaitGivesUp(c) \/ DialGivesUp(c)
    \/ CompleteError(c) \/ CompleteDiscards(c) \/ CompleteInstalls(c)

Dialer(c) ==
    \/ DialRefused(c) \/ DialBegins(c) \/ AfterFuncCancels(c)
    \/ DialReturns(c) \/ DialFails(c) \/ DialPublishes(c)

Environment ==
    \/ Close \/ Reset \/ CloseCtxCancelled
    \/ \E c \in Calls : CallGet(c) \/ CtxCancelled(c) \/ ConnectionDies(c)

Next == Environment \/ \E c \in Calls : Caller(c) \/ Dialer(c)

Spec == Init /\ [][Next]_vars

\* Goroutines that can run do run, and a dial ends: its context carries the
\* caller's deadline.
Fairness == \A c \in Calls : WF_vars(Caller(c)) /\ WF_vars(Dialer(c))

FairSpec == Spec /\ Fairness

-----------------------------------------------------------------------------
(* Properties.                                                             *)

\* The dial of call c has begun and completeDial has not used its result.
InFlight(c) == dial[c] \notin {"none", "taken"}

\* Singleflight: however Get, Close, Reset and the goroutines that callers
\* leave behind interleave, at most one connection is open, so a transport
\* never holds two sockets to its server.
AtMostOneOpen ==
    \A c, d \in Calls : conn[c] = "open" /\ conn[d] = "open" => c = d

\* No leak: an open connection is the cached one or belongs to the dial in
\* flight, whose completion will install it or close it.
NoOrphanConnection ==
    \A c \in Calls : conn[c] = "open" =>
        \/ hasConnection /\ connection = c
        \/ connecting = c /\ InFlight(c)

\* Once Close has run and no dial is in flight, no connection is open, even
\* when a dial started before Close succeeded after it.
CloseLeavesNothing ==
    closed /\ connecting = NoCall => \A c \in Calls : conn[c] # "open"

\* The context of the cached connection is alive until the transport's is
\* cancelled: the AfterFunc of a caller that gives up during the dial never
\* cancels the context of a connection that ends up shared.
CachedContextLive ==
    hasConnection /\ ~closeCtxDone =>
        connCtx[connection] = "live" /\ connectionCancel = connection

\* No lost wakeup: a waiting call waits on the dial in flight, or on a
\* channel that is already closed.
NoLostWakeup ==
    \A c \in Calls : pc[c] = "wait" =>
        waitOn[c] \in released \/ (waitOn[c] = connecting /\ InFlight(connecting))

\* A Get made from inside the connector's own dial is refused, never parked
\* behind that dial and never served.
RecursiveGetRefused ==
    \A c \in Calls : DialedFrom[c] # NoCall =>
        /\ pc[c] \in {"idle", "fetch", "done"}
        /\ result[c] \in {"none", "recursive", "closed"}

\* The inductive invariant behind the safety properties.  A dial in flight
\* belongs to the call stored in connecting, which never hangs off another
\* dial, and excludes a cached connection ...
FlightInv ==
    /\ \A c \in Calls : InFlight(c) <=> connecting = c
    /\ \A c \in Calls : InFlight(c) <=> pc[c] \in {"dialing", "left"}
    /\ \A c \in Calls : pc[c] \in {"idle", "fetch", "wait"} => dial[c] = "none"
    /\ connecting # NoCall => ~hasConnection

\* ... the cached connection has the context and the cancel function of its
\* own dial ...
CacheInv ==
    /\ closed => ~hasConnection
    /\ IF hasConnection
       THEN /\ connection \in Calls
            /\ connectionCancel = connection
            /\ dial[connection] = "taken"
            /\ closeCtxDone \/ connCtx[connection] = "live"
       ELSE connectionCancel = NoCall

\* ... and the context of a dial is cancelled only on behalf of its caller
\* or of the transport.
DialInv ==
    /\ \A c \in Calls : conn[c] = "open" =>
            (hasConnection /\ connection = c) \/ dial[c] \in {"returned", "ready"}
    /\ \A c \in Calls : dial[c] \in {"running", "returned", "ready"} =>
            connCtx[c] = "live" \/ (connCtx[c] = "canceled" /\ (closeCtxDone \/ c \in ctxDone))
    /\ \A c \in Calls : dial[c] \in {"none", "spawned"} => connCtx[c] = "none"

WaitInv ==
    \A c \in Calls : pc[c] = "wait" =>
        waitOn[c] \in released \/ (waitOn[c] = connecting /\ connecting # NoCall)

NestedInv ==
    \A c \in Calls : DialedFrom[c] # NoCall =>
        /\ pc[c] \in {"idle", "fetch", "done"}
        /\ result[c] \in {"none", "recursive", "closed"}
        /\ pc[c] = "fetch" => dial[DialedFrom[c]] = "running"

\* Type correctness and the five parts together, preserved by every step.
IInv == TypeOK /\ FlightInv /\ CacheInv /\ DialInv /\ WaitInv /\ NestedInv

\* Every Get returns, with a connection or an error, even if its context is
\* never cancelled, as long as dials end.
GetReturns ==
    \A c \in Calls : pc[c] = "fetch" ~> result[c] # "none"

\* The connector implements the abstract shared connection.
Shared == INSTANCE SharedConnection
    WITH slot   <- IF hasConnection THEN connection ELSE NoCall,
         flight <- connecting,
         open   <- {c \in Calls : conn[c] = "open"},
         shut   <- closed

\* Refinement: every step of the connector is a step of the abstract shared
\* connection or changes nothing of it.
ImplementsSharedConnection == Shared!Spec
=============================================================================
