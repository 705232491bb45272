---------------------------- MODULE UDPTransport ----------------------------
(***************************************************************************)
(* The UDP DNS transport (dns/transport/udp.go), composed of the state     *)
(* machine BaseTransport, of the connector, taken here at the level of its *)
(* abstract specification SharedConnection (which Connector implements),   *)
(* and of its own table of callbacks by query id.                          *)
(*                                                                         *)
(* A worker runs one Exchange after another.  The network may lose, delay  *)
(* and duplicate responses: a response is an element of wire until it      *)
(* expires or its connection closes, and is read any number of times, none *)
(* included.                                                               *)
(* The two sections of recvLoop that look a callback up and complete it    *)
(* are one step: a callback whose exchange has ended in between is not     *)
(* looked at by anyone.                                                    *)
(***************************************************************************)
EXTENDS BaseTransport

CONSTANTS
    Conns,       \* the connections the connector may dial
    NoConn,
    NumIds,      \* the number of query ids, 2^16 in the code
    MaxLifetime, \* a response outlives its exchange at most until so many ids
                 \* have been allocated after its own
    UDPSize,     \* the EDNS0 UDP size of each worker's messages
    InitialSize  \* 2048 in the code

Ids == 0..(NumIds - 1)
NoId == NumIds

ASSUME UDPAssumption ==
    /\ NoConn \notin Conns
    /\ NumIds \in Nat \ {0}
    /\ NumIds \notin Workers
    /\ MaxLifetime \in Nat
    /\ InitialSize \in Nat
    /\ UDPSize \in [Workers -> Nat]

VARIABLES
    slot, flight, open, shut,  \* the connector, see SharedConnection
    udpSize,    \* t.udpSize
    queryId,    \* t.queryId
    callbacks,  \* t.callbacks: the ids in use
    at,         \* where each worker is in Exchange
    myId,       \* the id of its query
    idAge,      \* history: the ids allocated since, up to MaxLifetime + 1
    myConn,     \* the connection Get returned
    response,   \* what its callback holds
    wire,       \* the responses on their way
    finished    \* the closers that have closed the connector too

connVars == <<slot, flight, open, shut>>
exchangeVars == <<udpSize, queryId, callbacks, at, myId, idAge, myConn, response, wire>>
vars == <<baseVars, connVars, exchangeVars, finished>>

Conn == INSTANCE SharedConnection WITH Calls <- Conns, NoCall <- NoConn

Positions == {"idle", "size", "reset", "get", "register", "write", "wait",
              "cleanup", "tcp", "end"}

\* A response: where it arrives, its id, the worker whose exchange it answers
\* or, once that has ended, NoWorker, and then the age of its id.
NoWorker == NumIds
Responses == [conn : Conns, id : Ids, for : Workers \cup {NoWorker}, age : 0..MaxLifetime]

TypeOK ==
    /\ BaseTypeOK
    /\ slot \in Conns \cup {NoConn}
    /\ flight \in Conns \cup {NoConn}
    /\ open \in SUBSET Conns
    /\ shut \in BOOLEAN
    /\ udpSize \in Nat
    /\ queryId \in Ids
    /\ callbacks \in [Ids -> Workers \cup {NoWorker}]
    /\ at \in [Workers -> Positions]
    /\ myId \in [Workers -> Ids \cup {NoId}]
    /\ idAge \in [Workers -> 0..(MaxLifetime + 1)]
    /\ myConn \in [Workers -> Conns \cup {NoConn}]
    /\ response \in [Workers -> {"none", "answer", "truncated", "stray"}]
    /\ wire \in SUBSET Responses
    /\ finished \in SUBSET Closers

Init ==
    /\ BaseInit
    /\ Conn!Init
    /\ udpSize = InitialSize
    /\ queryId = 0
    /\ callbacks = [i \in Ids |-> NoWorker]
    /\ at = [w \in Workers |-> "idle"]
    /\ myId = [w \in Workers |-> NoId]
    /\ idAge = [w \in Workers |-> 0]
    /\ myConn = [w \in Workers |-> NoConn]
    /\ response = [w \in Workers |-> "none"]
    /\ wire = {}
    /\ finished = {}

Goto(w, position) == at' = [at EXCEPT ![w] = position]

\* Responses reach nobody once their connection is closed.
OnOpen(responses) == {r \in responses : r.conn \in open'}

-----------------------------------------------------------------------------
(* Exchange.                                                               *)

Exchange(w) ==
    /\ at[w] = "idle"
    /\ BeginQuery(w)
    /\ Goto(w, "size")
    /\ UNCHANGED <<connVars, udpSize, queryId, callbacks, myId, idAge, myConn, response, wire, finished>>

\* The loop that raises t.udpSize; only the worker that raises it resets.
RaiseUDPSize(w) ==
    /\ at[w] = "size"
    /\ IF UDPSize[w] <= udpSize
       THEN Goto(w, "get") /\ UNCHANGED udpSize
       ELSE Goto(w, "reset") /\ udpSize' = UDPSize[w]
    /\ UNCHANGED <<baseVars, connVars, queryId, callbacks, myId, idAge, myConn, response, wire, finished>>

ResetForSize(w) ==
    /\ at[w] = "reset"
    /\ Conn!Drop
    /\ wire' = OnOpen(wire)
    /\ Goto(w, "get")
    /\ UNCHANGED <<baseVars, udpSize, queryId, callbacks, myId, idAge, myConn, response, finished>>

\* connector.Get returns the shared connection ...
GetReturns(w) ==
    /\ at[w] = "get"
    /\ ~shut /\ slot \in open
    /\ myConn' = [myConn EXCEPT ![w] = slot]
    /\ Goto(w, "register")
    /\ UNCHANGED <<baseVars, connVars, udpSize, queryId, callbacks, myId, idAge, response, wire, finished>>

\* ... or an error: closed, cancelled, or the dial failed.
GetFails(w) ==
    /\ at[w] = "get"
    /\ Goto(w, "end")
    /\ UNCHANGED <<baseVars, connVars, udpSize, queryId, callbacks, myId, idAge, myConn, response, wire, finished>>

Free(i) == callbacks[i] = NoWorker

\* The k-th id nextAvailableQueryId tries: t.queryId++ wraps around, and the
\* current id is tried last.
Tried(k) == IF queryId + k < NumIds THEN queryId + k ELSE queryId + k - NumIds

\* Mutant: the lowest free id.
LowestFree == CHOOSE i \in Ids : Free(i) /\ \A j \in Ids : Free(j) => i <= j

\* nextAvailableQueryId: the first free id after the current one.
nextAvailableQueryId ==
    LET k == CHOOSE n \in 1..NumIds :
                Free(Tried(n)) /\ \A m \in 1..(n - 1) : ~Free(Tried(m))
    IN  Tried(k)

\* The callback is registered under a fresh id; older responses age.
Register(w) ==
    /\ at[w] = "register"
    /\ \E i \in Ids : Free(i)
    /\ LET i == nextAvailableQueryId IN
        /\ queryId' = i
        /\ callbacks' = [callbacks EXCEPT ![i] = w]
        /\ myId' = [myId EXCEPT ![w] = i]
    /\ wire' = {r \in wire : r.for # NoWorker} \cup
               {[r EXCEPT !.age = @ + 1] :
                    r \in {s \in wire : s.for = NoWorker /\ s.age < MaxLifetime}}
    /\ idAge' = [v \in Workers |-> IF v = w \/ myId[v] = NoId THEN 0
                                  ELSE IF idAge[v] > MaxLifetime THEN idAge[v]
                                  ELSE idAge[v] + 1]
    /\ response' = [response EXCEPT ![w] = "none"]
    /\ Goto(w, "write")
    /\ UNCHANGED <<baseVars, connVars, udpSize, myConn, finished>>

\* "no available query ID": the counter has gone all the way round.
NoAvailableQueryID(w) ==
    /\ at[w] = "register"
    /\ \A i \in Ids : ~Free(i)
    /\ Goto(w, "end")
    /\ UNCHANGED <<baseVars, connVars, udpSize, queryId, callbacks, myId, idAge, myConn, response, wire, finished>>

\* The write succeeds and the server may answer.
Write(w) ==
    /\ at[w] = "write"
    /\ myConn[w] \in open
    /\ wire' = wire \cup {[conn |-> myConn[w], id |-> myId[w], for |-> w, age |-> 0]}
    /\ Goto(w, "wait")
    /\ UNCHANGED <<baseVars, connVars, udpSize, queryId, callbacks, myId, idAge, myConn, response, finished>>

\* The write fails and the connection is closed.
WriteFails(w) ==
    /\ at[w] = "write"
    /\ Conn!Die(myConn[w])
    /\ wire' = OnOpen(wire)
    /\ Goto(w, "cleanup")
    /\ UNCHANGED <<baseVars, udpSize, queryId, callbacks, myId, idAge, myConn, response, finished>>

\* Mutant: the select does not watch the transport's context.
WakesUnlessClosing(w) == response[w] # "none" \/ myConn[w] \notin open

\* The cases of the select that do not depend on the caller.
Wakes(w) == response[w] # "none" \/ myConn[w] \notin open \/ closeCtxDone

\* The select: a ready case is taken at random, so an answer that has
\* arrived may still be given up.
WaitEnds(w) ==
    /\ at[w] = "wait"
    /\ Wakes(w)
    /\ Goto(w, "cleanup")
    /\ response' \in {[response EXCEPT ![w] = r] :
            r \in {response[w]} \cup (IF closeCtxDone \/ myConn[w] \notin open THEN {"none"} ELSE {})}
    /\ UNCHANGED <<baseVars, connVars, udpSize, queryId, callbacks, myId, idAge, myConn, wire, finished>>

\* The caller's context is done.
CallerGivesUp(w) ==
    /\ at[w] = "wait"
    /\ Goto(w, "cleanup")
    /\ response' = [response EXCEPT ![w] = "none"]
    /\ UNCHANGED <<baseVars, connVars, udpSize, queryId, callbacks, myId, idAge, myConn, wire, finished>>

\* Mutant: the callback is left behind.
UnregisterNothing(w) == callbacks

\* delete(t.callbacks, queryId)
Unregister(w) == [callbacks EXCEPT ![myId[w]] = NoWorker]

\* The deferred functions of exchange; a truncated answer is asked for again
\* over TCP.  A response still on its way now answers nobody.
Cleanup(w) ==
    /\ at[w] = "cleanup"
    /\ callbacks' = Unregister(w)
    /\ myId' = [myId EXCEPT ![w] = NoId]
    /\ wire' = {r \in wire : r.for # w} \cup
               {[r EXCEPT !.for = NoWorker, !.age = idAge[w]] :
                    r \in {s \in wire : s.for = w /\ idAge[w] <= MaxLifetime}}
    /\ idAge' = [idAge EXCEPT ![w] = 0]
    /\ Goto(w, IF response[w] = "truncated" THEN "tcp" ELSE "end")
    /\ UNCHANGED <<baseVars, connVars, udpSize, queryId, myConn, response, finished>>

\* exchangeTCP dials, asks and closes a connection of its own.  The caller's
\* context bounds the dial alone: the read has no deadline.
ExchangeTCP(w) ==
    /\ at[w] = "tcp"
    /\ Goto(w, "end")
    /\ UNCHANGED <<baseVars, connVars, udpSize, queryId, callbacks, myId, idAge, myConn, response, wire, finished>>

ExchangeEnds(w) ==
    /\ at[w] = "end"
    /\ EndQuery(w)
    /\ Goto(w, "idle")
    /\ myConn' = [myConn EXCEPT ![w] = NoConn]
    /\ response' = [response EXCEPT ![w] = "none"]
    /\ UNCHANGED <<connVars, udpSize, queryId, callbacks, myId, idAge, wire, finished>>

-----------------------------------------------------------------------------
(* The connector, its dials and recvLoop.                                  *)

\* A connection name is free when nothing refers to it any more.
Unused(c) == c # slot /\ c \notin open /\ \A w \in Workers : myConn[w] # c

\* Get starts a dial for a worker that found no connection.
Launch(w, c) ==
    /\ at[w] = "get"
    /\ Unused(c)
    /\ Conn!Launch(c)
    /\ UNCHANGED <<baseVars, exchangeVars, finished>>

\* The dial succeeds and starts recvLoop.
Establish(c) ==
    /\ c \notin open
    /\ Conn!Establish(c)
    /\ UNCHANGED <<baseVars, exchangeVars, finished>>

Install(c) ==
    /\ ~closeCtxDone
    /\ c \in open
    /\ Conn!Install(c)
    /\ UNCHANGED <<baseVars, exchangeVars, finished>>

Discard(c) ==
    /\ Conn!Discard(c)
    /\ wire' = OnOpen(wire)
    /\ UNCHANGED <<baseVars, udpSize, queryId, callbacks, at, myId, idAge, myConn, response, finished>>

\* recvLoop reads a response and completes the callback registered under its
\* id, unless it is complete.  It looks at nothing but the id.
RecvLoop(r) ==
    /\ r.conn \in open
    /\ LET w == callbacks[r.id] IN
        /\ w # NoWorker
        /\ response[w] = "none"
        /\ at[w] \in {"write", "wait"}
        /\ \E read \in (IF r.for = w THEN {"answer", "truncated"} ELSE {"stray"}) :
                response' = [response EXCEPT ![w] = read]
    /\ UNCHANGED <<baseVars, connVars, udpSize, queryId, callbacks, at, myId, idAge, myConn, wire, finished>>

\* recvLoop gets a read error and closes the connection.
RecvFails(c) ==
    /\ c \in open
    /\ Conn!Die(c)
    /\ wire' = OnOpen(wire)
    /\ UNCHANGED <<baseVars, udpSize, queryId, callbacks, at, myId, idAge, myConn, response, finished>>

-----------------------------------------------------------------------------
(* Start, Reset and Close.                                                 *)

Start == SetStarted /\ UNCHANGED <<connVars, exchangeVars, finished>>

Reset ==
    /\ Conn!Drop
    /\ wire' = OnOpen(wire)
    /\ UNCHANGED <<baseVars, udpSize, queryId, callbacks, at, myId, idAge, myConn, response, finished>>

Shutdown(c) == ShutdownStep(c) /\ UNCHANGED <<connVars, exchangeVars, finished>>

Timeout(c) == ShutdownTimesOut(c) /\ UNCHANGED <<connVars, exchangeVars, finished>>

\* Close closes the connector after the base transport.
CloseConnector(c) ==
    /\ closer[c] \in {"returned", "timedOut"}
    /\ c \notin finished
    /\ finished' = finished \cup {c}
    /\ Conn!Shut
    /\ wire' = OnOpen(wire)
    /\ UNCHANGED <<baseVars, udpSize, queryId, callbacks, at, myId, idAge, myConn, response>>

\* The steps a worker takes without help from its caller or the network; a
\* Get that cannot return fails, because its dial or its connector does.
WorkerStep(w) ==
    \/ RaiseUDPSize(w) \/ ResetForSize(w) \/ GetReturns(w) \/ GetFails(w)
    \/ Register(w) \/ NoAvailableQueryID(w) \/ Write(w) \/ WriteFails(w)
    \/ WaitEnds(w) \/ Cleanup(w) \/ ExchangeTCP(w) \/ ExchangeEnds(w)

Next ==
    \/ Start \/ Reset
    \/ \E w \in Workers : Exchange(w) \/ WorkerStep(w) \/ CallerGivesUp(w)
    \/ \E w \in Workers, c \in Conns : Launch(w, c)
    \/ \E c \in Conns : Establish(c) \/ Install(c) \/ Discard(c) \/ RecvFails(c)
    \/ \E r \in wire : RecvLoop(r)
    \/ \E c \in Closers : Shutdown(c) \/ Timeout(c) \/ CloseConnector(c)

Spec == Init /\ [][Next]_vars

\* Goroutines that can run do, and a Get that cannot return fails (by its
\* caller's deadline); nothing is assumed of the network, of an exchange over
\* TCP, of callers that wait for a response or of the timeout of Close.
FairSpec ==
    /\ Spec
    /\ \A w \in Workers : WF_vars(at[w] # "tcp" /\ WorkerStep(w))
    /\ \A c \in Closers : WF_vars(Shutdown(c) /\ closer[c] # "idle")

-----------------------------------------------------------------------------
(* Properties.                                                             *)

\* Two queries in flight never share an id, and the table holds exactly the
\* queries that have an id: none is left behind, none is taken away.
ExclusiveIds ==
    \A w \in Workers, i \in Ids : callbacks[i] = w <=> myId[w] = i

\* A worker is given the response to its own message, provided that no
\* response outlives a lap over the ids that are not taken.  recvLoop checks
\* only the id, so this rests on ids being reused as late as possible.
OwnAnswer ==
    MaxLifetime + Cardinality(Workers) <= NumIds =>
        \A w \in Workers : response[w] # "stray"

\* The inductive invariant behind it: a worker has an id exactly while it is
\* between its registration and its clean-up.
Holding == {"write", "wait", "cleanup"}
IdsInv ==
    /\ queryId \in Ids
    /\ callbacks \in [Ids -> Workers \cup {NoWorker}]
    /\ at \in [Workers -> Positions]
    /\ myId \in [Workers -> Ids \cup {NoId}]
    /\ ExclusiveIds
    /\ \A w \in Workers : myId[w] # NoId <=> at[w] \in Holding

\* What makes ids be reused late.  The counter is so far past an id, and has to
\* skip the ids that are still held ahead of it before it comes round again.
Past(i, j) == IF j >= i THEN j - i ELSE j - i + NumIds
Ahead(i) == {v \in Workers : myId[v] \in Ids /\ Past(i, myId[v]) > Past(i, queryId)}

\* Allocating an id moves the counter by one and by the ids it skips, which
\* are then no longer ahead: the age of an id keeps up with both.
InLap(i, age) ==
    Past(i, queryId) + Cardinality(Ahead(i)) + 1 <= age + Cardinality(Workers)

\* A response on its way answers the query that holds its id, or its id is
\* free and the counter has not come round to it.
LapInv ==
    /\ \A w \in Workers : response[w] # "stray"
    /\ \A r \in wire : r.for \in Workers => myId[r.for] = r.id
    /\ \A r \in wire : r.for = NoWorker => Free(r.id) /\ InLap(r.id, r.age)
    /\ \A w \in Workers :
        myId[w] \in Ids /\ idAge[w] <= MaxLifetime => InLap(myId[w], idAge[w])

\* The connector: what is open is shared or being dialed, never both at once,
\* and a closed connector shares nothing.
SlotInv ==
    /\ open \subseteq {slot, flight}
    /\ flight # NoConn => slot = NoConn
    /\ shut => slot = NoConn
    /\ finished # {} => shut

\* Types, the invariants of the parts, and that a worker is admitted exactly
\* while it is inside Exchange.
UDPInv ==
    /\ TypeOK
    /\ BaseInv
    /\ IdsInv
    /\ SlotInv
    /\ MaxLifetime + Cardinality(Workers) <= NumIds => LapInv
    /\ \A w \in Workers : query[w] = "running" <=> at[w] # "idle"

\* When Close has returned and no dial is in flight, no connection is open;
\* and if it did not time out, no query is registered.
CloseReleases ==
    finished # {} =>
        /\ flight = NoConn => open = {}
        /\ state = "closed" /\ (\A c \in Closers : closer[c] # "timedOut") =>
                \A i \in Ids : Free(i)

\* Close unblocks its queries: once Shutdown waits, it comes to an end
\* although no caller gives up and no response arrives.  Only a query that
\* reads from a TCP connection, which Close does not reach, can hold it up.
CloseDrains ==
    \A c \in Closers :
        closer[c] = "waiting" ~>
            closer[c] # "waiting" \/ \E w \in Workers : at[w] = "tcp"
=============================================================================
