------------------------- MODULE UDPTransportProofs -------------------------
(***************************************************************************)
(* Proofs about BaseTransport and UDPTransport, for any finite set of      *)
(* workers, any connections and closers and any number of query ids: the   *)
(* promises of the base transport and that the composition keeps them, the *)
(* exclusive use of ids, and that an answer reaches its own query.         *)
(***************************************************************************)
EXTENDS UDPTransport, FiniteSetTheorems, WellFoundedInduction, TLAPS

-----------------------------------------------------------------------------
(* The base transport.                                                     *)

\* The counter and the set of running queries tell the same: what EndQuery
\* tests (t.inFlight == 0) is that no query runs.
LEMMA CounterTellsRunning ==
  ASSUME CounterExact
  PROVE  /\ IsFiniteSet(Running)
         /\ inFlight \in Nat
         /\ inFlight = 0 <=> Running = {}
  <1>1. Running \subseteq Workers
    BY DEF Running
  <1>2. IsFiniteSet(Running)
    BY <1>1, BaseAssumption, FS_Subset
  <1> QED
    BY <1>2, FS_CardinalityType, FS_EmptySet DEF CounterExact

\* BeginQuery adds its worker to the running ones and keeps the count.
LEMMA BeginCounts ==
  ASSUME NEW w \in Workers, BaseTypeOK, CounterExact, BeginQuery(w)
  PROVE  Running' = Running \cup {w} /\ CounterExact'
  <1>1. Running' = Running \cup {w} /\ w \notin Running
    BY DEF Running, BeginQuery, BaseTypeOK
  <1>2. Cardinality(Running \cup {w}) = Cardinality(Running) + 1
    BY <1>1, CounterTellsRunning, FS_AddElement
  <1> QED
    BY <1>1, <1>2 DEF CounterExact, BeginQuery

\* EndQuery removes it and keeps the count.
LEMMA EndCounts ==
  ASSUME NEW w \in Workers, BaseTypeOK, CounterExact, EndQuery(w)
  PROVE  /\ Running' = Running \ {w} /\ CounterExact'
         /\ inFlight # 0 /\ inFlight' = inFlight - 1
  <1>1. Running' = Running \ {w} /\ w \in Running
    BY DEF Running, EndQuery, BaseTypeOK
  <1>2. Cardinality(Running \ {w}) = Cardinality(Running) - 1
    BY <1>1, CounterTellsRunning, FS_RemoveElement
  <1>3. inFlight # 0 /\ inFlight \in Nat
    BY <1>1, CounterTellsRunning
  <1>4. inFlight' = inFlight - 1
    BY <1>3 DEF EndQuery
  <1> QED
    BY <1>1, <1>2, <1>3, <1>4 DEF CounterExact

\* A new transport (NewBaseTransport) satisfies the invariant.
LEMMA InitEstablishesBaseInv == BaseInit => BaseInv
  <1> SUFFICES ASSUME BaseInit PROVE BaseInv
    OBVIOUS
  <1>1. Running = {}
    BY DEF Running, BaseInit
  <1>2. CounterExact
    BY <1>1, FS_EmptySet DEF CounterExact, BaseInit
  <1>3. BaseTypeOK
    BY DEF BaseInit, BaseTypeOK, CloserStates
  <1>4. DrainSignalled /\ ClosedIsQuiet /\ ClosersInv
    BY DEF BaseInit, DrainSignalled, ClosedIsQuiet, ClosersInv
  <1> QED
    BY <1>2, <1>3, <1>4 DEF BaseInv

\* A step of Shutdown leaves the queries alone.
LEMMA ShutdownKeepsQueries ==
  ASSUME BaseInv, UNCHANGED <<inFlight, query>>
  PROVE  CounterExact' /\ Running' = Running
  <1>1. Running' = Running
    BY DEF Running
  <1> QED
    BY <1>1 DEF BaseInv, CounterExact

\* Every step preserves the invariant.
LEMMA NextPreservesBaseInv == BaseInv /\ [BaseNext]_baseVars => BaseInv'
  <1> SUFFICES ASSUME BaseInv, [BaseNext]_baseVars PROVE BaseInv'
    OBVIOUS
  <1>0. /\ inFlight \in Nat /\ (inFlight = 0 <=> Running = {})
        /\ BaseTypeOK /\ CounterExact /\ DrainSignalled /\ ClosedIsQuiet /\ ClosersInv
    BY CounterTellsRunning DEF BaseInv
  <1>1. CASE SetStarted
    <2>1. CounterExact' /\ Running' = Running
      BY <1>1, ShutdownKeepsQueries DEF SetStarted
    <2>2. BaseTypeOK'
      BY <1>0, <1>1 DEF SetStarted, BaseTypeOK
    <2>3. DrainSignalled' /\ ClosedIsQuiet' /\ ClosersInv'
      BY <1>0, <1>1, <2>1 DEF SetStarted, DrainSignalled, ClosedIsQuiet, ClosersInv
    <2> QED
      BY <2>1, <2>2, <2>3 DEF BaseInv
  <1>2. ASSUME NEW w \in Workers, BeginQuery(w) PROVE BaseInv'
    <2>1. CounterExact' /\ Running' = Running \cup {w}
      BY <1>0, <1>2, BeginCounts
    <2>2. BaseTypeOK'
      BY <1>0, <1>2 DEF BeginQuery, BaseTypeOK
    <2>3. DrainSignalled' /\ ClosedIsQuiet' /\ ClosersInv'
      BY <1>0, <1>2, <2>1 DEF BeginQuery, Admits, DrainSignalled, ClosedIsQuiet, ClosersInv
    <2> QED
      BY <2>1, <2>2, <2>3 DEF BaseInv
  <1>3. ASSUME NEW w \in Workers, EndQuery(w) PROVE BaseInv'
    <2>1. /\ CounterExact' /\ Running' = Running \ {w}
          /\ inFlight # 0 /\ inFlight' = inFlight - 1
      BY <1>0, <1>3, EndCounts
    <2>2. inFlight' \in Nat /\ (inFlight' = 0 <=> Running' = {})
      <3>1. IsFiniteSet(Running') /\ inFlight' = Cardinality(Running')
        BY <1>0, <2>1, CounterTellsRunning, FS_RemoveElement DEF CounterExact
      <3> QED
        BY <3>1, FS_CardinalityType, FS_EmptySet
    <2>3. BaseTypeOK'
      BY <1>0, <1>3, <2>2 DEF EndQuery, BaseTypeOK
    <2>4. DrainSignalled'
      BY <1>0, <1>3, <2>1, <2>2 DEF EndQuery, Complete, DrainSignalled, ClosersInv, BaseTypeOK
    <2>5. ClosedIsQuiet' /\ ClosersInv'
      BY <1>0, <1>3, <2>1, <2>2 DEF EndQuery, Complete, ClosedIsQuiet, ClosersInv
    <2> QED
      BY <2>1, <2>3, <2>4, <2>5 DEF BaseInv
  <1>4. ASSUME NEW c \in Closers, ShutdownBegins(c) PROVE BaseInv'
    <2>1. CounterExact' /\ Running' = Running
      BY <1>4, ShutdownKeepsQueries DEF ShutdownBegins
    <2>2. BaseTypeOK'
      BY <1>0, <1>4 DEF ShutdownBegins, BaseTypeOK, CloserStates
    <2>3. DrainSignalled'
      BY <1>0, <1>4, <2>1 DEF ShutdownBegins, BaseTypeOK, DrainSignalled, ClosersInv
    <2>4. ClosedIsQuiet'
      BY <1>0, <1>4, <2>1 DEF ShutdownBegins, BaseTypeOK, ClosedIsQuiet, ClosersInv
    <2>5. ClosersInv'
      BY <1>0, <1>4 DEF ShutdownBegins, BaseTypeOK, ClosersInv
    <2> QED
      BY <2>1, <2>2, <2>3, <2>4, <2>5 DEF BaseInv
  <1>5. ASSUME NEW c \in Closers, CloseCancel(c) PROVE BaseInv'
    <2>1. CounterExact' /\ Running' = Running
      BY <1>5, ShutdownKeepsQueries DEF CloseCancel
    <2>2. BaseTypeOK'
      BY <1>0, <1>5 DEF CloseCancel, BaseTypeOK, CloserStates
    <2>3. DrainSignalled' /\ ClosedIsQuiet' /\ ClosersInv'
      BY <1>0, <1>5, <2>1 DEF CloseCancel, BaseTypeOK, DrainSignalled, ClosedIsQuiet, ClosersInv
    <2> QED
      BY <2>1, <2>2, <2>3 DEF BaseInv
  <1>6. ASSUME NEW c \in Closers, ShutdownDrained(c) PROVE BaseInv'
    <2>1. CounterExact' /\ Running' = Running
      BY <1>6, ShutdownKeepsQueries DEF ShutdownDrained
    <2>2. BaseTypeOK'
      BY <1>0, <1>6 DEF ShutdownDrained, BaseTypeOK, CloserStates
    <2>3. DrainSignalled' /\ ClosedIsQuiet' /\ ClosersInv'
      BY <1>0, <1>6, <2>1 DEF ShutdownDrained, BaseTypeOK, DrainSignalled, ClosedIsQuiet, ClosersInv
    <2> QED
      BY <2>1, <2>2, <2>3 DEF BaseInv
  <1>7. ASSUME NEW c \in Closers, ShutdownTimesOut(c) PROVE BaseInv'
    <2>1. CounterExact' /\ Running' = Running
      BY <1>7, ShutdownKeepsQueries DEF ShutdownTimesOut
    <2>2. BaseTypeOK'
      BY <1>0, <1>7 DEF ShutdownTimesOut, BaseTypeOK, CloserStates
    <2>3. DrainSignalled' /\ ClosedIsQuiet' /\ ClosersInv'
      BY <1>0, <1>7, <2>1 DEF ShutdownTimesOut, BaseTypeOK, DrainSignalled, ClosedIsQuiet, ClosersInv
    <2> QED
      BY <2>1, <2>2, <2>3 DEF BaseInv
  <1>8. CASE UNCHANGED baseVars
    <2>1. Running' = Running
      BY <1>8 DEF baseVars, Running
    <2> QED
      BY <1>8, <2>1 DEF baseVars, BaseInv, BaseTypeOK, CounterExact, DrainSignalled,
                        ClosedIsQuiet, ClosersInv
  <1> QED
    BY <1>1, <1>2, <1>3, <1>4, <1>5, <1>6, <1>7, <1>8 DEF BaseNext, ShutdownStep

\* The invariant of the base transport holds in every reachable state.
THEOREM BaseInvariance == BaseSpec => []BaseInv
  BY InitEstablishesBaseInv, NextPreservesBaseInv, PTL DEF BaseSpec

\* EndQuery never forgets to wake a Shutdown up.
THEOREM DrainIsSignalled == BaseSpec => []DrainSignalled
  <1>1. BaseInv => DrainSignalled
    BY DEF BaseInv
  <1> QED
    BY <1>1, BaseInvariance, PTL

\* A transport closed without a timeout has no query in flight.
THEOREM ClosedTransportIsQuiet == BaseSpec => []ClosedIsQuiet
  <1>1. BaseInv => ClosedIsQuiet
    BY DEF BaseInv
  <1> QED
    BY <1>1, BaseInvariance, PTL

-----------------------------------------------------------------------------
(* The table of callbacks.                                                 *)

\* A set of natural numbers has a least element.
LEMMA LeastElement ==
  ASSUME NEW S, S \subseteq Nat, S # {}
  PROVE  \E least \in S : \A m \in S : least <= m
  <1> DEFINE R == OpToRel(<, Nat)
  <1>1. \A x, y \in Nat : y < x => <<y, x>> \in R
    BY DEF OpToRel
  <1>2. IsWellFoundedOn(R, Nat)
    BY NatLessThanWellFounded
  <1> HIDE DEF R
  <1>3. PICK x \in S : \A y \in S : ~(<<y, x>> \in R)
    BY <1>2, WFMin
  <1>4. \A y \in S : ~(y < x)
    BY <1>1, <1>3
  <1> QED
    BY <1>3, <1>4

\* nextAvailableQueryId skips exactly the ids before the one it returns, and
\* all of them are taken.
LEMMA NextIdSkips ==
  ASSUME queryId \in Ids, NEW j \in Ids, Free(j)
  PROVE  \E k \in 1..NumIds :
            /\ nextAvailableQueryId = Tried(k)
            /\ Free(Tried(k))
            /\ \A m \in 1..(k - 1) : ~Free(Tried(m))
  <1> DEFINE S == {n \in 1..NumIds : Free(Tried(n))}
             P(n) == Free(Tried(n)) /\ \A m \in 1..(n - 1) : ~Free(Tried(m))
  <1>1. S # {}
    <2> DEFINE n == IF j > queryId THEN j - queryId ELSE j - queryId + NumIds
    <2>1. n \in 1..NumIds /\ Tried(n) = j
      BY UDPAssumption DEF Ids, Tried
    <2> QED
      BY <2>1
  <1>2. S \subseteq Nat
    BY UDPAssumption
  <1>3. PICK least \in S : \A m \in S : least <= m
    BY <1>1, <1>2, LeastElement
  <1>4. \E n \in 1..NumIds : P(n)
    <2>1. \A m \in 1..(least - 1) : m \in 1..NumIds /\ m < least
      BY <1>3, UDPAssumption
    <2> QED
      BY <1>3, <2>1
  <1> DEFINE k == CHOOSE n \in 1..NumIds : P(n)
  <1>5. k \in 1..NumIds /\ P(k)
    BY <1>4, Zenon
  <1>6. nextAvailableQueryId = Tried(k)
    BY DEF nextAvailableQueryId
  <1> HIDE DEF k
  <1> QED
    BY <1>5, <1>6

\* nextAvailableQueryId (udp.go) returns a free id whenever there is one: the
\* loop tries all of them.
LEMMA NextIdIsFree ==
  ASSUME queryId \in Ids, NEW j \in Ids, Free(j)
  PROVE  nextAvailableQueryId \in Ids /\ Free(nextAvailableQueryId)
  <1>1. PICK k \in 1..NumIds : nextAvailableQueryId = Tried(k) /\ Free(Tried(k))
    BY NextIdSkips
  <1>2. Tried(k) \in Ids
    BY UDPAssumption DEF Tried, Ids
  <1> QED
    BY <1>1, <1>2

\* A worker that moves on without registering or cleaning up keeps its id.
LEMMA MoveKeepsIds ==
  ASSUME IdsInv, NEW w \in Workers, NEW p \in Positions, Goto(w, p),
         at[w] \in Holding <=> p \in Holding, UNCHANGED <<queryId, callbacks, myId>>
  PROVE  IdsInv'
  BY DEF IdsInv, ExclusiveIds, Goto

\* Registration (udp.go, exchange under callbackAccess) takes a free id.
LEMMA RegisterKeepsIds ==
  ASSUME IdsInv, NEW w \in Workers, Register(w)
  PROVE  IdsInv'
  <1> DEFINE i == nextAvailableQueryId
  <1>1. i \in Ids /\ Free(i)
    BY NextIdIsFree DEF Register, IdsInv
  <1>2. /\ queryId' = i
        /\ callbacks' = [callbacks EXCEPT ![i] = w]
        /\ myId' = [myId EXCEPT ![w] = i]
        /\ at' = [at EXCEPT ![w] = "write"]
        /\ at[w] = "register"
    BY DEF Register, Goto
  <1> HIDE DEF i
  <1>3. NoId \notin Ids /\ NoWorker \notin Workers
    BY UDPAssumption DEF NoId, NoWorker, Ids
  <1>4. myId[w] = NoId /\ \A v \in Workers : myId[v] # i
    BY <1>1, <1>2, <1>3 DEF IdsInv, Free, ExclusiveIds, Holding
  <1>5. \A j \in Ids : callbacks[j] # w
    BY <1>3, <1>4 DEF IdsInv, ExclusiveIds
  <1>6. ExclusiveIds'
    BY <1>1, <1>2, <1>4, <1>5 DEF IdsInv, ExclusiveIds
  <1>7. \A v \in Workers : myId'[v] # NoId <=> at'[v] \in Holding
    BY <1>1, <1>2, <1>3 DEF IdsInv, Holding
  <1> QED
    BY <1>1, <1>2, <1>6, <1>7 DEF IdsInv, Positions

\* The clean-up (the deferred function of exchange) gives the id back.
LEMMA CleanupKeepsIds ==
  ASSUME IdsInv, NEW w \in Workers, Cleanup(w)
  PROVE  IdsInv'
  <1> DEFINE p == IF response[w] = "truncated" THEN "tcp" ELSE "end"
  <1>1. /\ callbacks' = [callbacks EXCEPT ![myId[w]] = NoWorker]
        /\ myId' = [myId EXCEPT ![w] = NoId]
        /\ at' = [at EXCEPT ![w] = p]
        /\ queryId' = queryId
        /\ at[w] = "cleanup"
    BY DEF Cleanup, Unregister, Goto
  <1>2. NoId \notin Ids /\ NoWorker \notin Workers
    BY UDPAssumption DEF NoId, NoWorker, Ids
  <1>3. myId[w] \in Ids /\ callbacks[myId[w]] = w
    BY <1>1 DEF IdsInv, Holding, ExclusiveIds
  <1>4. ExclusiveIds'
    BY <1>1, <1>2, <1>3 DEF IdsInv, ExclusiveIds
  <1>5. \A v \in Workers : myId'[v] # NoId <=> at'[v] \in Holding
    BY <1>1 DEF IdsInv, Holding
  <1> QED
    BY <1>1, <1>3, <1>4, <1>5 DEF IdsInv, Positions

\* Every step keeps the table of callbacks right.
LEMMA NextKeepsIds == IdsInv /\ [Next]_vars => IdsInv'
  <1> SUFFICES ASSUME IdsInv, [Next]_vars PROVE IdsInv'
    OBVIOUS
  <1> USE DEF Positions, Holding
  <1>1. ASSUME NEW w \in Workers, Exchange(w) PROVE IdsInv'
    BY <1>1, MoveKeepsIds DEF Exchange
  <1>2. ASSUME NEW w \in Workers,
               \/ RaiseUDPSize(w) \/ ResetForSize(w) \/ GetReturns(w) \/ GetFails(w)
               \/ NoAvailableQueryID(w) \/ ExchangeTCP(w) \/ ExchangeEnds(w)
        PROVE  IdsInv'
    <2>1. UNCHANGED <<queryId, callbacks, myId>> /\ at[w] \notin Holding
      BY <1>2 DEF RaiseUDPSize, ResetForSize, GetReturns, GetFails, NoAvailableQueryID,
                  ExchangeTCP, ExchangeEnds
    <2>2. \E p \in {"get", "reset", "register", "end", "idle"} : Goto(w, p)
      BY <1>2 DEF RaiseUDPSize, ResetForSize, GetReturns, GetFails, NoAvailableQueryID,
                  ExchangeTCP, ExchangeEnds
    <2> QED
      BY <2>1, <2>2, MoveKeepsIds
  <1>3. ASSUME NEW w \in Workers,
               Write(w) \/ WriteFails(w) \/ WaitEnds(w) \/ CallerGivesUp(w)
        PROVE  IdsInv'
    <2>1. UNCHANGED <<queryId, callbacks, myId>> /\ at[w] \in Holding
      BY <1>3 DEF Write, WriteFails, WaitEnds, CallerGivesUp
    <2>2. \E p \in {"wait", "cleanup"} : Goto(w, p)
      BY <1>3 DEF Write, WriteFails, WaitEnds, CallerGivesUp
    <2> QED
      BY <2>1, <2>2, MoveKeepsIds
  <1>4. ASSUME NEW w \in Workers, Register(w) PROVE IdsInv'
    BY <1>4, RegisterKeepsIds
  <1>5. ASSUME NEW w \in Workers, Cleanup(w) PROVE IdsInv'
    BY <1>5, CleanupKeepsIds
  <1>6. ASSUME UNCHANGED <<queryId, callbacks, at, myId>> PROVE IdsInv'
    BY <1>6 DEF IdsInv, ExclusiveIds
  <1>7. CASE Start \/ Reset
    BY <1>6, <1>7 DEF Start, Reset, exchangeVars
  <1>8. CASE \E w \in Workers, c \in Conns : Launch(w, c)
    BY <1>6, <1>8 DEF Launch, exchangeVars
  <1>9. CASE \E c \in Conns : Establish(c) \/ Install(c) \/ Discard(c) \/ RecvFails(c)
    BY <1>6, <1>9 DEF Establish, Install, Discard, RecvFails, exchangeVars
  <1>10. CASE \E r \in wire : RecvLoop(r)
    BY <1>6, <1>10 DEF RecvLoop
  <1>11. CASE \E c \in Closers : Shutdown(c) \/ Timeout(c) \/ CloseConnector(c)
    BY <1>6, <1>11 DEF Shutdown, Timeout, CloseConnector, exchangeVars
  <1>12. CASE UNCHANGED vars
    BY <1>6, <1>12 DEF vars, exchangeVars
  <1> QED
    BY <1>1, <1>2, <1>3, <1>4, <1>5, <1>7, <1>8, <1>9, <1>10, <1>11, <1>12 DEF Next, WorkerStep

\* Two queries in flight never share an id, for any number of ids, workers
\* and connections: the invariant of the table of callbacks in udp.go.
THEOREM IdsAreExclusive == Spec => []ExclusiveIds
  <1>1. Init => IdsInv
    BY UDPAssumption DEF Init, IdsInv, ExclusiveIds, Ids, NoId, NoWorker, Positions, Holding
  <1>2. IdsInv => ExclusiveIds
    BY DEF IdsInv
  <1> QED
    BY <1>1, <1>2, NextKeepsIds, PTL DEF Spec

\* Every step of the UDP transport is a step of its base transport or leaves
\* it alone.
LEMMA StepImplementsBase == [Next]_vars => [BaseNext]_baseVars
  <1> SUFFICES ASSUME [Next]_vars PROVE BaseNext \/ UNCHANGED baseVars
    OBVIOUS
  <1>1. CASE Start \/ Reset
    BY <1>1 DEF Start, Reset, BaseNext
  <1>2. ASSUME NEW w \in Workers, Exchange(w) \/ ExchangeEnds(w) PROVE BaseNext
    BY <1>2 DEF Exchange, ExchangeEnds, BaseNext
  <1>3. ASSUME NEW w \in Workers, WorkerStep(w) \/ CallerGivesUp(w), ~ExchangeEnds(w)
        PROVE  UNCHANGED baseVars
    BY <1>3 DEF WorkerStep, CallerGivesUp, RaiseUDPSize, ResetForSize, GetReturns, GetFails,
                Register, NoAvailableQueryID, Write, WriteFails, WaitEnds, Cleanup, ExchangeTCP
  <1>4. CASE \E w \in Workers, c \in Conns : Launch(w, c)
    BY <1>4 DEF Launch
  <1>5. CASE \E c \in Conns : Establish(c) \/ Install(c) \/ Discard(c) \/ RecvFails(c)
    BY <1>5 DEF Establish, Install, Discard, RecvFails
  <1>6. CASE \E r \in wire : RecvLoop(r)
    BY <1>6 DEF RecvLoop
  <1>7. CASE \E c \in Closers : Shutdown(c) \/ Timeout(c)
    BY <1>7 DEF Shutdown, Timeout, BaseNext
  <1>8. CASE \E c \in Closers : CloseConnector(c)
    BY <1>8 DEF CloseConnector
  <1>9. CASE UNCHANGED vars
    BY <1>9 DEF vars
  <1> QED
    BY <1>1, <1>2, <1>3, <1>4, <1>5, <1>6, <1>7, <1>8, <1>9 DEF Next

\* So the theorems about the base transport hold of it.
THEOREM UDPImplementsBase == Spec => BaseSpec
  <1>1. Init => BaseInit
    BY DEF Init
  <1> QED
    BY <1>1, StepImplementsBase, PTL DEF Spec, BaseSpec

\* In particular a UDP transport closed without a timeout has no query in
\* flight, and EndQuery never forgets to wake its Close up.
THEOREM UDPKeepsBaseInv == Spec => []BaseInv
  BY UDPImplementsBase, BaseInvariance, PTL

-----------------------------------------------------------------------------
(* An answer reaches its own query: ids are reused late.                   *)

\* The ids the counter skips are held by as many workers, all ahead of it.
LEMMA SkippedAreHeld ==
  ASSUME IdsInv, NEW i \in Ids, NEW t \in Nat, Past(i, queryId) + t < NumIds,
         \A m \in 1..t : ~Free(Tried(m))
  PROVE  \E S \in SUBSET Ahead(i) :
            /\ IsFiniteSet(S) /\ Cardinality(S) = t
            /\ \A v \in S : Past(i, myId[v]) <= Past(i, queryId) + t
  <1> DEFINE f == [m \in 1..t |-> callbacks[Tried(m)]]
             S == {f[m] : m \in 1..t}
  <1>1. \A m \in 1..t : /\ Tried(m) \in Ids
                        /\ Past(i, Tried(m)) = Past(i, queryId) + m
    BY UDPAssumption DEF Ids, Tried, Past, IdsInv
  <1>2. \A m \in 1..t : f[m] \in Workers /\ myId[f[m]] = Tried(m)
    BY <1>1 DEF IdsInv, Free, ExclusiveIds
  <1>3. S \subseteq Ahead(i) /\ \A v \in S : Past(i, myId[v]) <= Past(i, queryId) + t
    <2>1. \A m \in 1..t : Past(i, queryId) + m > Past(i, queryId) /\ Past(i, queryId) + m <= Past(i, queryId) + t
      BY UDPAssumption DEF Ids, Past, IdsInv
    <2> QED
      BY <1>1, <1>2, <2>1 DEF Ahead
  <1>4. f \in Bijection(1..t, S)
    <2>1. \A m, n \in 1..t : f[m] = f[n] => m = n
      <3> SUFFICES ASSUME NEW m \in 1..t, NEW n \in 1..t, f[m] = f[n] PROVE m = n
        OBVIOUS
      <3>1. Past(i, queryId) + m = Past(i, queryId) + n
        BY <1>1, <1>2
      <3> QED
        BY <3>1, UDPAssumption DEF Ids, Past, IdsInv
    <2>2. f \in [1..t -> S] /\ \A v \in S : \E m \in 1..t : f[m] = v
      OBVIOUS
    <2> HIDE DEF f, S
    <2> QED
      BY <2>1, <2>2 DEF Bijection, Injection, Surjection, IsInjective
  <1>5. IsFiniteSet(S) /\ Cardinality(S) = t
    <2>1. IsFiniteSet(1..t) /\ Cardinality(1..t) = t
      BY FS_Interval
    <2>2. ExistsBijection(1..t, S)
      BY <1>4 DEF ExistsBijection
    <2> HIDE DEF S
    <2> QED
      BY <2>1, <2>2, FS_Bijection
  <1> HIDE DEF S
  <1> QED
    BY <1>3, <1>5

\* Registering a query ages an id by one, and the counter stays behind it
\* unless the id is older than any response may be.
LEMMA RegisterStaysInLap ==
  ASSUME IdsInv, NEW w \in Workers, Register(w), NEW i \in Ids, NEW age \in Nat, InLap(i, age),
         age + Cardinality(Workers) < NumIds
  PROVE  queryId' # i /\ InLap(i, age + 1)'
  <1> DEFINE D == Past(i, queryId)
             j == nextAvailableQueryId
  <1>1. PICK k \in 1..NumIds : j = Tried(k) /\ Free(j) /\ \A m \in 1..(k - 1) : ~Free(Tried(m))
    BY NextIdSkips DEF Register, IdsInv
  <1>2. queryId' = j /\ myId' = [myId EXCEPT ![w] = j]
    BY DEF Register
  <1>3. k \in Nat \ {0} /\ D \in Nat /\ NumIds \in Nat /\ D < NumIds /\ queryId \in Ids
    BY UDPAssumption DEF Past, Ids, IdsInv
  <1>4. /\ IsFiniteSet(Ahead(i)) /\ Cardinality(Ahead(i)) \in Nat
        /\ Cardinality(Workers) \in Nat
    BY BaseAssumption, FS_Subset, FS_CardinalityType DEF Ahead
  <1>5. D + Cardinality(Ahead(i)) + 1 <= age + Cardinality(Workers)
    BY DEF InLap
  <1> HIDE DEF D, j
  <1>6. D + k < NumIds
    <2> SUFFICES ASSUME D + k >= NumIds PROVE FALSE
      BY <1>3
    <2> DEFINE t == NumIds - D - 1
    <2>1. t \in Nat /\ D + t < NumIds /\ \A m \in 1..t : m \in 1..(k - 1)
      BY <1>3
    <2> HIDE DEF t
    <2>2. PICK S \in SUBSET Ahead(i) : Cardinality(S) = t
      BY <1>1, <2>1, SkippedAreHeld DEF D
    <2>3. Cardinality(S) <= Cardinality(Ahead(i))
      BY <1>4, FS_Subset
    <2> QED
      BY <1>3, <1>4, <1>5, <2>2, <2>3 DEF t
  <1>7. PICK S \in SUBSET Ahead(i) :
            /\ IsFiniteSet(S) /\ Cardinality(S) = k - 1
            /\ \A v \in S : Past(i, myId[v]) <= D + (k - 1)
    <2>1. k - 1 \in Nat /\ D + (k - 1) < NumIds
      BY <1>3, <1>6
    <2> QED
      BY <1>1, <2>1, SkippedAreHeld DEF D
  <1>8. j \in Ids /\ Past(i, j) = D + k
    BY <1>1, <1>3, <1>6, UDPAssumption DEF Tried, Past, Ids, D
  <1>9. Ahead(i)' \subseteq Ahead(i) \ S
    <2> SUFFICES ASSUME NEW v \in Workers, myId'[v] \in Ids, Past(i, myId'[v]) > D + k
                 PROVE  v \in Ahead(i) /\ v \notin S
      BY <1>2, <1>8 DEF Ahead, Past
    <2>1. v # w
      BY <1>2, <1>3, <1>8 DEF IdsInv
    <2>2. myId'[v] = myId[v]
      BY <1>2, <2>1 DEF IdsInv
    <2>3. Past(i, myId[v]) \in Int
      BY <2>2, UDPAssumption DEF Past, Ids
    <2> QED
      BY <1>3, <1>7, <2>2, <2>3 DEF Ahead, D
  <1>10. Cardinality(Ahead(i)') <= Cardinality(Ahead(i)) - (k - 1)
    <2>1. /\ IsFiniteSet(Ahead(i) \ S)
          /\ Cardinality(Ahead(i) \ S) = Cardinality(Ahead(i)) - Cardinality(Ahead(i) \cap S)
      BY <1>4, FS_Difference
    <2>2. Ahead(i) \cap S = S
      BY <1>7
    <2>3. Cardinality(Ahead(i)') <= Cardinality(Ahead(i) \ S)
      BY <1>9, <2>1, FS_Subset
    <2> QED
      BY <1>7, <2>1, <2>2, <2>3
  <1>11. Cardinality(Ahead(i)') \in Nat
    BY BaseAssumption, FS_Subset, FS_CardinalityType DEF Ahead
  <1>12. queryId' # i
    BY <1>2, <1>3, <1>8, UDPAssumption DEF Past, Ids
  <1>13. Past(i, queryId') = D + k
    BY <1>2, <1>8
  <1>14. (D + k) + Cardinality(Ahead(i)') + 1 <= (age + 1) + Cardinality(Workers)
    BY <1>3, <1>4, <1>5, <1>10, <1>11
  <1> QED
    BY <1>12, <1>13, <1>14 DEF InLap, Past

-----------------------------------------------------------------------------
(* The invariant of the whole transport.                                   *)

\* The parts of TypeOK that IdsInv and BaseInv do not state: the connector's
\* variables, and those of the exchanges.
ConnTypeOK ==
    /\ slot \in Conns \cup {NoConn}
    /\ flight \in Conns \cup {NoConn}
    /\ open \in SUBSET Conns
    /\ shut \in BOOLEAN
    /\ finished \in SUBSET Closers
MessageTypeOK ==
    /\ udpSize \in Nat
    /\ idAge \in [Workers -> 0..(MaxLifetime + 1)]
    /\ myConn \in [Workers -> Conns \cup {NoConn}]
    /\ response \in [Workers -> {"none", "answer", "truncated", "stray"}]
    /\ wire \in SUBSET Responses

\* Every step keeps the connector (connector.go behind dial, Reset and Close of
\* udp.go) in order: what is open is in its slot or being dialed.
LEMMA NextKeepsSlot == ConnTypeOK /\ SlotInv /\ [Next]_vars => ConnTypeOK' /\ SlotInv'
  <1> SUFFICES ASSUME ConnTypeOK, SlotInv, [Next]_vars PROVE ConnTypeOK' /\ SlotInv'
    OBVIOUS
  <1> USE UDPAssumption DEF ConnTypeOK, SlotInv
  <1>1. CASE UNCHANGED <<connVars, finished>>
    BY <1>1 DEF connVars
  <1>2. CASE Start \/ Reset
    BY <1>1, <1>2 DEF Start, Reset, Conn!Drop
  <1>3. ASSUME NEW w \in Workers, Exchange(w) \/ WorkerStep(w) \/ CallerGivesUp(w)
        PROVE  ConnTypeOK' /\ SlotInv'
    <2>1. CASE ResetForSize(w)
      BY <2>1 DEF ResetForSize, Conn!Drop
    <2>2. CASE WriteFails(w)
      BY <2>2 DEF WriteFails, Conn!Die
    <2>3. CASE ~ResetForSize(w) /\ ~WriteFails(w)
      BY <1>1, <1>3, <2>3 DEF Exchange, WorkerStep, CallerGivesUp, RaiseUDPSize, GetReturns, GetFails,
            Register, NoAvailableQueryID, Write, WaitEnds, Cleanup, ExchangeTCP, ExchangeEnds
    <2> QED
      BY <2>1, <2>2, <2>3
  <1>4. ASSUME NEW w \in Workers, NEW c \in Conns, Launch(w, c) PROVE ConnTypeOK' /\ SlotInv'
    BY <1>4 DEF Launch, Conn!Launch
  <1>5. ASSUME NEW c \in Conns, Establish(c) \/ Install(c) \/ Discard(c) \/ RecvFails(c)
        PROVE  ConnTypeOK' /\ SlotInv'
    BY <1>5 DEF Establish, Install, Discard, RecvFails, Conn!Establish, Conn!Install,
                Conn!Discard, Conn!Die
  <1>6. CASE \E r \in wire : RecvLoop(r)
    BY <1>1, <1>6 DEF RecvLoop
  <1>7. ASSUME NEW c \in Closers, Shutdown(c) \/ Timeout(c) PROVE ConnTypeOK' /\ SlotInv'
    BY <1>1, <1>7 DEF Shutdown, Timeout
  <1>8. ASSUME NEW c \in Closers, CloseConnector(c) PROVE ConnTypeOK' /\ SlotInv'
    BY <1>8 DEF CloseConnector, Conn!Shut
  <1>9. CASE UNCHANGED vars
    BY <1>1, <1>9 DEF vars
  <1> QED
    BY <1>2, <1>3, <1>4, <1>5, <1>6, <1>7, <1>8, <1>9 DEF Next

\* Every step keeps the types of the exchanges' variables.
LEMMA NextKeepsMessages ==
  ConnTypeOK /\ IdsInv /\ MessageTypeOK /\ [Next]_vars => MessageTypeOK'
  <1> SUFFICES ASSUME ConnTypeOK, IdsInv, MessageTypeOK, [Next]_vars PROVE MessageTypeOK'
    OBVIOUS
  <1> USE UDPAssumption DEF MessageTypeOK
  <1>1. ASSUME UNCHANGED <<udpSize, idAge, myConn, response>>, wire' \subseteq wire
        PROVE  MessageTypeOK'
    BY <1>1
  <1>2. CASE Start \/ Reset
    BY <1>1, <1>2 DEF Start, Reset, exchangeVars, OnOpen
  <1>3. ASSUME NEW w \in Workers, Register(w) PROVE MessageTypeOK'
    <2>1. wire' \in SUBSET Responses
      BY <1>3, SMTT(30) DEF Register, Responses
    <2>2. idAge' \in [Workers -> 0..(MaxLifetime + 1)]
      BY <1>3 DEF Register
    <2> QED
      BY <1>3, <2>1, <2>2 DEF Register
  <1>4. ASSUME NEW w \in Workers, Write(w) PROVE MessageTypeOK'
    <2>1. myId[w] \in Ids
      BY <1>4 DEF Write, IdsInv, Holding
    <2>2. [conn |-> myConn[w], id |-> myId[w], for |-> w, age |-> 0] \in Responses
      BY <1>4, <2>1 DEF Write, ConnTypeOK, Responses
    <2> QED
      BY <1>4, <2>2 DEF Write
  <1>5. ASSUME NEW w \in Workers, Cleanup(w) PROVE MessageTypeOK'
    <2>1. ASSUME NEW s \in wire, idAge[w] <= MaxLifetime
          PROVE  [s EXCEPT !.for = NoWorker, !.age = idAge[w]] \in Responses
      <3>1. idAge[w] \in 0..MaxLifetime
        BY <2>1
      <3>2. s \in Responses
        OBVIOUS
      <3> QED
        BY <3>1, <3>2 DEF Responses
    <2>2. wire' = {r \in wire : r.for # w} \cup
               {[r EXCEPT !.for = NoWorker, !.age = idAge[w]] :
                    r \in {s \in wire : s.for = w /\ idAge[w] <= MaxLifetime}}
      BY <1>5 DEF Cleanup
    <2>4. wire' \in SUBSET Responses
      BY <2>1, <2>2, ZenonT(60)
    <2>3. /\ UNCHANGED <<udpSize, myConn, response>>
          /\ idAge' = [idAge EXCEPT ![w] = 0]
      BY <1>5 DEF Cleanup
    <2> QED
      BY <2>3, <2>4
  <1>6. ASSUME NEW w \in Workers, WaitEnds(w) \/ CallerGivesUp(w) \/ ExchangeEnds(w)
        PROVE MessageTypeOK'
    BY <1>6 DEF WaitEnds, CallerGivesUp, ExchangeEnds
  <1>7. ASSUME NEW w \in Workers, GetReturns(w) \/ RaiseUDPSize(w) PROVE MessageTypeOK'
    BY <1>7 DEF GetReturns, RaiseUDPSize, ConnTypeOK
  <1>8. ASSUME NEW w \in Workers,
               \/ Exchange(w) \/ ResetForSize(w) \/ GetFails(w) \/ NoAvailableQueryID(w)
               \/ WriteFails(w) \/ ExchangeTCP(w)
        PROVE MessageTypeOK'
    BY <1>1, <1>8 DEF Exchange, ResetForSize, GetFails, NoAvailableQueryID, WriteFails,
                      ExchangeTCP, OnOpen
  <1>9. CASE \E w \in Workers, c \in Conns : Launch(w, c)
    BY <1>1, <1>9 DEF Launch, exchangeVars
  <1>10. CASE \E c \in Conns : Establish(c) \/ Install(c) \/ Discard(c) \/ RecvFails(c)
    BY <1>1, <1>10 DEF Establish, Install, Discard, RecvFails, exchangeVars, OnOpen
  <1>11. ASSUME NEW r \in wire, RecvLoop(r) PROVE MessageTypeOK'
    <2>1. PICK read \in {"answer", "truncated", "stray"} :
            response' = [response EXCEPT ![callbacks[r.id]] = read]
      BY <1>11 DEF RecvLoop
    <2> QED
      BY <1>11, <2>1 DEF RecvLoop
  <1>12. CASE \E c \in Closers : Shutdown(c) \/ Timeout(c) \/ CloseConnector(c)
    BY <1>1, <1>12 DEF Shutdown, Timeout, CloseConnector, exchangeVars, OnOpen
  <1>13. CASE UNCHANGED vars
    BY <1>1, <1>13 DEF vars, exchangeVars
  <1> QED
    BY <1>2, <1>3, <1>4, <1>5, <1>6, <1>7, <1>8, <1>9, <1>10, <1>11, <1>12, <1>13
    DEF Next, WorkerStep

\* A step that neither allocates nor frees an id keeps the lap.
LEMMA QuietKeepsLap ==
  ASSUME LapInv, UNCHANGED <<queryId, callbacks, myId, idAge>>,
         \A w \in Workers : response'[w] # "stray",
         \A r \in wire' : r \in wire \/ (r.for \in Workers /\ myId[r.for] = r.id /\ r.for # NoWorker)
  PROVE  LapInv'
  <1>1. \A i, age : InLap(i, age)' <=> InLap(i, age)
    BY DEF InLap, Past, Ahead
  <1>2. \A i : Free(i)' <=> Free(i)
    BY DEF Free
  <1> QED
    BY <1>1, <1>2, Zenon DEF LapInv

\* Registering (exchange in udp.go) gives its query an id no response on its
\* way carries.
LEMMA RegisterKeepsLap ==
  ASSUME IdsInv, MessageTypeOK, LapInv, MaxLifetime + Cardinality(Workers) <= NumIds,
         NEW w \in Workers, Register(w)
  PROVE  LapInv'
  <1>1. PICK i \in Ids : i = nextAvailableQueryId /\ Free(i)
    BY NextIdIsFree DEF Register, IdsInv
  <1>2. /\ queryId' = i
        /\ callbacks' = [callbacks EXCEPT ![i] = w]
        /\ myId' = [myId EXCEPT ![w] = i]
        /\ at[w] = "register"
        /\ response' = [response EXCEPT ![w] = "none"]
        /\ idAge' = [v \in Workers |-> IF v = w \/ myId[v] = NoId THEN 0
                                       ELSE IF idAge[v] > MaxLifetime THEN idAge[v]
                                       ELSE idAge[v] + 1]
    BY <1>1 DEF Register
  <1>3. wire' = {r \in wire : r.for # NoWorker} \cup
               {[r EXCEPT !.age = @ + 1] :
                    r \in {s \in wire : s.for = NoWorker /\ s.age < MaxLifetime}}
    BY DEF Register
  <1>4. /\ NoId \notin Ids /\ NoWorker \notin Workers /\ MaxLifetime \in Nat /\ NumIds \in Nat
        /\ Cardinality(Workers) \in Nat
    BY UDPAssumption, BaseAssumption, FS_CardinalityType DEF NoId, NoWorker, Ids
  <1>5. myId[w] = NoId /\ \A v \in Workers : v # w => myId'[v] = myId[v]
    BY <1>2 DEF IdsInv, Holding
  <1>6. \A v \in Workers : response'[v] # "stray"
    BY <1>2 DEF LapInv, MessageTypeOK
  <1>7. ASSUME NEW r \in wire' PROVE r.for \in Workers => myId'[r.for] = r.id
    <2>1. CASE r \in wire /\ r.for # NoWorker
      BY <1>4, <1>5, <2>1 DEF LapInv, MessageTypeOK, Responses
    <2>2. ASSUME NEW s \in wire, s.for = NoWorker, r = [s EXCEPT !.age = @ + 1]
          PROVE  r.for = NoWorker
      BY <2>2 DEF MessageTypeOK, Responses
    <2> QED
      BY <1>3, <1>4, <2>1, <2>2
  <1>8. ASSUME NEW r \in wire', r.for = NoWorker PROVE Free(r.id)' /\ InLap(r.id, r.age)'
    <2>1. PICK s \in wire : s.for = NoWorker /\ s.age < MaxLifetime /\ r = [s EXCEPT !.age = @ + 1]
      BY <1>3, <1>8
    <2>2. /\ s.id \in Ids /\ s.age \in Nat /\ r.id = s.id /\ r.age = s.age + 1
      BY <2>1, <1>4 DEF MessageTypeOK, Responses
    <2>3. Free(s.id) /\ InLap(s.id, s.age)
      BY <2>1 DEF LapInv
    <2>4. s.age + Cardinality(Workers) < NumIds
      BY <1>4, <2>1, <2>2
    <2>5. queryId' # s.id /\ InLap(s.id, s.age + 1)'
      BY <2>2, <2>3, <2>4, RegisterStaysInLap
    <2> QED
      BY <1>1, <1>2, <2>2, <2>3, <2>5 DEF Free, IdsInv
  <1>9. ASSUME NEW v \in Workers, myId'[v] \in Ids, idAge'[v] <= MaxLifetime
        PROVE  InLap(myId[v], idAge[v])'
    <2>1. CASE v = w
      <3>1. myId'[v] = i /\ idAge'[v] = 0
        BY <1>2, <2>1 DEF IdsInv
      <3>2. Past(i, i) = 0
        BY <1>1, UDPAssumption DEF Past, Ids
      <3>3. Ahead(i)' \subseteq Workers \ {w}
        BY <1>2, <2>1, <3>1, <3>2, <1>4 DEF Ahead, Past
      <3>4. /\ IsFiniteSet(Workers \ {w})
            /\ Cardinality(Workers \ {w}) = Cardinality(Workers) - 1
        BY BaseAssumption, FS_RemoveElement
      <3>5. Cardinality(Ahead(i)') <= Cardinality(Workers) - 1 /\ Cardinality(Ahead(i)') \in Nat
        BY <3>3, <3>4, FS_Subset, FS_CardinalityType
      <3>6. 0 + Cardinality(Ahead(i)') + 1 <= 0 + Cardinality(Workers)
        BY <1>4, <3>5
      <3>7. Past(i, queryId)' = 0
        BY <1>2, <3>2 DEF Past
      <3>8. InLap(i, 0)'
        BY <3>6, <3>7 DEF InLap
      <3> QED
        BY <3>1, <3>8
    <2>2. CASE v # w
      <3>1. myId'[v] = myId[v] /\ myId[v] \in Ids /\ myId[v] # NoId
        BY <1>4, <1>5, <1>9, <2>2
      <3>2. idAge[v] \in Nat /\ idAge[v] < MaxLifetime /\ idAge'[v] = idAge[v] + 1
        BY <1>2, <1>4, <1>9, <2>2, <3>1 DEF MessageTypeOK
      <3>3. PICK j \in Ids, age \in Nat : j = myId[v] /\ age = idAge[v]
        BY <3>1, <3>2
      <3>4. InLap(j, age) /\ age + Cardinality(Workers) < NumIds
        BY <1>4, <3>1, <3>2, <3>3 DEF LapInv
      <3>5. InLap(j, age + 1)'
        BY <3>4, RegisterStaysInLap
      <3> QED
        BY <3>1, <3>2, <3>3, <3>5
    <2> QED
      BY <2>1, <2>2
  <1> QED
    BY <1>6, <1>7, <1>8, <1>9 DEF LapInv

\* The clean-up of an exchange frees its id and leaves its responses behind,
\* with the age the id has.
LEMMA CleanupKeepsLap ==
  ASSUME IdsInv, MessageTypeOK, LapInv, NEW w \in Workers, Cleanup(w)
  PROVE  LapInv'
  <1>1. /\ callbacks' = [callbacks EXCEPT ![myId[w]] = NoWorker]
        /\ myId' = [myId EXCEPT ![w] = NoId]
        /\ idAge' = [idAge EXCEPT ![w] = 0]
        /\ UNCHANGED <<queryId, response>>
        /\ at[w] = "cleanup"
    BY DEF Cleanup, Unregister
  <1>2. wire' = {r \in wire : r.for # w} \cup
               {[r EXCEPT !.for = NoWorker, !.age = idAge[w]] :
                    r \in {s \in wire : s.for = w /\ idAge[w] <= MaxLifetime}}
    BY DEF Cleanup
  <1>3. /\ NoId \notin Ids /\ NoWorker \notin Workers /\ MaxLifetime \in Nat
        /\ Cardinality(Workers) \in Nat
    BY UDPAssumption, BaseAssumption, FS_CardinalityType DEF NoId, NoWorker, Ids
  <1>4. myId[w] \in Ids /\ \A v \in Workers : v # w => myId'[v] = myId[v]
    BY <1>1 DEF IdsInv, Holding
  <1>0. PICK j \in Ids : j = myId[w]
    BY <1>4
  <1>5. \A i \in Ids : Free(i) => Free(i)'
    BY <1>1 DEF Free, IdsInv
  <1>6. ASSUME NEW i \in Ids, NEW age \in Nat, InLap(i, age) PROVE InLap(i, age)'
    <2>1. Ahead(i)' \subseteq Ahead(i)
      BY <1>1, <1>3, <1>4 DEF Ahead, Past, IdsInv
    <2>2. IsFiniteSet(Ahead(i)) /\ Cardinality(Ahead(i)) \in Nat
      BY BaseAssumption, FS_Subset, FS_CardinalityType DEF Ahead
    <2>3. Cardinality(Ahead(i)') <= Cardinality(Ahead(i)) /\ Cardinality(Ahead(i)') \in Nat
      BY <2>1, <2>2, FS_Subset, FS_CardinalityType
    <2>4. Past(i, queryId) \in Int /\ Past(i, queryId)' = Past(i, queryId)
      BY <1>1, UDPAssumption DEF Past, Ids, IdsInv
    <2> QED
      BY <1>3, <1>6, <2>2, <2>3, <2>4 DEF InLap
  <1>7. ASSUME NEW r \in wire' PROVE r.for \in Workers => myId'[r.for] = r.id
    <2>1. CASE r \in wire /\ r.for # w
      BY <1>4, <2>1 DEF LapInv
    <2>2. ASSUME NEW s \in wire, r = [s EXCEPT !.for = NoWorker, !.age = idAge[w]]
          PROVE  r.for = NoWorker
      BY <2>2 DEF MessageTypeOK, Responses
    <2> QED
      BY <1>2, <1>3, <2>1, <2>2
  <1>8. ASSUME NEW r \in wire', r.for = NoWorker PROVE Free(r.id)' /\ InLap(r.id, r.age)'
    <2>1. CASE r \in wire
      <3>1. r.id \in Ids /\ r.age \in Nat
        BY <1>3, <2>1 DEF MessageTypeOK, Responses
      <3>2. Free(r.id) /\ InLap(r.id, r.age)
        BY <1>8, <2>1 DEF LapInv
      <3> QED
        BY <1>5, <1>6, <3>1, <3>2
    <2>2. ASSUME NEW s \in wire, s.for = w, idAge[w] <= MaxLifetime,
                 r = [s EXCEPT !.for = NoWorker, !.age = idAge[w]]
          PROVE  Free(r.id)' /\ InLap(r.id, r.age)'
      <3>1. r.id = s.id /\ r.age = idAge[w] /\ idAge[w] \in Nat
        BY <1>3, <2>2 DEF MessageTypeOK, Responses
      <3>2. s.id = myId[w]
        BY <2>2 DEF LapInv
      <3>3. InLap(myId[w], idAge[w])
        BY <1>4, <2>2 DEF LapInv
      <3>4. Free(j)'
        BY <1>1, <1>0 DEF Free, IdsInv
      <3> QED
        BY <1>0, <1>6, <3>1, <3>2, <3>3, <3>4
    <2> QED
      BY <1>2, <2>1, <2>2
  <1>9. ASSUME NEW v \in Workers, myId'[v] \in Ids, idAge'[v] <= MaxLifetime
        PROVE  InLap(myId[v], idAge[v])'
    <2>1. v # w /\ myId'[v] = myId[v] /\ idAge'[v] = idAge[v] /\ idAge[v] \in Nat
      BY <1>1, <1>3, <1>4, <1>9 DEF IdsInv, MessageTypeOK
    <2>2. PICK i \in Ids, age \in Nat : i = myId[v] /\ age = idAge[v]
      BY <1>9, <2>1
    <2>3. InLap(i, age)
      BY <1>9, <2>1, <2>2 DEF LapInv
    <2>4. InLap(i, age)'
      BY <1>6, <2>3
    <2> QED
      BY <2>1, <2>2, <2>4
  <1>10. \A v \in Workers : response'[v] # "stray"
    BY <1>1 DEF LapInv
  <1> QED
    BY <1>7, <1>8, <1>9, <1>10 DEF LapInv

\* Every step keeps the lap: recvLoop, which looks at nothing but the id, finds
\* under it the query the response answers, or nobody.
LEMMA NextKeepsLap ==
  ASSUME IdsInv, MessageTypeOK, LapInv, MaxLifetime + Cardinality(Workers) <= NumIds, [Next]_vars
  PROVE  LapInv'
  <1>0. NoWorker \notin Workers
    BY UDPAssumption DEF NoWorker
  <1>1. ASSUME UNCHANGED <<queryId, callbacks, myId, idAge, response>>, wire' \subseteq wire
        PROVE  LapInv'
    <2>1. \A w \in Workers : response'[w] # "stray"
      BY <1>1 DEF LapInv
    <2> QED
      BY <1>1, <2>1, QuietKeepsLap
  <1>2. CASE Start \/ Reset
    BY <1>1, <1>2 DEF Start, Reset, exchangeVars, OnOpen
  <1>3. ASSUME NEW w \in Workers, Register(w) PROVE LapInv'
    BY <1>3, RegisterKeepsLap
  <1>4. ASSUME NEW w \in Workers, Write(w) PROVE LapInv'
    <2>1. /\ UNCHANGED <<queryId, callbacks, myId, idAge, response>>
          /\ wire' = wire \cup {[conn |-> myConn[w], id |-> myId[w], for |-> w, age |-> 0]}
      BY <1>4 DEF Write
    <2>2. \A v \in Workers : response'[v] # "stray"
      BY <2>1 DEF LapInv
    <2> QED
      BY <1>0, <2>1, <2>2, QuietKeepsLap
  <1>5. ASSUME NEW w \in Workers, Cleanup(w) PROVE LapInv'
    BY <1>5, CleanupKeepsLap
  <1>6. ASSUME NEW w \in Workers, WaitEnds(w) \/ CallerGivesUp(w) \/ ExchangeEnds(w)
        PROVE  LapInv'
    <2>1. /\ UNCHANGED <<queryId, callbacks, myId, idAge, wire>>
          /\ \E r \in {response[w], "none"} : response' = [response EXCEPT ![w] = r]
      BY <1>6 DEF WaitEnds, CallerGivesUp, ExchangeEnds
    <2>2. \A v \in Workers : response'[v] # "stray"
      BY <2>1 DEF LapInv, MessageTypeOK
    <2> QED
      BY <2>1, <2>2, QuietKeepsLap
  <1>7. ASSUME NEW w \in Workers,
               \/ Exchange(w) \/ RaiseUDPSize(w) \/ ResetForSize(w) \/ GetReturns(w) \/ GetFails(w)
               \/ NoAvailableQueryID(w) \/ WriteFails(w) \/ ExchangeTCP(w)
        PROVE  LapInv'
    BY <1>1, <1>7 DEF Exchange, RaiseUDPSize, ResetForSize, GetReturns, GetFails,
                      NoAvailableQueryID, WriteFails, ExchangeTCP, OnOpen
  <1>8. CASE \E w \in Workers, c \in Conns : Launch(w, c)
    BY <1>1, <1>8 DEF Launch, exchangeVars
  <1>9. CASE \E c \in Conns : Establish(c) \/ Install(c) \/ Discard(c) \/ RecvFails(c)
    BY <1>1, <1>9 DEF Establish, Install, Discard, RecvFails, exchangeVars, OnOpen
  <1>10. ASSUME NEW r \in wire, RecvLoop(r) PROVE LapInv'
    <2> DEFINE w == callbacks[r.id]
    <2>1. w # NoWorker /\ UNCHANGED <<queryId, callbacks, myId, idAge, wire>>
      BY <1>10 DEF RecvLoop
    <2>2. r.id \in Ids /\ r.for \in Workers \cup {NoWorker}
      BY DEF MessageTypeOK, Responses
    <2>3. r.for = w
      <3>1. r.for \in Workers /\ myId[r.for] = r.id
        BY <2>1, <2>2 DEF LapInv, Free
      <3> QED
        BY <2>2, <3>1 DEF IdsInv, ExclusiveIds
    <2>4. \E read \in {"answer", "truncated"} : response' = [response EXCEPT ![w] = read]
      BY <1>10, <2>3 DEF RecvLoop
    <2>5. \A v \in Workers : response'[v] # "stray"
      BY <2>4 DEF LapInv, MessageTypeOK
    <2> QED
      BY <2>1, <2>5, QuietKeepsLap
  <1>11. CASE \E c \in Closers : Shutdown(c) \/ Timeout(c) \/ CloseConnector(c)
    BY <1>1, <1>11 DEF Shutdown, Timeout, CloseConnector, exchangeVars, OnOpen
  <1>12. CASE UNCHANGED vars
    BY <1>1, <1>12 DEF vars, exchangeVars
  <1> QED
    BY <1>2, <1>3, <1>4, <1>5, <1>6, <1>7, <1>8, <1>9, <1>10, <1>11, <1>12 DEF Next, WorkerStep

\* A worker is between BeginQuery and EndQuery (base.go) exactly while it is
\* inside Exchange (udp.go).
Admitted == \A w \in Workers : query[w] = "running" <=> at[w] # "idle"

\* Every step keeps it so.
LEMMA NextKeepsAdmitted ==
  BaseTypeOK /\ IdsInv /\ Admitted /\ [Next]_vars => Admitted'
  <1> SUFFICES ASSUME BaseTypeOK, IdsInv, Admitted, [Next]_vars PROVE Admitted'
    OBVIOUS
  <1> USE DEF BaseTypeOK, IdsInv, Admitted
  <1>1. CASE UNCHANGED <<query, at>>
    BY <1>1
  <1>2. ASSUME NEW w \in Workers, Exchange(w) \/ ExchangeEnds(w) PROVE Admitted'
    BY <1>2 DEF Exchange, ExchangeEnds, BeginQuery, EndQuery, Goto
  <1>3. ASSUME NEW w \in Workers, WorkerStep(w) \/ CallerGivesUp(w), ~ExchangeEnds(w)
        PROVE  Admitted'
    <2>1. query' = query /\ at[w] # "idle"
      BY <1>3 DEF WorkerStep, CallerGivesUp, RaiseUDPSize, ResetForSize, GetReturns, GetFails,
                  Register, NoAvailableQueryID, Write, WriteFails, WaitEnds, Cleanup, ExchangeTCP,
                  baseVars
    <2>2. \E p \in Positions \ {"idle"} : at' = [at EXCEPT ![w] = p]
      BY <1>3 DEF WorkerStep, CallerGivesUp, RaiseUDPSize, ResetForSize, GetReturns, GetFails,
                  Register, NoAvailableQueryID, Write, WriteFails, WaitEnds, Cleanup, ExchangeTCP,
                  Goto, Positions
    <2> QED
      BY <2>1, <2>2
  <1>4. CASE Start \/ Reset
    BY <1>1, <1>4 DEF Start, Reset, SetStarted, exchangeVars, baseVars
  <1>5. CASE \E w \in Workers, c \in Conns : Launch(w, c)
    BY <1>1, <1>5 DEF Launch, exchangeVars, baseVars
  <1>6. CASE \E c \in Conns : Establish(c) \/ Install(c) \/ Discard(c) \/ RecvFails(c)
    BY <1>1, <1>6 DEF Establish, Install, Discard, RecvFails, exchangeVars, baseVars
  <1>7. CASE \E r \in wire : RecvLoop(r)
    BY <1>1, <1>7 DEF RecvLoop, baseVars
  <1>8. CASE \E c \in Closers : Shutdown(c) \/ Timeout(c) \/ CloseConnector(c)
    BY <1>1, <1>8 DEF Shutdown, Timeout, CloseConnector, ShutdownStep, ShutdownBegins, CloseCancel,
                      ShutdownDrained, ShutdownTimesOut, exchangeVars, baseVars
  <1>9. CASE UNCHANGED vars
    BY <1>1, <1>9 DEF vars, exchangeVars, baseVars
  <1> QED
    BY <1>2, <1>3, <1>4, <1>5, <1>6, <1>7, <1>8, <1>9 DEF Next

\* UDPInv is the conjunction of its parts.
LEMMA UDPInvParts ==
  UDPInv <=> /\ BaseInv /\ IdsInv /\ ConnTypeOK /\ MessageTypeOK /\ SlotInv /\ Admitted
             /\ MaxLifetime + Cardinality(Workers) <= NumIds => LapInv
  BY DEF UDPInv, TypeOK, BaseInv, IdsInv, ConnTypeOK, MessageTypeOK, Admitted

\* The invariant of the UDP transport holds in every reachable state, for any
\* number of ids, workers, connections and closers.
THEOREM UDPInvariance == Spec => []UDPInv
  <1>1. Init => UDPInv
    <2> SUFFICES ASSUME Init PROVE UDPInv
      OBVIOUS
    <2>1. BaseInv
      BY InitEstablishesBaseInv DEF Init
    <2>2. IdsInv
      BY UDPAssumption DEF Init, IdsInv, ExclusiveIds, Ids, NoId, NoWorker, Positions, Holding
    <2>3. ConnTypeOK /\ SlotInv
      BY DEF Init, Conn!Init, ConnTypeOK, SlotInv
    <2>4. MessageTypeOK
      BY UDPAssumption DEF Init, MessageTypeOK
    <2>5. LapInv
      BY UDPAssumption DEF Init, LapInv, Ids, NoId
    <2>6. Admitted
      BY DEF Init, BaseInit, Admitted
    <2> QED
      BY <2>1, <2>2, <2>3, <2>4, <2>5, <2>6, UDPInvParts
  <1>2. UDPInv /\ [Next]_vars => UDPInv'
    <2> SUFFICES ASSUME UDPInv, [Next]_vars PROVE UDPInv'
      OBVIOUS
    <2>1. /\ BaseInv /\ IdsInv /\ ConnTypeOK /\ MessageTypeOK /\ SlotInv /\ Admitted
          /\ MaxLifetime + Cardinality(Workers) <= NumIds => LapInv
      BY UDPInvParts
    <2>2. BaseInv'
      BY <2>1, StepImplementsBase, NextPreservesBaseInv
    <2>3. IdsInv' /\ ConnTypeOK' /\ SlotInv' /\ MessageTypeOK'
      BY <2>1, NextKeepsIds, NextKeepsSlot, NextKeepsMessages
    <2>4. Admitted'
      BY <2>1, NextKeepsAdmitted DEF BaseInv
    <2>5. MaxLifetime + Cardinality(Workers) <= NumIds => LapInv'
      BY <2>1, NextKeepsLap
    <2> QED
      BY <2>2, <2>3, <2>4, <2>5
      DEF UDPInv, TypeOK, BaseInv, IdsInv, ConnTypeOK, MessageTypeOK, Admitted
  <1> QED
    BY <1>1, <1>2, PTL DEF Spec

\* A worker is given the response to its own message, for any number of
\* workers and ids: recvLoop in udp.go may look at the id alone, because
\* nextAvailableQueryId comes back to an id only after a lap over the others.
THEOREM AnswersAreOwn == Spec => []OwnAnswer
  <1>1. UDPInv => OwnAnswer
    BY DEF UDPInv, LapInv, OwnAnswer
  <1> QED
    BY <1>1, UDPInvariance, PTL

\* A transport whose Close has returned keeps no connection open beyond the
\* dial in flight, and no query registered unless Close ran into its timeout.
THEOREM ClosedTransportReleases == Spec => []CloseReleases
  <1>1. UDPInv => CloseReleases
    <2> SUFFICES ASSUME UDPInv, finished # {} PROVE
                    /\ flight = NoConn => open = {}
                    /\ state = "closed" /\ (\A c \in Closers : closer[c] # "timedOut") =>
                            \A i \in Ids : Free(i)
      BY DEF CloseReleases
    <2>1. flight = NoConn => open = {}
      BY UDPAssumption DEF UDPInv, SlotInv, TypeOK
    <2>2. ASSUME state = "closed", \A c \in Closers : closer[c] # "timedOut", NEW i \in Ids
          PROVE  Free(i)
      <3>1. Running = {}
        BY <2>2 DEF UDPInv, BaseInv, ClosedIsQuiet
      <3>2. \A w \in Workers : at[w] = "idle"
        BY <3>1 DEF Running, UDPInv
      <3>3. \A w \in Workers : myId[w] = NoId
        BY <3>2 DEF UDPInv, IdsInv, Holding
      <3>4. NoId \notin Ids
        BY UDPAssumption DEF NoId, Ids
      <3> QED
        BY <3>3, <3>4 DEF UDPInv, IdsInv, ExclusiveIds, Free
    <2> QED
      BY <2>1, <2>2
  <1> QED
    BY <1>1, UDPInvariance, PTL
=============================================================================
