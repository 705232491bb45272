--------------------------- MODULE ConnectorProofs ---------------------------
(***************************************************************************)
(* Proofs about Connector, for any set of calls and any nesting of calls   *)
(* in dials.  IInv is inductive: one lemma says so, with one step per      *)
(* action.  The safety properties and the refinement follow from it.       *)
(***************************************************************************)
EXTENDS Connector, TLAPS

\* A new connector (NewConnector) satisfies the inductive invariant.
LEMMA InitEstablishesIInv == Init => IInv
  <1> SUFFICES ASSUME Init PROVE IInv
    OBVIOUS
  <1> USE DEF Init
  <1>1. TypeOK
    BY CallsAssumption DEF TypeOK, Positions, Results, DialStates
  <1>2. FlightInv
    BY CallsAssumption DEF FlightInv, InFlight
  <1>3. CacheInv
    BY DEF CacheInv
  <1>4. DialInv
    BY DEF DialInv
  <1>5. WaitInv /\ NestedInv
    BY DEF WaitInv, NestedInv
  <1>6. QED
    BY <1>1, <1>2, <1>3, <1>4, <1>5 DEF IInv

\* A Get that misses (connector.go, the tail of the section under c.access)
\* preserves the inductive invariant, whichever way it leaves the section.
LEMMA GetMissPreservesIInv ==
  ASSUME NEW c \in Calls, IInv, GetMiss(c)
  PROVE  IInv'
  <1> USE CallsAssumption DEF IInv, GetMiss, Usable
  <1>0. /\ connCtx' \in [Calls -> {"none", "live", "canceled"}]
        /\ \A d \in Calls : d # connectionCancel => connCtx'[d] = connCtx[d]
        /\ connectionCancel \in Calls => dial[connectionCancel] = "taken"
    BY DEF TypeOK, CacheInv, Cancel
  <1>1. TypeOK'
    <2>1. pc' \in [Calls -> Positions] /\ result' \in [Calls -> Results]
      BY DEF TypeOK, Positions, Results, Return
    <2>2. waitOn' \in [Calls -> Calls \cup {NoCall}]
      BY DEF TypeOK, Return
    <2>3. dial' \in [Calls -> DialStates] /\ connecting' \in Calls \cup {NoCall}
      BY DEF TypeOK, DialStates
    <2>4. QED
      BY <1>0, <2>1, <2>2, <2>3 DEF TypeOK, envVars
  <1>2. FlightInv'
    BY DEF TypeOK, FlightInv, NestedInv, InFlight, DialStates, Return,
           DialUnderWay, isRecursiveConnectorDial
  <1>3. CacheInv'
    BY DEF CacheInv
  <1>4. DialInv'
    <2>1. conn' = conn /\ closeCtxDone' = closeCtxDone /\ ctxDone' = ctxDone
      BY DEF envVars
    <2>2. \A d \in Calls : dial'[d] = dial[d] \/ (dial[d] = "none" /\ dial'[d] = "spawned")
      BY DEF TypeOK, FlightInv, InFlight, DialStates
    <2>3. \A d \in Calls : conn[d] = "open" => dial[d] \in {"returned", "ready"}
      BY DEF DialInv
    <2>4. QED
      BY <1>0, <2>1, <2>2, <2>3 DEF DialInv, TypeOK, DialStates
  <1>5. WaitInv'
    BY DEF TypeOK, WaitInv, Return, DialUnderWay
  <1>6. NestedInv'
    <2>1. \A d \in Calls : dial[d] = "running" => dial'[d] = "running"
      BY DEF TypeOK, FlightInv, InFlight, DialStates
    <2>2. QED
      BY <2>1 DEF TypeOK, NestedInv, Return, isRecursiveConnectorDial
  <1>7. QED
    BY <1>1, <1>2, <1>3, <1>4, <1>5, <1>6

\* Close and Reset drop the cached connection (connector.go); the drop
\* preserves the inductive invariant whether or not closed is set with it.
LEMMA DropPreservesIInv ==
  ASSUME IInv, DropConnection, closed' \in BOOLEAN,
         UNCHANGED <<connection, connecting, callVars, envVars, released, dial>>
  PROVE  IInv'
  <1> USE CallsAssumption DEF IInv, DropConnection, callVars, envVars
  <1>0. /\ connCtx' \in [Calls -> {"none", "live", "canceled"}]
        /\ \A d \in Calls : d # connectionCancel => connCtx'[d] = connCtx[d]
        /\ connectionCancel \in Calls => dial[connectionCancel] = "taken"
    BY DEF TypeOK, CacheInv, Cancel
  <1>1. /\ conn' \in [Calls -> {"none", "open", "closed"}]
        /\ \A d \in Calls : conn'[d] = "open" =>
             conn[d] = "open" /\ ~(hasConnection /\ connection = d)
    BY DEF TypeOK, CacheInv, CloseConn
  <1>2. TypeOK'
    BY <1>0, <1>1 DEF TypeOK
  <1>3. FlightInv'
    BY DEF FlightInv, InFlight
  <1>4. CacheInv'
    BY DEF CacheInv
  <1>5. DialInv'
    BY <1>0, <1>1 DEF DialInv, TypeOK, DialStates
  <1>6. WaitInv' /\ NestedInv'
    BY DEF WaitInv, NestedInv
  <1>7. QED
    BY <1>2, <1>3, <1>4, <1>5, <1>6

\* Every step of Get, of a dial, of completeDial, of Close, of Reset and of
\* the outside preserves the inductive invariant.
LEMMA NextPreservesIInv == IInv /\ [Next]_vars => IInv'
  <1> SUFFICES ASSUME IInv, [Next]_vars PROVE IInv'
    OBVIOUS
  <1> USE CallsAssumption
  <1>1. CASE Close
    BY <1>1, DropPreservesIInv DEF Close
  <1>2. CASE Reset
    BY <1>2, DropPreservesIInv DEF Reset, IInv, TypeOK
  <1>3. CASE CloseCtxCancelled
    BY <1>3 DEF IInv, TypeOK, FlightInv, CacheInv, DialInv, WaitInv, NestedInv,
         InFlight, Positions, Results, DialStates, CloseCtxCancelled, connectorVars, callVars
  <1>4. ASSUME NEW c \in Calls, CallGet(c) PROVE IInv'
    BY <1>4 DEF IInv, TypeOK, FlightInv, CacheInv, DialInv, WaitInv, NestedInv,
         InFlight, Positions, Results, DialStates, CallGet,
         connectorVars, callVars, envVars
  <1>5. ASSUME NEW c \in Calls, CtxCancelled(c) PROVE IInv'
    BY <1>5 DEF IInv, TypeOK, FlightInv, CacheInv, DialInv, WaitInv, NestedInv,
         InFlight, Positions, Results, DialStates, CtxCancelled,
         connectorVars, callVars, envVars
  <1>6. ASSUME NEW c \in Calls, ConnectionDies(c) PROVE IInv'
    BY <1>6 DEF IInv, TypeOK, FlightInv, CacheInv, DialInv, WaitInv, NestedInv,
         InFlight, Positions, Results, DialStates, ConnectionDies, CloseConn,
         connectorVars, callVars, envVars
  <1>7. ASSUME NEW c \in Calls, GetClosed(c) PROVE IInv'
    BY <1>7 DEF IInv, TypeOK, FlightInv, CacheInv, DialInv, WaitInv, NestedInv,
         InFlight, Positions, Results, DialStates, GetClosed, Return,
         connectorVars, callVars, envVars
  <1>8. ASSUME NEW c \in Calls, GetCached(c) PROVE IInv'
    <2>1. DialedFrom[c] = NoCall
      BY <1>8 DEF GetCached, Usable, IInv, NestedInv, FlightInv, InFlight
    <2>2. TypeOK' /\ FlightInv' /\ WaitInv' /\ NestedInv'
      BY <1>8, <2>1 DEF GetCached, Return, IInv, TypeOK, FlightInv, WaitInv, NestedInv, InFlight,
           Positions, Results, DialStates, connectorVars, envVars
    <2>3. CacheInv' /\ DialInv'
      BY <1>8 DEF GetCached, IInv, CacheInv, DialInv, connectorVars, envVars
    <2>4. QED
      BY <2>2, <2>3 DEF IInv
  <1>9. ASSUME NEW c \in Calls, GetMiss(c) PROVE IInv'
    BY <1>9, GetMissPreservesIInv
  <1>10. ASSUME NEW c \in Calls, WaitReleased(c) PROVE IInv'
    BY <1>10 DEF IInv, TypeOK, FlightInv, CacheInv, DialInv, WaitInv, NestedInv,
         InFlight, Positions, Results, DialStates, WaitReleased,
         connectorVars, callVars, envVars
  <1>11. ASSUME NEW c \in Calls, WaitGivesUp(c) PROVE IInv'
    BY <1>11 DEF IInv, TypeOK, FlightInv, CacheInv, DialInv, WaitInv, NestedInv,
         InFlight, Positions, Results, DialStates, WaitGivesUp, Return, CtxErr,
         connectorVars, callVars, envVars
  <1>12. ASSUME NEW c \in Calls, DialGivesUp(c) PROVE IInv'
    BY <1>12 DEF IInv, TypeOK, FlightInv, CacheInv, DialInv, WaitInv, NestedInv,
         InFlight, Positions, Results, DialStates, DialGivesUp, CtxErr,
         connectorVars, callVars, envVars
  <1>13. ASSUME NEW c \in Calls, CompleteError(c) PROVE IInv'
    BY <1>13 DEF IInv, TypeOK, FlightInv, CacheInv, DialInv, WaitInv, NestedInv,
         InFlight, Positions, Results, DialStates, CompleteError, ReleaseWaiters, CompleteReturns,
         connectorVars, callVars, envVars
  <1>14. ASSUME NEW c \in Calls, CompleteDiscards(c) PROVE IInv'
    BY <1>14 DEF IInv, TypeOK, FlightInv, CacheInv, DialInv, WaitInv, NestedInv,
         InFlight, Positions, Results, DialStates, CompleteDiscards, ReleaseWaiters, CompleteReturns, MustDiscard, CtxErr, Cancel, CloseConn,
         connectorVars, callVars, envVars
  <1>15. ASSUME NEW c \in Calls, CompleteInstalls(c) PROVE IInv'
    BY <1>15 DEF IInv, TypeOK, FlightInv, CacheInv, DialInv, WaitInv, NestedInv,
         InFlight, Positions, Results, DialStates, CompleteInstalls, ReleaseWaiters, CompleteReturns, MustDiscard, CtxErr,
         connectorVars, callVars, envVars
  <1>16. ASSUME NEW c \in Calls, DialRefused(c) PROVE IInv'
    BY <1>16 DEF IInv, TypeOK, FlightInv, CacheInv, DialInv, WaitInv, NestedInv,
         InFlight, Positions, Results, DialStates, DialRefused, CtxErr,
         connectorVars, callVars, envVars
  <1>17. ASSUME NEW c \in Calls, DialBegins(c) PROVE IInv'
    BY <1>17 DEF IInv, TypeOK, FlightInv, CacheInv, DialInv, WaitInv, NestedInv,
         InFlight, Positions, Results, DialStates, DialBegins, CtxErr,
         connectorVars, callVars, envVars
  <1>18. ASSUME NEW c \in Calls, AfterFuncCancels(c) PROVE IInv'
    BY <1>18 DEF IInv, TypeOK, FlightInv, CacheInv, DialInv, WaitInv, NestedInv,
         InFlight, Positions, Results, DialStates, AfterFuncCancels, AfterFuncArmed, CtxErr, Cancel,
         connectorVars, callVars, envVars
  <1>19. ASSUME NEW c \in Calls, DialReturns(c) PROVE IInv'
    BY <1>19 DEF IInv, TypeOK, FlightInv, CacheInv, DialInv, WaitInv, NestedInv,
         InFlight, Positions, Results, DialStates, DialReturns, DialIsIdle,
         connectorVars, callVars, envVars
  <1>20. ASSUME NEW c \in Calls, DialFails(c) PROVE IInv'
    BY <1>20 DEF IInv, TypeOK, FlightInv, CacheInv, DialInv, WaitInv, NestedInv,
         InFlight, Positions, Results, DialStates, DialFails, DialIsIdle, Cancel,
         connectorVars, callVars, envVars
  <1>21. ASSUME NEW c \in Calls, DialPublishes(c) PROVE IInv'
    BY <1>21 DEF IInv, TypeOK, FlightInv, CacheInv, DialInv, WaitInv, NestedInv,
         InFlight, Positions, Results, DialStates, DialPublishes,
         connectorVars, callVars, envVars
  <1>22. CASE UNCHANGED vars
    BY <1>22 DEF IInv, TypeOK, FlightInv, CacheInv, DialInv, WaitInv, NestedInv,
         InFlight, vars, connectorVars, callVars, envVars
  <1>23. QED
    BY <1>1, <1>2, <1>3, <1>4, <1>5, <1>6, <1>7, <1>8, <1>9, <1>10, <1>11, <1>12, <1>13, <1>14, <1>15, <1>16, <1>17, <1>18, <1>19, <1>20, <1>21, <1>22
    DEF Next, Environment, Caller, Dialer

\* Spec => []IInv, the fact every safety theorem below rests on.
THEOREM InductiveInvariance == Spec => []IInv
  BY InitEstablishesIInv, NextPreservesIInv, PTL DEF Spec

\* Type correctness of the connector.
THEOREM TypeCorrectness == Spec => []TypeOK
  <1>1. IInv => TypeOK
    BY DEF IInv
  <1>2. QED
    BY <1>1, InductiveInvariance, PTL

\* At most one connection of the connector is ever open, and none outside
\* the cache and the dial in flight.
THEOREM SingleConnection == Spec => [](AtMostOneOpen /\ NoOrphanConnection)
  <1>1. IInv => NoOrphanConnection
    BY DEF IInv, DialInv, FlightInv, InFlight, NoOrphanConnection
  <1>2. IInv /\ NoOrphanConnection => AtMostOneOpen
    BY CallsAssumption DEF IInv, FlightInv, NoOrphanConnection, AtMostOneOpen
  <1>3. QED
    BY <1>1, <1>2, InductiveInvariance, PTL

\* After Close, once no dial is in flight, no connection is open.
THEOREM CloseIsFinal == Spec => []CloseLeavesNothing
  <1>1. IInv => CloseLeavesNothing
    BY CallsAssumption DEF IInv, CacheInv, DialInv, FlightInv, InFlight, CloseLeavesNothing
  <1>2. QED
    BY <1>1, InductiveInvariance, PTL

\* The context of the shared connection outlives the caller that dialed it.
THEOREM SharedContextLives == Spec => []CachedContextLive
  <1>1. IInv => CachedContextLive
    BY DEF IInv, CacheInv, CachedContextLive
  <1>2. QED
    BY <1>1, InductiveInvariance, PTL

\* No waiting Get misses the end of the dial it waits for.
THEOREM WakeupsAreNotLost == Spec => []NoLostWakeup
  <1>1. IInv => NoLostWakeup
    BY CallsAssumption DEF IInv, TypeOK, FlightInv, WaitInv, NoLostWakeup
  <1>2. QED
    BY <1>1, InductiveInvariance, PTL

\* A Get from inside the connector's own dial is always refused.
THEOREM RecursionIsRefused == Spec => []RecursiveGetRefused
  <1>1. IInv => RecursiveGetRefused
    BY DEF IInv, NestedInv, RecursiveGetRefused
  <1>2. QED
    BY <1>1, InductiveInvariance, PTL

\* A step that leaves the cache, the dial in flight, closed and the
\* connections alone is a stuttering step of the abstract connection.
LEMMA StutterMaps ==
  ASSUME UNCHANGED <<hasConnection, connection, connecting, closed, conn>>
  PROVE  UNCHANGED Shared!vars
  BY DEF Shared!vars

\* Each step of the connector is a step of the abstract shared connection
\* or a stutter.
LEMMA StepMaps == IInv /\ [Next]_vars => [Shared!Next]_(Shared!vars)
  <1> SUFFICES ASSUME IInv, [Next]_vars PROVE Shared!Next \/ UNCHANGED Shared!vars
    OBVIOUS
  <1> USE CallsAssumption
  <1>1. CASE Close
    <2>1. Shared!Shut
      BY <1>1 DEF Close, DropConnection, CloseConn, IInv, TypeOK, CacheInv, Shared!Shut
    <2>2. QED
      BY <2>1 DEF Shared!Next
  <1>2. CASE Reset
    <2>1. Shared!Drop
      BY <1>2 DEF Reset, DropConnection, CloseConn, IInv, TypeOK, CacheInv, Shared!Drop
    <2>2. QED
      BY <2>1 DEF Shared!Next
  <1>3. CASE CloseCtxCancelled
    BY <1>3, StutterMaps DEF CloseCtxCancelled, connectorVars
  <1>4. ASSUME NEW c \in Calls, ConnectionDies(c)
        PROVE  Shared!Next
    <2>1. Shared!Die(c)
      BY <1>4 DEF ConnectionDies, CloseConn, connectorVars, IInv, TypeOK, Shared!Die
    <2>2. QED
      BY <2>1 DEF Shared!Next
  <1>5. ASSUME NEW c \in Calls, GetMiss(c)
        PROVE  Shared!Next
    <2>1. (IF hasConnection THEN connection ELSE NoCall) \notin {d \in Calls : conn[d] = "open"}
      BY <1>5 DEF GetMiss, Usable
    <2>2. CASE connecting' = connecting
      <3>1. Shared!Forget
        BY <1>5, <2>1, <2>2 DEF GetMiss, Shared!Forget
      <3>2. QED
        BY <3>1 DEF Shared!Next
    <2>3. CASE connecting' = c /\ connecting = NoCall
      <3>1. Shared!Launch(c)
        BY <1>5, <2>1, <2>3 DEF GetMiss, Shared!Launch
      <3>2. QED
        BY <3>1 DEF Shared!Next
    <2>4. QED
      BY <1>5, <2>2, <2>3 DEF GetMiss, DialUnderWay
  <1>6. ASSUME NEW c \in Calls, DialReturns(c)
        PROVE  Shared!Next
    <2>1. connecting = c
      BY <1>6 DEF DialReturns, IInv, FlightInv, InFlight
    <2>2. Shared!Establish(c)
      BY <1>6, <2>1 DEF DialReturns, connectorVars, IInv, TypeOK, Shared!Establish
    <2>3. QED
      BY <2>2 DEF Shared!Next
  <1>7. ASSUME NEW c \in Calls, CompleteError(c)
        PROVE  Shared!Next
    <2>1. connecting = c /\ ~hasConnection /\ conn[c] # "open"
      BY <1>7 DEF CompleteError, IInv, FlightInv, DialInv, InFlight
    <2>2. Shared!Discard(c)
      BY <1>7, <2>1 DEF CompleteError, ReleaseWaiters, Shared!Discard
    <2>3. QED
      BY <2>2 DEF Shared!Next
  <1>8. ASSUME NEW c \in Calls, CompleteDiscards(c)
        PROVE  Shared!Next
    <2>1. connecting = c
      BY <1>8 DEF CompleteDiscards, IInv, FlightInv, InFlight
    <2>2. Shared!Discard(c)
      BY <1>8, <2>1 DEF CompleteDiscards, ReleaseWaiters, CloseConn, IInv, TypeOK, Shared!Discard
    <2>3. QED
      BY <2>2 DEF Shared!Next
  <1>9. ASSUME NEW c \in Calls, CompleteInstalls(c)
        PROVE  Shared!Next
    <2>1. connecting = c /\ ~closed
      BY <1>9 DEF CompleteInstalls, MustDiscard, IInv, FlightInv, InFlight
    <2>2. Shared!Install(c)
      BY <1>9, <2>1 DEF CompleteInstalls, ReleaseWaiters, Shared!Install
    <2>3. QED
      BY <2>2 DEF Shared!Next
  <1>10. ASSUME NEW c \in Calls,
                \/ CallGet(c) \/ CtxCancelled(c) \/ GetClosed(c) \/ GetCached(c)
                \/ WaitReleased(c) \/ WaitGivesUp(c) \/ DialGivesUp(c)
                \/ DialRefused(c) \/ DialBegins(c) \/ AfterFuncCancels(c)
                \/ DialFails(c) \/ DialPublishes(c)
         PROVE  UNCHANGED Shared!vars
    <2>1. UNCHANGED <<hasConnection, connection, connecting, closed, conn>>
      BY <1>10 DEF CallGet, CtxCancelled, GetClosed, GetCached, WaitReleased, WaitGivesUp, DialGivesUp, DialRefused, DialBegins, AfterFuncCancels, DialFails, DialPublishes, connectorVars
    <2>2. QED
      BY <2>1, StutterMaps
  <1>11. CASE UNCHANGED vars
    BY <1>11, StutterMaps DEF vars, connectorVars
  <1>12. QED
    BY <1>1, <1>2, <1>3, <1>4, <1>5, <1>6, <1>7, <1>8, <1>9, <1>10, <1>11
    DEF Next, Environment, Caller, Dialer

\* The connector of connector.go implements the abstract shared connection.
THEOREM ConnectorRefinesSharedConnection == Spec => ImplementsSharedConnection
  <1>1. Init => Shared!Init
    BY DEF Init, Shared!Init
  <1>2. QED
    BY <1>1, StepMaps, InductiveInvariance, PTL
    DEF Spec, ImplementsSharedConnection, Shared!Spec
=============================================================================
