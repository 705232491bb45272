------------------------- MODULE URLTestGroupProofs -------------------------
(***************************************************************************)
(* LoopInv is inductive: of the actions only Touch starts a loop and it    *)
(* does so under the lock that LoopStops holds when it drops the ticker,   *)
(* and only LoopChecks and RoundEnds change which round a loop waits for.  *)
(***************************************************************************)
EXTENDS URLTestGroup, WellFoundedInduction, TLAPS

LoopStates == {"none", "start", "wait", "fired", "stopping", "checking"}

\* The flag checking is free after RoundEnds and before the first round.
LEMMA FreeRound == NoRound.by = None
  BY DEF NoRound

\* Nothing runs before the group is started.
LEMMA InitEstablishesLoopInv == Init => LoopInv
  BY FreeRound, GroupAssumption DEF Init, LoopInv, Running

\* A step that leaves the loops, the ticker, the channel close and the owner of
\* the round alone keeps the invariant.
LEMMA LoopUntouched ==
  ASSUME LoopInv, UNCHANGED <<loop, ticker, closed, round.by>>
  PROVE  LoopInv'
  BY DEF LoopInv, Running

\* A loop that goes from one point of its code to another, none of them the wait
\* for a round, keeps the invariant.
LEMMA LoopMoves ==
  ASSUME LoopInv, NEW l \in Loops, NEW pc \in LoopStates \ {"none", "checking"},
         loop[l] \notin {"none", "checking"}, loop' = [loop EXCEPT ![l] = pc],
         UNCHANGED <<ticker, closed, round.by>>
  PROVE  LoopInv'
  BY DEF LoopInv, Running, LoopStates

\* So does a loop that calls urlTest, whether it gets the flag or not.
LEMMA LoopChecksKeeps ==
  ASSUME LoopInv, NEW l \in Loops, loop[l] \notin {"none", "checking"}, LoopChecks(l),
         UNCHANGED <<ticker, closed>>
  PROVE  LoopInv'
  <1>1. CASE round.by = None /\ Begin(l, FALSE) /\ loop' = [loop EXCEPT ![l] = "checking"]
    <2>1. round'.by = l
      BY <1>1 DEF Begin
    <2> QED
      BY <1>1, <2>1, GroupAssumption DEF LoopInv, Running
  <1>2. CASE round.by # None /\ UNCHANGED round /\ loop' = [loop EXCEPT ![l] = "wait"]
    BY <1>2, LoopMoves DEF LoopStates
  <1> QED
    BY <1>1, <1>2 DEF LoopChecks

\* A Touch starts a loop exactly when there is no ticker, hence no loop.
LEMMA TouchKeeps ==
  ASSUME LoopInv, Touch, UNCHANGED round
  PROVE  LoopInv'
  <1>1. CASE UNCHANGED <<ticker, loop, closed>>
    BY <1>1, LoopUntouched
  <1>2. CASE /\ ticker = "nil" /\ ticker' = "on"
             /\ \E l \in Loops : loop[l] = "none"
             /\ loop' = [loop EXCEPT ![CHOOSE l \in Loops : loop[l] = "none"] = "start"]
             /\ UNCHANGED closed
    <2> DEFINE l == CHOOSE m \in Loops : loop[m] = "none"
    <2>1. l \in Loops /\ loop[l] = "none"
      BY <1>2
    <2>2. loop' = [loop EXCEPT ![l] = "start"]
      BY <1>2
    <2> HIDE DEF l
    <2>3. \A m \in Loops : loop[m] = "none"
      BY <1>2 DEF LoopInv, Running
    <2>4. loop' \in [Loops -> LoopStates]
      BY <2>2 DEF LoopInv, LoopStates
    <2>5. \A m \in Loops : loop'[m] = IF m = l THEN "start" ELSE "none"
      BY <2>2, <2>3 DEF LoopInv
    <2>6. \A m \in Loops : round'.by # m
      BY <2>3 DEF LoopInv
    <2> QED
      BY <1>2, <2>1, <2>4, <2>5, <2>6 DEF LoopInv, Running, LoopStates
  <1> QED
    BY <1>1, <1>2 DEF Touch

\* The steps of the loop.
LEMMA LoopStepKeeps ==
  ASSUME LoopInv, NEW l \in Loops, LoopStep(l)
  PROVE  LoopInv'
  <1>1. CASE LoopStart(l)
    <2>1. CASE idle > Interval /\ LoopChecks(l)
      BY <1>1, <2>1, LoopChecksKeeps DEF LoopStart
    <2>2. CASE loop' = [loop EXCEPT ![l] = "wait"] /\ UNCHANGED round
      BY <1>1, <2>2, LoopMoves DEF LoopStart, LoopStates
    <2> QED
      BY <1>1, <2>1, <2>2 DEF LoopStart
  <1>2. CASE LoopTick(l)
    BY <1>2, LoopMoves DEF LoopTick, LoopStates
  <1>3. CASE LoopCloses(l)
    BY <1>3 DEF LoopCloses, LoopInv, Running
  <1>4. CASE LoopFired(l)
    BY <1>4, LoopChecksKeeps DEF LoopFired
  <1>5. CASE LoopIsIdle(l)
    BY <1>5, LoopMoves DEF LoopIsIdle, LoopStates
  <1>6. CASE LoopStops(l)
    BY <1>6 DEF LoopStops, DropTicker, LoopInv, Running
  <1> QED
    BY <1>1, <1>2, <1>3, <1>4, <1>5, <1>6 DEF LoopStep

\* The steps of a round: only its end concerns the loop.
LEMMA RoundStepKeeps ==
  ASSUME LoopInv, RoundStep
  PROVE  LoopInv'
  <1>1. CASE RoundEnds
    <2>1. round'.by = None /\ UNCHANGED <<ticker, closed>>
      BY <1>1, FreeRound DEF RoundEnds
    <2>2. loop' = [m \in Loops |-> IF m = round.by THEN "wait" ELSE loop[m]]
      BY <1>1 DEF RoundEnds
    <2>3. /\ loop' \in [Loops -> LoopStates]
          /\ \A m \in Loops : loop'[m] # "none" <=> loop[m] # "none"
          /\ \A m \in Loops : loop'[m] # "checking"
      BY <2>2 DEF LoopInv, LoopStates
    <2> QED
      BY <2>1, <2>3, GroupAssumption DEF LoopInv, Running, LoopStates
  <1>2. ASSUME NEW t \in Tags, TestEnds(t) PROVE LoopInv'
    <2>1. UNCHANGED <<loop, ticker, closed>> /\ round' = [round EXCEPT !.testing = @ \ {t}]
      BY <1>2 DEF TestEnds, loopVars
    <2> QED
      BY <2>1, LoopUntouched
  <1>3. ASSUME NEW n \in Networks, UpdateCheck(n) PROVE LoopInv'
    <2>1. UNCHANGED <<loop, ticker, closed>> /\ round'.by = round.by
      BY <1>3 DEF UpdateCheck, loopVars
    <2> QED
      BY <2>1, LoopUntouched
  <1> QED
    BY <1>1, <1>2, <1>3 DEF RoundStep

\* Every step keeps the invariant.
LEMMA NextKeepsLoopInv == LoopInv /\ [Next]_vars => LoopInv'
  <1> SUFFICES ASSUME LoopInv, [Next]_vars PROVE LoopInv'
    OBVIOUS
  <1>1. CASE PostStart
    BY <1>1, LoopUntouched DEF PostStart
  <1>2. CASE Close
    <2>1. /\ UNCHANGED <<loop, round>>
          /\ ticker' = "stopped" /\ closed'
      BY <1>2 DEF Close
    <2> QED
      BY <2>1 DEF LoopInv, Running
  <1>3. CASE Clock
    BY <1>3, LoopUntouched DEF Clock
  <1>4. CASE Settles
    BY <1>4, LoopUntouched DEF Settles, loopVars
  <1>5. CASE OutsideCheck
    <2>1. round.by = None /\ round'.by = Outside /\ UNCHANGED <<loop, ticker, closed>>
      BY <1>5 DEF OutsideCheck, Begin, loopVars
    <2> QED
      BY <2>1, GroupAssumption DEF LoopInv, Running
  <1>6. CASE \E l \in Loops : LoopStep(l)
    BY <1>6, LoopStepKeeps
  <1>7. CASE RoundStep
    BY <1>7, RoundStepKeeps
  <1>8. ASSUME NEW c \in Clients, DialContext(c) PROVE LoopInv'
    BY <1>8, TouchKeeps DEF DialContext
  <1>9. ASSUME NEW c \in Clients, DialStep(c) \/ CloseConn(c) PROVE LoopInv'
    BY <1>9, LoopUntouched DEF DialStep, Pick, Dialed, DialFails, NewConn, CloseConn, loopVars
  <1>10. CASE UNCHANGED vars
    BY <1>10, LoopUntouched DEF vars
  <1> QED
    BY <1>1, <1>2, <1>3, <1>4, <1>5, <1>6, <1>7, <1>8, <1>9, <1>10 DEF Next

\* At most one loopCheck runs, it finds its ticker, and a Touch that finds a
\* ticker can rely on a loop, whatever the outbounds, their delays, the callers
\* and the times.
THEOREM OneLoop == Spec => []LoopInv
  BY InitEstablishesLoopInv, NextKeepsLoopInv, PTL DEF Spec

-----------------------------------------------------------------------------
(* Selection.                                                              *)

\* A set of natural numbers has a least element.
LEMMA LeastElement ==
  ASSUME NEW S, S \subseteq Nat, S # {}
  PROVE  \E least \in S : \A m \in S : least <= m
  <1> DEFINE R == OpToRel(<, Nat)
  <1>1. \A x, y \in Nat : y < x => <<y, x>> \in R
    BY DEF OpToRel
  <1>2. IsWellFoundedOn(R, Nat)
    BY NatLessThanWellFounded
  <1> HIDE DEF R
  <1>3. PICK x \in S : \A y \in S : ~(<<y, x>> \in R)
    BY <1>2, WFMin
  <1>4. \A y \in S : ~(y < x)
    BY <1>1, <1>3
  <1> QED
    BY <1>3, <1>4

\* A number that fits in a word is its own remainder.
LEMMA RestOfSmall ==
  ASSUME NEW word \in Nat \ {0}, NEW k \in 0..(word - 1)
  PROVE  k % word = k
  OBVIOUS

\* The outbounds of the group are the elements of its list.
LEMMA OutboundsAreDetours ==
  /\ Len(Outbounds) \in Nat
  /\ \A i \in 1..Len(Outbounds) : Outbounds[i] \in Detours
  /\ \A o \in Detours : \E i \in 1..Len(Outbounds) : Outbounds[i] = o
  BY GroupAssumption DEF Detours, ToSet

\* f is the minimum of the loop of Select after 0, 1, ..., m outbounds.
Loop(n, f, m) ==
    f = [i \in 0..m |-> IF i = 0 THEN Current(n) ELSE Consider(n, f[i - 1], Outbounds[i])]

\* The loop of Select computes a minimum: one more outbound extends what was
\* computed for the ones before it.
LEMMA LoopIsComputed ==
  ASSUME NEW n
  PROVE  Loop(n, MinAfter(n), Len(Outbounds))
  <1> DEFINE L == Len(Outbounds)
             Open == {m \in 0..L : ~\E f : Loop(n, f, m)}
  <1>0. L \in Nat
    BY OutboundsAreDetours
  <1> HIDE DEF L
  <1>1. Open = {}
    <2> SUFFICES ASSUME Open # {} PROVE FALSE
      OBVIOUS
    <2>0. Open \subseteq Nat
      BY <1>0
    <2>1. PICK m \in Open : \A k \in Open : m <= k
      <3> HIDE DEF Open
      <3> QED
        BY <2>0, LeastElement
    <2>2. m # 0
      <3> DEFINE f == [i \in 0..0 |-> Current(n)]
      <3>1. Loop(n, f, 0)
        BY DEF Loop
      <3> QED
        BY <2>1, <3>1
    <2>3. PICK g : Loop(n, g, m - 1)
      <3>1. m - 1 \in 0..L /\ ~(m <= m - 1)
        BY <1>0, <2>1, <2>2
      <3> QED
        BY <2>1, <3>1
    <2> DEFINE h == [i \in 0..m |-> IF i < m THEN g[i] ELSE Consider(n, g[m - 1], Outbounds[m])]
    <2>4. m \in Nat \ {0}
      BY <1>0, <2>1, <2>2
    <2>5. Loop(n, h, m)
      <3> SUFFICES ASSUME NEW i \in 0..m
                   PROVE  h[i] = IF i = 0 THEN Current(n) ELSE Consider(n, h[i - 1], Outbounds[i])
        BY DEF Loop
      <3>1. CASE i < m
        <4>1. i \in 0..(m - 1) /\ i < m
          BY <2>4, <3>1
        <4>2. g[i] = IF i = 0 THEN Current(n) ELSE Consider(n, g[i - 1], Outbounds[i])
          BY <2>3, <4>1 DEF Loop
        <4>3. h[i] = g[i]
          BY <4>1
        <4>4. i # 0 => h[i - 1] = g[i - 1]
          BY <2>4, <4>1
        <4> QED
          BY <4>2, <4>3, <4>4
      <3>2. CASE i = m
        <4>1. m - 1 \in 0..m /\ m - 1 < m /\ i # 0
          BY <2>4, <3>2
        <4>2. h[i - 1] = g[m - 1]
          BY <3>2, <4>1
        <4>3. h[i] = Consider(n, g[m - 1], Outbounds[m])
          BY <2>4, <3>2
        <4> QED
          BY <3>2, <4>1, <4>2, <4>3
      <3> QED
        BY <2>4, <3>1, <3>2
    <2> HIDE DEF h
    <2> QED
      BY <2>1, <2>5
  <1>2. \E f : Loop(n, f, L)
    BY <1>0, <1>1
  <1>3. MinAfter(n) = CHOOSE f : Loop(n, f, L)
    BY DEF MinAfter, Loop, L
  <1>4. Loop(n, MinAfter(n), L)
    BY <1>2, <1>3, Zenon
  <1> QED
    BY <1>4 DEF L

\* What every test measures is positive and leaves room for the tolerance in a
\* uint16.
PlainDelays == \A t \in Tags : Delays[t] \subseteq 1..(Word - 1 - Tolerance)

\* The state of the loop of Select after i outbounds: nothing as long as none of
\* them had a result, and otherwise the current selection or an outbound better
\* than it by more than the tolerance, to which none of them is preferable.
MinIsGood(n, min, i) ==
    \/ /\ min.outbound = None /\ min.delay = 0
       /\ Current(n).outbound = None
       /\ \A j \in 1..i : ~(n \in Network[Outbounds[j]] /\ Tested(Outbounds[j]))
    \/ /\ min.outbound \in Detours /\ Tested(min.outbound) /\ min.delay = Delay(min.outbound)
       /\ min.delay \in 1..(Word - 1 - Tolerance)
       /\ Current(n).outbound = None \/ min.outbound = Current(n).outbound
            \/ min.delay + Tolerance < Current(n).delay
       /\ \A j \in 1..i : n \in Network[Outbounds[j]] /\ Tested(Outbounds[j]) =>
                            min.delay <= Delay(Outbounds[j]) + Tolerance

\* Results of tests are what the tests measure.
LEMMA DelaysArePlain ==
  ASSUME PlainDelays, TypeOK, NEW o \in Detours, Tested(o)
  PROVE  Delay(o) \in 1..(Word - 1 - Tolerance)
  <1>1. RealTag[o] \in Tags
    BY DEF Tags
  <1>2. history[RealTag[o]] \in Results
    BY <1>1 DEF TypeOK, Tested
  <1> QED
    BY <1>2 DEF Results, Delay, PlainDelays

\* The loop of Select (urltest.go) starts and goes on well.
LEMMA MinStartsGood ==
  ASSUME PlainDelays, TypeOK, NEW n \in Networks
  PROVE  MinIsGood(n, Current(n), 0)
  <1>1. CASE selected[n] # None /\ Tested(selected[n])
    <2>1. selected[n] \in Detours
      BY <1>1 DEF TypeOK
    <2>2. Delay(selected[n]) \in 1..(Word - 1 - Tolerance)
      BY <1>1, <2>1, DelaysArePlain
    <2>3. Current(n) = [delay |-> Delay(selected[n]), outbound |-> selected[n]]
      BY <1>1 DEF Current
    <2> QED
      BY <1>1, <2>1, <2>2, <2>3 DEF MinIsGood
  <1>2. CASE ~(selected[n] # None /\ Tested(selected[n]))
    <2>1. Current(n) = [delay |-> 0, outbound |-> None]
      BY <1>2 DEF Current
    <2> QED
      BY <2>1 DEF MinIsGood
  <1> QED
    BY <1>1, <1>2

\* Looking at one more outbound keeps what is known of the best so far.
LEMMA ConsiderKeepsGood ==
  ASSUME PlainDelays, TypeOK, NEW n \in Networks, NEW i \in 1..Len(Outbounds), NEW min,
         MinIsGood(n, min, i - 1)
  PROVE  MinIsGood(n, Consider(n, min, Outbounds[i]), i)
  <1> DEFINE o == Outbounds[i]
  <1>1. o \in Detours /\ i \in Nat \ {0}
    BY OutboundsAreDetours
  <1>2. Tolerance \in Nat /\ Word \in Nat /\ None \notin Detours
    BY GroupAssumption
  <1>3. \A j \in 1..i : j \in 1..(i - 1) \/ j = i
    BY <1>1
  <1>4. \A j \in 1..i : n \in Network[Outbounds[j]] /\ Tested(Outbounds[j]) =>
            Delay(Outbounds[j]) \in 1..(Word - 1 - Tolerance)
    <2>1. \A j \in 1..i : Outbounds[j] \in Detours
      BY OutboundsAreDetours
    <2> QED
      BY <2>1, DelaysArePlain
  <1>5. CASE ~(n \in Network[o] /\ Tested(o))
    <2>1. Consider(n, min, o) = min
      BY <1>5 DEF Consider
    <2> QED
      BY <1>1, <1>3, <1>5, <2>1 DEF MinIsGood
  <1>6. CASE n \in Network[o] /\ Tested(o)
    <2>1. Delay(o) \in 1..(Word - 1 - Tolerance)
      BY <1>1, <1>6, DelaysArePlain
    <2>2. (Delay(o) + Tolerance) % Word = Delay(o) + Tolerance
      <3>1. Delay(o) + Tolerance \in 0..(Word - 1) /\ Word \in Nat \ {0}
        BY <1>2, <2>1
      <3> QED
        BY <3>1, RestOfSmall
    <2>3. Better(min.delay, o) <=> (min.delay = 0 \/ min.delay > Delay(o) + Tolerance)
      BY <2>2 DEF Better
    <2>4. CASE Better(min.delay, o)
      <3>1. Consider(n, min, o) = [delay |-> Delay(o), outbound |-> o]
        BY <1>6, <2>4 DEF Consider
      <3>2. CASE min.outbound = None
        <4>1. /\ Current(n).outbound = None
              /\ \A j \in 1..(i - 1) : ~(n \in Network[Outbounds[j]] /\ Tested(Outbounds[j]))
          BY <1>2, <3>2 DEF MinIsGood
        <4>2. \A j \in 1..i : n \in Network[Outbounds[j]] /\ Tested(Outbounds[j]) =>
                        Delay(o) <= Delay(Outbounds[j]) + Tolerance
          BY <1>2, <1>3, <2>1, <4>1
        <4> QED
          BY <1>1, <1>6, <2>1, <3>1, <4>1, <4>2 DEF MinIsGood
      <3>3. CASE min.outbound # None
        <4>1. /\ min.delay \in 1..(Word - 1 - Tolerance)
              /\ Current(n).outbound = None \/ min.outbound = Current(n).outbound
                    \/ min.delay + Tolerance < Current(n).delay
              /\ \A j \in 1..(i - 1) : n \in Network[Outbounds[j]] /\ Tested(Outbounds[j]) =>
                        min.delay <= Delay(Outbounds[j]) + Tolerance
              /\ Tested(min.outbound) /\ min.delay = Delay(min.outbound)
          BY <3>3 DEF MinIsGood
        <4>2. Delay(o) + Tolerance < min.delay
          BY <1>2, <2>1, <2>3, <2>4, <4>1
        <4>3. \A j \in 1..i : n \in Network[Outbounds[j]] /\ Tested(Outbounds[j]) =>
                        Delay(o) <= Delay(Outbounds[j]) + Tolerance
          BY <1>2, <1>3, <1>4, <2>1, <4>1, <4>2
        <4>4. \/ Current(n).outbound = None
              \/ Delay(o) + Tolerance < Current(n).delay
          <5>1. CASE min.outbound = Current(n).outbound
            <6>1. Current(n).outbound # None => Current(n).delay = Delay(Current(n).outbound)
              BY DEF Current
            <6> QED
              BY <4>1, <4>2, <5>1, <6>1
          <5>2. CASE min.delay + Tolerance < Current(n).delay
            <6>1. Current(n).outbound # None => Current(n).delay \in Nat
              <7>1. Current(n).outbound # None =>
                        selected[n] \in Detours /\ Tested(selected[n])
                        /\ Current(n).delay = Delay(selected[n])
                BY DEF Current, TypeOK
              <7> QED
                BY <7>1, DelaysArePlain
            <6> QED
              BY <1>2, <2>1, <4>1, <4>2, <5>2, <6>1
          <5> QED
            BY <4>1, <5>1, <5>2
        <4> QED
          BY <1>1, <1>6, <2>1, <3>1, <4>3, <4>4 DEF MinIsGood
      <3> QED
        BY <3>2, <3>3
    <2>5. CASE ~Better(min.delay, o)
      <3>1. Consider(n, min, o) = min
        BY <2>5 DEF Consider
      <3>2. min.outbound # None /\ min.delay <= Delay(o) + Tolerance
        BY <1>2, <2>1, <2>3, <2>5 DEF MinIsGood
      <3> QED
        BY <1>3, <3>1, <3>2 DEF MinIsGood
    <2> QED
      BY <2>4, <2>5
  <1> QED
    BY <1>5, <1>6

\* So it ends well, however many outbounds there are.
LEMMA MinEndsGood ==
  ASSUME PlainDelays, TypeOK, NEW n \in Networks
  PROVE  MinIsGood(n, MinAfter(n)[Len(Outbounds)], Len(Outbounds))
  <1> DEFINE L == Len(Outbounds)
             min == MinAfter(n)
             Bad == {i \in 0..L : ~MinIsGood(n, min[i], i)}
  <1>0. L \in Nat
    BY OutboundsAreDetours
  <1>1. \A i \in 0..L : min[i] = IF i = 0 THEN Current(n) ELSE Consider(n, min[i - 1], Outbounds[i])
    BY LoopIsComputed DEF Loop
  <1> HIDE DEF min
  <1>2. Bad = {}
    <2> SUFFICES ASSUME Bad # {} PROVE FALSE
      OBVIOUS
    <2>0. Bad \subseteq Nat
      BY <1>0
    <2>1. PICK m \in Bad : \A k \in Bad : m <= k
      <3> HIDE DEF Bad
      <3> QED
        BY <2>0, LeastElement
    <2>2. m # 0
      BY <1>0, <1>1, <2>1, MinStartsGood
    <2>3. m \in 1..L /\ m - 1 \in 0..L /\ ~(m <= m - 1)
      BY <1>0, <2>1, <2>2
    <2>4. MinIsGood(n, min[m - 1], m - 1)
      BY <2>1, <2>3
    <2>5. MinIsGood(n, Consider(n, min[m - 1], Outbounds[m]), m)
      BY <2>3, <2>4, ConsiderKeepsGood
    <2>6. min[m] = Consider(n, min[m - 1], Outbounds[m])
      BY <1>1, <2>1, <2>2
    <2> QED
      BY <2>1, <2>5, <2>6
  <1>3. L \in 0..L
    BY <1>0
  <1> QED
    BY <1>2, <1>3 DEF min

\* Select returns an outbound of the group or none, and says whether it has a
\* result.
LEMMA SelectReturns ==
  ASSUME NEW n \in Networks, selected \in [Networks -> Detours \cup {None}]
  PROVE  Select(n).outbound \in Detours \cup {None}
  <1> DEFINE L == Len(Outbounds)
             min == MinAfter(n)
             Bad == {i \in 0..L : min[i].outbound \notin Detours \cup {None}}
             able == {i \in 1..L : n \in Network[Outbounds[i]]}
  <1>0. L \in Nat
    BY OutboundsAreDetours
  <1>1. \A i \in 0..L : min[i] = IF i = 0 THEN Current(n) ELSE Consider(n, min[i - 1], Outbounds[i])
    BY LoopIsComputed DEF Loop
  <1> HIDE DEF min
  <1>2. Bad = {}
    <2> SUFFICES ASSUME Bad # {} PROVE FALSE
      OBVIOUS
    <2>0. Bad \subseteq Nat
      BY <1>0
    <2>1. PICK m \in Bad : \A k \in Bad : m <= k
      <3> HIDE DEF Bad
      <3> QED
        BY <2>0, LeastElement
    <2>2. m # 0
      BY <1>0, <1>1, <2>1 DEF Current
    <2>3. m \in 1..L /\ m - 1 \in 0..L /\ ~(m <= m - 1)
      BY <1>0, <2>1, <2>2
    <2>4. min[m - 1].outbound \in Detours \cup {None}
      BY <2>1, <2>3
    <2>5. min[m] = Consider(n, min[m - 1], Outbounds[m])
      BY <1>1, <2>1, <2>2
    <2>6. min[m].outbound \in {Outbounds[m], min[m - 1].outbound}
      BY <2>5 DEF Consider
    <2> QED
      BY <2>1, <2>3, <2>4, <2>6, OutboundsAreDetours
  <1>3. min[L].outbound \in Detours \cup {None}
    BY <1>0, <1>2
  <1>4. able # {} => Outbounds[Min(able)] \in Detours
    <2> SUFFICES ASSUME able # {} PROVE Outbounds[Min(able)] \in Detours
      OBVIOUS
    <2>1. able \subseteq 1..L /\ able \subseteq Nat
      BY <1>0
    <2> HIDE DEF able
    <2>2. PICK least \in able : \A m \in able : least <= m
      BY <2>1, LeastElement
    <2>3. Min(able) \in able
      BY <2>2, Zenon DEF Min
    <2> QED
      BY <2>1, <2>3, OutboundsAreDetours
  <1> QED
    <2>1. Select(n) = CASE min[L].outbound # None -> [outbound |-> min[L].outbound, exists |-> TRUE]
              [] min[L].outbound = None /\ able # {} -> [outbound |-> Outbounds[Min(able)], exists |-> FALSE]
              [] OTHER -> [outbound |-> None, exists |-> FALSE]
      BY DEF Select, min
    <2> HIDE DEF able, L
    <2> QED
      BY <1>3, <1>4, <2>1

-----------------------------------------------------------------------------
(* The types and the interrupt group.                                      *)

LoopTypeOK ==
    /\ started \in BOOLEAN /\ closed \in BOOLEAN /\ tick \in BOOLEAN
    /\ ticker \in {"nil", "on", "stopped"}
    /\ loop \in [Loops -> LoopStates]
    /\ idle \in 0..(IdleTimeout + 1) /\ due \in 1..Interval
TestTypeOK ==
    /\ history \in [Tags -> Results \cup {None}]
    /\ round \in [by : Loops \cup {Outside, None}, testing : SUBSET Tags, updated : BOOLEAN,
                  phase : {"none", "tcp", "udp", "interrupt"}]
    /\ selected \in [Networks -> Detours \cup {None}]
DialTypeOK ==
    /\ dial \in [Clients -> [pc : {"idle", "touched", "picked", "dialed", "open", "interrupted"},
                             network : Networks, external : BOOLEAN,
                             outbound : Detours \cup {None}]]
    /\ group = {c \in Clients : dial[c].pc = "open"}

\* GroupInv is the conjunction of these.
LEMMA GroupInvParts == GroupInv <=> LoopTypeOK /\ TestTypeOK /\ DialTypeOK /\ settled \in BOOLEAN
  BY DEF GroupInv, TypeOK, LoopTypeOK, TestTypeOK, DialTypeOK, LoopStates

\* The variables of the loop keep their types.
LEMMA NextKeepsLoopType == LoopTypeOK /\ TestTypeOK /\ [Next]_vars => LoopTypeOK'
  <1> SUFFICES ASSUME LoopTypeOK, TestTypeOK, [Next]_vars PROVE LoopTypeOK'
    OBVIOUS
  <1> USE GroupAssumption DEF LoopTypeOK, LoopStates
  <1>1. CASE UNCHANGED loopVars
    BY <1>1 DEF loopVars
  <1>2. CASE PostStart
    BY <1>2 DEF PostStart
  <1>3. CASE Close
    BY <1>3 DEF Close
  <1>4. CASE Clock
    BY <1>4 DEF Clock
  <1>5. CASE Settles \/ OutsideCheck
    BY <1>1, <1>5 DEF Settles, OutsideCheck
  <1>6. ASSUME NEW l \in Loops, LoopStep(l) PROVE LoopTypeOK'
    <2>1. \E pc \in LoopStates : loop' = [loop EXCEPT ![l] = pc]
      BY <1>6 DEF LoopStep, LoopStart, LoopTick, LoopCloses, LoopFired, LoopIsIdle, LoopStops, LoopChecks
    <2>2. /\ started' = started /\ closed' = closed /\ due' = due
          /\ (tick' = tick \/ tick' = FALSE) /\ (ticker' = ticker \/ ticker' = "nil")
          /\ (idle' = idle \/ idle' = 0)
      BY <1>6 DEF LoopStep, LoopStart, LoopTick, LoopCloses, LoopFired, LoopIsIdle, LoopStops, DropTicker
    <2>4. started' \in BOOLEAN /\ closed' \in BOOLEAN /\ tick' \in BOOLEAN
      BY <2>2, Zenon
    <2>5. ticker' \in {"nil", "on", "stopped"} /\ idle' \in 0..(IdleTimeout + 1) /\ due' \in 1..Interval
      BY <2>2
    <2>6. loop' \in [Loops -> LoopStates]
      BY <2>1
    <2> QED
      BY <2>4, <2>5, <2>6
  <1>7. CASE RoundEnds
    <2>1. loop' = [l \in Loops |-> IF l = round.by THEN "wait" ELSE loop[l]]
      BY <1>7 DEF RoundEnds
    <2>2. UNCHANGED <<started, closed, due, ticker, tick, idle>>
      BY <1>7 DEF RoundEnds
    <2> QED
      BY <2>1, <2>2
  <1>8. CASE \/ \E t \in Tags : TestEnds(t)
             \/ \E n \in Networks : UpdateCheck(n)
    BY <1>1, <1>8 DEF TestEnds, UpdateCheck
  <1>9. ASSUME NEW c \in Clients, DialContext(c) PROVE LoopTypeOK'
    <2>1. Touch
      BY <1>9 DEF DialContext
    <2>2. loop' = loop \/ \E l \in Loops : loop' = [loop EXCEPT ![l] = "start"]
      BY <2>1 DEF Touch
    <2>3. /\ started' = started /\ closed' = closed /\ (due' = due \/ due' = Interval)
          /\ (tick' = tick \/ tick' = FALSE) /\ (ticker' = ticker \/ ticker' = "on")
          /\ (idle' = idle \/ idle' = 0)
      BY <2>1 DEF Touch
    <2>4. started' \in BOOLEAN /\ closed' \in BOOLEAN /\ tick' \in BOOLEAN
      BY <2>3, Zenon
    <2>5. ticker' \in {"nil", "on", "stopped"} /\ idle' \in 0..(IdleTimeout + 1) /\ due' \in 1..Interval
      BY <2>3
    <2>6. loop' \in [Loops -> LoopStates]
      BY <2>2
    <2> QED
      BY <2>4, <2>5, <2>6
  <1>10. ASSUME NEW c \in Clients, DialStep(c) \/ CloseConn(c) PROVE LoopTypeOK'
    BY <1>1, <1>10 DEF DialStep, Pick, Dialed, DialFails, NewConn, CloseConn
  <1>11. CASE UNCHANGED vars
    BY <1>1, <1>11 DEF vars, loopVars
  <1> QED
    BY <1>2, <1>3, <1>4, <1>5, <1>6, <1>7, <1>8, <1>9, <1>10, <1>11 DEF Next, RoundStep

\* Results, the round and the selections keep theirs: in particular Select
\* returns an outbound of the group.
LEMMA NextKeepsTestType == TestTypeOK /\ DialTypeOK /\ [Next]_vars => TestTypeOK'
  <1> SUFFICES ASSUME TestTypeOK, DialTypeOK, [Next]_vars PROVE TestTypeOK'
    OBVIOUS
  <1> USE DEF TestTypeOK
  <1>1. CASE UNCHANGED <<history, round, selected>>
    BY <1>1
  <1>2. CASE PostStart \/ Close \/ Settles
    BY <1>1, <1>2 DEF PostStart, Close, Settles
  <1>3. CASE Clock
    <2>1. history' \in [Tags -> Results \cup {None}]
      BY <1>3, GroupAssumption DEF Clock, Results
    <2> QED
      BY <1>3, <2>1 DEF Clock
  <1>4. ASSUME NEW by \in Loops \cup {Outside}, NEW force \in BOOLEAN, Begin(by, force),
               UNCHANGED <<history, selected>>
        PROVE  TestTypeOK'
    <2>1. {t \in {RealTag[o] : o \in Detours} : force \/ ~Fresh(t)} \subseteq Tags
      BY DEF Tags
    <2> QED
      BY <1>4, <2>1 DEF Begin
  <1>5. CASE OutsideCheck
    BY <1>4, <1>5 DEF OutsideCheck
  <1>6. ASSUME NEW l \in Loops, LoopStep(l) PROVE TestTypeOK'
    <2>1. UNCHANGED <<history, selected>>
      BY <1>6 DEF LoopStep, LoopStart, LoopTick, LoopCloses, LoopFired, LoopIsIdle, LoopStops
    <2>2. UNCHANGED round \/ Begin(l, FALSE)
      BY <1>6 DEF LoopStep, LoopStart, LoopTick, LoopCloses, LoopFired, LoopIsIdle, LoopStops, LoopChecks
    <2> QED
      BY <1>1, <1>4, <2>1, <2>2
  <1>7. CASE RoundEnds
    BY <1>7 DEF RoundEnds, NoRound
  <1>8. ASSUME NEW t \in Tags, TestEnds(t) PROVE TestTypeOK'
    <2>1. history' \in [Tags -> Results \cup {None}]
      <3>1. \A d \in Delays[t] : [delay |-> d, age |-> 0] \in Results
        BY GroupAssumption DEF Results
      <3>2. \E r \in Results \cup {None} : history' = [history EXCEPT ![t] = r]
        BY <1>8, <3>1 DEF TestEnds, DeleteHistory
      <3> QED
        BY <3>2
    <2>2. round' = [round EXCEPT !.testing = @ \ {t}] /\ selected' = selected
      BY <1>8 DEF TestEnds
    <2> QED
      BY <2>1, <2>2
  <1>9. ASSUME NEW n \in Networks, UpdateCheck(n) PROVE TestTypeOK'
    <2>1. Select(n).outbound \in Detours \cup {None}
      BY SelectReturns
    <2>2. selected' = selected \/ selected' = [selected EXCEPT ![n] = Select(n).outbound]
      BY <1>9 DEF UpdateCheck
    <2>3. /\ history' = history
          /\ \E p \in {"udp", "interrupt"}, u \in BOOLEAN :
                round' = [round EXCEPT !.phase = p, !.updated = u]
      BY <1>9 DEF UpdateCheck
    <2> QED
      BY <2>1, <2>2, <2>3
  <1>10. ASSUME NEW c \in Clients, DialFails(c) PROVE TestTypeOK'
    BY <1>10 DEF DialFails
  <1>11. ASSUME NEW c \in Clients,
                DialContext(c) \/ Pick(c) \/ Dialed(c) \/ NewConn(c) \/ CloseConn(c)
         PROVE  TestTypeOK'
    BY <1>1, <1>11 DEF DialContext, Pick, Dialed, NewConn, CloseConn
  <1>12. CASE UNCHANGED vars
    BY <1>1, <1>12 DEF vars
  <1> QED
    BY <1>2, <1>3, <1>5, <1>6, <1>7, <1>8, <1>9, <1>10, <1>11, <1>12 DEF Next, RoundStep, DialStep

\* A client that goes on with another connection, or none.
LEMMA DialChanges ==
  ASSUME DialTypeOK, NEW c \in Clients,
         NEW d \in [pc : {"idle", "touched", "picked", "dialed", "open", "interrupted"},
                    network : Networks, external : BOOLEAN, outbound : Detours \cup {None}],
         dial' = [dial EXCEPT ![c] = d],
         group' = IF d.pc = "open" THEN group \cup {c} ELSE group \ {c}
  PROVE  DialTypeOK'
  <1>1. \A b \in Clients : dial'[b] = IF b = c THEN d ELSE dial[b]
    BY DEF DialTypeOK
  <1>2. group' = {b \in Clients : dial'[b].pc = "open"}
    BY <1>1 DEF DialTypeOK
  <1> QED
    BY <1>2 DEF DialTypeOK

\* The interrupt group holds the open connections: NewConn adds one, its Close
\* and Interrupt remove what they close.
LEMMA NextKeepsDialType == TestTypeOK /\ DialTypeOK /\ [Next]_vars => DialTypeOK'
  <1> SUFFICES ASSUME TestTypeOK, DialTypeOK, [Next]_vars PROVE DialTypeOK'
    OBVIOUS
  <1> USE DEF DialTypeOK, Networks
  <1>1. CASE UNCHANGED dialVars
    BY <1>1 DEF dialVars
  <1>2. CASE PostStart \/ Close \/ Settles \/ Clock \/ OutsideCheck
    BY <1>1, <1>2 DEF PostStart, Close, Settles, Clock, OutsideCheck
  <1>3. CASE \E l \in Loops : LoopStep(l)
    BY <1>1, <1>3 DEF LoopStep, LoopStart, LoopTick, LoopCloses, LoopFired, LoopIsIdle, LoopStops
  <1>4. CASE RoundEnds
    <2>1. PICK cut \in SUBSET group :
            /\ group' = group \ cut
            /\ dial' = [c \in Clients |-> IF c \in cut THEN [NoDial EXCEPT !.pc = "interrupted"]
                                                       ELSE dial[c]]
      BY <1>4 DEF RoundEnds, Interrupted
    <2> QED
      BY <2>1 DEF NoDial
  <1>5. CASE (\E t \in Tags : TestEnds(t)) \/ (\E n \in Networks : UpdateCheck(n))
    BY <1>1, <1>5 DEF TestEnds, UpdateCheck
  <1>6. ASSUME NEW c \in Clients, DialContext(c) PROVE DialTypeOK'
    <2>1. PICK n \in Networks :
            dial' = [dial EXCEPT ![c] = [NoDial EXCEPT !.pc = "touched", !.network = n]]
      BY <1>6 DEF DialContext
    <2>2. group' = group /\ c \notin group
      BY <1>6 DEF DialContext
    <2> QED
      BY <2>1, <2>2, DialChanges DEF NoDial
  <1>7. ASSUME NEW c \in Clients, Pick(c) PROVE DialTypeOK'
    <2>1. dial[c].network \in Networks
      OBVIOUS
    <2>2. PICK o \in Detours \cup {None} :
            dial' = [dial EXCEPT ![c] = IF o = None THEN NoDial
                                        ELSE [@ EXCEPT !.pc = "picked", !.outbound = o]]
      <3>1. selected[dial[c].network] \in Detours \cup {None}
        BY <2>1 DEF TestTypeOK
      <3>2. Select(dial[c].network).outbound \in Detours \cup {None}
        BY <2>1, SelectReturns DEF TestTypeOK
      <3> QED
        BY <1>7, <3>1, <3>2 DEF Pick
    <2>3. group' = group /\ c \notin group
      BY <1>7 DEF Pick
    <2> DEFINE d == IF o = None THEN NoDial ELSE [dial[c] EXCEPT !.pc = "picked", !.outbound = o]
    <2>4. dial' = [dial EXCEPT ![c] = d]
      BY <2>2
    <2>5. /\ d \in [pc : {"idle", "touched", "picked", "dialed", "open", "interrupted"},
                    network : Networks, external : BOOLEAN, outbound : Detours \cup {None}]
          /\ d.pc # "open"
      BY DEF NoDial
    <2> HIDE DEF d
    <2> QED
      BY <2>3, <2>4, <2>5, DialChanges
  <1>8. ASSUME NEW c \in Clients, Dialed(c) \/ DialFails(c) \/ CloseConn(c) PROVE DialTypeOK'
    <2>1. PICK pc \in {"idle", "dialed"} : dial' = [dial EXCEPT ![c] = [NoDial EXCEPT !.pc = pc]]
      BY <1>8 DEF Dialed, DialFails, CloseConn, NoDial
    <2>2. group' = group \ {c}
      BY <1>8 DEF Dialed, DialFails, CloseConn, LeaveGroup
    <2> QED
      BY <2>1, <2>2, DialChanges DEF NoDial
  <1>9. ASSUME NEW c \in Clients, NewConn(c) PROVE DialTypeOK'
    <2>1. PICK external \in BOOLEAN :
            dial' = [dial EXCEPT ![c].pc = "open", ![c].external = external]
      BY <1>9 DEF NewConn
    <2> DEFINE d == [dial[c] EXCEPT !.pc = "open", !.external = external]
    <2>2. dial' = [dial EXCEPT ![c] = d]
      BY <2>1
    <2>3. d.pc = "open" /\ group' = group \cup {c}
      BY <1>9 DEF NewConn
    <2>4. d \in [pc : {"idle", "touched", "picked", "dialed", "open", "interrupted"},
                 network : Networks, external : BOOLEAN, outbound : Detours \cup {None}]
      OBVIOUS
    <2> HIDE DEF d
    <2> QED
      BY <2>2, <2>3, <2>4, DialChanges
  <1>11. CASE UNCHANGED vars
    BY <1>1, <1>11 DEF vars, dialVars
  <1> QED
    BY <1>2, <1>3, <1>4, <1>5, <1>6, <1>7, <1>8, <1>9, <1>11 DEF Next, RoundStep, DialStep

\* The types of the group, and that its interrupt group (common/interrupt) holds
\* exactly the open connections, whatever the outbounds, delays and callers.
THEOREM GroupInvariance == Spec => []GroupInv
  <1>1. Init => GroupInv
    <2> SUFFICES ASSUME Init PROVE GroupInv
      OBVIOUS
    <2>1. LoopTypeOK /\ settled \in BOOLEAN
      <3>1. Interval \in Nat \ {0} /\ IdleTimeout \in Nat
        BY GroupAssumption
      <3>2. idle \in 0..(IdleTimeout + 1) /\ due \in 1..Interval
        BY <3>1 DEF Init
      <3>3. /\ started \in BOOLEAN /\ closed \in BOOLEAN /\ tick \in BOOLEAN /\ settled \in BOOLEAN
            /\ ticker \in {"nil", "on", "stopped"} /\ loop \in [Loops -> LoopStates]
        BY DEF Init, LoopStates
      <3> QED
        BY <3>2, <3>3 DEF LoopTypeOK
    <2>2. TestTypeOK
      BY DEF Init, TestTypeOK, NoRound
    <2>3. DialTypeOK
      BY DEF Init, DialTypeOK, NoDial, Networks
    <2> QED
      BY <2>1, <2>2, <2>3, GroupInvParts
  <1>2. GroupInv /\ [Next]_vars => GroupInv'
    <2> SUFFICES ASSUME GroupInv, [Next]_vars PROVE GroupInv'
      OBVIOUS
    <2>1. LoopTypeOK /\ TestTypeOK /\ DialTypeOK /\ settled \in BOOLEAN
      BY GroupInvParts
    <2>2. LoopTypeOK' /\ TestTypeOK' /\ DialTypeOK'
      BY <2>1, NextKeepsLoopType, NextKeepsTestType, NextKeepsDialType
    <2>3. settled' = settled \/ settled' = TRUE
      BY DEF Next, PostStart, Close, Clock, Settles, OutsideCheck, LoopStep, LoopStart, LoopTick,
             LoopCloses, LoopFired, LoopIsIdle, LoopStops, RoundStep, RoundEnds, TestEnds,
             UpdateCheck, DialContext, DialStep, Pick, Dialed, DialFails, NewConn, CloseConn, vars
    <2>4. settled' \in BOOLEAN
      BY <2>1, <2>3, Zenon
    <2> QED
      BY <2>2, <2>4 DEF GroupInv, TypeOK, LoopTypeOK, TestTypeOK, DialTypeOK, LoopStates
  <1> QED
    BY <1>1, <1>2, PTL DEF Spec

\* The step of SwitchImproves.
SwitchIsImprovement ==
    \A n \in Networks :
        LET old == selected[n]
            new == selected'[n]
        IN new # old /\ old # None =>
            /\ Tested(new)
            /\ Tested(old) => Delay(new) + Tolerance < Delay(old)
            /\ \A o \in Detours :
                 n \in Network[o] /\ Tested(o) => Delay(new) <= Delay(o) + Tolerance

\* Only performUpdateCheck (urltest.go) changes a selection.
LEMMA SelectionChanges ==
  ASSUME [Next]_vars, ~UNCHANGED selected
  PROVE  \E n \in Networks : UpdateCheck(n)
  BY DEF Next, PostStart, Close, Clock, Settles, OutsideCheck, LoopStep, LoopStart, LoopTick,
         LoopCloses, LoopFired, LoopIsIdle, LoopStops, RoundStep, RoundEnds, TestEnds,
         DialContext, DialStep, Pick, Dialed, DialFails, NewConn, CloseConn, vars

\* When it replaces a selection, it does so by the outcome of the loop of Select.
LEMMA UpdateImproves ==
  ASSUME PlainDelays, TypeOK, NEW n \in Networks, UpdateCheck(n)
  PROVE  SwitchIsImprovement
  <1> DEFINE min == MinAfter(n)[Len(Outbounds)]
  <1>1. selected' = selected \/ (/\ selected' = [selected EXCEPT ![n] = Select(n).outbound]
                                 /\ selected[n] = None \/ Select(n).exists)
    BY DEF UpdateCheck
  <1>2. CASE selected' = selected
    BY <1>2 DEF SwitchIsImprovement
  <1>3. CASE selected[n] = None /\ selected' = [selected EXCEPT ![n] = Select(n).outbound]
    BY <1>3 DEF SwitchIsImprovement, TypeOK
  <1>4. CASE Select(n).exists /\ selected' = [selected EXCEPT ![n] = Select(n).outbound]
    <2>1. min.outbound # None /\ Select(n).outbound = min.outbound
      BY <1>4 DEF Select
    <2>2. MinIsGood(n, min, Len(Outbounds))
      BY MinEndsGood
    <2> HIDE DEF min
    <2>3. /\ min.outbound \in Detours /\ Tested(min.outbound) /\ min.delay = Delay(min.outbound)
          /\ Current(n).outbound = None \/ min.outbound = Current(n).outbound
                \/ min.delay + Tolerance < Current(n).delay
          /\ \A j \in 1..Len(Outbounds) : n \in Network[Outbounds[j]] /\ Tested(Outbounds[j]) =>
                min.delay <= Delay(Outbounds[j]) + Tolerance
      BY <2>1, <2>2 DEF MinIsGood
    <2>4. \A o \in Detours : n \in Network[o] /\ Tested(o) => Delay(min.outbound) <= Delay(o) + Tolerance
      BY <2>3, OutboundsAreDetours
    <2>5. ASSUME selected[n] # None, Tested(selected[n]), min.outbound # selected[n]
          PROVE  Delay(min.outbound) + Tolerance < Delay(selected[n])
      BY <2>3, <2>5 DEF Current
    <2>6. selected'[n] = min.outbound /\ \A k \in Networks : k # n => selected'[k] = selected[k]
      BY <1>4, <2>1 DEF TypeOK
    <2> QED
      BY <2>3, <2>4, <2>5, <2>6 DEF SwitchIsImprovement
  <1> QED
    BY <1>1, <1>2, <1>3, <1>4

\* A selection is replaced only for an outbound better by more than the
\* tolerance, after which no other is better by more than it, for any list of
\* outbounds and any delays that are positive and leave room for the tolerance
\* in a uint16.  (A delay of 0 and an overflow break it: Select takes the one for
\* no result and compares with the other.)
THEOREM SwitchesImprove ==
  ASSUME PlainDelays
  PROVE  Spec => SwitchImproves
  <1>1. GroupInv /\ [Next]_vars => (SwitchIsImprovement \/ UNCHANGED vars)
    <2> SUFFICES ASSUME GroupInv, [Next]_vars PROVE SwitchIsImprovement
      OBVIOUS
    <2>1. CASE UNCHANGED selected
      BY <2>1 DEF SwitchIsImprovement
    <2>2. CASE ~UNCHANGED selected
      BY <2>2, SelectionChanges, UpdateImproves DEF GroupInv
    <2> QED
      BY <2>1, <2>2
  <1>2. SwitchImproves <=> [][SwitchIsImprovement]_vars
    BY DEF SwitchImproves, SwitchIsImprovement
  <1> QED
    BY <1>1, <1>2, GroupInvariance, PTL DEF Spec
=============================================================================
