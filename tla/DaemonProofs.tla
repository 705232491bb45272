---------------------------- MODULE DaemonProofs ----------------------------
(***************************************************************************)
(* Theorems about the life cycle of Boxes and the service that runs them.  *)
(***************************************************************************)
EXTENDS Daemon, FunctionTheorems, FiniteSetTheorems, WellFoundedInduction, TLAPS

Lists == Seq(AllItems)

ManagerStates == [Components -> [started : BOOLEAN, items : Lists]]
ItemStates == [AllItems -> [stage : 0 .. 4, open : BOOLEAN]]
StartStates == [at : {"none", "next", "loop", "ok", "checked", "closing", "failed"},
                phase : 0 .. 40, list : Lists, todo : Lists,
                started : SUBSET AllItems, canContinue : BOOLEAN]

TypeOK ==
    /\ config \in DOMAIN Configs
    /\ manager \in [Boxes -> ManagerStates]
    /\ item \in [Boxes -> ItemStates]
    /\ starting \in [Boxes -> StartStates]
    /\ closing \in [Boxes -> 0 .. Finished]
    /\ overlap \in [Boxes -> BOOLEAN]
    /\ faulty \in [Boxes -> BOOLEAN]

-----------------------------------------------------------------------------
(* What is known of a Box.                                                 *)

Busy(b) == starting[b].at \in {"next", "loop"}

\* Start of component m at stage s has begun.
Begun(b, s, m) == \E p \in 1 .. starting[b].phase : Phases[p] = <<s, m>>

\* The items a manager has from stage start on.
FullItems(m) == IF NeedsFallback(m) THEN <<Fallback[m]>> ELSE Items(m)

\* The items of a manager are those of the configuration until it is closed; the
\* fallback is added at stage start.
ItemsInv(b) ==
    \A m \in Components :
        /\ manager[b][m].items \in {<<>>, Items(m), FullItems(m)}
        /\ m \notin Managers => manager[b][m].items = Items(m)
        /\ starting[b].at \in {"none", "next", "loop"} =>
            /\ ~Begun(b, 2, m) => manager[b][m].items \in {<<>>, Items(m)}
            /\ closing[b] = 0 =>
                manager[b][m].items = IF Begun(b, 2, m) THEN FullItems(m) ELSE Items(m)

\* What a phase starts, of the items that are there.
Takes(b, p) ==
    IF Phases[p] = <<2, "outbound">> THEN Range(manager[b]["outbound"].items) \cup Range(Endpoints(b))
    ELSE IF Phases[p] = <<2, "endpoint">> THEN {} ELSE Range(manager[b][Phases[p][2]].items)

\* A loop is over what there is to start, each item once; of what is left to do
\* everything else has been done.
LoopInv(b) ==
    LET s == starting[b]
    IN  s.at = "loop" =>
            /\ s.phase \in 1 .. 40 /\ Component(b) \in Components
            /\ \A i, j \in 1 .. Len(s.list) : s.list[i] = s.list[j] => i = j
            /\ Range(s.todo) \subseteq Range(s.list)
            /\ Takes(b, s.phase) \subseteq Range(s.list)
            /\ closing[b] = 0 => Range(s.list) \subseteq Takes(b, s.phase)
            /\ Stage(b) # 2 \/ Component(b) \notin {"outbound", "dnsTransport"} =>
                \A x \in Range(s.list) : x \in Range(s.todo) \/ item[b][x].stage >= Stage(b)
            /\ Stage(b) = 2 /\ ~InPasses(b) => \A x \in Range(s.list) : Deps(x) = {}
            /\ Stage(b) > 2 => \A x \in Range(s.list) : item[b][x].stage >= 2

\* What a pass has started could be started in that order.
PassInv(b) ==
    LET s == starting[b]
    IN  s.at = "loop" /\ InPasses(b) =>
            /\ s.started \subseteq Range(s.list)
            /\ \A x \in s.started : item[b][x].stage >= 2 /\ Deps(x) \subseteq s.started
            /\ Ordered(s.started)
            /\ ~s.canContinue => s.todo = s.list

\* The phases that are over.
Over(b) == {p \in 1 .. starting[b].phase :
                /\ p < starting[b].phase \/ starting[b].at = "next"
                /\ Phases[p][2] \in Components}

\* Start has taken every item it still has through the phases that are over, and
\* none further than where it is.
StageInv(b) ==
    /\ Busy(b) => \A p \in Over(b) : \A x \in Takes(b, p) :
        Phases[p][1] >= 2 => item[b][x].stage >= Phases[p][1]
    /\ \A x \in AllItems :
        /\ starting[b].at = "none" => item[b][x].stage = 0 /\ ~item[b][x].open
        /\ Busy(b) => \/ item[b][x].stage = 0
                      \/ starting[b].phase # 0 /\ item[b][x].stage <= Stage(b)

\* Where Start and Close are.
CallsInv(b) ==
    /\ starting[b].at = "none" => closing[b] = 0 /\ starting[b].phase = 0
    /\ closing[b] = 0 => ~overlap[b] /\ starting[b].at \notin {"closing", "failed"}
    /\ ~overlap[b] /\ (Busy(b) \/ starting[b].at = "checked") => closing[b] = 0
    /\ ~overlap[b] /\ starting[b].at = "failed" => closing[b] = Finished
    /\ closing[b] \in 1 .. Len(CloseOrder) => CloseOrder[closing[b]] \in Components

\* What is open is still to be closed.
OpenInv(b) ==
    /\ closing[b] = 0 => \A x \in AllItems : item[b][x].stage >= 1 => item[b][x].open
    /\ closing[b] = 0 /\ Busy(b) =>
        \A p \in 1 .. starting[b].phase : Phases[p][2] \in Components => manager[b][Phases[p][2]].started
    /\ ~overlap[b] => \A x \in AllItems : item[b][x].open =>
        \E k \in 1 .. Len(CloseOrder) : /\ k >= closing[b] /\ CloseOrder[k] \in Components
                                        /\ x \in ClosedBy(b, CloseOrder[k])

\* The properties of the Boxes, one Box at a time, and in VerdictInv what Start has
\* found so far.
ServedInv(b) ==
    ~overlap[b] =>
        \A x \in ItemsOf("inbound") : item[b][x].open /\ item[b][x].stage >= 2 =>
            \A m \in Components \ {"inbound", "service"} : \A y \in ItemsOf(m) :
                \/ item[b][y].open /\ item[b][y].stage >= 2
                \/ m = "endpoint" /\ closing[b] # 0

DepsInv(b) ==
    \A x \in AllItems :
        item[b][x].stage >= 2 => \A y \in Deps(x) : y \in AllItems /\ item[b][y].stage >= 2

VerdictInv(b) ==
    ~overlap[b] =>
        /\ Busy(b) => \A p \in Over(b) :
            Phases[p][1] = 2 /\ Phases[p][2] \in DOMAIN Fallback => ResolvableFor(Phases[p][2])
        /\ starting[b].at = "loop" /\ InPasses(b) => ~NoDefault(Component(b))
        /\ starting[b].at \in {"checked", "closing", "failed"} => faulty[b] \/ ~Resolvable
        /\ starting[b].at = "ok" => /\ Resolvable
                                    /\ \A m \in Components : \A x \in ItemsOf(m) :
                                            item[b][x].stage = 4

BoxInv(b) ==
    /\ ItemsInv(b)
    /\ LoopInv(b)
    /\ PassInv(b)
    /\ StageInv(b)
    /\ CallsInv(b)
    /\ OpenInv(b)
    /\ ServedInv(b)
    /\ DepsInv(b)
    /\ VerdictInv(b)

BoxesInv == TypeOK /\ \A b \in Boxes : BoxInv(b)

-----------------------------------------------------------------------------
(* What is known of the service.                                           *)

CallTypes ==
    /\ starter \in [Starters -> [at : {"idle", "checked", "closeOld", "starting"}, box : Boxes \cup {None}, own : BOOLEAN]]
    /\ closer \in [Closers -> [at : {"idle", "checked", "closing"}, box : Boxes \cup {None}, own : BOOLEAN]]
    /\ instance \in Boxes \cup {None}
    /\ fresh \subseteq Boxes
    /\ crowded \in BOOLEAN
    /\ serviceStatus \in {"IDLE", "STARTING", "STARTED", "STOPPING", "FATAL"}

\* The lock: one call of CloseService at a time.
OneCloser == \A k, l \in Closers : closer[k].at # "idle" /\ closer[l].at # "idle" => k = l

\* Start of a Box runs in a call of StartOrReloadService.
BoxCalls ==
    /\ instance \notin fresh
    /\ \A b \in fresh : starting[b].at = "none"
    /\ \A b \in Boxes : starting[b].at \in {"next", "loop", "checked", "closing"} =>
        \E s \in Starters : starter[s].at = "starting" /\ starter[s].box = b
    /\ \A s \in Starters : starter[s].at # "idle" =>
        starter[s].box \in Boxes /\ starting[starter[s].box].at # "none"
    /\ \A k \in Closers : closer[k].at = "checked" =>
        closer[k].box \in Boxes /\ starting[closer[k].box].at # "none"
    /\ instance # None => starting[instance].at # "none"

CallsOK == CallTypes /\ OneCloser /\ BoxCalls

\* While no two starts come at the same time: the call that closes the old
\* instance, the one that starts the new one, and CloseService.
OneStarter == \A s, t \in Starters : starter[s].at # "idle" /\ starter[t].at # "idle" => s = t

\* The call that closes the old instance.
ClosesOld ==
    \A s \in Starters : starter[s].at \in {"checked", "closeOld"} =>
        /\ starter[s].box = instance
        /\ starter[s].at = "checked" => closing[instance] = 0 /\ starter[s].own
        /\ starter[s].at = "closeOld" => closing[instance] # 0
        /\ starter[s].at = "closeOld" /\ ~starter[s].own /\ ~overlap[instance] => closing[instance] = Finished
        /\ serviceStatus \in {"STOPPING", "FATAL"}

\* The Box that is being started is the instance, unless that has been closed.
StartsNew == \A s \in Starters : starter[s].at = "starting" => instance \in {starter[s].box, None}

\* CloseService has taken the instance away; a start that is going on is of it.
ClosesAll ==
    \A k \in Closers : closer[k].at # "idle" =>
        /\ instance = None /\ serviceStatus = "STOPPING"
        /\ closer[k].box \in Boxes
        /\ closer[k].at = "checked" => closer[k].own
        /\ closer[k].at = "closing" => closing[closer[k].box] # 0
        /\ \A s \in Starters : starter[s].at # "idle" => starter[s].box = closer[k].box

\* Every other instance has been closed, or is about to be.
OthersClosed ==
    \A b \in Boxes : starting[b].at # "none" /\ b # instance =>
        closing[b] # 0 \/ \E k \in Closers : closer[k].at = "checked" /\ closer[k].box = b

\* A Close that is going on is waited for: by the call whose Close it is, the reload that wants it closed, or the Start that
\* failed.
AwaitedBy(b) ==
    \/ \E k \in Closers : closer[k].at = "closing" /\ closer[k].own /\ closer[k].box = b
    \/ \E s \in Starters :
        /\ starter[s].box = b
        /\ starter[s].at = "closeOld" \/ (starter[s].at = "starting" /\ starting[b].at = "closing")

Awaited == \A b \in Boxes : closing[b] \notin {0, Finished} /\ ~overlap[b] => AwaitedBy(b)

\* What each status tells, and who will change it.
StatusInv ==
    /\ serviceStatus = "STARTED" =>
        /\ instance # None /\ starting[instance].at = "ok" /\ closing[instance] = 0
        /\ \A s \in Starters : starter[s].at = "idle"
    /\ serviceStatus = "STARTING" =>
        /\ instance # None
        /\ starting[instance].at \in {"next", "loop", "checked", "ok"} => closing[instance] = 0
        /\ \E s \in Starters : starter[s].at = "starting" /\ starter[s].box = instance
    /\ serviceStatus = "IDLE" =>
        /\ instance = None /\ Unlocked
        /\ \A b \in Boxes : Running(b) => overlap[b]

AloneInv ==
    OneStarter /\ ClosesOld /\ StartsNew /\ ClosesAll /\ OthersClosed /\ Awaited /\ StatusInv

ServiceInv == CallsOK /\ (~crowded => AloneInv)
-----------------------------------------------------------------------------
(* The lists of box.go.                                                    *)

\* A set of natural numbers has a least element.
LEMMA LeastElement ==
    ASSUME NEW S, S \subseteq Nat, S # {}
    PROVE  \E least \in S : \A m \in S : least <= m
  <1> DEFINE R == OpToRel(<, Nat)
  <1>1. \A x, y \in Nat : y < x => <<y, x>> \in R BY DEF OpToRel
  <1>2. IsWellFoundedOn(R, Nat) BY NatLessThanWellFounded
  <1> HIDE DEF R
  <1>3. PICK x \in S : \A y \in S : ~(<<y, x>> \in R) BY <1>2, WFMin
  <1>4. \A y \in S : ~(y < x) BY <1>1, <1>3
  <1>. QED BY <1>3, <1>4

\* The names of the components.
Names == {"service", "endpoint", "inbound", "outbound", "router", "connection",
          "dnsRouter", "dnsTransport", "network", "internal"}

\* Close goes through all components, the inbounds before what they need.
LEMMA CloseOrderIs ==
    /\ Len(CloseOrder) = 10 /\ Finished = 11 /\ DOMAIN CloseOrder = 1 .. 10
    /\ Range(CloseOrder) = Names
    /\ \A k \in 1 .. 10 : CloseOrder[k] \in Names
    /\ \A m \in Names : \E k \in 1 .. 10 : CloseOrder[k] = m
    /\ \A k \in 1 .. 10 : CloseOrder[k] = "inbound" => k = 3
    /\ \A k \in 1 .. 3 : CloseOrder[k] \in {"service", "endpoint", "inbound"}
  <1>1. Len(CloseOrder) = 10 /\ Finished = 11 /\ DOMAIN CloseOrder = 1 .. 10 BY DEF CloseOrder, Finished
  <1>2. /\ CloseOrder[1] = "service" /\ CloseOrder[2] = "endpoint" /\ CloseOrder[3] = "inbound"
        /\ CloseOrder[4] = "outbound" /\ CloseOrder[5] = "router" /\ CloseOrder[6] = "connection"
        /\ CloseOrder[7] = "dnsRouter" /\ CloseOrder[8] = "dnsTransport" /\ CloseOrder[9] = "network"
        /\ CloseOrder[10] = "internal"
    BY DEF CloseOrder
  <1>3. \A k \in 1 .. 10 : k \in {1, 2, 3, 4, 5, 6, 7, 8, 9, 10} OBVIOUS
  <1>4. \A k \in 1 .. 10 : CloseOrder[k] \in Names BY <1>2, <1>3 DEF Names
  <1>5. \A m \in Names : \E k \in 1 .. 10 : CloseOrder[k] = m BY <1>2 DEF Names
  <1>6. \A k \in 1 .. 10 : CloseOrder[k] = "inbound" => k = 3 BY <1>2, <1>3
  <1>7. \A k \in 1 .. 3 : CloseOrder[k] \in {"service", "endpoint", "inbound"}
    <2>1. \A k \in 1 .. 3 : k \in {1, 2, 3} OBVIOUS
    <2>. QED BY <1>2, <2>1
  <1>8. Range(CloseOrder) = Names BY <1>1, <1>4, <1>5 DEF Range
  <1>. QED BY <1>1, <1>4, <1>5, <1>6, <1>7, <1>8

\* Every stage goes through all components.
LEMMA OrdersHold ==
    \A s \in 1 .. 4 : /\ \A i \in 1 .. 10 : Orders[s][i] \in Names
                      /\ \A m \in Names : \E i \in 1 .. 10 : Orders[s][i] = m
                      /\ \A i, j \in 1 .. 10 : Orders[s][i] = Orders[s][j] => i = j
  <1>0. \A i \in 1 .. 10 : i \in {1, 2, 3, 4, 5, 6, 7, 8, 9, 10} OBVIOUS
  <1>1. ASSUME NEW o, o \in {InitializeOrder, StartOrder, PostStartOrder, StartedOrder}
        PROVE  /\ \A i \in 1 .. 10 : o[i] \in Names
               /\ \A m \in Names : \E i \in 1 .. 10 : o[i] = m
               /\ \A i, j \in 1 .. 10 : o[i] = o[j] => i = j
    <2>1. CASE o = InitializeOrder
      <3>1. /\ o[1] = "internal" /\ o[2] = "network" /\ o[3] = "dnsTransport" /\ o[4] = "dnsRouter"
            /\ o[5] = "connection" /\ o[6] = "router" /\ o[7] = "outbound" /\ o[8] = "inbound"
            /\ o[9] = "endpoint" /\ o[10] = "service"
        BY <2>1 DEF InitializeOrder
      <3>. HIDE <2>1
      <3>2. \A i \in 1 .. 10 : o[i] \in Names BY <1>0, <3>1 DEF Names
      <3>3. \A m \in Names : \E i \in 1 .. 10 : o[i] = m BY <3>1 DEF Names
      <3>4. \A i, j \in 1 .. 10 : o[i] = o[j] => i = j BY <1>0, <3>1
      <3>. QED BY <3>2, <3>3, <3>4
    <2>2. CASE o = StartOrder
      <3>1. /\ o[1] = "outbound" /\ o[2] = "dnsTransport" /\ o[3] = "dnsRouter" /\ o[4] = "network"
            /\ o[5] = "connection" /\ o[6] = "router" /\ o[7] = "internal" /\ o[8] = "inbound"
            /\ o[9] = "endpoint" /\ o[10] = "service"
        BY <2>2 DEF StartOrder
      <3>. HIDE <2>2
      <3>2. \A i \in 1 .. 10 : o[i] \in Names BY <1>0, <3>1 DEF Names
      <3>3. \A m \in Names : \E i \in 1 .. 10 : o[i] = m BY <3>1 DEF Names
      <3>4. \A i, j \in 1 .. 10 : o[i] = o[j] => i = j BY <1>0, <3>1
      <3>. QED BY <3>2, <3>3, <3>4
    <2>3. CASE o = PostStartOrder
      <3>1. /\ o[1] = "outbound" /\ o[2] = "network" /\ o[3] = "dnsTransport" /\ o[4] = "dnsRouter"
            /\ o[5] = "connection" /\ o[6] = "router" /\ o[7] = "inbound" /\ o[8] = "endpoint"
            /\ o[9] = "service" /\ o[10] = "internal"
        BY <2>3 DEF PostStartOrder
      <3>. HIDE <2>3
      <3>2. \A i \in 1 .. 10 : o[i] \in Names BY <1>0, <3>1 DEF Names
      <3>3. \A m \in Names : \E i \in 1 .. 10 : o[i] = m BY <3>1 DEF Names
      <3>4. \A i, j \in 1 .. 10 : o[i] = o[j] => i = j BY <1>0, <3>1
      <3>. QED BY <3>2, <3>3, <3>4
    <2>4. CASE o = StartedOrder
      <3>1. /\ o[1] = "network" /\ o[2] = "dnsTransport" /\ o[3] = "dnsRouter" /\ o[4] = "connection"
            /\ o[5] = "router" /\ o[6] = "outbound" /\ o[7] = "inbound" /\ o[8] = "endpoint"
            /\ o[9] = "service" /\ o[10] = "internal"
        BY <2>4 DEF StartedOrder
      <3>. HIDE <2>4
      <3>2. \A i \in 1 .. 10 : o[i] \in Names BY <1>0, <3>1 DEF Names
      <3>3. \A m \in Names : \E i \in 1 .. 10 : o[i] = m BY <3>1 DEF Names
      <3>4. \A i, j \in 1 .. 10 : o[i] = o[j] => i = j BY <1>0, <3>1
      <3>. QED BY <3>2, <3>3, <3>4
    <2>. QED BY <1>1, <2>1, <2>2, <2>3, <2>4
  <1>2. \A s \in 1 .. 4 : Orders[s] \in {InitializeOrder, StartOrder, PostStartOrder, StartedOrder}
    <2>1. \A s \in 1 .. 4 : s \in {1, 2, 3, 4} OBVIOUS
    <2>. QED BY <2>1 DEF Orders
  <1>. QED BY <1>1, <1>2

\* Start goes through the stages, and at each through all components; at stage
\* start the components inbounds need come before the inbounds.
LEMMA PhasesAre ==
    /\ DOMAIN Phases = 1 .. 40
    /\ \A p \in 1 .. 40 : /\ Phases[p] = <<Phases[p][1], Phases[p][2]>>
                          /\ Phases[p][1] \in 1 .. 4 /\ Phases[p][2] \in Names
    /\ \A p, q \in 1 .. 40 : p <= q => Phases[p][1] <= Phases[q][1]
    /\ \A p, q \in 1 .. 40 : Phases[p] = Phases[q] => p = q
    /\ \A s \in 1 .. 4, m \in Names : \E p \in 1 .. 40 : Phases[p] = <<s, m>>
    /\ \A p, q \in 1 .. 40 : /\ Phases[p][1] = 2 /\ Phases[p][2] \notin {"inbound", "endpoint", "service"}
                             /\ Phases[q] = <<2, "inbound">>
                             => p < q
  <1> DEFINE stage(p) == (p - 1) \div 10 + 1
             index(p) == p - 10 * (stage(p) - 1)
  <1>1. \A p \in 1 .. 40 : /\ Phases[p] = <<stage(p), Orders[stage(p)][index(p)]>>
                           /\ Phases[p][1] = stage(p) /\ Phases[p][2] = Orders[stage(p)][index(p)]
    <2>1. \A p \in 1 .. 40 : Phases[p] = <<stage(p), Orders[stage(p)][index(p)]>> BY DEF Phases
    <2> HIDE DEF stage, index
    <2>. QED BY <2>1, SMTT(30)
  <1>2. ASSUME NEW p \in 1 .. 40
        PROVE  /\ stage(p) \in 1 .. 4 /\ index(p) \in 1 .. 10 /\ p = 10 * (stage(p) - 1) + index(p)
    <2>1. PICK s \in 1 .. 4, i \in 1 .. 10 : p = 10 * (s - 1) + i
      <3>1. CASE p <= 10 BY <3>1
      <3>2. CASE p > 10 /\ p <= 20
        <4>1. p - 10 \in 1 .. 10 BY <3>2
        <4>. QED BY <4>1
      <3>3. CASE p > 20 /\ p <= 30
        <4>1. p - 20 \in 1 .. 10 BY <3>3
        <4>. QED BY <4>1
      <3>4. CASE p > 30
        <4>1. p - 30 \in 1 .. 10 BY <3>4
        <4>. QED BY <4>1
      <3>. QED BY <3>1, <3>2, <3>3, <3>4
    <2>2. (p - 1) \div 10 = s - 1 BY <2>1
    <2>. QED BY <2>1, <2>2
  <1>3. \A s \in 1 .. 4, i \in 1 .. 10 : /\ 10 * (s - 1) + i \in 1 .. 40
                                        /\ stage(10 * (s - 1) + i) = s /\ index(10 * (s - 1) + i) = i
    <2>1. ASSUME NEW s \in 1 .. 4, NEW i \in 1 .. 10
          PROVE  /\ 10 * (s - 1) + i \in 1 .. 40 /\ (10 * (s - 1) + i - 1) \div 10 = s - 1
      OBVIOUS
    <2>. QED BY <2>1
  <1>4. \A p, q \in 1 .. 40 : p <= q => stage(p) <= stage(q) BY <1>2
  <1> HIDE DEF stage, index
  <1>5. DOMAIN Phases = 1 .. 40 BY DEF Phases
  <1>6. \A p \in 1 .. 40 : /\ Phases[p] = <<Phases[p][1], Phases[p][2]>>
                           /\ Phases[p][1] \in 1 .. 4 /\ Phases[p][2] \in Names
    <2> SUFFICES ASSUME NEW p \in 1 .. 40
                 PROVE  /\ Phases[p] = <<Phases[p][1], Phases[p][2]>>
                        /\ Phases[p][1] \in 1 .. 4 /\ Phases[p][2] \in Names
      OBVIOUS
    <2>1. stage(p) \in 1 .. 4 /\ index(p) \in 1 .. 10 BY <1>2
    <2>2. Orders[stage(p)][index(p)] \in Names BY <2>1, OrdersHold
    <2>. QED BY <1>1, <2>1, <2>2
  <1>7. \A p, q \in 1 .. 40 : p <= q => Phases[p][1] <= Phases[q][1] BY <1>1, <1>4
  <1>8. ASSUME NEW p \in 1 .. 40, NEW q \in 1 .. 40, Phases[p] = Phases[q] PROVE p = q
    <2>1. stage(p) = stage(q) /\ Orders[stage(p)][index(p)] = Orders[stage(q)][index(q)] BY <1>1, <1>8
    <2>2. index(p) = index(q) BY <1>2, <2>1, OrdersHold, SMTT(30)
    <2>. QED BY <1>2, <2>1, <2>2
  <1>9. ASSUME NEW s \in 1 .. 4, NEW m \in Names PROVE \E p \in 1 .. 40 : Phases[p] = <<s, m>>
    <2>1. PICK i \in 1 .. 10 : Orders[s][i] = m BY OrdersHold
    <2>. QED BY <1>1, <1>3, <2>1
  <1>10. ASSUME NEW p \in 1 .. 40, NEW q \in 1 .. 40, Phases[p][1] = 2,
                Phases[p][2] \notin {"inbound", "endpoint", "service"}, Phases[q] = <<2, "inbound">>
         PROVE  p < q
    <2>p. Phases[q][1] = 2 /\ Phases[q][2] = "inbound" BY <1>10
    <2>1. stage(p) = 2 /\ stage(q) = 2 BY <1>1, <1>10, <2>p
    <2>0. Orders[2] = StartOrder BY DEF Orders
    <2>2. StartOrder[index(p)] \notin {"inbound", "endpoint", "service"} /\ StartOrder[index(q)] = "inbound"
      BY <1>1, <1>10, <2>p, <2>0, <2>1
    <2>3. \A i \in 1 .. 10 : i \in {1, 2, 3, 4, 5, 6, 7, 8, 9, 10} OBVIOUS
    <2>a. /\ StartOrder[1] = "outbound" /\ StartOrder[2] = "dnsTransport" /\ StartOrder[3] = "dnsRouter"
          /\ StartOrder[4] = "network" /\ StartOrder[5] = "connection" /\ StartOrder[6] = "router"
          /\ StartOrder[7] = "internal" /\ StartOrder[8] = "inbound" /\ StartOrder[9] = "endpoint"
          /\ StartOrder[10] = "service"
      BY DEF StartOrder
    <2>b. index(p) \in 1 .. 10 /\ index(q) \in 1 .. 10 BY <1>2
    <2>c. \A i \in 1 .. 10 : StartOrder[i] = "inbound" => i = 8 BY <2>a, <2>3
    <2>d. \A i \in 1 .. 10 : StartOrder[i] \notin {"inbound", "endpoint", "service"} => i \in {1, 2, 3, 4, 5, 6, 7}
      BY <2>a, <2>3
    <2>4. index(p) < 8 /\ index(q) = 8 BY <2>b, <2>c, <2>d, <2>2
    <2>. QED BY <1>2, <2>1, <2>4
  <1>. QED BY <1>5, <1>6, <1>7, <1>8, <1>9, <1>10

\* Each phase is one stage of one component, and has its place.
LEMMA PhaseIs ==
    ASSUME NEW p \in 1 .. 40
    PROVE  /\ Phases[p][1] \in 1 .. 4 /\ Phases[p][2] \in Names
           /\ Phases[p] = <<Phases[p][1], Phases[p][2]>>
           /\ \A q \in 1 .. 40 : Phases[q][1] = Phases[p][1] /\ Phases[q][2] = Phases[p][2] => q = p
           /\ \A q \in 1 .. 40 : Phases[q][1] < Phases[p][1] => q < p
           /\ \A q \in 1 .. 40 : q <= p => Phases[q][1] <= Phases[p][1]
  <1>1. /\ Phases[p] = <<Phases[p][1], Phases[p][2]>>
        /\ Phases[p][1] \in 1 .. 4 /\ Phases[p][2] \in Names
    BY PhasesAre
  <1>3. ASSUME NEW q \in 1 .. 40, Phases[q][1] = Phases[p][1], Phases[q][2] = Phases[p][2] PROVE q = p
    <2>1. Phases[q] = <<Phases[q][1], Phases[q][2]>> BY PhasesAre
    <2>2. Phases[q] = Phases[p] BY <1>1, <1>3, <2>1
    <2>. QED BY <2>2, PhasesAre
  <1>4. \A q \in 1 .. 40 : q <= p => Phases[q][1] <= Phases[p][1] BY PhasesAre
  <1>5. ASSUME NEW q \in 1 .. 40, Phases[q][1] < Phases[p][1] PROVE q < p
    <2>1. p <= q => Phases[p][1] <= Phases[q][1] BY PhasesAre
    <2>2. Phases[q][1] \in 1 .. 4 BY PhasesAre
    <2>. QED BY <1>1, <1>5, <2>1, <2>2
  <1>. QED BY <1>1, <1>3, <1>4, <1>5

\* A later call of Start is of the same or a later stage.
LEMMA StagesGrow ==
    ASSUME NEW p \in 1 .. 40, NEW q \in 1 .. 40, q <= p
    PROVE  Phases[q][1] \in 1 .. 4 /\ Phases[q][1] <= Phases[p][1]
  BY PhasesAre

\* The call of Start for a stage and a component.
PhaseFor(s, m) == CHOOSE p \in 1 .. 40 : Phases[p][1] = s /\ Phases[p][2] = m

\* Every stage of every component is a call of Start.
LEMMA PhaseOf ==
    ASSUME NEW s \in 1 .. 4, NEW m \in Names
    PROVE  /\ PhaseFor(s, m) \in 1 .. 40
           /\ Phases[PhaseFor(s, m)][1] = s /\ Phases[PhaseFor(s, m)][2] = m
           /\ Phases[PhaseFor(s, m)] = <<s, m>>
  <1>1. PICK p \in 1 .. 40 : Phases[p] = <<s, m>> BY PhasesAre
  <1>2. Phases[p][1] = s /\ Phases[p][2] = m BY <1>1
  <1>3. PhaseFor(s, m) \in 1 .. 40 /\ Phases[PhaseFor(s, m)][1] = s /\ Phases[PhaseFor(s, m)][2] = m
    BY <1>2 DEF PhaseFor
  <1>4. Phases[PhaseFor(s, m)] = <<Phases[PhaseFor(s, m)][1], Phases[PhaseFor(s, m)][2]>> BY <1>3, PhaseIs
  <1>. QED BY <1>3, <1>4

\* A phase is known by its stage and component.
LEMMA PhaseIsFor ==
    ASSUME NEW p \in 1 .. 40
    PROVE  p = PhaseFor(Phases[p][1], Phases[p][2])
  <1>1. Phases[p][1] \in 1 .. 4 /\ Phases[p][2] \in Names BY PhaseIs
  <1>2. PICK q \in 1 .. 40 : /\ q = PhaseFor(Phases[p][1], Phases[p][2])
                             /\ Phases[q][1] = Phases[p][1] /\ Phases[q][2] = Phases[p][2]
    BY <1>1, PhaseOf
  <1>. QED BY <1>2, PhaseIs

\* At stage start the inbounds come after what they need.
LEMMA InboundPhase ==
    ASSUME NEW p \in 1 .. 40, NEW q \in 1 .. 40, Phases[p][1] = 2,
           Phases[p][2] \notin {"inbound", "endpoint", "service"}, Phases[q][1] = 2, Phases[q][2] = "inbound"
    PROVE  p < q
  <1>1. Phases[q] = <<Phases[q][1], Phases[q][2]>> BY PhaseIs
  <1>2. Phases[q] = <<2, "inbound">> BY <1>1
  <1>. QED BY <1>2, PhasesAre

\* Close goes on at the next component there is.
LEMMA NextToCloseIs ==
    ASSUME NEW n \in 1 .. 11
    PROVE  /\ NextToClose(n) \in n .. 11
           /\ \A k \in n .. 10 : CloseOrder[k] \in Components => k >= NextToClose(n)
           /\ NextToClose(n) \in 1 .. 10 => CloseOrder[NextToClose(n)] \in Components
  <1> DEFINE left == {k \in n .. 10 : CloseOrder[k] \in Components}
             next == CHOOSE k \in left : \A l \in left : k <= l
  <1>1. NextToClose(n) = IF left = {} THEN 11 ELSE next BY CloseOrderIs DEF NextToClose
  <1>2. left # {} => next \in left /\ \A l \in left : next <= l
    <2>1. left \subseteq Nat OBVIOUS
    <2> HIDE DEF left
    <2>2. left # {} => \E k \in left : \A l \in left : k <= l BY <2>1, LeastElement
    <2>. QED BY <2>2
  <1> HIDE DEF next
  <1>3. CASE left = {} BY <1>1, <1>3
  <1>4. CASE left # {}
    <2>1. NextToClose(n) \in left /\ \A l \in left : NextToClose(n) <= l BY <1>1, <1>2, <1>4
    <2>. QED BY <2>1
  <1>. QED BY <1>3, <1>4

-----------------------------------------------------------------------------
(* Lists of items.                                                         *)

\* The elements of a list.
LEMMA RangeIs ==
    ASSUME NEW S, NEW s \in Seq(S)
    PROVE  /\ Len(s) \in Nat /\ DOMAIN s = 1 .. Len(s)
           /\ Range(s) \subseteq S
           /\ \A x : x \in Range(s) <=> \E i \in 1 .. Len(s) : x = s[i]
  BY DEF Range

\* The empty list.
LEMMA RangeEmpty == Range(<<>>) = {}
  BY DEF Range

\* A list of one.
LEMMA RangeOne == \A x : Range(<<x>>) = {x}
  <1> SUFFICES ASSUME NEW x PROVE Range(<<x>>) = {x} OBVIOUS
  <1>1. DOMAIN <<x>> = {1} /\ <<x>>[1] = x OBVIOUS
  <1>. QED BY <1>1 DEF Range

\* One list behind another.
LEMMA ConcatIs ==
    ASSUME NEW S, NEW s \in Seq(S), NEW t \in Seq(S)
    PROVE  /\ s \o t \in Seq(S) /\ Len(s) \in Nat /\ Len(t) \in Nat /\ Len(s \o t) = Len(s) + Len(t)
           /\ \A i \in 1 .. Len(s \o t) :
                \/ i \in 1 .. Len(s) /\ (s \o t)[i] = s[i]
                \/ i - Len(s) \in 1 .. Len(t) /\ (s \o t)[i] = t[i - Len(s)]
           /\ \A i \in 1 .. Len(s) : i \in 1 .. Len(s \o t) /\ (s \o t)[i] = s[i]
           /\ \A i \in 1 .. Len(t) : i + Len(s) \in 1 .. Len(s \o t) /\ (s \o t)[i + Len(s)] = t[i]
  OBVIOUS

\* What is in a list made of two.
LEMMA RangeConcat ==
    ASSUME NEW S, NEW s \in Seq(S), NEW t \in Seq(S)
    PROVE  s \o t \in Seq(S) /\ Range(s \o t) = Range(s) \cup Range(t)
  <1> DEFINE c == s \o t
  <1>1. /\ c \in Seq(S)
        /\ \A i \in 1 .. Len(c) : \/ i \in 1 .. Len(s) /\ c[i] = s[i]
                                  \/ i - Len(s) \in 1 .. Len(t) /\ c[i] = t[i - Len(s)]
        /\ \A i \in 1 .. Len(s) : i \in 1 .. Len(c) /\ c[i] = s[i]
        /\ \A i \in 1 .. Len(t) : i + Len(s) \in 1 .. Len(c) /\ c[i + Len(s)] = t[i]
    BY ConcatIs
  <1> HIDE DEF c
  <1>2. \A x : x \in Range(c) <=> \E i \in 1 .. Len(c) : x = c[i] BY <1>1, RangeIs
  <1>3. \A x : x \in Range(s) <=> \E i \in 1 .. Len(s) : x = s[i] BY RangeIs
  <1>4. \A x : x \in Range(t) <=> \E i \in 1 .. Len(t) : x = t[i] BY RangeIs
  <1>5. \A i \in 1 .. Len(c) : c[i] \in Range(s) \cup Range(t) BY <1>1, <1>3, <1>4
  <1>6. \A i \in 1 .. Len(s) : s[i] \in Range(c) BY <1>1, <1>2
  <1>7. \A i \in 1 .. Len(t) : t[i] \in Range(c) BY <1>1, <1>2
  <1>8. Range(c) \subseteq Range(s) \cup Range(t) BY <1>2, <1>5
  <1>9. Range(s) \subseteq Range(c) BY <1>3, <1>6
  <1>10. Range(t) \subseteq Range(c) BY <1>4, <1>7
  <1>. QED BY <1>1, <1>8, <1>9, <1>10 DEF c

\* No element comes twice.
Distinct(s) == \A i, j \in 1 .. Len(s) : s[i] = s[j] => i = j

\* Two such lists with nothing in common.
LEMMA DistinctConcat ==
    ASSUME NEW S, NEW s \in Seq(S), NEW t \in Seq(S), Distinct(s), Distinct(t), Range(s) \cap Range(t) = {}
    PROVE  Distinct(s \o t)
  <1> DEFINE c == s \o t
  <1>1. /\ c \in Seq(S) /\ Len(s) \in Nat
        /\ \A i \in 1 .. Len(c) : \/ i \in 1 .. Len(s) /\ c[i] = s[i]
                                  \/ i - Len(s) \in 1 .. Len(t) /\ c[i] = t[i - Len(s)]
    BY ConcatIs
  <1> HIDE DEF c
  <1> SUFFICES ASSUME NEW i \in 1 .. Len(c), NEW j \in 1 .. Len(c), c[i] = c[j] PROVE i = j
    BY DEF Distinct, c
  <1>2. \A k \in 1 .. Len(s) : s[k] \in Range(s) BY RangeIs
  <1>3. \A k \in 1 .. Len(t) : t[k] \in Range(t) BY RangeIs
  <1>4. CASE i \in 1 .. Len(s) /\ c[i] = s[i] /\ j \in 1 .. Len(s) /\ c[j] = s[j]
    BY <1>4 DEF Distinct
  <1>5. CASE /\ i - Len(s) \in 1 .. Len(t) /\ c[i] = t[i - Len(s)]
             /\ j - Len(s) \in 1 .. Len(t) /\ c[j] = t[j - Len(s)]
    <2>1. i - Len(s) = j - Len(s) BY <1>5 DEF Distinct
    <2>. QED BY <1>1, <2>1
  <1>. QED BY <1>1, <1>2, <1>3, <1>4, <1>5

\* What is behind an element of a list.
LEMMA RestOf ==
    ASSUME NEW S, NEW s \in Seq(S), NEW i \in 1 .. Len(s)
    PROVE  /\ SubSeq(s, i + 1, Len(s)) \in Seq(S)
           /\ Range(SubSeq(s, i + 1, Len(s))) \subseteq Range(s)
  <1> DEFINE r == SubSeq(s, i + 1, Len(s))
  <1>1. r \in Seq(S) /\ Len(r) = Len(s) - i /\ \A j \in 1 .. Len(s) - i : r[j] = s[i + j] /\ i + j \in 1 .. Len(s)
    OBVIOUS
  <1> HIDE DEF r
  <1>2. \A j \in 1 .. Len(r) : r[j] \in Range(s)
    <2>1. \A j \in 1 .. Len(s) : s[j] \in Range(s) BY RangeIs
    <2>. QED BY <1>1, <2>1
  <1>3. \A x : x \in Range(r) <=> \E j \in 1 .. Len(r) : x = r[j] BY <1>1, RangeIs
  <1>4. Range(r) \subseteq Range(s) BY <1>2, <1>3
  <1>. QED BY <1>1, <1>4 DEF r

\* What is behind the first.
LEMMA RestOfAll ==
    ASSUME NEW S, NEW s \in Seq(S), s # <<>>
    PROVE  /\ Head(s) \in S /\ Head(s) \in Range(s) /\ Tail(s) \in Seq(S)
           /\ Range(s) = {Head(s)} \cup Range(Tail(s))
  <1> DEFINE t == Tail(s)
  <1>1. /\ Head(s) = s[1] /\ t \in Seq(S) /\ Len(t) = Len(s) - 1 /\ 1 \in 1 .. Len(s)
        /\ \A j \in 1 .. Len(t) : t[j] = s[j + 1] /\ j + 1 \in 1 .. Len(s)
        /\ \A i \in 1 .. Len(s) : i = 1 \/ (i - 1 \in 1 .. Len(t) /\ s[i] = t[i - 1])
    OBVIOUS
  <1> HIDE DEF t
  <1>2. \A x : x \in Range(s) <=> \E i \in 1 .. Len(s) : x = s[i] BY RangeIs
  <1>3. \A x : x \in Range(t) <=> \E i \in 1 .. Len(t) : x = t[i] BY <1>1, RangeIs
  <1>4. \A j \in 1 .. Len(t) : t[j] \in Range(s) BY <1>1, <1>2
  <1>5. \A i \in 1 .. Len(s) : s[i] = Head(s) \/ s[i] \in Range(t) BY <1>1, <1>3
  <1>6. Head(s) \in Range(s) /\ Head(s) \in S BY <1>1, <1>2
  <1>7. Range(t) \subseteq Range(s) BY <1>3, <1>4
  <1>8. Range(s) \subseteq {Head(s)} \cup Range(t) BY <1>2, <1>5
  <1>. QED BY <1>1, <1>6, <1>7, <1>8 DEF t

\* A list in which no element comes twice has as many elements as it is long.
LEMMA CountOf ==
    ASSUME NEW S, NEW s \in Seq(S), Distinct(s)
    PROVE  IsFiniteSet(Range(s)) /\ Cardinality(Range(s)) = Len(s)
  <1>1. IsFiniteSet(1 .. Len(s)) /\ Cardinality(1 .. Len(s)) = Len(s)
    <2>1. Len(s) \in Int /\ 1 \in Int /\ Len(s) >= 0 OBVIOUS
    <2>2. /\ IsFiniteSet(1 .. Len(s))
          /\ Cardinality(1 .. Len(s)) = IF 1 > Len(s) THEN 0 ELSE Len(s) - 1 + 1
      BY <2>1, FS_Interval
    <2>. QED BY <2>1, <2>2
  <1> DEFINE f == [i \in 1 .. Len(s) |-> s[i]]
  <1>2. f \in Bijection(1 .. Len(s), Range(s))
    <2>1. \A x : x \in Range(s) <=> \E i \in 1 .. Len(s) : x = s[i] BY RangeIs
    <2>2. f \in [1 .. Len(s) -> Range(s)] BY <2>1
    <2>3. \A i, j \in 1 .. Len(s) : f[i] = f[j] => i = j BY DEF Distinct
    <2>4. \A x \in Range(s) : \E i \in 1 .. Len(s) : f[i] = x BY <2>1
    <2> HIDE DEF f
    <2>. QED BY <2>2, <2>3, <2>4, Fun_IsBij
  <1>. QED BY <1>1, <1>2, FS_Bijection DEF ExistsBijection

\* As many elements of a list as it has are all of them.
LEMMA AllStarted ==
    ASSUME NEW S, NEW s \in Seq(S), Distinct(s), NEW T, T \subseteq Range(s), Cardinality(T) = Len(s)
    PROVE  T = Range(s)
  BY CountOf, FS_Subset

-----------------------------------------------------------------------------
(* The configuration.                                                      *)

\* The names of the items of a component, with that of its fallback.
Own(m) == NamesIn(Configs[config], m)

\* What the assumption says of the configuration that was chosen.
LEMMA ConfigIs ==
    ASSUME config \in DOMAIN Configs
    PROVE  /\ Components \subseteq Names
           /\ "endpoint" \in Components => "outbound" \in Components
           /\ Configs[config].boxes \subseteq Boxes
           /\ \A m, n \in Names : m # n => Own(m) \cap Own(n) = {}
           /\ \A m \in DOMAIN Fallback : Fallback[m] \notin Range(Items(m))
           /\ \A x : Deps(x) # {} => \E m \in {"outbound", "endpoint", "dnsTransport"} : x \in Range(Items(m))
  <1> DEFINE c == Configs[config]
  <1>1. IsConfig(c) BY BoxAssumption
  <1>2. Components = c.components BY DEF Components
  <1>3. \A m : Items(m) = ItemsIn(c, m) BY DEF Items
  <1>4. \A m : Own(m) = NamesIn(c, m) BY DEF Own
  <1>5. \A x : Deps(x) # {} => x \in DOMAIN c.deps BY DEF Deps
  <1> HIDE DEF c
  <1>6. \A m \in {"outbound", "endpoint", "dnsTransport"} : Items(m) = c.items[m]
    BY <1>3 DEF ItemsIn, Managers
  <1>7. \A m \in DOMAIN Fallback : Fallback[m] \notin Range(Items(m))
    BY <1>1, <1>6, BoxAssumption DEF IsConfig
  <1>8. \A x : Deps(x) # {} => \E m \in {"outbound", "endpoint", "dnsTransport"} : x \in Range(Items(m))
    BY <1>1, <1>5, <1>6 DEF IsConfig
  <1>9. /\ Components \subseteq Names
        /\ "endpoint" \in Components => "outbound" \in Components
        /\ \A m, n \in Names : m # n => Own(m) \cap Own(n) = {}
    BY <1>1, <1>2, <1>4, CloseOrderIs DEF IsConfig
  <1>10. Configs[config].boxes \subseteq Boxes BY <1>1 DEF IsConfig, c
  <1>. QED BY <1>7, <1>8, <1>9, <1>10

\* The lists a component has its items in.
LEMMA ListsAre ==
    ASSUME config \in DOMAIN Configs, NEW m \in Components
    PROVE  /\ ItemsOf(m) = Range(Items(m)) /\ ItemsOf(m) \subseteq Own(m)
           /\ \A s \in {<<>>, Items(m), FullItems(m)} :
                s \in Lists /\ Distinct(s) /\ Range(s) \subseteq Own(m) /\ Range(s) \subseteq AllItems
           /\ Range(FullItems(m)) = ItemsOf(m) \cup (IF NeedsFallback(m) THEN {Fallback[m]} ELSE {})
           /\ m \in DOMAIN Fallback => Fallback[m] \in AllItems /\ Fallback[m] \in Own(m)
           /\ m \notin Managers => Items(m) = <<m>> /\ FullItems(m) = <<m>>
           /\ m \in AllItems \/ m \in Managers
  <1> DEFINE c == Configs[config]
  <1>1. IsConfig(c) BY BoxAssumption
  <1>2. Items(m) = ItemsIn(c, m) /\ Own(m) = NamesIn(c, m) BY DEF Items, Own
  <1>3. ItemsOf(m) = Range(Items(m)) BY DEF ItemsOf
  <1>4. ItemsOf(m) \subseteq Own(m) BY <1>2, <1>3 DEF NamesIn
  <1>5. ItemsOf(m) \subseteq AllItems BY DEF AllItems
  <1> HIDE DEF c
  <1>6. m \notin Managers => Items(m) = <<m>> BY <1>2 DEF ItemsIn
  <1>7. Items(m) \in Seq(Range(Items(m))) /\ Distinct(Items(m))
    <2>1. CASE m \in Managers
      <3>1. Items(m) = c.items[m] BY <1>2, <2>1 DEF ItemsIn
      <3>2. /\ c.items[m] \in Seq(Range(c.items[m]))
            /\ \A i, j \in DOMAIN c.items[m] : c.items[m][i] = c.items[m][j] => i = j
        BY <1>1, <2>1 DEF IsConfig
      <3>3. DOMAIN c.items[m] = 1 .. Len(c.items[m]) BY <3>2
      <3>. QED BY <3>1, <3>2, <3>3 DEF Distinct
    <2>2. CASE m \notin Managers
      <3>1. Items(m) = <<m>> BY <1>6, <2>2
      <3>2. Range(Items(m)) = {m} BY <3>1, RangeOne
      <3>. QED BY <3>1, <3>2 DEF Distinct
    <2>. QED BY <2>1, <2>2
  <1>8. m \in DOMAIN Fallback => Fallback[m] \in AllItems /\ Fallback[m] \in Own(m)
    <2>1. ASSUME m \in DOMAIN Fallback PROVE Fallback[m] \in AllItems
      <3>1. m \in DOMAIN Fallback \cap Components BY <2>1
      <3>2. Fallback[m] \in {Fallback[n] : n \in DOMAIN Fallback \cap Components} BY <3>1
      <3>. QED BY <3>2 DEF AllItems
    <2>2. m \in DOMAIN Fallback => Fallback[m] \in Own(m) BY <1>2 DEF NamesIn
    <2>. QED BY <2>1, <2>2
  <1>9. Items(m) \in Lists
    <2>1. Range(Items(m)) \subseteq AllItems BY <1>3, <1>5
    <2> DEFINE R == Range(Items(m))
    <2>2. Items(m) \in Seq(R) BY <1>7
    <2> HIDE DEF R
    <2>3. \A t \in Seq(R) : R \subseteq AllItems => t \in Seq(AllItems) OBVIOUS
    <2>. QED BY <2>1, <2>2, <2>3 DEF R, Lists
  <1>10. <<>> \in Lists /\ Distinct(<<>>) /\ Range(<<>>) = {} BY RangeEmpty DEF Lists, Distinct
  <1>11. NeedsFallback(m) => m \in DOMAIN Fallback /\ Items(m) = <<>> BY DEF NeedsFallback
  <1>12. CASE NeedsFallback(m)
    <2>1. FullItems(m) = <<Fallback[m]>> BY <1>12 DEF FullItems
    <2>2. <<Fallback[m]>> \in Lists /\ Distinct(<<Fallback[m]>>) BY <1>8, <1>11, <1>12 DEF Lists, Distinct
    <2>3. Range(FullItems(m)) = {Fallback[m]} BY <2>1, RangeOne
    <2>4. m \in Managers BY <1>11, <1>12, BoxAssumption DEF Managers
    <2>. QED BY <1>3, <1>4, <1>5, <1>7, <1>8, <1>9, <1>10, <1>11, <1>12, <2>1, <2>2, <2>3, <2>4
  <1>13. CASE ~NeedsFallback(m)
    <2>1. FullItems(m) = Items(m) BY <1>13 DEF FullItems
    <2>2. m \notin Managers => m \in AllItems BY <1>3, <1>5, <1>6, RangeOne
    <2>. QED BY <1>3, <1>4, <1>5, <1>6, <1>7, <1>8, <1>9, <1>10, <1>13, <2>1, <2>2
  <1>. QED BY <1>12, <1>13

\* Items of two components are different.
LEMMA OwnerIs ==
    ASSUME config \in DOMAIN Configs, NEW m \in Components, NEW n \in Components, NEW x \in Own(m), x \in Own(n)
    PROVE  m = n
  BY ConfigIs

-----------------------------------------------------------------------------
(* A step of one Box leaves the others alone.                              *)

\* The configuration stays, and all that is said of it.
LEMMA SameConfig ==
    ASSUME config' = config
    PROVE  /\ Components' = Components /\ AllItems' = AllItems /\ Lists' = Lists
           /\ Resolvable' = Resolvable
           /\ \A m : /\ Items(m)' = Items(m) /\ ItemsOf(m)' = ItemsOf(m) /\ FullItems(m)' = FullItems(m)
                     /\ NeedsFallback(m)' = NeedsFallback(m) /\ NoDefault(m)' = NoDefault(m)
                     /\ Own(m)' = Own(m) /\ ResolvableFor(m)' = ResolvableFor(m)
           /\ \A x : Deps(x)' = Deps(x) /\ Ordered(x)' = Ordered(x)
  <1>1. Components' = Components BY DEF Components
  <1>2. \A m : Items(m)' = Items(m) BY DEF Items
  <1>3. \A m : ItemsOf(m)' = ItemsOf(m) BY <1>1, <1>2 DEF ItemsOf
  <1>4. AllItems' = AllItems BY <1>1, <1>3 DEF AllItems
  <1>5. \A m : NeedsFallback(m)' = NeedsFallback(m) BY <1>2 DEF NeedsFallback
  <1>6. \A x : Deps(x)' = Deps(x) BY DEF Deps
  <1>7. \A x : Ordered(x)' = Ordered(x) BY <1>6 DEF Ordered
  <1>8. \A m : Among(m)' = Among(m) BY <1>3 DEF Among
  <1>9. \A m : NoDefault(m)' = NoDefault(m) BY <1>8 DEF NoDefault
  <1>10. \A m : Offered(m)' = Offered(m) BY <1>5, <1>8 DEF Offered
  <1>11. \A m : ResolvableFor(m)' = ResolvableFor(m) BY <1>6, <1>7, <1>9, <1>10 DEF ResolvableFor
  <1>12. Resolvable' = Resolvable BY <1>1, <1>11 DEF Resolvable
  <1>13. \A m : FullItems(m)' = FullItems(m) BY <1>2, <1>5 DEF FullItems
  <1>14. \A m : Own(m)' = Own(m) BY DEF Own
  <1>15. Lists' = Lists BY <1>4 DEF Lists
  <1>. QED BY <1>1, <1>2, <1>3, <1>4, <1>5, <1>6, <1>7, <1>9, <1>11, <1>12, <1>13, <1>14, <1>15

\* Nothing of the Box changes.
Untouched(b) ==
    /\ manager'[b] = manager[b] /\ item'[b] = item[b] /\ starting'[b] = starting[b]
    /\ closing'[b] = closing[b] /\ overlap'[b] = overlap[b] /\ faulty'[b] = faulty[b]

\* What is known of a Box that nothing happens to stays.
LEMMA UntouchedKept ==
    ASSUME NEW b \in Boxes, config' = config, Untouched(b), BoxInv(b)
    PROVE  BoxInv(b)'
  <1> USE DEF Untouched
  <1>1. /\ Stage(b)' = Stage(b) /\ Component(b)' = Component(b) BY DEF Stage, Component
  <1>2. InPasses(b)' = InPasses(b) /\ Busy(b)' = Busy(b) BY <1>1 DEF InPasses, Busy
  <1>3. \A s, m : Begun(b, s, m)' = Begun(b, s, m) BY DEF Begun
  <1>4. Endpoints(b)' = Endpoints(b) BY SameConfig DEF Endpoints
  <1>5. \A p : Takes(b, p)' = Takes(b, p) BY <1>4 DEF Takes
  <1>6. \A m : ClosedBy(b, m)' = ClosedBy(b, m) BY DEF ClosedBy
  <1>7. Over(b)' = Over(b) BY SameConfig DEF Over
  <1>8. ItemsInv(b)' BY <1>3, SameConfig DEF BoxInv, ItemsInv
  <1>9. LoopInv(b)' BY <1>1, <1>2, <1>5, SameConfig DEF BoxInv, LoopInv
  <1>10. PassInv(b)' BY <1>2, SameConfig DEF BoxInv, PassInv
  <1>11. StageInv(b)' BY <1>1, <1>2, <1>5, <1>7, SameConfig DEF BoxInv, StageInv
  <1>12. CallsInv(b)' BY <1>2, SameConfig DEF BoxInv, CallsInv
  <1>13. OpenInv(b)' BY <1>2, <1>6, SameConfig DEF BoxInv, OpenInv
  <1>14. ServedInv(b)' BY SameConfig DEF BoxInv, ServedInv
  <1>15. DepsInv(b)' BY SameConfig DEF BoxInv, DepsInv
  <1>16. VerdictInv(b)' BY <1>1, <1>2, <1>7, SameConfig DEF BoxInv, VerdictInv
  <1>. QED BY <1>8, <1>9, <1>10, <1>11, <1>12, <1>13, <1>14, <1>15, <1>16 DEF BoxInv

\* A step of Box b gives it new values.
LEMMA StepOfOne ==
    ASSUME TypeOK, NEW b \in Boxes, config' = config,
           NEW mv \in ManagerStates, manager' = [manager EXCEPT ![b] = mv],
           NEW iv \in ItemStates, item' = [item EXCEPT ![b] = iv],
           NEW sv \in StartStates, starting' = [starting EXCEPT ![b] = sv],
           NEW cv \in 0 .. Finished, closing' = [closing EXCEPT ![b] = cv],
           NEW ov \in BOOLEAN, overlap' = [overlap EXCEPT ![b] = ov],
           NEW fv \in BOOLEAN, faulty' = [faulty EXCEPT ![b] = fv]
    PROVE  /\ TypeOK'
           /\ manager'[b] = mv /\ item'[b] = iv /\ starting'[b] = sv
           /\ closing'[b] = cv /\ overlap'[b] = ov /\ faulty'[b] = fv
           /\ \A c \in Boxes \ {b} : Untouched(c)
  <1>1. ManagerStates' = ManagerStates BY SameConfig DEF ManagerStates
  <1>2. ItemStates' = ItemStates BY SameConfig DEF ItemStates
  <1>3. StartStates' = StartStates BY SameConfig DEF StartStates
  <1>4. TypeOK' BY <1>1, <1>2, <1>3 DEF TypeOK
  <1>5. /\ manager'[b] = mv /\ item'[b] = iv /\ starting'[b] = sv
        /\ closing'[b] = cv /\ overlap'[b] = ov /\ faulty'[b] = fv
    BY DEF TypeOK
  <1>6. \A c \in Boxes \ {b} : Untouched(c) BY DEF TypeOK, Untouched
  <1>. QED BY <1>4, <1>5, <1>6

\* A step of Start of Box b.
LEMMA StartOfOne ==
    ASSUME TypeOK, NEW b \in Boxes, config' = config, UNCHANGED <<manager, closing, overlap, faulty>>,
           NEW iv \in ItemStates, item' = [item EXCEPT ![b] = iv],
           NEW sv \in StartStates, starting' = [starting EXCEPT ![b] = sv]
    PROVE  /\ TypeOK'
           /\ manager'[b] = manager[b] /\ item'[b] = iv /\ starting'[b] = sv
           /\ closing'[b] = closing[b] /\ overlap'[b] = overlap[b] /\ faulty'[b] = faulty[b]
           /\ \A c \in Boxes \ {b} : Untouched(c)
  <1>1. ManagerStates' = ManagerStates BY SameConfig DEF ManagerStates
  <1>2. ItemStates' = ItemStates BY SameConfig DEF ItemStates
  <1>3. StartStates' = StartStates BY SameConfig DEF StartStates
  <1>4. TypeOK' BY <1>1, <1>2, <1>3 DEF TypeOK
  <1>5. item'[b] = iv /\ starting'[b] = sv BY DEF TypeOK
  <1>6. \A c \in Boxes \ {b} : Untouched(c) BY DEF TypeOK, Untouched
  <1>. QED BY <1>4, <1>5, <1>6

\* The values of a Box.
LEMMA BoxTypes ==
    ASSUME TypeOK, NEW b \in Boxes
    PROVE  /\ manager[b] \in ManagerStates /\ item[b] \in ItemStates /\ starting[b] \in StartStates
           /\ closing[b] \in 0 .. 11 /\ overlap[b] \in BOOLEAN /\ faulty[b] \in BOOLEAN
           /\ manager = [manager EXCEPT ![b] = manager[b]] /\ item = [item EXCEPT ![b] = item[b]]
           /\ starting = [starting EXCEPT ![b] = starting[b]] /\ closing = [closing EXCEPT ![b] = closing[b]]
           /\ overlap = [overlap EXCEPT ![b] = overlap[b]] /\ faulty = [faulty EXCEPT ![b] = faulty[b]]
           /\ \A m \in Components : manager[b][m].started \in BOOLEAN /\ manager[b][m].items \in Lists
           /\ \A x \in AllItems : item[b][x].stage \in 0 .. 4 /\ item[b][x].open \in BOOLEAN
           /\ starting[b].phase \in 0 .. 40 /\ starting[b].list \in Lists /\ starting[b].todo \in Lists
           /\ starting[b].started \subseteq AllItems /\ starting[b].canContinue \in BOOLEAN
           /\ starting[b].at \in {"none", "next", "loop", "ok", "checked", "closing", "failed"}
  <1>1. /\ manager[b] \in ManagerStates /\ item[b] \in ItemStates /\ starting[b] \in StartStates
        /\ closing[b] \in 0 .. 11 /\ overlap[b] \in BOOLEAN /\ faulty[b] \in BOOLEAN
    BY CloseOrderIs DEF TypeOK
  <1>2. /\ manager = [manager EXCEPT ![b] = manager[b]] /\ item = [item EXCEPT ![b] = item[b]]
        /\ starting = [starting EXCEPT ![b] = starting[b]] /\ closing = [closing EXCEPT ![b] = closing[b]]
        /\ overlap = [overlap EXCEPT ![b] = overlap[b]] /\ faulty = [faulty EXCEPT ![b] = faulty[b]]
    BY DEF TypeOK
  <1>3. \A m \in Components : manager[b][m].started \in BOOLEAN /\ manager[b][m].items \in Lists
    BY <1>1 DEF ManagerStates
  <1>4. \A x \in AllItems : item[b][x].stage \in 0 .. 4 /\ item[b][x].open \in BOOLEAN BY <1>1 DEF ItemStates
  <1>5. /\ starting[b].phase \in 0 .. 40 /\ starting[b].list \in Lists /\ starting[b].todo \in Lists
        /\ starting[b].started \subseteq AllItems /\ starting[b].canContinue \in BOOLEAN
        /\ starting[b].at \in {"none", "next", "loop", "ok", "checked", "closing", "failed"}
    BY <1>1 DEF StartStates
  <1>. QED BY <1>1, <1>2, <1>3, <1>4, <1>5

-----------------------------------------------------------------------------
(* Close.                                                                  *)

\* The lists a component may have.
LEMMA ItemsAre ==
    ASSUME TypeOK, NEW b \in Boxes, BoxInv(b), NEW m \in Components
    PROVE  /\ manager[b][m].items \in Lists /\ Distinct(manager[b][m].items)
           /\ Range(manager[b][m].items) \subseteq Own(m) /\ Range(manager[b][m].items) \subseteq AllItems
  <1>1. manager[b][m].items \in {<<>>, Items(m), FullItems(m)} BY DEF BoxInv, ItemsInv
  <1>2. config \in DOMAIN Configs BY DEF TypeOK
  <1>. QED BY <1>1, <1>2, ListsAre

\* A component closes its own items.
LEMMA ClosedByOwn ==
    ASSUME TypeOK, NEW b \in Boxes, BoxInv(b), NEW m \in Components
    PROVE  ClosedBy(b, m) \subseteq Own(m)
  <1>0. config \in DOMAIN Configs BY DEF TypeOK
  <1>1. CASE m \in Managers BY <1>1, ItemsAre DEF ClosedBy
  <1>2. CASE m \notin Managers
    <2>1. ItemsOf(m) = {m} /\ ItemsOf(m) \subseteq Own(m) BY <1>0, <1>2, ListsAre, RangeOne
    <2>. QED BY <1>2, <2>1 DEF ClosedBy
  <1>. QED BY <1>1, <1>2

\* What a phase takes belongs to its component, or is an endpoint.
LEMMA TakesOwn ==
    ASSUME TypeOK, NEW b \in Boxes, BoxInv(b), NEW p \in 1 .. 40, Phases[p][2] \in Components
    PROVE  /\ Takes(b, p) \subseteq AllItems
           /\ \A x \in Takes(b, p) :
                \/ x \in Own(Phases[p][2]) /\ x \in Range(manager[b][Phases[p][2]].items)
                \/ /\ Phases[p] = <<2, "outbound">> /\ "endpoint" \in Components
                   /\ x \in Own("endpoint") /\ x \in Range(manager[b]["endpoint"].items)
  <1>1. Phases[p] = <<2, "outbound">> => Phases[p][2] = "outbound" OBVIOUS
  <1>2. \A x \in Range(Endpoints(b)) : "endpoint" \in Components /\ x \in Range(manager[b]["endpoint"].items)
    BY RangeEmpty DEF Endpoints
  <1>. QED BY <1>1, <1>2, ItemsAre DEF Takes

\* Close of a component.
LEMMA CloseNextKeeps ==
    ASSUME TypeOK, NEW b \in Boxes, BoxInv(b), CloseNext(b), config' = config
    PROVE  /\ TypeOK' /\ BoxInv(b)' /\ \A c \in Boxes \ {b} : Untouched(c)
           /\ starting'[b] = starting[b] /\ overlap'[b] = overlap[b]
           /\ closing[b] \in 1 .. 10 /\ closing'[b] \in 1 .. 11
           /\ \A x \in AllItems : item'[b][x].open => item[b][x].open
  <1> DEFINE m == CloseOrder[closing[b]]
             gone == m \in Managers /\ manager[b][m].started
             mv == [manager[b] EXCEPT ![m] = IF gone THEN [started |-> FALSE, items |-> <<>>] ELSE @]
             iv == [x \in AllItems |->
                        IF x \in ClosedBy(b, m) THEN [item[b][x] EXCEPT !.open = FALSE] ELSE item[b][x]]
             cv == NextToClose(closing[b] + 1)
  <1>0. /\ manager[b] \in ManagerStates /\ item[b] \in ItemStates /\ starting[b] \in StartStates
        /\ closing[b] \in 0 .. 11 /\ overlap[b] \in BOOLEAN /\ faulty[b] \in BOOLEAN
        /\ starting = [starting EXCEPT ![b] = starting[b]]
        /\ overlap = [overlap EXCEPT ![b] = overlap[b]] /\ faulty = [faulty EXCEPT ![b] = faulty[b]]
    BY BoxTypes
  <1>1. closing[b] \in 1 .. 10 /\ m \in Components /\ m \in Names
    BY CloseOrderIs DEF CloseNext, BoxInv, CallsInv
  <1>2. /\ cv \in closing[b] + 1 .. 11 /\ cv \in 0 .. Finished
        /\ \A k \in closing[b] + 1 .. 10 : CloseOrder[k] \in Components => k >= cv
        /\ cv \in 1 .. 10 => CloseOrder[cv] \in Components
    <2>1. closing[b] + 1 \in 1 .. 11 BY <1>1
    <2>. QED BY <1>1, <2>1, NextToCloseIs, CloseOrderIs
  <1>3. mv \in ManagerStates
    <2>1. <<>> \in Lists BY DEF Lists
    <2>. QED BY <1>0, <2>1 DEF ManagerStates
  <1>4. iv \in ItemStates BY <1>0, ZenonT(60) DEF ItemStates
  <1>5. /\ manager' = [manager EXCEPT ![b] = mv] /\ item' = [item EXCEPT ![b] = iv]
        /\ closing' = [closing EXCEPT ![b] = cv] /\ UNCHANGED <<starting, overlap, faulty>>
    <2>1. DOMAIN item[b] = AllItems BY <1>0 DEF ItemStates
    <2>2. manager' = [manager EXCEPT ![b] = mv] BY DEF CloseNext, TypeOK
    <2>3. item' = [item EXCEPT ![b] = iv] BY <2>1 DEF CloseNext, TypeOK
    <2>. QED BY <2>2, <2>3 DEF CloseNext, TypeOK
  <1>6. /\ TypeOK' /\ manager'[b] = mv /\ item'[b] = iv /\ closing'[b] = cv
        /\ starting'[b] = starting[b] /\ overlap'[b] = overlap[b] /\ faulty'[b] = faulty[b]
        /\ \A c \in Boxes \ {b} : Untouched(c)
    <2>1. /\ starting' = [starting EXCEPT ![b] = starting[b]]
          /\ overlap' = [overlap EXCEPT ![b] = overlap[b]] /\ faulty' = [faulty EXCEPT ![b] = faulty[b]]
      BY <1>0, <1>5
    <2>2. cv \in 0 .. Finished BY <1>2
    <2>3. manager' = [manager EXCEPT ![b] = mv] /\ item' = [item EXCEPT ![b] = iv] BY <1>5
    <2>4. closing' = [closing EXCEPT ![b] = cv] BY <1>5
    <2> HIDE DEF mv, iv, cv, m, gone
    <2>. QED BY ONLY TypeOK, b \in Boxes, config' = config, <1>0, <2>2, <1>3, <1>4, <2>3, <2>4, <2>1, StepOfOne, ZenonT(60)
  <1>7. \A n \in Components : mv[n] = IF n = m /\ gone THEN [started |-> FALSE, items |-> <<>>]
                                      ELSE manager[b][n]
    BY <1>0 DEF ManagerStates
  <1>8. \A x \in AllItems : /\ item'[b][x].stage = item[b][x].stage
                            /\ item'[b][x].open <=> item[b][x].open /\ x \notin ClosedBy(b, m)
    <2>1. ASSUME NEW x \in AllItems
          PROVE  /\ iv[x].stage = item[b][x].stage
                 /\ iv[x].open <=> item[b][x].open /\ x \notin ClosedBy(b, m)
      <3>1. item[b][x] \in [stage : 0 .. 4, open : BOOLEAN] BY <1>0 DEF ItemStates
      <3>. QED BY <3>1
    <2> HIDE DEF iv
    <2>. QED BY <1>6, <2>1
  <1>9. \A n \in Components :
            /\ manager'[b][n].items \in {manager[b][n].items, <<>>}
            /\ n \notin Managers => manager'[b][n].items = manager[b][n].items
    <2> HIDE DEF mv
    <2>. QED BY <1>6, <1>7
  <1>10. \A n \in Components : n # m => ClosedBy(b, n)' = ClosedBy(b, n)
    <2>1. \A n \in Components : n # m => manager'[b][n] = manager[b][n]
      <3> HIDE DEF mv
      <3>. QED BY <1>6, <1>7
    <2>. QED BY <2>1 DEF ClosedBy
  <1> HIDE DEF mv, iv, cv, gone, m
  <1>c. closing'[b] = cv /\ cv # 0 /\ closing[b] # 0 /\ closing[b] # Finished
    BY <1>1, <1>2, <1>6, CloseOrderIs
  <1>11. /\ Stage(b)' = Stage(b) /\ Component(b)' = Component(b) BY <1>6 DEF Stage, Component
  <1>12. InPasses(b)' = InPasses(b) /\ Busy(b)' = Busy(b) BY <1>6, <1>11 DEF InPasses, Busy
  <1>13. \A s, n : Begun(b, s, n)' = Begun(b, s, n) BY <1>6 DEF Begun
  <1>14. Over(b)' = Over(b) BY <1>6, SameConfig DEF Over
  <1>15. ASSUME NEW p \in 1 .. 40, Phases[p][2] \in Components PROVE Takes(b, p)' \subseteq Takes(b, p)
    <2>1. \A n \in Components : Range(manager'[b][n].items) \subseteq Range(manager[b][n].items)
      BY <1>9, RangeEmpty
    <2>2. Range(Endpoints(b)') \subseteq Range(Endpoints(b)) BY <2>1, SameConfig DEF Endpoints
    <2>3. Phases[p] = <<2, "outbound">> => Phases[p][2] = "outbound" OBVIOUS
    <2>. QED BY <1>15, <2>1, <2>2, <2>3 DEF Takes
  <1>i. ItemsInv(b)' BY <1>6, <1>9, <1>c, <1>13, SameConfig DEF BoxInv, ItemsInv
  <1>l. LoopInv(b)'
    <2> SUFFICES ASSUME starting[b].at = "loop" PROVE LoopInv(b)' BY <1>6 DEF LoopInv
    <2>1. /\ starting[b].phase \in 1 .. 40 /\ Component(b) \in Components
          /\ Takes(b, starting[b].phase) \subseteq Range(starting[b].list)
      BY DEF BoxInv, LoopInv
    <2>2. Takes(b, starting[b].phase)' \subseteq Takes(b, starting[b].phase)
      BY <1>6, <1>15, <2>1 DEF Component
    <2>3. \A x \in Range(starting[b].list) : item'[b][x].stage = item[b][x].stage
      BY <1>8, BoxTypes, RangeIs DEF Lists
    <2>. QED BY <1>6, <1>c, <1>11, <1>12, <2>1, <2>2, <2>3, SameConfig, SMTT(30) DEF BoxInv, LoopInv
  <1>p. PassInv(b)' BY <1>6, <1>8, <1>12, BoxTypes, SameConfig DEF BoxInv, PassInv
  <1>s. StageInv(b)'
    <2>1. starting[b].at # "none" BY <1>c DEF BoxInv, CallsInv
    <2>2. ASSUME NEW p \in Over(b), NEW x \in Takes(b, p)', Busy(b), Phases[p][1] >= 2
          PROVE  item'[b][x].stage >= Phases[p][1]
      <3>0. starting[b].phase \in 0 .. 40 BY BoxTypes
      <3>1. p \in 1 .. 40 /\ Phases[p][2] \in Components BY <3>0 DEF Over
      <3>2. x \in Takes(b, p) /\ x \in AllItems BY <1>15, <3>1, TakesOwn
      <3>. QED BY <1>8, <2>2, <3>2 DEF BoxInv, StageInv
    <2>. QED BY <1>6, <1>8, <1>11, <1>12, <1>14, <2>1, <2>2, SameConfig DEF BoxInv, StageInv
  <1>a. CallsInv(b)' BY <1>2, <1>6, <1>c, <1>12, SameConfig, CloseOrderIs DEF BoxInv, CallsInv
  <1>o. OpenInv(b)'
    <2>1. ASSUME ~overlap[b], NEW x \in AllItems, item'[b][x].open
          PROVE  \E k \in 1 .. Len(CloseOrder) : /\ k >= cv /\ CloseOrder[k] \in Components
                                                 /\ x \in ClosedBy(b, CloseOrder[k])'
      <3>1. item[b][x].open /\ x \notin ClosedBy(b, m) BY <1>8, <2>1
      <3>2. PICK k \in 1 .. 10 : /\ k >= closing[b] /\ CloseOrder[k] \in Components
                                 /\ x \in ClosedBy(b, CloseOrder[k])
        BY <2>1, <3>1, CloseOrderIs DEF BoxInv, OpenInv
      <3>3. CloseOrder[k] # m BY <3>1, <3>2
      <3>4. k # closing[b] BY <3>3 DEF m
      <3>5. k >= cv BY <1>1, <1>2, <3>2, <3>4
      <3>6. x \in ClosedBy(b, CloseOrder[k])'
        <4>1. PICK n \in Components : n = CloseOrder[k] BY <3>2
        <4>2. ClosedBy(b, n)' = ClosedBy(b, n) BY <1>10, <3>3, <4>1
        <4>. QED BY <3>2, <4>1, <4>2
      <3>. QED BY <3>2, <3>5, <3>6, CloseOrderIs
    <2>. QED BY <1>6, <1>c, <1>12, <2>1, SameConfig DEF OpenInv
  <1>v. ServedInv(b)'
    <2> SUFFICES ASSUME ~overlap[b], NEW x \in ItemsOf("inbound"), item'[b][x].open, item'[b][x].stage >= 2,
                        NEW n \in Components \ {"inbound", "endpoint", "service"}, NEW y \in ItemsOf(n)
                 PROVE  item'[b][y].open /\ item'[b][y].stage >= 2
      <3>1. closing'[b] # 0 BY <1>1, <1>2, <1>6
      <3>. QED BY <1>6, <3>1, SameConfig DEF ServedInv
    <2>0. config \in DOMAIN Configs BY DEF TypeOK
    <2>1. "inbound" \in Components /\ x \in AllItems /\ x \in Own("inbound")
      BY <2>0, ListsAre DEF ItemsOf, AllItems
    <2>2. y \in AllItems /\ y \in Own(n) BY <2>0, ListsAre DEF AllItems
    <2>3. item[b][x].open /\ item[b][x].stage >= 2 /\ x \notin ClosedBy(b, m) BY <1>8, <2>1
    <2>4. item[b][y].open /\ item[b][y].stage >= 2 BY <2>3 DEF BoxInv, ServedInv
    <2>5. PICK k \in 1 .. 10 : /\ k >= closing[b] /\ CloseOrder[k] \in Components
                               /\ x \in ClosedBy(b, CloseOrder[k])
      BY <2>1, <2>3, CloseOrderIs DEF BoxInv, OpenInv
    <2>6. CloseOrder[k] = "inbound" BY <2>0, <2>1, <2>5, ClosedByOwn, OwnerIs
    <2>7. closing[b] \in 1 .. 3 BY <1>1, <2>5, <2>6, CloseOrderIs
    <2>8. m \in {"service", "endpoint", "inbound"} BY <2>7, CloseOrderIs DEF m
    <2>9. y \notin ClosedBy(b, m) BY <1>1, <2>0, <2>2, <2>8, ClosedByOwn, OwnerIs
    <2>. QED BY <1>8, <2>2, <2>4, <2>9
  <1>d. DepsInv(b)' BY <1>8, SameConfig DEF BoxInv, DepsInv
  <1>r. VerdictInv(b)'
    <2>1. \A n \in Components : \A x \in ItemsOf(n) : x \in AllItems BY DEF AllItems
    <2>. QED BY <1>6, <1>8, <1>11, <1>12, <1>14, <2>1, SameConfig DEF BoxInv, VerdictInv
  <1>z. closing[b] \in 1 .. 10 /\ closing'[b] \in 1 .. 11 BY <1>1, <1>2, <1>6
  <1>. QED BY <1>6, <1>8, <1>z, <1>i, <1>l, <1>p, <1>s, <1>a, <1>o, <1>v, <1>d, <1>r DEF BoxInv

-----------------------------------------------------------------------------
(* Start fails.                                                            *)

\* Where Start is once it has failed, or succeeded.
LEMMA Ended ==
    \A at \in {"ok", "checked", "closing"} :
        /\ [NotStarted EXCEPT !.at = at] \in StartStates
        /\ [NotStarted EXCEPT !.at = at].at = at /\ [NotStarted EXCEPT !.at = at].phase = 0
  <1>1. NotStarted \in StartStates /\ NotStarted.phase = 0
    <2>1. <<>> \in Lists BY DEF Lists
    <2>. QED BY <2>1 DEF NotStarted, StartStates
  <1>. QED BY <1>1 DEF StartStates

\* Start stops and calls Close, which looks at done.
LEMMA FailKeeps ==
    ASSUME TypeOK, NEW b \in Boxes, BoxInv(b), Busy(b), Fail(b), config' = config,
           UNCHANGED <<item, overlap>>,
           NEW mv \in ManagerStates, manager' = [manager EXCEPT ![b] = mv],
           \A m \in Components : /\ mv[m].items = manager[b][m].items
                                 /\ manager[b][m].started => mv[m].started,
           NEW fv \in BOOLEAN, faulty' = [faulty EXCEPT ![b] = fv],
           ~overlap[b] => fv \/ ~Resolvable
    PROVE  /\ TypeOK' /\ BoxInv(b)' /\ \A c \in Boxes \ {b} : Untouched(c)
           /\ item'[b] = item[b] /\ overlap'[b] = overlap[b]
           /\ starting'[b].at \in {"checked", "closing"} /\ closing'[b] = closing[b]
  <1> DEFINE at == IF closing[b] = 0 THEN "checked" ELSE "closing"
             sv == [NotStarted EXCEPT !.at = at]
  <1>0. /\ item[b] \in ItemStates /\ closing[b] \in 0 .. 11 /\ overlap[b] \in BOOLEAN
        /\ item = [item EXCEPT ![b] = item[b]] /\ overlap = [overlap EXCEPT ![b] = overlap[b]]
        /\ closing = [closing EXCEPT ![b] = closing[b]]
    BY BoxTypes
  <1>1. sv \in StartStates /\ sv.at = at /\ sv.phase = 0 BY Ended
  <1>4. /\ starting' = [starting EXCEPT ![b] = sv] /\ closing' = [closing EXCEPT ![b] = closing[b]]
        /\ item' = [item EXCEPT ![b] = item[b]] /\ overlap' = [overlap EXCEPT ![b] = overlap[b]]
    BY <1>0 DEF Fail, FoundOpen
  <1>5. closing[b] \in 0 .. Finished BY <1>0, CloseOrderIs
  <1> HIDE DEF sv
  <1>6. /\ TypeOK' /\ manager'[b] = mv /\ item'[b] = item[b] /\ starting'[b] = sv
        /\ closing'[b] = closing[b] /\ overlap'[b] = overlap[b] /\ faulty'[b] = fv
        /\ \A c \in Boxes \ {b} : Untouched(c)
    <2>1. mv \in ManagerStates /\ manager' = [manager EXCEPT ![b] = mv] OBVIOUS
    <2>2. fv \in BOOLEAN /\ faulty' = [faulty EXCEPT ![b] = fv] OBVIOUS
    <2>3. sv \in StartStates /\ item[b] \in ItemStates /\ overlap[b] \in BOOLEAN BY <1>0, <1>1
    <2>. QED BY ONLY TypeOK, b \in Boxes, config' = config, <2>3, <1>4, <1>5, <2>1, <2>2, StepOfOne, ZenonT(60)
  <1>7. /\ starting'[b].at \in {"checked", "closing"} /\ ~Busy(b)'
        /\ starting'[b].at = "checked" <=> closing[b] = 0
    BY <1>1, <1>6 DEF Busy
  <1>8. ItemsInv(b)' BY <1>6, <1>7, SameConfig DEF BoxInv, ItemsInv
  <1>9. LoopInv(b)' /\ PassInv(b)' BY <1>7 DEF LoopInv, PassInv
  <1>10. StageInv(b)' BY <1>7 DEF StageInv
  <1>11. CallsInv(b)' BY <1>6, <1>7, SameConfig, CloseOrderIs DEF BoxInv, CallsInv
  <1>12. OpenInv(b)'
    <2>1. \A n \in Components : ClosedBy(b, n) \subseteq ClosedBy(b, n)' BY <1>6 DEF ClosedBy
    <2>2. ASSUME ~overlap[b], NEW x \in AllItems, item[b][x].open
          PROVE  \E k \in 1 .. Len(CloseOrder) : /\ k >= closing[b] /\ CloseOrder[k] \in Components
                                                 /\ x \in ClosedBy(b, CloseOrder[k])'
      <3>1. PICK k \in 1 .. 10 : /\ k >= closing[b] /\ CloseOrder[k] \in Components
                                 /\ x \in ClosedBy(b, CloseOrder[k])
        BY <2>2, CloseOrderIs DEF BoxInv, OpenInv
      <3>2. x \in ClosedBy(b, CloseOrder[k])'
        <4>1. PICK n \in Components : n = CloseOrder[k] BY <3>1
        <4>. QED BY <2>1, <3>1, <4>1
      <3>. QED BY <3>1, <3>2, CloseOrderIs
    <2>. QED BY <1>6, <1>7, <2>2, SameConfig DEF BoxInv, OpenInv
  <1>13. ServedInv(b)' BY <1>6, SameConfig DEF BoxInv, ServedInv
  <1>14. DepsInv(b)' BY <1>6, SameConfig DEF BoxInv, DepsInv
  <1>15. VerdictInv(b)' BY <1>6, <1>7, SameConfig DEF VerdictInv
  <1>. QED BY <1>6, <1>7, <1>8, <1>9, <1>10, <1>11, <1>12, <1>13, <1>14, <1>15 DEF BoxInv

-----------------------------------------------------------------------------
(* An item is started.                                                     *)

\* One more can be started after those it depends on.
LEMMA OrderedMore ==
    ASSUME NEW S, Ordered(S), \A y \in S : Deps(y) \subseteq S, NEW x, x \notin S, Deps(x) \subseteq S
    PROVE  Ordered(S \cup {x})
  <1> SUFFICES ASSUME NEW Y \in SUBSET (S \cup {x}), Y # {} PROVE \E y \in Y : Deps(y) \cap Y = {}
    BY DEF Ordered
  <1>1. CASE Y \cap S = {}
    <2>1. x \in Y /\ Deps(x) \cap Y = {} BY <1>1
    <2>. QED BY <2>1
  <1>2. CASE Y \cap S # {}
    <2>1. PICK y \in Y \cap S : Deps(y) \cap (Y \cap S) = {} BY <1>2 DEF Ordered
    <2>2. Deps(y) \cap Y = {} BY <2>1
    <2>. QED BY <2>1, <2>2
  <1>. QED BY <1>1, <1>2

\* While nobody closes the Box, what is started will be closed.
LEMMA TakenIsClosed ==
    ASSUME TypeOK, NEW b \in Boxes, BoxInv(b), Busy(b), closing[b] = 0, NEW p \in 1 .. starting[b].phase,
           Phases[p][2] \in Components, NEW x \in Takes(b, p)
    PROVE  \E k \in 1 .. 10 : CloseOrder[k] \in Components /\ x \in ClosedBy(b, CloseOrder[k])
  <1>0. config \in DOMAIN Configs BY DEF TypeOK
  <1>1. starting[b].phase \in 0 .. 40 BY BoxTypes
  <1>2. p \in 1 .. 40 BY <1>1
  <1>3. ASSUME NEW m \in Components, NEW q \in 1 .. starting[b].phase, Phases[q][2] = m,
               x \in Range(manager[b][m].items)
        PROVE  \E k \in 1 .. 10 : CloseOrder[k] \in Components /\ x \in ClosedBy(b, CloseOrder[k])
    <2>1. manager[b][m].started BY <1>3 DEF BoxInv, OpenInv
    <2>2. x \in ClosedBy(b, m)
      <3>1. CASE m \in Managers BY <1>3, <2>1, <3>1 DEF ClosedBy
      <3>2. CASE m \notin Managers
        <4>1. manager[b][m].items = <<m>> BY <1>0, <3>2, ListsAre DEF BoxInv, ItemsInv
        <4>. QED BY <1>3, <3>2, <4>1, RangeOne DEF ClosedBy
      <3>. QED BY <3>1, <3>2
    <2>3. PICK k \in 1 .. 10 : CloseOrder[k] = m BY <1>0, ConfigIs, CloseOrderIs
    <2>. QED BY <2>2, <2>3
  <1>4. \/ x \in Range(manager[b][Phases[p][2]].items)
        \/ /\ Phases[p] = <<2, "outbound">> /\ "endpoint" \in Components
           /\ x \in Range(manager[b]["endpoint"].items)
    BY <1>2, TakesOwn
  <1>5. CASE x \in Range(manager[b][Phases[p][2]].items) BY <1>3, <1>5
  <1>6. CASE /\ Phases[p] = <<2, "outbound">> /\ "endpoint" \in Components
             /\ x \in Range(manager[b]["endpoint"].items)
    <2>0. 1 \in 1 .. 4 /\ "endpoint" \in Names BY DEF Names
    <2>1. PICK q \in 1 .. 40 : Phases[q][1] = 1 /\ Phases[q][2] = "endpoint"
      <3>1. /\ PhaseFor(1, "endpoint") \in 1 .. 40 /\ Phases[PhaseFor(1, "endpoint")][1] = 1
            /\ Phases[PhaseFor(1, "endpoint")][2] = "endpoint"
        BY <2>0, PhaseOf
      <3>. QED BY <3>1
    <2>2. Phases[p][1] = 2 BY <1>6
    <2>3. q < p
      <3>1. Phases[q][1] < Phases[p][1] BY <2>1, <2>2
      <3>. QED BY <1>2, <2>1, <3>1, PhaseIs
    <2>4. q \in 1 .. starting[b].phase BY <1>1, <2>3
    <2>. QED BY <1>3, <1>6, <2>1, <2>4
  <1>. QED BY <1>4, <1>5, <1>6

\* What the inbounds need has been started when they are: the endpoints by the
\* phase that starts the outbounds.
LEMMA InboundsLast ==
    ASSUME TypeOK, NEW b \in Boxes, BoxInv(b), starting[b].at = "loop", closing[b] = 0,
           Component(b) = "inbound", Stage(b) >= 2,
           NEW m \in Components \ {"inbound", "service"}, NEW y \in ItemsOf(m)
    PROVE  y \in AllItems /\ item[b][y].open /\ item[b][y].stage >= 2
  <1>0. config \in DOMAIN Configs BY DEF TypeOK
  <1>1. starting[b].phase \in 1 .. 40 BY DEF BoxInv, LoopInv
  <1>a. 2 \in 1 .. 4 /\ "inbound" \in Names BY DEF Names
  <1>d. PICK n \in Components \ {"inbound", "endpoint", "service"} : n = IF m = "endpoint" THEN "outbound" ELSE m
    BY <1>0, ConfigIs
  <1>2. n \in Names BY <1>0, ConfigIs
  <1>b. PICK q : q = PhaseFor(2, n) OBVIOUS
  <1>c. PICK i : i = PhaseFor(2, "inbound") OBVIOUS
  <1>3. q \in 1 .. 40 /\ Phases[q][1] = 2 /\ Phases[q][2] = n BY <1>2, <1>a, <1>b, PhaseOf
  <1>4. Phases[q] = <<2, n>> BY <1>2, <1>a, <1>b, PhaseOf
  <1>5. i \in 1 .. 40 /\ Phases[i][1] = 2 /\ Phases[i][2] = "inbound" BY <1>a, <1>c, PhaseOf
  <1>6. q < i BY <1>3, <1>5, InboundPhase
  <1>7. i <= starting[b].phase
    <2>1. PICK p \in 1 .. 40 : p = starting[b].phase BY <1>1
    <2>2. Phases[p][2] = "inbound" /\ Phases[p][1] >= 2 /\ Phases[p][1] \in 1 .. 4
      BY <2>1, PhaseIs DEF Stage, Component
    <2>3. CASE Phases[p][1] = 2
      <3>1. p = i BY <1>c, <2>2, <2>3, PhaseIsFor
      <3>. QED BY <1>5, <2>1, <3>1
    <2>4. CASE Phases[p][1] > 2
      <3>1. i < p BY <1>5, <2>4, PhaseIs
      <3>. QED BY <1>5, <2>1, <3>1
    <2>. QED BY <2>2, <2>3, <2>4
  <1>8. q \in Over(b) /\ q \in 1 .. starting[b].phase
    <2>1. q < starting[b].phase BY <1>1, <1>3, <1>5, <1>6, <1>7
    <2>. QED BY <1>1, <1>3, <2>1 DEF Over
  <1>9. manager[b][m].items \in {Items(m), FullItems(m)} /\ (m # "endpoint" => manager[b][m].items = FullItems(m))
    <2>1. m # "endpoint" => Begun(b, 2, m) BY <1>4, <1>8, <1>d DEF Begun
    <2>. QED BY <2>1 DEF BoxInv, ItemsInv
  <1>10. y \in AllItems /\ y \in Range(manager[b][m].items)
    <2>1. y \in Range(Items(m)) /\ y \in Range(FullItems(m)) BY <1>0, ListsAre
    <2>. QED BY <1>9, <2>1 DEF AllItems
  <1>11. y \in Takes(b, q)
    <2>1. CASE m = "endpoint"
      <3>1. Phases[q] = <<2, "outbound">> BY <1>4, <1>d, <2>1
      <3>2. y \in Range(Endpoints(b)) BY <1>10, <2>1 DEF Endpoints
      <3>. QED BY <3>1, <3>2 DEF Takes
    <2>2. CASE m # "endpoint"
      <3>1. Phases[q][2] = m BY <1>3, <1>d, <2>2
      <3>2. Phases[q] # <<2, "endpoint">>
        <4>1. Phases[q] = <<2, "endpoint">> => Phases[q][2] = "endpoint" OBVIOUS
        <4>. QED BY <2>2, <3>1, <4>1
      <3>3. Phases[q] = <<2, "outbound">> => Phases[q][2] = "outbound" OBVIOUS
      <3>. QED BY <1>10, <3>1, <3>2, <3>3 DEF Takes
    <2>. QED BY <2>1, <2>2
  <1>12. item[b][y].stage >= 2 BY <1>3, <1>8, <1>11 DEF BoxInv, StageInv, Busy
  <1>13. item[b][y].open BY <1>10, <1>12, BoxTypes DEF BoxInv, OpenInv
  <1>. QED BY <1>10, <1>12, <1>13

\* An item of the loop is started, in passes after those it depends on.
LEMMA ItemStarts ==
    ASSUME TypeOK, NEW b \in Boxes, BoxInv(b), config' = config, starting[b].at = "loop",
           NEW x \in Range(starting[b].list), NEW rest \in Lists, NEW started \in SUBSET AllItems,
           starting' = [starting EXCEPT ![b].todo = rest, ![b].started = started, ![b].canContinue = TRUE],
           item' = [item EXCEPT ![b][x] = [stage |-> Stage(b), open |-> TRUE]],
           UNCHANGED <<manager, closing, overlap, faulty>>,
           Range(rest) \subseteq Range(starting[b].list),
           ~InPasses(b) => Range(starting[b].todo) \subseteq {x} \cup Range(rest),
           InPasses(b) => /\ started = starting[b].started \cup {x} /\ x \notin starting[b].started
                          /\ Deps(x) \subseteq starting[b].started
    PROVE  /\ TypeOK' /\ BoxInv(b)' /\ \A c \in Boxes \ {b} : Untouched(c)
           /\ overlap'[b] = overlap[b] /\ closing'[b] = closing[b]
           /\ starting'[b].at = "loop"
  <1> DEFINE sv == [starting[b] EXCEPT !.todo = rest, !.started = started, !.canContinue = TRUE]
             iv == [item[b] EXCEPT ![x] = [stage |-> Stage(b), open |-> TRUE]]
  <1>0. /\ manager[b] \in ManagerStates /\ item[b] \in ItemStates /\ starting[b] \in StartStates
        /\ closing[b] \in 0 .. Finished /\ overlap[b] \in BOOLEAN /\ faulty[b] \in BOOLEAN
        /\ manager = [manager EXCEPT ![b] = manager[b]] /\ closing = [closing EXCEPT ![b] = closing[b]]
        /\ overlap = [overlap EXCEPT ![b] = overlap[b]] /\ faulty = [faulty EXCEPT ![b] = faulty[b]]
    BY BoxTypes, CloseOrderIs
  <1>l. starting[b].list \in Lists BY BoxTypes
  <1>1. x \in AllItems BY <1>l, RangeIs DEF Lists
  <1>2. /\ starting[b].phase \in 1 .. 40 /\ Component(b) \in Components
        /\ Stage(b) \in 1 .. 4
    BY PhaseIs DEF BoxInv, LoopInv, Stage
  <1>3. sv \in StartStates BY <1>0 DEF StartStates
  <1>4. iv \in ItemStates
    <2>1. Stage(b) \in 0 .. 4 BY <1>2
    <2>. QED BY <1>0, <2>1 DEF ItemStates
  <1>5. starting' = [starting EXCEPT ![b] = sv] BY DEF TypeOK
  <1>6. item' = [item EXCEPT ![b] = iv] BY DEF TypeOK
  <1>7. /\ sv.at = "loop" /\ sv.phase = starting[b].phase /\ sv.list = starting[b].list
        /\ sv.todo = rest /\ sv.started = started /\ sv.canContinue = TRUE
    BY <1>0 DEF StartStates
  <1>8. /\ iv[x].stage = Stage(b) /\ iv[x].open
        /\ \A y \in AllItems : y # x => iv[y] = item[b][y]
    BY <1>0, <1>1 DEF ItemStates
  <1> HIDE DEF sv, iv
  <1>9. /\ TypeOK' /\ manager'[b] = manager[b] /\ item'[b] = iv /\ starting'[b] = sv
        /\ closing'[b] = closing[b] /\ overlap'[b] = overlap[b] /\ faulty'[b] = faulty[b]
        /\ \A c \in Boxes \ {b} : Untouched(c)
    BY ONLY TypeOK, b \in Boxes, config' = config, UNCHANGED <<manager, closing, overlap, faulty>>,
                     <1>3, <1>4, <1>5, <1>6, StartOfOne
  <1>10. \A y \in AllItems : item'[b][y].stage \in 0 .. 4 /\ item[b][y].stage \in 0 .. 4
    <2>1. AllItems' = AllItems BY SameConfig
    <2>. QED BY <1>0, <1>4, <1>9 DEF ItemStates
  <1>11. Busy(b) BY DEF Busy
  <1>12. \A y \in AllItems : item'[b][y].stage >= item[b][y].stage
    <2>1. item[b][x].stage = 0 \/ item[b][x].stage <= Stage(b) BY <1>1, <1>11 DEF BoxInv, StageInv
    <2>2. item'[b][x].stage >= item[b][x].stage BY <1>1, <1>2, <1>8, <1>9, <1>10, <2>1
    <2>. QED BY <1>8, <1>9, <1>10, <2>2
  <1>13. \A y \in AllItems : y # x => item'[b][y] = item[b][y] BY <1>8, <1>9
  <1>14. item'[b][x].stage = Stage(b) /\ item'[b][x].open BY <1>8, <1>9
  <1>15. /\ starting'[b].at = "loop" /\ starting'[b].phase = starting[b].phase
         /\ starting'[b].list = starting[b].list /\ starting'[b].todo = rest
         /\ starting'[b].started = started /\ starting'[b].canContinue = TRUE
    BY <1>7, <1>9
  <1>16. /\ Stage(b)' = Stage(b) /\ Component(b)' = Component(b) BY <1>15 DEF Stage, Component
  <1>17. InPasses(b)' = InPasses(b) /\ Busy(b)' BY <1>15, <1>16 DEF InPasses, Busy
  <1>18. \A s, n : Begun(b, s, n)' = Begun(b, s, n) BY <1>15 DEF Begun
  <1>19. Over(b)' = Over(b) BY <1>15, SameConfig DEF Over
  <1>20. Endpoints(b)' = Endpoints(b) BY <1>9, SameConfig DEF Endpoints
  <1>21. \A p : Takes(b, p)' = Takes(b, p) BY <1>9, <1>20 DEF Takes
  <1>22. \A n : ClosedBy(b, n)' = ClosedBy(b, n) BY <1>9 DEF ClosedBy
  <1>23. Range(starting[b].list) \subseteq AllItems BY <1>l, RangeIs DEF Lists
  <1>i. ItemsInv(b)' BY <1>9, <1>15, <1>18, SameConfig DEF BoxInv, ItemsInv
  <1>p. LoopInv(b)'
    <2>1. /\ \A i, j \in 1 .. Len(starting[b].list) : starting[b].list[i] = starting[b].list[j] => i = j
          /\ Takes(b, starting[b].phase) \subseteq Range(starting[b].list)
          /\ closing[b] = 0 => Range(starting[b].list) \subseteq Takes(b, starting[b].phase)
      BY DEF BoxInv, LoopInv
    <2>2. ASSUME ~InPasses(b), NEW y \in Range(starting[b].list)
          PROVE  y \in Range(rest) \/ item'[b][y].stage >= Stage(b)
      <3>1. y \in Range(starting[b].todo) \/ item[b][y].stage >= Stage(b)
        BY <2>2 DEF BoxInv, LoopInv, InPasses
      <3>2. CASE y = x BY <1>2, <1>14, <3>2
      <3>3. CASE y # x /\ y \in Range(starting[b].todo) BY <2>2, <3>3
      <3>4. CASE y # x /\ item[b][y].stage >= Stage(b) BY <1>13, <1>23, <3>4
      <3>. QED BY <3>1, <3>2, <3>3, <3>4
    <2>3. Stage(b) = 2 /\ ~InPasses(b) => \A y \in Range(starting[b].list) : Deps(y) = {}
      BY DEF BoxInv, LoopInv
    <2>4. ASSUME Stage(b) > 2, NEW y \in Range(starting[b].list) PROVE item'[b][y].stage >= 2
      <3>1. item[b][y].stage >= 2 /\ y \in AllItems BY <1>23, <2>4 DEF BoxInv, LoopInv
      <3>. QED BY <1>10, <1>12, <3>1
    <2>5. Stage(b) # 2 \/ Component(b) \notin {"outbound", "dnsTransport"} => ~InPasses(b) BY DEF InPasses
    <2>6. Takes(b, starting[b].phase)' = Takes(b, starting[b].phase) BY <1>15, <1>21
    <2>7. Range(starting'[b].todo) \subseteq Range(starting'[b].list) BY <1>15
    <2>b. starting'[b].phase \in 1 .. 40 /\ Component(b)' \in Components' BY <1>2, <1>15, <1>16, SameConfig
    <2>c. starting'[b].list = starting[b].list BY <1>15
    <2>d. \A i, j \in 1 .. Len(starting'[b].list) : starting'[b].list[i] = starting'[b].list[j] => i = j
      BY <2>1, <2>c, Zenon
    <2>e. Takes(b, starting[b].phase)' \subseteq Range(starting'[b].list) BY <2>1, <2>6, <2>c
    <2>8. closing'[b] = 0 => Range(starting'[b].list) \subseteq Takes(b, starting[b].phase)'
      BY <1>9, <2>1, <2>6, <2>c
    <2>9. /\ Stage(b)' # 2 \/ Component(b)' \notin {"outbound", "dnsTransport"} =>
                \A y \in Range(starting'[b].list) : y \in Range(starting'[b].todo) \/ item'[b][y].stage >= Stage(b)'
          /\ Stage(b)' > 2 => \A y \in Range(starting'[b].list) : item'[b][y].stage >= 2
      BY <1>15, <1>16, <2>2, <2>4, <2>5
    <2>a. Stage(b)' = 2 /\ ~InPasses(b)' => \A y \in Range(starting'[b].list) : Deps(y)' = {}
      BY <1>15, <1>16, <1>17, <2>3, SameConfig
    <2>. QED BY <2>7, <2>8, <2>9, <2>a, <2>b, <2>d, <2>e DEF LoopInv
  <1>q. PassInv(b)'
    <2> SUFFICES ASSUME InPasses(b) PROVE PassInv(b)' BY <1>15, <1>17 DEF PassInv
    <2>1. /\ starting[b].started \subseteq Range(starting[b].list) /\ Ordered(starting[b].started)
          /\ \A y \in starting[b].started : item[b][y].stage >= 2 /\ Deps(y) \subseteq starting[b].started
      BY DEF BoxInv, PassInv
    <2>2. /\ started = starting[b].started \cup {x} /\ x \notin starting[b].started
          /\ Deps(x) \subseteq starting[b].started /\ Stage(b) = 2
      BY DEF InPasses
    <2>3. Ordered(started) BY <2>1, <2>2, OrderedMore
    <2>4. \A y \in started : item'[b][y].stage >= 2
      <3>1. item'[b][x].stage >= 2 BY <1>14, <2>2
      <3>2. \A y \in starting[b].started : item'[b][y].stage >= 2 BY <1>10, <1>12, <1>23, <2>1
      <3>. QED BY <2>2, <3>1, <3>2
    <2>5. \A y \in started : Deps(y) \subseteq started BY <2>1, <2>2
    <2>6. started \subseteq Range(starting[b].list) BY <2>1, <2>2
    <2>7. starting'[b].canContinue BY <1>15
    <2>8. starting'[b].started = started /\ starting'[b].list = starting[b].list BY <1>15
    <2>9. starting'[b].started \subseteq Range(starting'[b].list) BY <2>6, <2>8
    <2>a. \A y \in starting'[b].started : item'[b][y].stage >= 2 BY <2>4, <2>8
    <2>b. ASSUME NEW y \in starting'[b].started PROVE Deps(y)' \subseteq starting'[b].started
      BY <2>5, <2>8, SameConfig
    <2>c. Ordered(started)' BY <2>3, SameConfig
    <2>d. Ordered(starting[b].started)' BY <2>8, <2>c
    <2>. QED BY <2>9, <2>a, <2>b, <2>d, <2>7 DEF PassInv
  <1>s. StageInv(b)'
    <2>0. starting[b].phase \in 0 .. 40 BY BoxTypes
    <2>1. ASSUME NEW p \in Over(b), NEW y \in Takes(b, p), Phases[p][1] >= 2
          PROVE  item'[b][y].stage >= Phases[p][1]
      <3>1. p \in 1 .. 40 /\ Phases[p][2] \in Components BY <2>0 DEF Over
      <3>2. y \in AllItems /\ Phases[p][1] \in 1 .. 4 BY <3>1, TakesOwn, PhaseIs
      <3>3. item[b][y].stage >= Phases[p][1] BY <1>11, <2>1 DEF BoxInv, StageInv
      <3>. QED BY <1>10, <1>12, <3>2, <3>3
    <2>2. ASSUME NEW y \in AllItems
          PROVE  item'[b][y].stage = 0 \/ (starting[b].phase # 0 /\ item'[b][y].stage <= Stage(b))
      <3>1. CASE y = x BY <1>2, <1>14, <3>1
      <3>2. CASE y # x BY <1>11, <1>13, <3>2 DEF BoxInv, StageInv
      <3>. QED BY <3>1, <3>2
    <2>. QED BY <1>15, <1>16, <1>19, <1>21, <2>1, <2>2, SameConfig DEF StageInv
  <1>a. CallsInv(b)' BY <1>9, <1>11, <1>15, <1>17, SameConfig DEF BoxInv, CallsInv
  <1>c. ~overlap[b] => closing[b] = 0 BY <1>11 DEF BoxInv, CallsInv
  <1>t. closing[b] = 0 => x \in Takes(b, starting[b].phase) BY DEF BoxInv, LoopInv
  <1>o. OpenInv(b)'
    <2>1. ASSUME closing[b] = 0, NEW y \in AllItems, item'[b][y].stage >= 1 PROVE item'[b][y].open
      BY <1>13, <1>14, <2>1 DEF BoxInv, OpenInv
    <2>2. ASSUME closing[b] = 0, NEW p \in 1 .. starting[b].phase, Phases[p][2] \in Components
          PROVE  manager[b][Phases[p][2]].started
      BY <1>11, <2>2 DEF BoxInv, OpenInv
    <2>3. ASSUME ~overlap[b], NEW y \in AllItems, item'[b][y].open
          PROVE  \E k \in 1 .. Len(CloseOrder) : /\ k >= closing[b] /\ CloseOrder[k] \in Components
                                                 /\ y \in ClosedBy(b, CloseOrder[k])
      <3>1. CASE y = x
        <4>1. starting[b].phase \in 1 .. starting[b].phase /\ Phases[starting[b].phase][2] \in Components
          BY <1>2 DEF Component
        <4>2. PICK k \in 1 .. 10 : CloseOrder[k] \in Components /\ x \in ClosedBy(b, CloseOrder[k])
          BY <1>11, <1>c, <1>t, <2>3, <4>1, TakenIsClosed
        <4>. QED BY <1>c, <2>3, <3>1, <4>2, CloseOrderIs
      <3>2. CASE y # x BY <1>13, <2>3, <3>2 DEF BoxInv, OpenInv
      <3>. QED BY <3>1, <3>2
    <2>. QED BY <1>9, <1>15, <1>17, <1>22, <2>1, <2>2, <2>3, SameConfig DEF OpenInv
  <1>v. ServedInv(b)'
    <2> SUFFICES ASSUME ~overlap[b], NEW z \in ItemsOf("inbound"), item'[b][z].open, item'[b][z].stage >= 2,
                        NEW n \in Components \ {"inbound", "service"}, NEW y \in ItemsOf(n),
                        n = "endpoint" => closing[b] = 0
                 PROVE  item'[b][y].open /\ item'[b][y].stage >= 2
      BY <1>9, SameConfig DEF ServedInv
    <2>0. config \in DOMAIN Configs BY DEF TypeOK
    <2>1. "inbound" \in Components /\ z \in AllItems /\ z \in Own("inbound")
      BY <2>0, ListsAre DEF ItemsOf, AllItems
    <2>2. y \in AllItems BY DEF AllItems
    <2>3. item[b][y].open /\ item[b][y].stage >= 2
      <3>1. CASE z = x
        <4>1. x \in Takes(b, starting[b].phase) /\ closing[b] = 0 BY <1>c, <1>t
        <4>2. PICK p \in 1 .. 40 : p = starting[b].phase BY <1>2
        <4>3. Component(b) = Phases[p][2] BY <4>2 DEF Component
        <4>4. x \in Own(Component(b)) \/ ("endpoint" \in Components /\ x \in Own("endpoint"))
          BY <1>2, <4>1, <4>2, <4>3, TakesOwn
        <4>5. x \notin Own("endpoint") \/ "endpoint" \notin Components BY <2>0, <2>1, <3>1, OwnerIs
        <4>6. Component(b) = "inbound" BY <1>2, <2>0, <2>1, <3>1, <4>4, <4>5, OwnerIs
        <4>7. Stage(b) >= 2 BY <1>14, <3>1
        <4>. QED BY <4>1, <4>6, <4>7, InboundsLast
      <3>2. CASE z # x BY <1>13, <2>1, <3>2 DEF BoxInv, ServedInv
      <3>. QED BY <3>1, <3>2
    <2>4. item'[b][y].stage >= 2 BY <1>10, <1>12, <2>2, <2>3
    <2>5. item'[b][y].open BY <1>13, <1>14, <2>2, <2>3
    <2>. QED BY <2>4, <2>5
  <1>d. DepsInv(b)'
    <2> SUFFICES ASSUME NEW y \in AllItems, item'[b][y].stage >= 2, NEW z \in Deps(y)
                 PROVE  z \in AllItems /\ item'[b][z].stage >= 2
      BY SameConfig DEF DepsInv
    <2>1. z \in AllItems /\ item[b][z].stage >= 2
      <3>1. CASE y = x /\ InPasses(b) BY <3>1, BoxTypes DEF BoxInv, PassInv
      <3>2. CASE y = x /\ ~InPasses(b) /\ Stage(b) = 2 BY <3>2 DEF BoxInv, LoopInv
      <3>3. CASE y = x /\ Stage(b) # 2
        <4>1. Stage(b) > 2 BY <1>2, <1>14, <3>3
        <4>2. item[b][x].stage >= 2 BY <4>1 DEF BoxInv, LoopInv
        <4>. QED BY <1>1, <3>3, <4>2 DEF BoxInv, DepsInv
      <3>4. CASE y # x BY <1>13, <3>4 DEF BoxInv, DepsInv
      <3>. QED BY <3>1, <3>2, <3>3, <3>4
    <2>. QED BY <1>10, <1>12, <2>1
  <1>r. VerdictInv(b)' BY <1>9, <1>11, <1>15, <1>16, <1>17, <1>19, SameConfig DEF BoxInv, VerdictInv
  <1>. QED BY <1>9, <1>15, <1>i, <1>p, <1>q, <1>s, <1>a, <1>o, <1>v, <1>d, <1>r DEF BoxInv

\* What a step of Start does to a Box.
StartMoves(b) ==
    /\ TypeOK' /\ BoxInv(b)' /\ \A c \in Boxes \ {b} : Untouched(c)
    /\ overlap'[b] = overlap[b]
    /\ starting[b].at \in {"next", "loop", "checked", "closing"}
    /\ starting'[b].at \in {"next", "loop", "ok", "checked", "closing", "failed"}
    /\ starting[b].at = "closing" => starting'[b].at = "failed" /\ item'[b] = item[b]
    /\ starting[b].at = "checked" => item'[b] = item[b]
    /\ starting'[b].at # "closing" \/ closing[b] # 0 => closing'[b] = closing[b]

\* An item is started, or fails.
LEMMA StartItemKeeps ==
    ASSUME TypeOK, NEW b \in Boxes, BoxInv(b), config' = config, starting[b].at = "loop",
           NEW x \in Range(starting[b].list), NEW rest \in Lists, NEW started \in SUBSET AllItems,
           StartItem(b, x, rest, started), Range(rest) \subseteq Range(starting[b].list),
           ~InPasses(b) => Range(starting[b].todo) \subseteq {x} \cup Range(rest),
           InPasses(b) => /\ started = starting[b].started \cup {x} /\ x \notin starting[b].started
                          /\ Deps(x) \subseteq starting[b].started
    PROVE  StartMoves(b)
  <1>1. CASE /\ starting' = [starting EXCEPT ![b].todo = rest, ![b].started = started,
                                             ![b].canContinue = TRUE]
             /\ item' = [item EXCEPT ![b][x] = [stage |-> Stage(b), open |-> TRUE]]
             /\ UNCHANGED <<manager, closing, overlap, faulty>>
    <2>1. /\ TypeOK' /\ BoxInv(b)' /\ \A c \in Boxes \ {b} : Untouched(c)
          /\ overlap'[b] = overlap[b] /\ closing'[b] = closing[b]
          /\ starting'[b].at = "loop"
      BY <1>1, ItemStarts
    <2>. QED BY <2>1 DEF StartMoves
  <1>2. CASE /\ Fail(b)
             /\ faulty' = [faulty EXCEPT ![b] = TRUE]
             /\ UNCHANGED <<manager, item, overlap>>
    <2>1. Busy(b) BY DEF Busy
    <2>2. manager[b] \in ManagerStates /\ manager' = [manager EXCEPT ![b] = manager[b]] BY <1>2, BoxTypes
    <2>3. /\ TypeOK' /\ BoxInv(b)' /\ \A c \in Boxes \ {b} : Untouched(c)
          /\ item'[b] = item[b] /\ overlap'[b] = overlap[b] /\ starting'[b].at \in {"checked", "closing"}
          /\ closing'[b] = closing[b]
      BY <1>2, <2>1, <2>2, FailKeeps
    <2>. QED BY <2>3 DEF StartMoves
  <1>. QED BY <1>1, <1>2 DEF StartItem

\* A loop starts its next item.
LEMMA StartNextKeeps ==
    ASSUME TypeOK, NEW b \in Boxes, BoxInv(b), config' = config, StartNext(b)
    PROVE  StartMoves(b)
  <1>1. starting[b].at = "loop" /\ ~InPasses(b) /\ starting[b].todo # <<>> BY DEF StartNext
  <1>2. starting[b].todo \in Seq(AllItems) BY BoxTypes DEF Lists
  <1>3. PICK x, rest : x = Head(starting[b].todo) /\ rest = Tail(starting[b].todo) OBVIOUS
  <1>4. /\ x \in Range(starting[b].todo) /\ rest \in Lists
        /\ Range(starting[b].todo) = {x} \cup Range(rest)
    BY <1>1, <1>2, <1>3, RestOfAll DEF Lists
  <1>5. Range(starting[b].todo) \subseteq Range(starting[b].list) BY <1>1 DEF BoxInv, LoopInv
  <1>6. StartItem(b, x, rest, {}) BY <1>3 DEF StartNext
  <1>7. {} \in SUBSET AllItems OBVIOUS
  <1>8. x \in Range(starting[b].list) /\ Range(rest) \subseteq Range(starting[b].list) BY <1>4, <1>5
  <1>. QED BY <1>1, <1>4, <1>6, <1>7, <1>8, StartItemKeeps

\* A pass starts the next item that can be started.
LEMMA PassStartsKeeps ==
    ASSUME TypeOK, NEW b \in Boxes, BoxInv(b), config' = config, PassStarts(b)
    PROVE  StartMoves(b)
  <1>1. starting[b].at = "loop" /\ InPasses(b) BY DEF PassStarts
  <1>2. starting[b].todo \in Seq(AllItems) /\ starting[b].started \subseteq AllItems BY BoxTypes DEF Lists
  <1>3. PICK i \in 1 .. Len(starting[b].todo) :
            /\ CanStart(b, starting[b].todo[i])
            /\ StartItem(b, starting[b].todo[i], SubSeq(starting[b].todo, i + 1, Len(starting[b].todo)),
                         starting[b].started \cup {starting[b].todo[i]})
    BY DEF PassStarts
  <1>4. PICK x, rest : x = starting[b].todo[i] /\ rest = SubSeq(starting[b].todo, i + 1, Len(starting[b].todo))
    OBVIOUS
  <1>5. /\ x \in Range(starting[b].todo) /\ x \in AllItems /\ rest \in Lists
        /\ Range(rest) \subseteq Range(starting[b].todo)
    <2>1. x \in Range(starting[b].todo) /\ x \in AllItems BY <1>2, <1>4, RangeIs
    <2>2. rest \in Lists /\ Range(rest) \subseteq Range(starting[b].todo) BY <1>2, <1>4, RestOf DEF Lists
    <2>. QED BY <2>1, <2>2
  <1>6. Range(starting[b].todo) \subseteq Range(starting[b].list) BY <1>1 DEF BoxInv, LoopInv
  <1>7. x \notin starting[b].started /\ Deps(x) \subseteq starting[b].started BY <1>3, <1>4 DEF CanStart
  <1>8. PICK started : started = starting[b].started \cup {x} OBVIOUS
  <1>9. started \in SUBSET AllItems /\ StartItem(b, x, rest, started) BY <1>2, <1>3, <1>4, <1>5, <1>8
  <1>10. x \in Range(starting[b].list) /\ Range(rest) \subseteq Range(starting[b].list) BY <1>5, <1>6
  <1>. QED BY <1>1, <1>5, <1>7, <1>8, <1>9, <1>10, StartItemKeeps

-----------------------------------------------------------------------------
(* The end of a pass.                                                      *)

\* What is started in passes, while nobody closes the Box.
LEMMA OfferedIs ==
    ASSUME TypeOK, NEW b \in Boxes, BoxInv(b), starting[b].at = "loop", InPasses(b), closing[b] = 0
    PROVE  /\ Component(b) \in DOMAIN Fallback \cap Components
           /\ Range(starting[b].list) = Offered(Component(b))
  <1>0. config \in DOMAIN Configs BY DEF TypeOK
  <1>1. PICK p \in 1 .. 40 : p = starting[b].phase BY DEF BoxInv, LoopInv
  <1>2. PICK m \in Components : m = Component(b) BY DEF BoxInv, LoopInv
  <1>3. Phases[p][1] = 2 /\ Phases[p][2] = m /\ m \in {"outbound", "dnsTransport"}
    BY <1>1, <1>2 DEF InPasses, Stage, Component
  <1>4. Phases[p] = <<2, m>>
    <2>1. Phases[p] = <<Phases[p][1], Phases[p][2]>> BY PhaseIs
    <2>. QED BY <1>3, <2>1
  <1>5. manager[b][m].items = FullItems(m)
    <2>1. Begun(b, 2, m) BY <1>1, <1>4 DEF Begun
    <2>. QED BY <2>1 DEF BoxInv, ItemsInv
  <1>6. Range(FullItems(m)) = ItemsOf(m) \cup (IF NeedsFallback(m) THEN {Fallback[m]} ELSE {})
    BY <1>0, ListsAre
  <1>7. Range(Endpoints(b)) = ItemsOf("endpoint")
    <2>1. CASE "endpoint" \in Components
      <3>1. "endpoint" \notin DOMAIN Fallback BY BoxAssumption
      <3>2. FullItems("endpoint") = Items("endpoint") BY <3>1 DEF FullItems, NeedsFallback
      <3>3. manager[b]["endpoint"].items = Items("endpoint") BY <2>1, <3>2 DEF BoxInv, ItemsInv
      <3>. QED BY <2>1, <3>3 DEF Endpoints, ItemsOf
    <2>2. CASE "endpoint" \notin Components BY <2>2, RangeEmpty DEF Endpoints, ItemsOf
    <2>. QED BY <2>1, <2>2
  <1>8. Range(starting[b].list) = Takes(b, p) BY <1>1 DEF BoxInv, LoopInv
  <1>9. Takes(b, p) = Offered(m)
    <2>1. CASE m = "outbound"
      <3>1. Takes(b, p) = Range(manager[b]["outbound"].items) \cup Range(Endpoints(b)) BY <1>4, <2>1 DEF Takes
      <3>. QED BY <1>5, <1>6, <1>7, <2>1, <3>1 DEF Offered, Among
    <2>2. CASE m = "dnsTransport"
      <3>1. Phases[p] # <<2, "outbound">> /\ Phases[p] # <<2, "endpoint">>
        <4>1. Phases[p] = <<2, "outbound">> => Phases[p][2] = "outbound" OBVIOUS
        <4>2. Phases[p] = <<2, "endpoint">> => Phases[p][2] = "endpoint" OBVIOUS
        <4>. QED BY <1>3, <2>2, <4>1, <4>2
      <3>2. Takes(b, p) = Range(manager[b][m].items) BY <1>3, <3>1 DEF Takes
      <3>. QED BY <1>5, <1>6, <2>2, <3>2 DEF Offered, Among
    <2>. QED BY <1>3, <2>1, <2>2
  <1>. QED BY <1>2, <1>3, <1>8, <1>9, BoxAssumption

\* All have been started: they could be.
LEMMA AllCould ==
    ASSUME TypeOK, NEW b \in Boxes, BoxInv(b), starting[b].at = "loop", InPasses(b),
           Cardinality(starting[b].started) = Len(starting[b].list)
    PROVE  /\ starting[b].started = Range(starting[b].list)
           /\ \A x \in Range(starting[b].list) : item[b][x].stage >= 2
           /\ ~overlap[b] => ResolvableFor(Component(b))
  <1>1. starting[b].list \in Seq(AllItems) BY BoxTypes DEF Lists
  <1>2. Distinct(starting[b].list) BY DEF BoxInv, LoopInv, Distinct
  <1>3. /\ starting[b].started \subseteq Range(starting[b].list) /\ Ordered(starting[b].started)
        /\ \A x \in starting[b].started : item[b][x].stage >= 2 /\ Deps(x) \subseteq starting[b].started
    BY DEF BoxInv, PassInv
  <1>4. starting[b].started = Range(starting[b].list) BY <1>1, <1>2, <1>3, AllStarted
  <1>5. ASSUME ~overlap[b] PROVE ResolvableFor(Component(b))
    <2>1. closing[b] = 0 BY <1>5 DEF BoxInv, CallsInv, Busy
    <2>2. starting[b].started = Offered(Component(b)) BY <1>4, <2>1, OfferedIs
    <2>3. ~NoDefault(Component(b)) BY <1>5 DEF BoxInv, VerdictInv
    <2>4. Ordered(Offered(Component(b))) BY <1>3, <2>2
    <2>5. \A x \in Offered(Component(b)) : Deps(x) \subseteq Offered(Component(b)) BY <1>3, <2>2
    <2>. QED BY <2>3, <2>4, <2>5 DEF ResolvableFor
  <1>. QED BY <1>3, <1>4, <1>5

\* None could be started: the dependencies cannot be obeyed.
LEMMA NoneCould ==
    ASSUME TypeOK, NEW b \in Boxes, BoxInv(b), starting[b].at = "loop", InPasses(b), ~overlap[b],
           \A i \in 1 .. Len(starting[b].todo) : ~CanStart(b, starting[b].todo[i]),
           ~starting[b].canContinue, Cardinality(starting[b].started) # Len(starting[b].list)
    PROVE  ~Resolvable
  <1>1. closing[b] = 0 BY DEF BoxInv, CallsInv, Busy
  <1>2. /\ Component(b) \in DOMAIN Fallback \cap Components
        /\ Range(starting[b].list) = Offered(Component(b))
    BY <1>1, OfferedIs
  <1>3. starting[b].todo = starting[b].list BY DEF BoxInv, PassInv
  <1>4. starting[b].list \in Seq(AllItems) BY BoxTypes DEF Lists
  <1>5. \A x \in Range(starting[b].list) : ~CanStart(b, x) BY <1>3, <1>4, RangeIs
  <1>6. Range(starting[b].list) \ starting[b].started # {}
    <2>1. Distinct(starting[b].list) BY DEF BoxInv, LoopInv, Distinct
    <2>2. Cardinality(Range(starting[b].list)) = Len(starting[b].list) BY <1>4, <2>1, CountOf
    <2>3. starting[b].started \subseteq Range(starting[b].list) BY DEF BoxInv, PassInv
    <2>4. starting[b].started # Range(starting[b].list) BY <2>2
    <2>. QED BY <2>3, <2>4
  <1>7. SUFFICES ASSUME ResolvableFor(Component(b)) PROVE FALSE BY <1>2 DEF Resolvable
  <1>8. PICK Y : Y = Range(starting[b].list) \ starting[b].started OBVIOUS
  <1>9. PICK x \in Y : Deps(x) \cap Y = {}
    <2>1. Y \in SUBSET Offered(Component(b)) /\ Y # {} BY <1>2, <1>6, <1>8
    <2>. QED BY <1>7, <2>1 DEF ResolvableFor, Ordered
  <1>10. Deps(x) \subseteq Range(starting[b].list) BY <1>2, <1>7, <1>8, <1>9 DEF ResolvableFor
  <1>11. CanStart(b, x) BY <1>8, <1>9, <1>10 DEF CanStart
  <1>. QED BY <1>5, <1>8, <1>9, <1>11

\* Start goes on in the same phase.
LEMMA SamePhase ==
    ASSUME TypeOK, NEW b \in Boxes, BoxInv(b), config' = config, Busy(b),
           NEW sv \in StartStates, starting' = [starting EXCEPT ![b] = sv],
           sv.at \in {"next", "loop"}, sv.phase = starting[b].phase,
           UNCHANGED <<manager, item, closing, overlap, faulty>>
    PROVE  /\ TypeOK' /\ \A c \in Boxes \ {b} : Untouched(c)
           /\ starting'[b] = sv
           /\ ItemsInv(b)' /\ CallsInv(b)' /\ OpenInv(b)' /\ ServedInv(b)' /\ DepsInv(b)'
           /\ Stage(b)' = Stage(b) /\ Component(b)' = Component(b) /\ InPasses(b)' = InPasses(b) /\ Busy(b)'
           /\ Takes(b, starting[b].phase)' = Takes(b, starting[b].phase)
           /\ \A p : Takes(b, p)' = Takes(b, p)
  <1>1. item[b] \in ItemStates /\ item' = [item EXCEPT ![b] = item[b]] BY BoxTypes
  <1>2. /\ TypeOK' /\ starting'[b] = sv /\ \A c \in Boxes \ {b} : Untouched(c)
    BY ONLY TypeOK, b \in Boxes, config' = config, UNCHANGED <<manager, closing, overlap, faulty>>,
            sv \in StartStates, starting' = [starting EXCEPT ![b] = sv], <1>1, StartOfOne
  <1>3. starting'[b].phase = starting[b].phase /\ Busy(b)' BY <1>2 DEF Busy
  <1>4. /\ Stage(b)' = Stage(b) /\ Component(b)' = Component(b) BY <1>3 DEF Stage, Component
  <1>5. InPasses(b)' = InPasses(b) BY <1>4 DEF InPasses
  <1>6. \A s, n : Begun(b, s, n)' = Begun(b, s, n) BY <1>3 DEF Begun
  <1>7. Endpoints(b)' = Endpoints(b) BY SameConfig DEF Endpoints
  <1>8. \A p : Takes(b, p)' = Takes(b, p) BY <1>7 DEF Takes
  <1>9. Takes(b, starting[b].phase)' = Takes(b, starting[b].phase) BY <1>3, <1>8
  <1>10. \A n : ClosedBy(b, n)' = ClosedBy(b, n) BY DEF ClosedBy
  <1>11. starting[b].at \in {"next", "loop"} /\ starting'[b].at \in {"next", "loop"} BY <1>2 DEF Busy
  <1>12. ItemsInv(b)' BY <1>6, <1>11, SameConfig DEF BoxInv, ItemsInv
  <1>13. CallsInv(b)' BY <1>3, <1>11, SameConfig DEF BoxInv, CallsInv
  <1>14. OpenInv(b)' BY <1>3, <1>10, SameConfig DEF BoxInv, OpenInv
  <1>15. ServedInv(b)' BY SameConfig DEF BoxInv, ServedInv
  <1>16. DepsInv(b)' BY SameConfig DEF BoxInv, DepsInv
  <1>. QED BY <1>2, <1>3, <1>4, <1>5, <1>8, <1>9, <1>12, <1>13, <1>14, <1>15, <1>16

\* The last pass has started everything.
LEMMA PassesDone ==
    ASSUME TypeOK, NEW b \in Boxes, BoxInv(b), config' = config, starting[b].at = "loop", InPasses(b),
           Cardinality(starting[b].started) = Len(starting[b].list),
           starting' = [starting EXCEPT ![b].at = "next"],
           UNCHANGED <<manager, item, closing, overlap, faulty>>
    PROVE  StartMoves(b)
  <1> DEFINE sv == [starting[b] EXCEPT !.at = "next"]
  <1>0. starting[b] \in StartStates BY BoxTypes
  <1>1. sv \in StartStates /\ sv.at = "next" /\ sv.phase = starting[b].phase BY <1>0 DEF StartStates
  <1>2. starting' = [starting EXCEPT ![b] = sv] BY DEF TypeOK
  <1> HIDE DEF sv
  <1>3. Busy(b) BY DEF Busy
  <1>4. /\ TypeOK' /\ \A c \in Boxes \ {b} : Untouched(c)
        /\ starting'[b] = sv
        /\ ItemsInv(b)' /\ CallsInv(b)' /\ OpenInv(b)' /\ ServedInv(b)' /\ DepsInv(b)'
        /\ Stage(b)' = Stage(b) /\ Component(b)' = Component(b)
        /\ \A p : Takes(b, p)' = Takes(b, p)
    BY <1>1, <1>2, <1>3, SamePhase
  <1>5. starting'[b].at = "next" /\ starting'[b].phase = starting[b].phase BY <1>1, <1>4
  <1>6. LoopInv(b)' /\ PassInv(b)' BY <1>5 DEF LoopInv, PassInv
  <1>7. starting[b].phase \in 1 .. 40 /\ Takes(b, starting[b].phase) \subseteq Range(starting[b].list)
    BY DEF BoxInv, LoopInv
  <1>8. ASSUME NEW p, p \in Over(b)' PROVE p \in Over(b) \/ p = starting[b].phase
    <2>1. p \in 1 .. starting[b].phase /\ Phases[p][2] \in Components BY <1>5, <1>8, SameConfig DEF Over
    <2>2. p # starting[b].phase => p < starting[b].phase BY ONLY <1>7, <2>1
    <2>. QED BY <2>1, <2>2 DEF Over
  <1>9. /\ \A x \in Range(starting[b].list) : item[b][x].stage >= 2
        /\ ~overlap[b] => ResolvableFor(Component(b))
    BY AllCould
  <1>10. StageInv(b)'
    <2>1. ASSUME NEW p \in Over(b)', NEW x \in Takes(b, p), Phases[p][1] >= 2
          PROVE  item[b][x].stage >= Phases[p][1]
      <3>1. CASE p \in Over(b) BY <1>3, <2>1, <3>1 DEF BoxInv, StageInv
      <3>2. CASE p = starting[b].phase
        <4>1. Phases[p][1] = 2 BY <3>2 DEF InPasses, Stage
        <4>. QED BY <1>7, <1>9, <2>1, <3>2, <4>1
      <3>. QED BY <1>8, <3>1, <3>2
    <2>2. \A x \in AllItems : \/ item[b][x].stage = 0
                              \/ starting[b].phase # 0 /\ item[b][x].stage <= Stage(b)
      BY <1>3 DEF BoxInv, StageInv
    <2>. QED BY <1>4, <1>5, <2>1, <2>2, SameConfig DEF StageInv
  <1>11. VerdictInv(b)'
    <2>1. ASSUME ~overlap[b], NEW p \in Over(b)', Phases[p][1] = 2, Phases[p][2] \in DOMAIN Fallback
          PROVE  ResolvableFor(Phases[p][2])
      <3>1. CASE p \in Over(b) BY <1>3, <2>1, <3>1 DEF BoxInv, VerdictInv
      <3>2. CASE p = starting[b].phase BY <1>9, <2>1, <3>2 DEF Component
      <3>. QED BY <1>8, <3>1, <3>2
    <2>. QED BY <1>5, <2>1, SameConfig DEF VerdictInv
  <1>. QED BY <1>4, <1>5, <1>6, <1>10, <1>11 DEF StartMoves, BoxInv

\* Another pass begins.
LEMMA PassBegins ==
    ASSUME TypeOK, NEW b \in Boxes, BoxInv(b), config' = config, starting[b].at = "loop", InPasses(b),
           starting' = [starting EXCEPT ![b].todo = starting[b].list, ![b].canContinue = FALSE],
           UNCHANGED <<manager, item, closing, overlap, faulty>>
    PROVE  StartMoves(b)
  <1> DEFINE sv == [starting[b] EXCEPT !.todo = starting[b].list, !.canContinue = FALSE]
  <1>0. starting[b] \in StartStates BY BoxTypes
  <1>1. sv \in StartStates BY <1>0 DEF StartStates
  <1>2. /\ sv.at = "loop" /\ sv.phase = starting[b].phase /\ sv.list = starting[b].list
        /\ sv.todo = starting[b].list /\ sv.started = starting[b].started
    BY <1>0 DEF StartStates
  <1>3. starting' = [starting EXCEPT ![b] = sv] BY DEF TypeOK
  <1> HIDE DEF sv
  <1>4. Busy(b) BY DEF Busy
  <1>5. /\ TypeOK' /\ \A c \in Boxes \ {b} : Untouched(c)
        /\ starting'[b] = sv
        /\ ItemsInv(b)' /\ CallsInv(b)' /\ OpenInv(b)' /\ ServedInv(b)' /\ DepsInv(b)'
        /\ Stage(b)' = Stage(b) /\ Component(b)' = Component(b) /\ InPasses(b)' = InPasses(b) /\ Busy(b)'
        /\ Takes(b, starting[b].phase)' = Takes(b, starting[b].phase)
        /\ \A p : Takes(b, p)' = Takes(b, p)
    BY <1>1, <1>2, <1>3, <1>4, SamePhase
  <1>6. /\ starting'[b].at = "loop" /\ starting'[b].phase = starting[b].phase
        /\ starting'[b].list = starting[b].list /\ starting'[b].todo = starting[b].list
        /\ starting'[b].started = starting[b].started
    BY <1>2, <1>5
  <1>7. Over(b)' = Over(b) BY <1>6, SameConfig DEF Over
  <1>8. Stage(b) = 2 /\ Component(b) \in {"outbound", "dnsTransport"} BY DEF InPasses
  <1>9. LoopInv(b)'
    <2>1. /\ starting'[b].phase \in 1 .. 40 /\ Component(b)' \in Components'
      BY <1>5, <1>6, SameConfig DEF BoxInv, LoopInv
    <2>2. \A i, j \in 1 .. Len(starting'[b].list) : starting'[b].list[i] = starting'[b].list[j] => i = j
      <3>1. \A i, j \in 1 .. Len(starting[b].list) : starting[b].list[i] = starting[b].list[j] => i = j
        BY DEF BoxInv, LoopInv
      <3>. QED BY <1>6, <3>1, Zenon
    <2>3. /\ Takes(b, starting[b].phase)' \subseteq Range(starting'[b].list)
          /\ closing'[b] = 0 => Range(starting'[b].list) \subseteq Takes(b, starting[b].phase)'
      BY <1>5, <1>6 DEF BoxInv, LoopInv
    <2>4. Range(starting'[b].todo) \subseteq Range(starting'[b].list) BY <1>6
    <2>5. InPasses(b)' /\ Stage(b)' = 2 /\ Component(b)' \in {"outbound", "dnsTransport"} BY <1>5, <1>8
    <2>6. ~(Stage(b)' > 2) BY <2>5
    <2>7. ~(Stage(b)' # 2 \/ Component(b)' \notin {"outbound", "dnsTransport"}) BY <2>5
    <2>. QED BY <2>1, <2>2, <2>3, <2>4, <2>5, <2>6, <2>7 DEF LoopInv
  <1>10. PassInv(b)'
    <2>1. /\ starting[b].started \subseteq Range(starting[b].list) /\ Ordered(starting[b].started)
          /\ \A y \in starting[b].started : item[b][y].stage >= 2 /\ Deps(y) \subseteq starting[b].started
      BY DEF BoxInv, PassInv
    <2>2. \A y \in starting'[b].started : item'[b][y].stage >= 2 BY <1>6, <2>1
    <2>3. ASSUME NEW y \in starting'[b].started PROVE Deps(y)' \subseteq starting'[b].started
      BY <1>6, <2>1, SameConfig
    <2>4. PICK S : S = starting[b].started OBVIOUS
    <2>5. Ordered(S)' BY <2>1, <2>4, SameConfig
    <2>6. Ordered(starting[b].started)' BY <1>6, <2>4, <2>5
    <2>7. starting'[b].todo = starting'[b].list /\ starting'[b].started \subseteq Range(starting'[b].list)
      BY <1>6, <2>1
    <2>. QED BY <2>2, <2>3, <2>6, <2>7 DEF PassInv
  <1>11. StageInv(b)' BY <1>4, <1>5, <1>6, <1>7, SameConfig DEF BoxInv, StageInv
  <1>12. VerdictInv(b)' BY <1>4, <1>5, <1>6, <1>7, SameConfig DEF BoxInv, VerdictInv
  <1>. QED BY <1>5, <1>6, <1>9, <1>10, <1>11, <1>12 DEF StartMoves, BoxInv

\* A pass ends: another one begins, all is done, or Start fails.
LEMMA PassEndsKeeps ==
    ASSUME TypeOK, NEW b \in Boxes, BoxInv(b), config' = config, PassEnds(b)
    PROVE  StartMoves(b)
  <1>1. /\ starting[b].at = "loop" /\ InPasses(b)
        /\ \A i \in 1 .. Len(starting[b].todo) : ~CanStart(b, starting[b].todo[i])
        /\ UNCHANGED <<manager, item, overlap, faulty>>
    BY DEF PassEnds
  <1>2. CASE Cardinality(starting[b].started) = Len(starting[b].list)
    <2>1. starting' = [starting EXCEPT ![b].at = "next"] /\ UNCHANGED closing BY <1>2 DEF PassEnds
    <2>. QED BY <1>1, <1>2, <2>1, PassesDone
  <1>3. CASE Cardinality(starting[b].started) # Len(starting[b].list) /\ starting[b].canContinue
    <2>1. /\ starting' = [starting EXCEPT ![b].todo = starting[b].list, ![b].canContinue = FALSE]
          /\ UNCHANGED closing
      BY <1>3 DEF PassEnds, PassesGoOn
    <2>. QED BY <1>1, <2>1, PassBegins
  <1>4. CASE Cardinality(starting[b].started) # Len(starting[b].list) /\ ~starting[b].canContinue
    <2>1. Fail(b) BY <1>4 DEF PassEnds, PassesGoOn
    <2>2. ~overlap[b] => faulty[b] \/ ~Resolvable BY <1>1, <1>4, NoneCould
    <2>3. Busy(b) BY <1>1 DEF Busy
    <2>4. /\ manager[b] \in ManagerStates /\ manager' = [manager EXCEPT ![b] = manager[b]]
          /\ faulty[b] \in BOOLEAN /\ faulty' = [faulty EXCEPT ![b] = faulty[b]]
      BY <1>1, BoxTypes
    <2>5. /\ TypeOK' /\ BoxInv(b)' /\ \A c \in Boxes \ {b} : Untouched(c)
          /\ item'[b] = item[b] /\ overlap'[b] = overlap[b] /\ starting'[b].at \in {"checked", "closing"}
          /\ closing'[b] = closing[b]
      BY <1>1, <2>1, <2>2, <2>3, <2>4, FailKeeps
    <2>. QED BY <1>1, <2>5 DEF StartMoves
  <1>. QED BY <1>2, <1>3, <1>4

-----------------------------------------------------------------------------
(* The next phase.                                                         *)

\* Start has taken every item through the phases it has gone through.
LEMMA DoneAll ==
    ASSUME TypeOK, NEW b \in Boxes, BoxInv(b), PhaseDone(b)
    PROVE  /\ Busy(b)
           /\ \A p \in 1 .. starting[b].phase : Phases[p][2] \in Components =>
                /\ Phases[p][1] >= 2 => \A x \in Takes(b, p) : item[b][x].stage >= Phases[p][1]
                /\ ~overlap[b] /\ Phases[p][1] = 2 /\ Phases[p][2] \in DOMAIN Fallback => ResolvableFor(Phases[p][2])
  <1>1. Busy(b) BY DEF PhaseDone, Busy
  <1>2. starting[b].phase \in 0 .. 40 BY BoxTypes
  <1> SUFFICES ASSUME NEW p \in 1 .. starting[b].phase, Phases[p][2] \in Components
               PROVE  /\ Phases[p][1] >= 2 => \A x \in Takes(b, p) : item[b][x].stage >= Phases[p][1]
                      /\ ~overlap[b] /\ Phases[p][1] = 2 /\ Phases[p][2] \in DOMAIN Fallback
                            => ResolvableFor(Phases[p][2])
    BY <1>1
  <1>3. CASE p \in Over(b) BY <1>1, <1>3 DEF BoxInv, StageInv, VerdictInv
  <1>4. CASE p \notin Over(b)
    <2>1. starting[b].at # "next" BY <1>4 DEF Over
    <2>2. ~(p < starting[b].phase) BY <1>4 DEF Over
    <2>3. p = starting[b].phase BY <1>2, <2>2
    <2>4. starting[b].at = "loop" /\ starting[b].todo = <<>> /\ ~InPasses(b) BY <2>1 DEF PhaseDone
    <2>5. Takes(b, p) \subseteq Range(starting[b].list) BY <2>3, <2>4 DEF BoxInv, LoopInv
    <2>6. \A x \in Range(starting[b].list) : item[b][x].stage >= Stage(b)
      <3>1. Range(starting[b].todo) = {} BY <2>4, RangeEmpty
      <3>2. Stage(b) # 2 \/ Component(b) \notin {"outbound", "dnsTransport"} BY <2>4 DEF InPasses
      <3>. QED BY <2>4, <3>1, <3>2 DEF BoxInv, LoopInv
    <2>7. Phases[p][1] = Stage(b) /\ Phases[p][2] = Component(b) BY <2>3 DEF Stage, Component
    <2>8. ~(Phases[p][1] = 2 /\ Phases[p][2] \in DOMAIN Fallback) BY <2>4, <2>7, BoxAssumption DEF InPasses
    <2>. QED BY <2>5, <2>6, <2>7, <2>8
  <1>. QED BY <1>3, <1>4

\* The phase that comes next is behind all that have begun.
LEMMA NextIs ==
    ASSUME TypeOK, NEW b \in Boxes, BoxInv(b), NEW p \in Later(b), \A q \in Later(b) : p <= q
    PROVE  /\ p \in 1 .. 40 /\ starting[b].phase \in 0 .. 40 /\ starting[b].phase < p
           /\ Phases[p][2] \in Components
           /\ \A q \in 1 .. p : Phases[q][2] \in Components => q \in 1 .. starting[b].phase \/ q = p
           /\ Phases[p][1] = 2 => ~Begun(b, 2, Phases[p][2])
  <1>1. starting[b].phase \in 0 .. 40 BY BoxTypes
  <1>2. p \in 1 .. 40 /\ starting[b].phase < p /\ Phases[p][2] \in Components BY PhasesAre DEF Later
  <1>3. ASSUME NEW q \in 1 .. p, Phases[q][2] \in Components PROVE q \in 1 .. starting[b].phase \/ q = p
    <2>1. q \in 1 .. 40 BY <1>2
    <2>2. q > starting[b].phase => q \in Later(b) BY <1>3, <2>1, PhasesAre DEF Later
    <2>3. q > starting[b].phase => p <= q BY <2>2
    <2>. QED BY <1>1, <1>2, <2>1, <2>3
  <1>4. ASSUME Phases[p][1] = 2, Begun(b, 2, Phases[p][2]) PROVE FALSE
    <2>1. PICK q \in 1 .. starting[b].phase : Phases[q] = <<2, Phases[p][2]>> BY <1>4 DEF Begun
    <2>2. Phases[p] = <<Phases[p][1], Phases[p][2]>> BY <1>2, PhaseIs
    <2>3. Phases[q] = Phases[p] BY <1>4, <2>1, <2>2
    <2>4. q \in 1 .. 40 BY <1>1, <2>1
    <2>5. q = p BY <1>2, <2>3, <2>4, PhasesAre
    <2>. QED BY <1>1, <1>2, <2>1, <2>5
  <1>. QED BY <1>1, <1>2, <1>3, <1>4

\* The items of the component whose phase begins, and the loop over them.
Listed(b, p) == IF Phases[p][1] = 2 THEN WithFallback(b, Phases[p][2]) ELSE manager[b][Phases[p][2]].items

LoopOf(b, p) ==
    IF Phases[p][1] # 2 THEN Listed(b, p)
    ELSE IF Phases[p][2] = "outbound" THEN Listed(b, p) \o Endpoints(b)
    ELSE IF Phases[p][2] = "endpoint" THEN <<>> ELSE Listed(b, p)

\* The list of a component when a call of Start begins.
LEMMA ListedIs ==
    ASSUME TypeOK, NEW b \in Boxes, BoxInv(b), Busy(b), NEW p \in 1 .. 40, Phases[p][2] \in Components,
           Phases[p][1] = 2 => ~Begun(b, 2, Phases[p][2])
    PROVE  LET m == Phases[p][2] IN
           /\ Listed(b, p) \in {<<>>, Items(m), FullItems(m)}
           /\ m \notin Managers => Listed(b, p) = Items(m)
           /\ Range(manager[b][m].items) \subseteq Range(Listed(b, p))
           /\ Phases[p][1] # 2 \/ m \notin DOMAIN Fallback => Listed(b, p) = manager[b][m].items
           /\ Phases[p][1] # 2 /\ ~Begun(b, 2, m) => Listed(b, p) \in {<<>>, Items(m)}
           /\ closing[b] = 0 => Listed(b, p) = IF Phases[p][1] = 2 \/ Begun(b, 2, m) THEN FullItems(m) ELSE Items(m)
  <1>1. PICK m \in Components : m = Phases[p][2] OBVIOUS
  <1>2. /\ manager[b][m].items \in {<<>>, Items(m), FullItems(m)}
        /\ m \notin Managers => manager[b][m].items = Items(m)
        /\ ~Begun(b, 2, m) => manager[b][m].items \in {<<>>, Items(m)}
        /\ closing[b] = 0 => manager[b][m].items = IF Begun(b, 2, m) THEN FullItems(m) ELSE Items(m)
    BY DEF BoxInv, ItemsInv, Busy
  <1>3. CASE Phases[p][1] # 2
    <2>1. Listed(b, p) = manager[b][m].items BY <1>1, <1>3 DEF Listed
    <2>. QED BY <1>1, <1>2, <1>3, <2>1
  <1>4. CASE Phases[p][1] = 2 /\ ~NeedsFallback(m)
    <2>1. Listed(b, p) = manager[b][m].items BY <1>1, <1>4 DEF Listed, WithFallback
    <2>2. FullItems(m) = Items(m) BY <1>4 DEF FullItems
    <2>3. ~Begun(b, 2, m) BY <1>1, <1>4
    <2>. QED BY <1>1, <1>2, <1>4, <2>1, <2>2, <2>3
  <1>5. CASE Phases[p][1] = 2 /\ NeedsFallback(m)
    <2>1. Items(m) = <<>> /\ m \in DOMAIN Fallback BY <1>5 DEF NeedsFallback
    <2>2. ~Begun(b, 2, m) BY <1>1, <1>5
    <2>3. manager[b][m].items = <<>> BY <1>2, <2>1, <2>2
    <2>4. Listed(b, p) = Append(<<>>, Fallback[m]) BY <1>1, <1>5, <2>3 DEF Listed, WithFallback
    <2>5. Append(<<>>, Fallback[m]) = <<Fallback[m]>> OBVIOUS
    <2>6. FullItems(m) = <<Fallback[m]>> BY <1>5 DEF FullItems
    <2>7. Listed(b, p) = FullItems(m) BY <2>4, <2>5, <2>6
    <2>8. m \in Managers BY <2>1, BoxAssumption DEF Managers
    <2>9. Range(manager[b][m].items) = {} BY <2>3, RangeEmpty
    <2>. QED BY <1>1, <1>5, <2>1, <2>7, <2>8, <2>9
  <1>. QED BY <1>3, <1>4, <1>5

\* The list that call loops over.
LEMMA LoopOfIs ==
    ASSUME TypeOK, NEW b \in Boxes, BoxInv(b), Busy(b), NEW p \in 1 .. 40, Phases[p][2] \in Components,
           Phases[p][1] = 2 => ~Begun(b, 2, Phases[p][2])
    PROVE  /\ Listed(b, p) \in Lists /\ Range(Listed(b, p)) \subseteq Own(Phases[p][2])
           /\ LoopOf(b, p) \in Lists /\ Distinct(LoopOf(b, p))
           /\ Range(LoopOf(b, p)) =
                IF Phases[p] = <<2, "outbound">> THEN Range(Listed(b, p)) \cup Range(Endpoints(b))
                ELSE IF Phases[p] = <<2, "endpoint">> THEN {} ELSE Range(Listed(b, p))
  <1>0. config \in DOMAIN Configs BY DEF TypeOK
  <1>1. PICK m \in Components : m = Phases[p][2] OBVIOUS
  <1>2. /\ Listed(b, p) \in Lists /\ Distinct(Listed(b, p)) /\ Range(Listed(b, p)) \subseteq Own(m)
    <2>1. Listed(b, p) \in {<<>>, Items(m), FullItems(m)} BY <1>1, ListedIs
    <2>. QED BY <1>0, <2>1, ListsAre
  <1>3. Phases[p] = <<Phases[p][1], Phases[p][2]>> BY PhaseIs
  <1>4. CASE Phases[p][1] = 2 /\ m = "outbound"
    <2>1. Phases[p] = <<2, "outbound">> BY <1>1, <1>3, <1>4
    <2>2. LoopOf(b, p) = Listed(b, p) \o Endpoints(b) BY <1>1, <1>4 DEF LoopOf
    <2>3. Endpoints(b) \in Lists /\ Distinct(Endpoints(b)) /\ Range(Listed(b, p)) \cap Range(Endpoints(b)) = {}
      <3>1. CASE "endpoint" \in Components
        <4>1. /\ Endpoints(b) \in Lists /\ Distinct(Endpoints(b)) /\ Range(Endpoints(b)) \subseteq Own("endpoint")
          BY <3>1, ItemsAre DEF Endpoints
        <4>2. Own("outbound") \cap Own("endpoint") = {} BY <1>0, ConfigIs DEF Names
        <4>. QED BY <1>2, <1>4, <4>1, <4>2
      <3>2. CASE "endpoint" \notin Components
        <4>1. Endpoints(b) = <<>> BY <3>2 DEF Endpoints
        <4>2. <<>> \in Lists /\ Distinct(<<>>) BY DEF Lists, Distinct
        <4>. QED BY <4>1, <4>2, RangeEmpty
      <3>. QED BY <3>1, <3>2
    <2>4. LoopOf(b, p) \in Lists /\ Range(LoopOf(b, p)) = Range(Listed(b, p)) \cup Range(Endpoints(b))
      BY <1>2, <2>2, <2>3, RangeConcat DEF Lists
    <2>5. Distinct(LoopOf(b, p)) BY <1>2, <2>2, <2>3, DistinctConcat DEF Lists
    <2>. QED BY <1>1, <1>2, <2>1, <2>4, <2>5
  <1>5. CASE Phases[p][1] = 2 /\ m = "endpoint"
    <2>1. Phases[p] = <<2, "endpoint">> BY <1>1, <1>3, <1>5
    <2>2. Phases[p] # <<2, "outbound">> BY <2>1
    <2>3. LoopOf(b, p) = <<>> BY <1>1, <1>5 DEF LoopOf
    <2>4. <<>> \in Lists /\ Distinct(<<>>) BY DEF Lists, Distinct
    <2>. QED BY <1>1, <1>2, <2>1, <2>2, <2>3, <2>4, RangeEmpty
  <1>6. CASE Phases[p][1] # 2 \/ m \notin {"outbound", "endpoint"}
    <2>1. LoopOf(b, p) = Listed(b, p) BY <1>1, <1>6 DEF LoopOf
    <2>2. Phases[p] # <<2, "outbound">> /\ Phases[p] # <<2, "endpoint">>
      <3>1. Phases[p] = <<2, "outbound">> => Phases[p][1] = 2 /\ Phases[p][2] = "outbound" OBVIOUS
      <3>2. Phases[p] = <<2, "endpoint">> => Phases[p][1] = 2 /\ Phases[p][2] = "endpoint" OBVIOUS
      <3>. QED BY <1>1, <1>6, <3>1, <3>2
    <2>. QED BY <1>1, <1>2, <2>1, <2>2
  <1>. QED BY <1>4, <1>5, <1>6

\* What comes to a later stage has been started before.
LEMMA StartedBefore ==
    ASSUME TypeOK, NEW b \in Boxes, BoxInv(b), PhaseDone(b), NEW p \in Later(b), \A q \in Later(b) : p <= q,
           Phases[p][1] > 2, NEW x \in Range(manager[b][Phases[p][2]].items)
    PROVE  item[b][x].stage >= 2
  <1>0. config \in DOMAIN Configs BY DEF TypeOK
  <1>1. /\ p \in 1 .. 40 /\ Phases[p][2] \in Components
        /\ \A q \in 1 .. p : Phases[q][2] \in Components => q \in 1 .. starting[b].phase \/ q = p
    BY NextIs
  <1>2. PICK n : n = IF Phases[p][2] = "endpoint" THEN "outbound" ELSE Phases[p][2] OBVIOUS
  <1>3. n \in Components /\ n \in Names BY <1>0, <1>1, <1>2, ConfigIs
  <1>4. 2 \in 1 .. 4 OBVIOUS
  <1>5. PICK q : q = PhaseFor(2, n) OBVIOUS
  <1>6. q \in 1 .. 40 /\ Phases[q][1] = 2 /\ Phases[q][2] = n /\ Phases[q] = <<2, n>>
    BY <1>3, <1>4, <1>5, PhaseOf
  <1>7. q < p
    <2>1. Phases[q][1] < Phases[p][1] BY <1>6
    <2>. QED BY <1>1, <1>6, <2>1, PhaseIs
  <1>8. q \in 1 .. starting[b].phase BY <1>1, <1>3, <1>6, <1>7
  <1>9. x \in Takes(b, q)
    <2>1. CASE n = "outbound"
      <3>1. Takes(b, q) = Range(manager[b]["outbound"].items) \cup Range(Endpoints(b)) BY <1>6, <2>1 DEF Takes
      <3>2. CASE Phases[p][2] = "endpoint" BY <1>1, <3>1, <3>2 DEF Endpoints
      <3>3. CASE Phases[p][2] = "outbound" BY <3>1, <3>3
      <3>. QED BY <1>2, <2>1, <3>2, <3>3
    <2>2. CASE n # "outbound"
      <3>1. n = Phases[p][2] /\ n # "endpoint" BY <1>2, <2>2
      <3>2. Phases[q] # <<2, "outbound">> /\ Phases[q] # <<2, "endpoint">>
        <4>1. Phases[q] = <<2, "outbound">> => Phases[q][2] = "outbound" OBVIOUS
        <4>2. Phases[q] = <<2, "endpoint">> => Phases[q][2] = "endpoint" OBVIOUS
        <4>. QED BY <1>6, <2>2, <3>1, <4>1, <4>2
      <3>3. Takes(b, q) = Range(manager[b][n].items) BY <1>6, <3>2 DEF Takes
      <3>. QED BY <3>1, <3>3
    <2>. QED BY <2>1, <2>2
  <1>10. Phases[q][1] >= 2 BY <1>6
  <1>11. \A y \in Takes(b, q) : item[b][y].stage >= Phases[q][1] BY <1>3, <1>6, <1>8, <1>10, DoneAll
  <1>. QED BY <1>6, <1>9, <1>11

\* What is not started in passes depends on nothing.
LEMMA NothingBefore ==
    ASSUME config \in DOMAIN Configs, NEW m \in Components, m \notin {"outbound", "endpoint", "dnsTransport"},
           NEW x \in Own(m)
    PROVE  Deps(x) = {}
  <1>1. SUFFICES ASSUME Deps(x) # {} PROVE FALSE OBVIOUS
  <1>2. PICK n \in {"outbound", "endpoint", "dnsTransport"} : x \in Range(Items(n)) BY <1>1, ConfigIs
  <1>3. Range(Items(n)) \subseteq Own(n) BY DEF Own, NamesIn, Items
  <1>4. n \in Names /\ m \in Names /\ m # n BY ConfigIs DEF Names
  <1>5. Own(m) \cap Own(n) = {} BY <1>4, ConfigIs
  <1>. QED BY <1>2, <1>3, <1>5

\* A component of Box b is started.
LEMMA PhaseOfOne ==
    ASSUME TypeOK, NEW b \in Boxes, config' = config, UNCHANGED <<item, closing, overlap, faulty>>,
           NEW mv \in ManagerStates, manager' = [manager EXCEPT ![b] = mv],
           NEW sv \in StartStates, starting' = [starting EXCEPT ![b] = sv]
    PROVE  TypeOK' /\ manager'[b] = mv /\ starting'[b] = sv /\ \A c \in Boxes \ {b} : Untouched(c)
  <1>1. ManagerStates' = ManagerStates BY SameConfig DEF ManagerStates
  <1>2. ItemStates' = ItemStates BY SameConfig DEF ItemStates
  <1>3. StartStates' = StartStates BY SameConfig DEF StartStates
  <1>4. TypeOK' BY <1>1, <1>2, <1>3 DEF TypeOK
  <1>5. manager'[b] = mv /\ starting'[b] = sv BY DEF TypeOK
  <1>6. \A c \in Boxes \ {b} : Untouched(c) BY DEF TypeOK, Untouched
  <1>. QED BY <1>4, <1>5, <1>6

\* A call of Start begins its loop.
LEMMA PhaseBegins ==
    ASSUME TypeOK, NEW b \in Boxes, BoxInv(b), config' = config, PhaseDone(b),
           NEW p \in Later(b), \A q \in Later(b) : p <= q,
           ~(Phases[p][1] = 2 /\ NoDefault(Phases[p][2])),
           UNCHANGED <<item, closing, overlap, faulty>>,
           NEW mv \in ManagerStates, manager' = [manager EXCEPT ![b] = mv],
           mv[Phases[p][2]].started, mv[Phases[p][2]].items = Listed(b, p),
           \A n \in Components : n # Phases[p][2] => mv[n] = manager[b][n],
           NEW sv \in StartStates, starting' = [starting EXCEPT ![b] = sv],
           sv.at = "loop", sv.phase = p, sv.list = LoopOf(b, p), sv.todo = LoopOf(b, p), sv.started = {}
    PROVE  StartMoves(b)
  <1>0. config \in DOMAIN Configs BY DEF TypeOK
  <1>1. TypeOK' /\ manager'[b] = mv /\ starting'[b] = sv /\ \A c \in Boxes \ {b} : Untouched(c)
    BY ONLY TypeOK, b \in Boxes, config' = config, UNCHANGED <<item, closing, overlap, faulty>>,
            mv \in ManagerStates, manager' = [manager EXCEPT ![b] = mv],
            sv \in StartStates, starting' = [starting EXCEPT ![b] = sv], PhaseOfOne
  <1>2. /\ p \in 1 .. 40 /\ starting[b].phase \in 0 .. 40 /\ starting[b].phase < p
        /\ Phases[p][2] \in Components
        /\ \A q \in 1 .. p : Phases[q][2] \in Components => q \in 1 .. starting[b].phase \/ q = p
        /\ Phases[p][1] = 2 => ~Begun(b, 2, Phases[p][2])
    BY NextIs
  <1>3. /\ Busy(b)
        /\ \A q \in 1 .. starting[b].phase : Phases[q][2] \in Components =>
            /\ Phases[q][1] >= 2 => \A x \in Takes(b, q) : item[b][x].stage >= Phases[q][1]
            /\ ~overlap[b] /\ Phases[q][1] = 2 /\ Phases[q][2] \in DOMAIN Fallback => ResolvableFor(Phases[q][2])
    BY DoneAll
  <1>4. PICK m \in Components : m = Phases[p][2] BY <1>2
  <1>5. PICK stage \in 1 .. 4 : stage = Phases[p][1] BY <1>2, PhaseIs
  <1>6. PICK listed : listed = Listed(b, p) OBVIOUS
  <1>7. PICK loop : loop = LoopOf(b, p) OBVIOUS
  <1>8. /\ listed \in {<<>>, Items(m), FullItems(m)}
        /\ m \notin Managers => listed = Items(m)
        /\ Range(manager[b][m].items) \subseteq Range(listed)
        /\ stage # 2 \/ m \notin DOMAIN Fallback => listed = manager[b][m].items
        /\ stage # 2 /\ ~Begun(b, 2, m) => listed \in {<<>>, Items(m)}
        /\ closing[b] = 0 => listed = IF stage = 2 \/ Begun(b, 2, m) THEN FullItems(m) ELSE Items(m)
    <2>1. /\ Listed(b, p) \in {<<>>, Items(Phases[p][2]), FullItems(Phases[p][2])}
          /\ Phases[p][2] \notin Managers => Listed(b, p) = Items(Phases[p][2])
          /\ Range(manager[b][Phases[p][2]].items) \subseteq Range(Listed(b, p))
          /\ Phases[p][1] # 2 \/ Phases[p][2] \notin DOMAIN Fallback => Listed(b, p) = manager[b][Phases[p][2]].items
          /\ Phases[p][1] # 2 /\ ~Begun(b, 2, Phases[p][2]) => Listed(b, p) \in {<<>>, Items(Phases[p][2])}
          /\ closing[b] = 0 => Listed(b, p) = IF Phases[p][1] = 2 \/ Begun(b, 2, Phases[p][2])
                                              THEN FullItems(Phases[p][2]) ELSE Items(Phases[p][2])
      BY ONLY TypeOK, b \in Boxes, BoxInv(b), <1>2, <1>3, ListedIs
    <2>. QED BY ONLY <1>4, <1>5, <1>6, <2>1
  <1>9. /\ Range(listed) \subseteq Own(m) /\ loop \in Lists /\ Distinct(loop)
        /\ Range(loop) = IF Phases[p] = <<2, "outbound">> THEN Range(listed) \cup Range(Endpoints(b))
                         ELSE IF Phases[p] = <<2, "endpoint">> THEN {} ELSE Range(listed)
    <2>1. /\ Range(Listed(b, p)) \subseteq Own(Phases[p][2])
          /\ LoopOf(b, p) \in Lists /\ Distinct(LoopOf(b, p))
          /\ Range(LoopOf(b, p)) =
                IF Phases[p] = <<2, "outbound">> THEN Range(Listed(b, p)) \cup Range(Endpoints(b))
                ELSE IF Phases[p] = <<2, "endpoint">> THEN {} ELSE Range(Listed(b, p))
      BY ONLY TypeOK, b \in Boxes, BoxInv(b), <1>2, <1>3, LoopOfIs
    <2>. QED BY ONLY <1>4, <1>6, <1>7, <2>1
  <1>10. /\ starting'[b].at = "loop" /\ starting'[b].phase = p /\ starting'[b].list = loop
         /\ starting'[b].todo = loop /\ starting'[b].started = {}
    BY <1>1, <1>7
  <1>11. /\ manager'[b][m].started /\ manager'[b][m].items = listed
         /\ \A n \in Components : n # m => manager'[b][n] = manager[b][n]
    BY <1>1, <1>4, <1>6
  <1>12. Stage(b)' = stage /\ Component(b)' = m /\ Busy(b)' BY <1>4, <1>5, <1>10 DEF Stage, Component, Busy
  <1>13. \A n \in Components : n # m \/ stage # 2 \/ m \notin DOMAIN Fallback
                                  => manager'[b][n].items = manager[b][n].items
    BY <1>8, <1>11
  <1>14. Phases[p] = <<stage, m>>
    <2>1. Phases[p] = <<Phases[p][1], Phases[p][2]>> BY <1>2, PhaseIs
    <2>. QED BY <1>4, <1>5, <2>1
  <1>15. "endpoint" \in Components => manager'[b]["endpoint"].items = manager[b]["endpoint"].items
    BY <1>13, BoxAssumption
  <1>16. Endpoints(b)' = Endpoints(b) BY <1>15, SameConfig DEF Endpoints
  <1>17. Takes(b, p)' = Range(loop)
    <2>1. Phases[p] = <<2, "outbound">> => m = "outbound"
      <3>1. Phases[p] = <<2, "outbound">> => Phases[p][2] = "outbound" OBVIOUS
      <3>. QED BY <1>4, <3>1
    <2>. QED BY <1>4, <1>9, <1>11, <1>16, <2>1 DEF Takes
  <1>18. ASSUME NEW q \in 1 .. 40, q < p, Phases[q][2] \in Components, Phases[q][1] >= 2
         PROVE  Takes(b, q)' = Takes(b, q)
    <2>1. PICK n \in Components : n = Phases[q][2] BY <1>18
    <2>2. n # m \/ stage # 2
      <3>1. SUFFICES ASSUME n = m, stage = 2 PROVE FALSE OBVIOUS
      <3>a. q <= p BY <1>2, <1>18
      <3>2. Phases[q][1] \in 1 .. 4 /\ Phases[q][1] <= Phases[p][1]
        BY <1>2, <3>a, StagesGrow
      <3>3. Phases[q][1] = Phases[p][1] /\ Phases[q][2] = Phases[p][2] BY <1>4, <1>5, <1>18, <2>1, <3>1, <3>2
      <3>4. q = p BY <1>2, <3>3, PhaseIs
      <3>. QED BY <1>18, <3>4
    <2>3. manager'[b][n].items = manager[b][n].items BY <1>13, <2>2
    <2>4. Phases[q] = <<2, "outbound">> => n = "outbound"
      <3>1. Phases[q] = <<2, "outbound">> => Phases[q][2] = "outbound" OBVIOUS
      <3>. QED BY <2>1, <3>1
    <2>. QED BY <1>16, <2>1, <2>3, <2>4, SMTT(30) DEF Takes
  <1>19. ASSUME NEW q, q \in Over(b)'
         PROVE  /\ q \in 1 .. starting[b].phase /\ q \in 1 .. 40 /\ q < p
                /\ Phases[q][2] \in Components /\ Phases[q][1] \in 1 .. 4
    <2>1. q \in 1 .. p /\ q < p /\ Phases[q][2] \in Components BY <1>10, <1>19, SameConfig DEF Over
    <2>2. q \in 1 .. 40 /\ q # p BY <1>2, <2>1
    <2>. QED BY <1>2, <2>1, <2>2, PhaseIs
  <1>20. \A n \in Components : Begun(b, 2, n)' <=> (Begun(b, 2, n) \/ (stage = 2 /\ n = m))
    <2> SUFFICES ASSUME NEW n \in Components PROVE Begun(b, 2, n)' <=> (Begun(b, 2, n) \/ (stage = 2 /\ n = m))
      OBVIOUS
    <2>1. Begun(b, 2, n)' <=> \E q \in 1 .. p : Phases[q] = <<2, n>> BY <1>10 DEF Begun
    <2>2. ASSUME NEW q \in 1 .. p, Phases[q] = <<2, n>> PROVE Begun(b, 2, n) \/ (stage = 2 /\ n = m)
      <3>1. Phases[q][1] = 2 /\ Phases[q][2] = n BY <2>2
      <3>2. q \in 1 .. starting[b].phase \/ q = p BY <1>2, <3>1
      <3>. QED BY <1>4, <1>5, <2>2, <3>1, <3>2 DEF Begun
    <2>3. Begun(b, 2, n) => \E q \in 1 .. p : Phases[q] = <<2, n>>
      <3>1. \A q \in 1 .. starting[b].phase : q \in 1 .. p BY <1>2
      <3>. QED BY <3>1 DEF Begun
    <2>4. stage = 2 /\ n = m => \E q \in 1 .. p : Phases[q] = <<2, n>>
      <3>1. p \in 1 .. p BY <1>2
      <3>. QED BY <1>14, <3>1
    <2>. QED BY <2>1, <2>2, <2>3, <2>4
  <1>i. ItemsInv(b)'
    <2> SUFFICES ASSUME NEW n \in Components
                 PROVE  /\ manager'[b][n].items \in {<<>>, Items(n), FullItems(n)}
                        /\ n \notin Managers => manager'[b][n].items = Items(n)
                        /\ ~Begun(b, 2, n)' => manager'[b][n].items \in {<<>>, Items(n)}
                        /\ closing[b] = 0 =>
                            manager'[b][n].items = IF Begun(b, 2, n)' THEN FullItems(n) ELSE Items(n)
      BY SameConfig DEF ItemsInv
    <2>1. CASE n = m BY <1>8, <1>11, <1>20, <2>1
    <2>2. CASE n # m
      <3>1. manager'[b][n] = manager[b][n] /\ (Begun(b, 2, n)' <=> Begun(b, 2, n)) BY <1>11, <1>20, <2>2
      <3>2. starting[b].at \in {"none", "next", "loop"} BY <1>3 DEF Busy
      <3>. QED BY <3>1, <3>2 DEF BoxInv, ItemsInv
    <2>. QED BY <2>1, <2>2
  <1>l. LoopInv(b)'
    <2>1. starting'[b].phase \in 1 .. 40 /\ Component(b)' \in Components' BY <1>2, <1>10, <1>12, SameConfig
    <2>2. \A i, j \in 1 .. Len(starting'[b].list) : starting'[b].list[i] = starting'[b].list[j] => i = j
      <3>1. \A i, j \in 1 .. Len(loop) : loop[i] = loop[j] => i = j BY <1>9 DEF Distinct
      <3>2. loop = starting'[b].list BY <1>10
      <3>. QED BY ONLY <3>1, <3>2
    <2>3. Takes(b, starting[b].phase)' = Range(starting'[b].list) BY <1>10, <1>17
    <2>4. starting'[b].todo = starting'[b].list BY <1>10
    <2>5. ASSUME stage = 2, ~InPasses(b)', NEW x \in Range(loop) PROVE Deps(x) = {}
      <3>1. m \notin {"outbound", "dnsTransport"} BY <1>12, <2>5 DEF InPasses
      <3>2. CASE m = "endpoint"
        <4>1. Phases[p] = <<2, "endpoint">> /\ Phases[p] # <<2, "outbound">> BY <1>14, <2>5, <3>2
        <4>. QED BY <1>9, <2>5, <4>1
      <3>3. CASE m # "endpoint"
        <4>1. Phases[p] # <<2, "endpoint">> /\ Phases[p] # <<2, "outbound">>
          <5>1. Phases[p] = <<2, "outbound">> => Phases[p][2] = "outbound" OBVIOUS
          <5>2. Phases[p] = <<2, "endpoint">> => Phases[p][2] = "endpoint" OBVIOUS
          <5>. QED BY <1>4, <3>1, <3>3, <5>1, <5>2
        <4>2. x \in Own(m) BY <1>9, <2>5, <4>1
        <4>. QED BY <1>0, <3>1, <3>3, <4>2, NothingBefore
      <3>. QED BY <3>2, <3>3
    <2>6. ASSUME stage > 2, NEW x \in Range(loop) PROVE item[b][x].stage >= 2
      <3>1. Phases[p] # <<2, "endpoint">> /\ Phases[p] # <<2, "outbound">>
        <4>1. Phases[p] = <<2, "outbound">> => Phases[p][1] = 2 OBVIOUS
        <4>2. Phases[p] = <<2, "endpoint">> => Phases[p][1] = 2 OBVIOUS
        <4>. QED BY <1>5, <2>6, <4>1, <4>2
      <3>2. stage # 2 BY <2>6
      <3>3. x \in Range(manager[b][m].items) BY <1>8, <1>9, <2>6, <3>1, <3>2
      <3>. QED BY <1>4, <1>5, <2>6, <3>3, StartedBefore
    <2>7. Stage(b)' = 2 /\ ~InPasses(b)' => \A x \in Range(starting'[b].list) : Deps(x)' = {}
      BY <1>10, <1>12, <2>5, SameConfig
    <2>8. Stage(b)' > 2 => \A x \in Range(starting'[b].list) : item'[b][x].stage >= 2
      BY <1>10, <1>12, <2>6
    <2>. QED BY <2>1, <2>2, <2>3, <2>4, <2>7, <2>8 DEF LoopInv
  <1>p. PassInv(b)'
    <2>1. PICK S : S = starting'[b].started OBVIOUS
    <2>2. S = {} BY <1>10, <2>1
    <2>3. Ordered({}) BY DEF Ordered
    <2>4. Ordered(S)' BY <2>2, <2>3, SameConfig
    <2>5. Ordered(starting[b].started)' BY <2>1, <2>4
    <2>6. starting'[b].started = {} /\ starting'[b].todo = starting'[b].list BY <1>10
    <2>. QED BY <2>5, <2>6 DEF PassInv
  <1>s. StageInv(b)'
    <2>1. ASSUME NEW q, q \in Over(b)', NEW x, x \in Takes(b, q)', Phases[q][1] >= 2
          PROVE  item[b][x].stage >= Phases[q][1]
      <3>1. /\ q \in 1 .. starting[b].phase /\ q \in 1 .. 40 /\ q < p
            /\ Phases[q][2] \in Components
        BY <1>19, <2>1
      <3>2. Takes(b, q)' = Takes(b, q) BY <1>18, <2>1, <3>1
      <3>. QED BY <1>3, <2>1, <3>1, <3>2
    <2>2. ASSUME NEW x \in AllItems PROVE item[b][x].stage = 0 \/ item[b][x].stage <= stage
      <3>1. item[b][x].stage = 0 \/ (starting[b].phase # 0 /\ item[b][x].stage <= Stage(b))
        BY <1>3 DEF BoxInv, StageInv
      <3>2. CASE starting[b].phase # 0 /\ item[b][x].stage <= Stage(b)
        <4>1. PICK q \in 1 .. 40 : q = starting[b].phase BY <1>2, <3>2
        <4>a. q <= p BY <1>2, <4>1
        <4>2. Phases[q][1] \in 1 .. 4 /\ Phases[q][1] <= Phases[p][1]
          BY <1>2, <4>a, StagesGrow
        <4>3. Stage(b) = Phases[q][1] BY <4>1 DEF Stage
        <4>4. item[b][x].stage \in 0 .. 4 BY BoxTypes
        <4>. QED BY <1>5, <3>2, <4>2, <4>3, <4>4
      <3>. QED BY <3>1, <3>2
    <2>3. starting'[b].phase # 0 /\ starting'[b].at # "none" BY <1>2, <1>10
    <2>. QED BY <1>12, <2>1, <2>2, <2>3, SameConfig DEF StageInv
  <1>a. CallsInv(b)'
    <2>1. starting'[b].at = "loop" /\ Busy(b)' BY <1>10, <1>12
    <2>. QED BY <1>3, <2>1, SameConfig DEF BoxInv, CallsInv
  <1>o. OpenInv(b)'
    <2>1. closing[b] = 0 => \A x \in AllItems : item[b][x].stage >= 1 => item[b][x].open BY DEF BoxInv, OpenInv
    <2>2. ASSUME closing[b] = 0, NEW q \in 1 .. p, Phases[q][2] \in Components
          PROVE  manager'[b][Phases[q][2]].started
      <3>1. CASE Phases[q][2] = m BY <1>11, <3>1
      <3>2. CASE Phases[q][2] # m
        <4>1. q \in 1 .. starting[b].phase BY <1>2, <1>4, <2>2, <3>2
        <4>2. manager[b][Phases[q][2]].started BY <1>3, <2>2, <4>1 DEF BoxInv, OpenInv
        <4>. QED BY <1>11, <2>2, <3>2, <4>2
      <3>. QED BY <3>1, <3>2
    <2>3. \A n \in Components : ClosedBy(b, n) \subseteq ClosedBy(b, n)'
      <3>1. ClosedBy(b, m) \subseteq ClosedBy(b, m)' BY <1>8, <1>11 DEF ClosedBy
      <3>2. \A n \in Components : n # m => ClosedBy(b, n)' = ClosedBy(b, n) BY <1>11 DEF ClosedBy
      <3>. QED BY <3>1, <3>2
    <2>4. ASSUME ~overlap[b], NEW x \in AllItems, item[b][x].open
          PROVE  \E k \in 1 .. Len(CloseOrder) : /\ k >= closing[b] /\ CloseOrder[k] \in Components
                                                 /\ x \in ClosedBy(b, CloseOrder[k])'
      <3>1. PICK k \in 1 .. Len(CloseOrder) : /\ k >= closing[b] /\ CloseOrder[k] \in Components
                                             /\ x \in ClosedBy(b, CloseOrder[k])
        BY <2>4 DEF BoxInv, OpenInv
      <3>2. x \in ClosedBy(b, CloseOrder[k])'
        <4>1. PICK n \in Components : n = CloseOrder[k] BY <3>1
        <4>. QED BY <2>3, <3>1, <4>1
      <3>. QED BY <3>1, <3>2
    <2>. QED BY <1>10, <2>1, <2>2, <2>4, SameConfig DEF OpenInv
  <1>v. ServedInv(b)' BY SameConfig DEF BoxInv, ServedInv
  <1>d. DepsInv(b)' BY SameConfig DEF BoxInv, DepsInv
  <1>r. VerdictInv(b)'
    <2>1. ASSUME ~overlap[b], NEW q, q \in Over(b)', Phases[q][1] = 2, Phases[q][2] \in DOMAIN Fallback
          PROVE  ResolvableFor(Phases[q][2])
      BY <1>3, <1>19, <2>1
    <2>2. InPasses(b)' => ~NoDefault(Component(b))'
      <3>1. InPasses(b)' => stage = 2 BY <1>12 DEF InPasses
      <3>2. stage = 2 => ~NoDefault(m) BY <1>4, <1>5
      <3>3. NoDefault(Component(b))' = NoDefault(m)' BY <1>12
      <3>. QED BY <3>1, <3>2, <3>3, SameConfig
    <2>. QED BY <1>10, <1>12, <2>1, <2>2, SameConfig DEF VerdictInv
  <1>z. starting[b].at \in {"next", "loop"} BY <1>3 DEF Busy
  <1>. QED BY <1>1, <1>10, <1>i, <1>l, <1>p, <1>s, <1>a, <1>o, <1>v, <1>d, <1>r, <1>z DEF BoxInv, StartMoves

\* The next call of Start begins, or fails for a default that is not there.
LEMMA NextPhaseKeeps ==
    ASSUME TypeOK, NEW b \in Boxes, BoxInv(b), config' = config, NextPhase(b)
    PROVE  StartMoves(b)
  <1>1. PhaseDone(b) /\ UNCHANGED <<item, overlap, faulty>> BY DEF NextPhase
  <1>2. PICK p \in Later(b) : (\A q \in Later(b) : p <= q) /\ StartPhase(b, p) BY DEF NextPhase
  <1>3. PICK m : m = Phases[p][2] OBVIOUS
  <1>4. m \in Components /\ p \in 1 .. 40 /\ (Phases[p][1] = 2 => ~Begun(b, 2, m)) BY <1>2, <1>3, NextIs
  <1>5. Busy(b) BY <1>1, DoneAll
  <1>6. /\ manager[b] \in ManagerStates /\ manager[b][m].items \in Lists
        /\ faulty[b] \in BOOLEAN /\ faulty' = [faulty EXCEPT ![b] = faulty[b]]
    BY <1>1, <1>4, BoxTypes
  <1>7. ASSUME NEW list \in Lists
        PROVE  LET mv == [manager[b] EXCEPT ![m] = [started |-> TRUE, items |-> list]]
               IN  /\ mv \in ManagerStates /\ mv[m].started /\ mv[m].items = list
                   /\ \A n \in Components : n # m => mv[n] = manager[b][n]
    BY <1>4, <1>6 DEF ManagerStates
  <1>8. CASE Phases[p][1] = 2 /\ NoDefault(m)
    <2>1. Fail(b) BY <1>2, <1>3, <1>8 DEF StartPhase
    <2> DEFINE mv == [manager[b] EXCEPT ![m] = [started |-> TRUE, items |-> manager[b][m].items]]
    <2>2. manager' = [manager EXCEPT ![b] = mv]
      <3>1. manager' = [manager EXCEPT ![b][m] = [started |-> TRUE, items |-> @.items]]
        BY <1>2, <1>3, <1>8 DEF StartPhase
      <3>. QED BY <3>1 DEF TypeOK
    <2>3. /\ mv \in ManagerStates /\ mv[m].started /\ mv[m].items = manager[b][m].items
          /\ \A n \in Components : n # m => mv[n] = manager[b][n]
      BY <1>6, <1>7
    <2> HIDE DEF mv
    <2>4. \A n \in Components : /\ mv[n].items = manager[b][n].items
                                /\ manager[b][n].started => mv[n].started
      BY <1>4, <2>3
    <2>5. ~Resolvable
      <3>1. m \in DOMAIN Fallback \cap Components BY <1>4, <1>8 DEF NoDefault
      <3>2. ~ResolvableFor(m) BY <1>8 DEF ResolvableFor
      <3>. QED BY <3>1, <3>2 DEF Resolvable
    <2>6. /\ TypeOK' /\ BoxInv(b)' /\ \A c \in Boxes \ {b} : Untouched(c)
          /\ item'[b] = item[b] /\ overlap'[b] = overlap[b] /\ starting'[b].at \in {"checked", "closing"}
          /\ closing'[b] = closing[b]
      BY <1>1, <1>5, <1>6, <2>1, <2>2, <2>3, <2>4, <2>5, FailKeeps
    <2>7. starting[b].at \in {"next", "loop"} BY <1>5 DEF Busy
    <2>. QED BY <2>6, <2>7 DEF StartMoves
  <1>9. CASE ~(Phases[p][1] = 2 /\ NoDefault(m))
    <2> DEFINE mv == [manager[b] EXCEPT ![m] = [started |-> TRUE, items |-> Listed(b, p)]]
               sv == [at |-> "loop", phase |-> p, list |-> LoopOf(b, p), todo |-> LoopOf(b, p),
                      started |-> {}, canContinue |-> FALSE]
    <2>1. /\ manager' = [manager EXCEPT ![b][m] = [started |-> TRUE, items |-> Listed(b, p)]]
          /\ starting' = [starting EXCEPT ![b] = sv] /\ UNCHANGED closing
      BY <1>2, <1>3, <1>9 DEF StartPhase, Listed, LoopOf
    <2>2. manager' = [manager EXCEPT ![b] = mv] BY <2>1 DEF TypeOK
    <2>3. Listed(b, p) \in Lists /\ LoopOf(b, p) \in Lists BY <1>3, <1>4, <1>5, LoopOfIs
    <2>4. /\ mv \in ManagerStates /\ mv[m].started /\ mv[m].items = Listed(b, p)
          /\ \A n \in Components : n # m => mv[n] = manager[b][n]
      BY <1>7, <2>3
    <2>5. sv \in StartStates
      <3>1. p \in 0 .. 40 BY <1>4
      <3>. QED BY <2>3, <3>1 DEF StartStates
    <2>6. sv.at = "loop" /\ sv.phase = p /\ sv.list = LoopOf(b, p) /\ sv.todo = LoopOf(b, p) /\ sv.started = {}
      OBVIOUS
    <2> HIDE DEF mv, sv
    <2>7. UNCHANGED <<item, closing, overlap, faulty>> BY <1>1, <2>1
    <2>8. /\ ~(Phases[p][1] = 2 /\ NoDefault(Phases[p][2]))
          /\ mv[Phases[p][2]].started /\ mv[Phases[p][2]].items = Listed(b, p)
          /\ \A n \in Components : n # Phases[p][2] => mv[n] = manager[b][n]
      BY <1>3, <1>9, <2>4
    <2>9. starting' = [starting EXCEPT ![b] = sv] /\ mv \in ManagerStates BY <2>1, <2>4
    <2>a. p \in Later(b) /\ \A q \in Later(b) : p <= q BY <1>2
    <2>. QED BY ONLY TypeOK, b \in Boxes, BoxInv(b), config' = config, <1>1, <2>a, <2>2, <2>5, <2>6,
                     <2>7, <2>8, <2>9, PhaseBegins
  <1>. QED BY <1>8, <1>9

-----------------------------------------------------------------------------
(* Start begins and returns.                                               *)

\* Start has gone through all stages.
LEMMA StartSucceedsKeeps ==
    ASSUME TypeOK, NEW b \in Boxes, BoxInv(b), config' = config, StartSucceeds(b)
    PROVE  StartMoves(b)
  <1>0. config \in DOMAIN Configs BY DEF TypeOK
  <1>1. PhaseDone(b) /\ Later(b) = {} /\ UNCHANGED <<manager, item, closing, overlap, faulty>>
    BY DEF StartSucceeds
  <1> DEFINE sv == [NotStarted EXCEPT !.at = "ok"]
  <1>2. starting' = [starting EXCEPT ![b] = sv] BY DEF StartSucceeds
  <1>3. sv \in StartStates /\ sv.at = "ok" /\ sv.phase = 0 BY Ended
  <1>4. item[b] \in ItemStates /\ item' = [item EXCEPT ![b] = item[b]] BY <1>1, BoxTypes
  <1> HIDE DEF sv
  <1>5. /\ TypeOK' /\ starting'[b] = sv /\ \A c \in Boxes \ {b} : Untouched(c)
    BY ONLY TypeOK, b \in Boxes, config' = config, <1>1, <1>2, <1>3, <1>4, StartOfOne
  <1>6. starting'[b].at = "ok" /\ ~Busy(b)' BY <1>3, <1>5 DEF Busy
  <1>7. /\ Busy(b)
        /\ \A q \in 1 .. starting[b].phase : Phases[q][2] \in Components =>
            /\ Phases[q][1] >= 2 => \A x \in Takes(b, q) : item[b][x].stage >= Phases[q][1]
            /\ ~overlap[b] /\ Phases[q][1] = 2 /\ Phases[q][2] \in DOMAIN Fallback => ResolvableFor(Phases[q][2])
    BY <1>1, DoneAll
  <1>8. ASSUME NEW s \in {2, 4}, NEW m \in Components
        PROVE  \E q \in 1 .. starting[b].phase : Phases[q][1] = s /\ Phases[q][2] = m
    <2>1. s \in 1 .. 4 /\ m \in Names BY <1>0, ConfigIs
    <2>2. PICK q : q = PhaseFor(s, m) OBVIOUS
    <2>3. q \in 1 .. 40 /\ Phases[q][1] = s /\ Phases[q][2] = m BY <2>1, <2>2, PhaseOf
    <2>4. ~(q > starting[b].phase) BY <1>1, <2>3, PhasesAre DEF Later
    <2>5. starting[b].phase \in 0 .. 40 BY BoxTypes
    <2>6. q \in 1 .. starting[b].phase BY <2>3, <2>4, <2>5
    <2>. QED BY <2>3, <2>6
  <1>9. ASSUME ~overlap[b] PROVE Resolvable
    <2> SUFFICES ASSUME NEW m \in DOMAIN Fallback \cap Components PROVE ResolvableFor(m) BY DEF Resolvable
    <2>1. PICK q \in 1 .. starting[b].phase : Phases[q][1] = 2 /\ Phases[q][2] = m BY <1>8
    <2>. QED BY <1>7, <1>9, <2>1
  <1>10. ASSUME ~overlap[b], NEW m \in Components, NEW x \in ItemsOf(m) PROVE item[b][x].stage = 4
    <2>1. PICK q \in 1 .. starting[b].phase : Phases[q][1] = 4 /\ Phases[q][2] = m BY <1>8
    <2>2. PICK r \in 1 .. starting[b].phase : Phases[r][1] = 2 /\ Phases[r][2] = m BY <1>8
    <2>3. Begun(b, 2, m)
      <3>1. starting[b].phase \in 0 .. 40 BY BoxTypes
      <3>2. r \in 1 .. 40 BY <3>1
      <3>3. Phases[r] = <<Phases[r][1], Phases[r][2]>> BY <3>2, PhaseIs
      <3>4. Phases[r] = <<2, m>> BY <2>2, <3>3
      <3>. QED BY <3>4 DEF Begun
    <2>4. closing[b] = 0 BY <1>7, <1>10 DEF BoxInv, CallsInv
    <2>5. manager[b][m].items = FullItems(m) BY <1>7, <2>3, <2>4 DEF BoxInv, ItemsInv, Busy
    <2>6. x \in Range(manager[b][m].items) /\ x \in AllItems BY <1>0, <1>10, <2>5, ListsAre DEF AllItems
    <2>7. x \in Takes(b, q)
      <3>1. Phases[q] # <<2, "outbound">> /\ Phases[q] # <<2, "endpoint">>
        <4>1. Phases[q] = <<2, "outbound">> => Phases[q][1] = 2 OBVIOUS
        <4>2. Phases[q] = <<2, "endpoint">> => Phases[q][1] = 2 OBVIOUS
        <4>. QED BY <2>1, <4>1, <4>2
      <3>. QED BY <2>1, <2>6, <3>1 DEF Takes
    <2>8. Phases[q][1] >= 2 BY <2>1
    <2>9. item[b][x].stage >= 4 BY <1>7, <2>1, <2>7, <2>8
    <2>10. item[b][x].stage \in 0 .. 4 BY <2>6, BoxTypes
    <2>. QED BY <2>9, <2>10
  <1>11. ItemsInv(b)' BY <1>1, <1>6, SameConfig DEF BoxInv, ItemsInv
  <1>12. LoopInv(b)' /\ PassInv(b)' BY <1>6 DEF LoopInv, PassInv
  <1>13. StageInv(b)' BY <1>6 DEF StageInv
  <1>14. CallsInv(b)' BY <1>1, <1>6, SameConfig DEF BoxInv, CallsInv
  <1>15. OpenInv(b)'
    <2>1. \A n : ClosedBy(b, n)' = ClosedBy(b, n) BY <1>1 DEF ClosedBy
    <2>. QED BY <1>1, <1>6, <2>1, SameConfig DEF BoxInv, OpenInv
  <1>16. ServedInv(b)' BY <1>1, SameConfig DEF BoxInv, ServedInv
  <1>17. DepsInv(b)' BY <1>1, SameConfig DEF BoxInv, DepsInv
  <1>18. VerdictInv(b)' BY <1>1, <1>6, <1>9, <1>10, SameConfig DEF VerdictInv
  <1>19. starting[b].at \in {"next", "loop"} BY <1>7 DEF Busy
  <1>. QED BY <1>1, <1>5, <1>6, <1>11, <1>12, <1>13, <1>14, <1>15, <1>16, <1>17, <1>18, <1>19 DEF BoxInv, StartMoves

\* Start has failed and Close has returned.
LEMMA StartFailsKeeps ==
    ASSUME TypeOK, NEW b \in Boxes, BoxInv(b), config' = config, StartFails(b)
    PROVE  StartMoves(b)
  <1>1. /\ starting[b].at = "closing" /\ UNCHANGED <<manager, item, closing, overlap, faulty>>
        /\ overlap[b] \/ closing[b] = Finished
    BY DEF StartFails
  <1> DEFINE sv == [starting[b] EXCEPT !.at = "failed"]
  <1>0. starting[b] \in StartStates BY BoxTypes
  <1>2. starting' = [starting EXCEPT ![b] = sv] BY DEF StartFails, TypeOK
  <1>3. sv \in StartStates /\ sv.at = "failed" BY <1>0 DEF StartStates
  <1>4. item[b] \in ItemStates /\ item' = [item EXCEPT ![b] = item[b]] BY <1>1, BoxTypes
  <1> HIDE DEF sv
  <1>5. /\ TypeOK' /\ starting'[b] = sv /\ \A c \in Boxes \ {b} : Untouched(c)
    BY ONLY TypeOK, b \in Boxes, config' = config, <1>1, <1>2, <1>3, <1>4, StartOfOne, ZenonT(60)
  <1>6. starting'[b].at = "failed" /\ ~Busy(b)' BY <1>3, <1>5 DEF Busy
  <1>11. ItemsInv(b)' BY <1>1, <1>6, SameConfig DEF BoxInv, ItemsInv
  <1>12. LoopInv(b)' /\ PassInv(b)' BY <1>6 DEF LoopInv, PassInv
  <1>13. StageInv(b)' BY <1>6 DEF StageInv
  <1>14. CallsInv(b)' BY <1>1, <1>6, SameConfig DEF BoxInv, CallsInv
  <1>15. OpenInv(b)'
    <2>1. \A n : ClosedBy(b, n)' = ClosedBy(b, n) BY <1>1 DEF ClosedBy
    <2>. QED BY <1>1, <1>6, <2>1, SameConfig DEF BoxInv, OpenInv
  <1>16. ServedInv(b)' BY <1>1, SameConfig DEF BoxInv, ServedInv
  <1>17. DepsInv(b)' BY <1>1, SameConfig DEF BoxInv, DepsInv
  <1>18. VerdictInv(b)' BY <1>1, <1>6, SameConfig DEF BoxInv, VerdictInv
  <1>. QED BY <1>1, <1>5, <1>6, <1>11, <1>12, <1>13, <1>14, <1>15, <1>16, <1>17, <1>18 DEF BoxInv, StartMoves

\* The failed Start closes done and begins the work of Close, or panics because
\* a caller was faster, and returns.
LEMMA StartClosesKeeps ==
    ASSUME TypeOK, NEW b \in Boxes, BoxInv(b), config' = config, StartCloses(b)
    PROVE  StartMoves(b)
  <1> DEFINE at == IF closing[b] = 0 THEN "closing" ELSE "ok"
             cv == IF closing[b] = 0 THEN NextToClose(1) ELSE closing[b]
             sv == [starting[b] EXCEPT !.at = at]
  <1>0. /\ manager[b] \in ManagerStates /\ item[b] \in ItemStates /\ starting[b] \in StartStates
        /\ closing[b] \in 0 .. 11 /\ overlap[b] \in BOOLEAN /\ faulty[b] \in BOOLEAN
        /\ manager = [manager EXCEPT ![b] = manager[b]] /\ closing = [closing EXCEPT ![b] = closing[b]]
        /\ overlap = [overlap EXCEPT ![b] = overlap[b]] /\ faulty = [faulty EXCEPT ![b] = faulty[b]]
        /\ item = [item EXCEPT ![b] = item[b]]
    BY BoxTypes
  <1>1. starting[b].at = "checked" /\ UNCHANGED <<manager, item, overlap, faulty>> BY DEF StartCloses
  <1>2. /\ NextToClose(1) \in 1 .. 11
        /\ \A k \in 1 .. 10 : CloseOrder[k] \in Components => k >= NextToClose(1)
        /\ NextToClose(1) \in 1 .. 10 => CloseOrder[NextToClose(1)] \in Components
    <2>1. 1 \in 1 .. 11 OBVIOUS
    <2>. QED BY <2>1, NextToCloseIs
  <1>3. sv \in StartStates /\ sv.at = at BY <1>0 DEF StartStates
  <1>4. /\ cv \in 1 .. 11 /\ (closing[b] # 0 => cv = closing[b])
        /\ cv \in 1 .. 10 => CloseOrder[cv] \in Components
    BY <1>0, <1>2, CloseOrderIs DEF BoxInv, CallsInv
  <1>5. starting' = [starting EXCEPT ![b] = sv] /\ closing' = [closing EXCEPT ![b] = cv]
    <2>1. CASE closing[b] = 0 BY <2>1 DEF StartCloses, Closes, TypeOK
    <2>2. CASE closing[b] # 0 BY <1>0, <2>2 DEF StartCloses, TypeOK
    <2>. QED BY <2>1, <2>2
  <1>6. cv \in 0 .. Finished BY <1>4, CloseOrderIs
  <1> HIDE DEF sv, cv
  <1>7. /\ TypeOK' /\ manager'[b] = manager[b] /\ item'[b] = item[b] /\ starting'[b] = sv
        /\ closing'[b] = cv /\ overlap'[b] = overlap[b] /\ faulty'[b] = faulty[b]
        /\ \A c \in Boxes \ {b} : Untouched(c)
    <2>1. /\ manager' = [manager EXCEPT ![b] = manager[b]] /\ item' = [item EXCEPT ![b] = item[b]]
          /\ overlap' = [overlap EXCEPT ![b] = overlap[b]] /\ faulty' = [faulty EXCEPT ![b] = faulty[b]]
      BY <1>0, <1>1
    <2>. QED BY ONLY TypeOK, b \in Boxes, config' = config, <1>0, <1>3, <1>5, <1>6, <2>1, StepOfOne, ZenonT(60)
  <1>8. /\ starting'[b].at = at /\ ~Busy(b)' /\ closing'[b] \in 1 .. 11 /\ closing'[b] # 0
    BY <1>3, <1>4, <1>7 DEF Busy
  <1>9. overlap[b] \/ closing[b] = 0 BY <1>1 DEF BoxInv, CallsInv
  <1>11. ItemsInv(b)' BY <1>7, <1>8, SameConfig DEF BoxInv, ItemsInv
  <1>12. LoopInv(b)' /\ PassInv(b)' BY <1>8 DEF LoopInv, PassInv
  <1>13. StageInv(b)' BY <1>8 DEF StageInv
  <1>14. CallsInv(b)' BY <1>4, <1>7, <1>8, SameConfig, CloseOrderIs DEF CallsInv
  <1>15. OpenInv(b)'
    <2>1. \A n : ClosedBy(b, n)' = ClosedBy(b, n) BY <1>7 DEF ClosedBy
    <2>2. ASSUME ~overlap[b], NEW x \in AllItems, item[b][x].open
          PROVE  \E k \in 1 .. Len(CloseOrder) : /\ k >= cv /\ CloseOrder[k] \in Components
                                                 /\ x \in ClosedBy(b, CloseOrder[k])
      <3>1. PICK k \in 1 .. 10 : /\ k >= closing[b] /\ CloseOrder[k] \in Components
                                 /\ x \in ClosedBy(b, CloseOrder[k])
        BY <2>2, CloseOrderIs DEF BoxInv, OpenInv
      <3>2. k >= cv BY <1>2, <3>1 DEF cv
      <3>. QED BY <3>1, <3>2, CloseOrderIs
    <2>. QED BY <1>7, <1>8, <2>1, <2>2, SameConfig DEF OpenInv
  <1>16. ServedInv(b)' BY <1>7, <1>8, SameConfig DEF BoxInv, ServedInv
  <1>17. DepsInv(b)' BY <1>7, SameConfig DEF BoxInv, DepsInv
  <1>18. VerdictInv(b)' BY <1>1, <1>7, <1>8, <1>9, SameConfig DEF BoxInv, VerdictInv
  <1>19. starting'[b].at # "closing" \/ closing[b] # 0 => closing'[b] = closing[b] BY <1>4, <1>7, <1>8
  <1>20. starting'[b].at \in {"ok", "closing"} BY <1>8
  <1>. QED BY <1>1, <1>7, <1>11, <1>12, <1>13, <1>14, <1>15, <1>16, <1>17, <1>18, <1>19, <1>20 DEF BoxInv, StartMoves

\* Every step of Start.
LEMMA StartStepKeeps ==
    ASSUME TypeOK, NEW b \in Boxes, BoxInv(b), config' = config, StartStep(b)
    PROVE  StartMoves(b)
  BY NextPhaseKeeps, StartNextKeeps, PassStartsKeeps, PassEndsKeeps, StartSucceedsKeeps,
     StartClosesKeeps, StartFailsKeeps
     DEF StartStep

\* Start of a new Box begins.
LEMMA BoxStartsKeeps ==
    ASSUME TypeOK, NEW b \in Boxes, BoxInv(b), config' = config, starting[b].at = "none", BoxStarts(b),
           UNCHANGED <<manager, item, closing, overlap, faulty>>
    PROVE  /\ TypeOK' /\ BoxInv(b)' /\ \A c \in Boxes \ {b} : Untouched(c)
           /\ starting'[b].at = "next" /\ closing[b] = 0
  <1> DEFINE sv == [starting[b] EXCEPT !.at = "next"]
  <1>0. starting[b] \in StartStates BY BoxTypes
  <1>1. closing[b] = 0 /\ starting[b].phase = 0 BY DEF BoxInv, CallsInv
  <1>2. starting' = [starting EXCEPT ![b] = sv] BY DEF BoxStarts, TypeOK
  <1>3. sv \in StartStates /\ sv.at = "next" /\ sv.phase = 0 BY <1>0, <1>1 DEF StartStates
  <1>4. item[b] \in ItemStates /\ item' = [item EXCEPT ![b] = item[b]] BY BoxTypes
  <1> HIDE DEF sv
  <1>5. /\ TypeOK' /\ starting'[b] = sv /\ \A c \in Boxes \ {b} : Untouched(c)
    BY ONLY TypeOK, b \in Boxes, config' = config, UNCHANGED <<manager, item, closing, overlap, faulty>>,
            <1>2, <1>3, <1>4, StartOfOne
  <1>6. starting'[b].at = "next" /\ starting'[b].phase = 0 /\ Busy(b)' BY <1>3, <1>5 DEF Busy
  <1>7. \A s, n : Begun(b, s, n)' = Begun(b, s, n) BY <1>1, <1>6 DEF Begun
  <1>8. \A q : q \notin Over(b)'
    <2>1. \A q : q \notin 1 .. 0 OBVIOUS
    <2>. QED BY <1>6, <2>1 DEF Over
  <1>11. ItemsInv(b)' BY <1>6, <1>7, SameConfig DEF BoxInv, ItemsInv
  <1>12. LoopInv(b)' /\ PassInv(b)' BY <1>6 DEF LoopInv, PassInv
  <1>13. StageInv(b)' BY <1>6, <1>8, SameConfig DEF BoxInv, StageInv
  <1>14. CallsInv(b)' BY <1>1, <1>6, SameConfig, CloseOrderIs DEF BoxInv, CallsInv
  <1>15. OpenInv(b)'
    <2>1. \A n : ClosedBy(b, n)' = ClosedBy(b, n) BY DEF ClosedBy
    <2>2. \A q \in 1 .. starting'[b].phase : FALSE BY <1>6
    <2>. QED BY <2>1, <2>2, SameConfig DEF BoxInv, OpenInv
  <1>16. ServedInv(b)' BY SameConfig DEF BoxInv, ServedInv
  <1>17. DepsInv(b)' BY SameConfig DEF BoxInv, DepsInv
  <1>18. VerdictInv(b)' BY <1>6, <1>8 DEF VerdictInv
  <1>. QED BY <1>1, <1>5, <1>6, <1>11, <1>12, <1>13, <1>14, <1>15, <1>16, <1>17, <1>18 DEF BoxInv

\* The service closes done of a Box, and the work of Close begins.
LEMMA CloseBeginsKeeps ==
    ASSUME TypeOK, NEW b \in Boxes, BoxInv(b), config' = config, starting[b].at # "none", CloseBegins(b),
           UNCHANGED <<manager, item, starting, faulty>>
    PROVE  /\ TypeOK' /\ BoxInv(b)' /\ \A c \in Boxes \ {b} : Untouched(c)
           /\ closing[b] = 0 /\ closing'[b] \in 1 .. 11
           /\ overlap'[b] <=> starting[b].at # "ok"
  <1> DEFINE cv == NextToClose(1)
             ov == starting[b].at \notin {"none", "ok", "failed"}
  <1>1. closing' = [closing EXCEPT ![b] = cv] /\ overlap' = [overlap EXCEPT ![b] = ov]
    BY DEF CloseBegins, Closes
  <1>2. /\ cv \in 1 .. 11
        /\ \A k \in 1 .. 10 : CloseOrder[k] \in Components => k >= cv
        /\ cv \in 1 .. 10 => CloseOrder[cv] \in Components
    <2>1. 1 \in 1 .. 11 OBVIOUS
    <2>. QED BY <2>1, NextToCloseIs
  <1>0. closing[b] = 0 BY DEF CloseBegins, Closes
  <1>3. starting[b].at \in {"next", "loop", "ok", "checked"} /\ ~overlap[b] BY <1>0, BoxTypes DEF BoxInv, CallsInv
  <1>4. ov \in BOOLEAN /\ (ov <=> starting[b].at # "ok") BY <1>3
  <1> HIDE DEF cv, ov
  <1>5. cv \in 0 .. Finished BY <1>2, CloseOrderIs
  <1>6. TypeOK'
    <2>1. ManagerStates' = ManagerStates BY SameConfig DEF ManagerStates
    <2>2. ItemStates' = ItemStates BY SameConfig DEF ItemStates
    <2>3. StartStates' = StartStates BY SameConfig DEF StartStates
    <2>. QED BY <1>1, <1>4, <1>5, <2>1, <2>2, <2>3 DEF TypeOK
  <1>7. closing'[b] = cv /\ overlap'[b] = ov BY <1>1 DEF TypeOK
  <1>8. \A c \in Boxes \ {b} : Untouched(c) BY <1>1 DEF TypeOK, Untouched
  <1>9. closing'[b] # 0 /\ closing'[b] \in 1 .. 11 BY <1>2, <1>7
  <1>10. /\ Stage(b)' = Stage(b) /\ Component(b)' = Component(b) BY DEF Stage, Component
  <1>11. InPasses(b)' = InPasses(b) /\ Busy(b)' = Busy(b) BY <1>10 DEF InPasses, Busy
  <1>12. \A s, n : Begun(b, s, n)' = Begun(b, s, n) BY DEF Begun
  <1>13. Endpoints(b)' = Endpoints(b) BY SameConfig DEF Endpoints
  <1>14. \A p : Takes(b, p)' = Takes(b, p) BY <1>13 DEF Takes
  <1>15. \A n : ClosedBy(b, n)' = ClosedBy(b, n) BY DEF ClosedBy
  <1>16. Over(b)' = Over(b) BY SameConfig DEF Over
  <1>17. Takes(b, starting[b].phase)' = Takes(b, starting[b].phase) BY <1>14
  <1>i. ItemsInv(b)' BY <1>9, <1>12, SameConfig DEF BoxInv, ItemsInv
  <1>l. LoopInv(b)' BY <1>9, <1>10, <1>11, <1>17, SameConfig DEF BoxInv, LoopInv
  <1>p. PassInv(b)' BY <1>11, SameConfig DEF BoxInv, PassInv
  <1>s. StageInv(b)' BY <1>10, <1>11, <1>14, <1>16, SameConfig DEF BoxInv, StageInv
  <1>a. CallsInv(b)' BY <1>2, <1>3, <1>4, <1>7, <1>9, <1>11, SameConfig, CloseOrderIs DEF CallsInv, Busy
  <1>o. OpenInv(b)'
    <2>1. ASSUME NEW x \in AllItems, item[b][x].open
          PROVE  \E k \in 1 .. Len(CloseOrder) : /\ k >= cv /\ CloseOrder[k] \in Components
                                                 /\ x \in ClosedBy(b, CloseOrder[k])
      <3>1. PICK k \in 1 .. 10 : /\ CloseOrder[k] \in Components
                                 /\ x \in ClosedBy(b, CloseOrder[k])
        BY <1>3, <2>1, CloseOrderIs DEF BoxInv, OpenInv
      <3>2. k >= cv BY <1>2, <3>1
      <3>. QED BY <3>1, <3>2, CloseOrderIs
    <2>. QED BY <1>7, <1>9, <1>15, <2>1, SameConfig DEF OpenInv
  <1>v. ServedInv(b)' BY <1>3, <1>9, SameConfig DEF BoxInv, ServedInv
  <1>d. DepsInv(b)' BY SameConfig DEF BoxInv, DepsInv
  <1>r. VerdictInv(b)'
    <2>1. overlap'[b] \/ starting[b].at = "ok" BY <1>4, <1>7
    <2>2. starting[b].at = "ok" => /\ Resolvable
                                   /\ \A m \in Components : \A x \in ItemsOf(m) : item[b][x].stage = 4
      BY <1>3 DEF BoxInv, VerdictInv
    <2>3. starting[b].at = "ok" => ~Busy(b)' BY DEF Busy
    <2>. QED BY <2>1, <2>2, <2>3, SameConfig DEF VerdictInv
  <1>. QED BY <1>0, <1>4, <1>6, <1>7, <1>8, <1>9, <1>i, <1>l, <1>p, <1>s, <1>a, <1>o, <1>v, <1>d, <1>r DEF BoxInv

-----------------------------------------------------------------------------
(* The service.                                                            *)

\* What the service relies on.
LEMMA BoxFacts ==
    ASSUME BoxesInv, NEW b \in Boxes
    PROVE  /\ starting[b].at \in {"none", "next", "loop", "ok", "checked", "closing", "failed"} /\ overlap[b] \in BOOLEAN
           /\ closing[b] \in 0 .. 11 /\ Finished = 11
           /\ starting[b].at = "none" => closing[b] = 0 /\ ~Running(b)
           /\ closing[b] = Finished /\ ~overlap[b] => ~Running(b)
           /\ Busy(b) /\ ~overlap[b] => closing[b] = 0
           /\ closing[b] = 0 => starting[b].at \notin {"closing", "failed"}
           /\ starting[b].at = "failed" /\ ~overlap[b] => closing[b] = Finished
  <1>0. TypeOK /\ BoxInv(b) BY DEF BoxesInv
  <1>1. /\ starting[b].at \in {"none", "next", "loop", "ok", "checked", "closing", "failed"}
        /\ overlap[b] \in BOOLEAN /\ closing[b] \in 0 .. 11 /\ Finished = 11
    BY <1>0, BoxTypes, CloseOrderIs
  <1>2. starting[b].at = "none" => closing[b] = 0 /\ ~Running(b)
    BY <1>0 DEF BoxInv, CallsInv, StageInv, Running
  <1>3. closing[b] = Finished /\ ~overlap[b] => ~Running(b)
    <2>1. \A k \in 1 .. Len(CloseOrder) : ~(k >= Finished) BY CloseOrderIs
    <2>. QED BY <1>0, <2>1 DEF BoxInv, OpenInv, Running
  <1>. QED BY <1>0, <1>1, <1>2, <1>3 DEF BoxInv, CallsInv

\* One Box takes a step.
LEMMA BoxesKept ==
    ASSUME BoxesInv, config' = config, TypeOK', NEW b \in Boxes, BoxInv(b)', \A c \in Boxes \ {b} : Untouched(c)
    PROVE  BoxesInv'
  <1>1. ASSUME NEW c \in Boxes PROVE BoxInv(c)'
    <2>1. CASE c = b BY <2>1
    <2>2. CASE c # b BY <2>2, UntouchedKept DEF BoxesInv
    <2>. QED BY <2>1, <2>2
  <1>. QED BY <1>1 DEF BoxesInv

\* No Box takes a step.
LEMMA NoBoxMoves ==
    ASSUME BoxesInv, config' = config, UNCHANGED boxVars
    PROVE  BoxesInv' /\ \A b \in Boxes : Running(b)' = Running(b)
  <1>1. \A b \in Boxes : Untouched(b) BY DEF Untouched, boxVars
  <1>2. \A b \in Boxes : BoxInv(b)' BY <1>1, UntouchedKept DEF BoxesInv
  <1>3. TypeOK'
    <2>1. ManagerStates' = ManagerStates BY SameConfig DEF ManagerStates
    <2>2. ItemStates' = ItemStates BY SameConfig DEF ItemStates
    <2>3. StartStates' = StartStates BY SameConfig DEF StartStates
    <2>. QED BY <2>1, <2>2, <2>3 DEF BoxesInv, TypeOK, boxVars
  <1>4. \A b \in Boxes : Running(b)' = Running(b) BY SameConfig DEF Running, boxVars
  <1>. QED BY <1>2, <1>3, <1>4 DEF BoxesInv

\* A step of Start.
LEMMA ServiceStartStep ==
    ASSUME BoxesInv, ServiceInv, NEW b \in Boxes, StartStep(b), UNCHANGED <<config, daemonVars>>
    PROVE  BoxesInv' /\ ServiceInv'
  <1>1. StartMoves(b) BY StartStepKeeps DEF BoxesInv
  <1>2. BoxesInv' BY <1>1, BoxesKept DEF StartMoves
  <1>3. /\ overlap'[b] = overlap[b]
        /\ starting[b].at \in {"next", "loop", "checked", "closing"}
        /\ starting'[b].at \in {"next", "loop", "ok", "checked", "closing", "failed"}
        /\ starting[b].at = "closing" => starting'[b].at = "failed" /\ item'[b] = item[b]
        /\ starting[b].at = "checked" => item'[b] = item[b]
        /\ starting'[b].at # "closing" \/ closing[b] # 0 => closing'[b] = closing[b]
    BY <1>1 DEF StartMoves
  <1>4. \A c \in Boxes \ {b} : /\ starting'[c] = starting[c] /\ overlap'[c] = overlap[c]
                              /\ closing'[c] = closing[c] /\ item'[c] = item[c]
    BY <1>1 DEF StartMoves, Untouched
  <1>5. UNCHANGED <<serviceStatus, instance, fresh, starter, closer, crowded>> BY DEF daemonVars
  <1>6. CallsOK'
    <2>1. CallTypes' /\ OneCloser' BY <1>5 DEF ServiceInv, CallsOK, CallTypes, OneCloser
    <2>2. BoxCalls'
      <3>1. \A c \in Boxes : starting[c].at # "none" <=> starting'[c].at # "none" BY <1>3, <1>4
      <3>2. \A c \in Boxes : starting'[c].at \in {"next", "loop", "checked", "closing"}
                                => starting[c].at \in {"next", "loop", "checked", "closing"}
        BY <1>3, <1>4
      <3>3. fresh \subseteq Boxes /\ instance \in Boxes \cup {None} BY DEF ServiceInv, CallsOK, CallTypes
      <3>. QED BY <1>5, <3>1, <3>2, <3>3 DEF ServiceInv, CallsOK, BoxCalls
    <2>. QED BY <2>1, <2>2 DEF CallsOK
  <1>7. ASSUME ~crowded PROVE AloneInv'
    <2>0. AloneInv BY <1>7 DEF ServiceInv
    <2>1. OneStarter' /\ StartsNew' BY <1>5, <2>0 DEF AloneInv, OneStarter, StartsNew
    <2>2. \A c \in Boxes : closing[c] # 0 => closing'[c] = closing[c] BY <1>3, <1>4
    <2>3. \A c \in Boxes : overlap'[c] = overlap[c] BY <1>3, <1>4
    <2>4. ClosesOld'
      <3>1. \A s \in Starters : starter[s].at \in {"checked", "closeOld"} => instance \in Boxes
        BY <2>0 DEF AloneInv, ClosesOld, ServiceInv, CallsOK, BoxCalls
      <3>2. ASSUME NEW s \in Starters, starter[s].at = "checked" PROVE closing'[instance] = closing[instance]
        <4>1. PICK t \in Starters : starter[t].at = "starting" /\ starter[t].box = b
          BY <1>3 DEF ServiceInv, CallsOK, BoxCalls
        <4>. QED BY <2>0, <3>2, <4>1 DEF AloneInv, OneStarter
      <3>. QED BY <1>5, <2>0, <2>2, <2>3, <3>1, <3>2 DEF AloneInv, ClosesOld
    <2>5. ClosesAll' BY <1>5, <2>0, <2>2 DEF AloneInv, ClosesAll
    <2>6. OthersClosed'
      <3>1. \A c \in Boxes : starting'[c].at # "none" => starting[c].at # "none" BY <1>3, <1>4
      <3>. QED BY <1>5, <2>0, <2>2, <3>1 DEF AloneInv, OthersClosed
    <2>7. Awaited'
      <3> SUFFICES ASSUME NEW c \in Boxes, closing'[c] \notin {0, Finished}, ~overlap'[c] PROVE AwaitedBy(c)'
        BY DEF Awaited
      <3>1. CASE c # b
        <4>1. AwaitedBy(c) BY <1>4, <2>0, <3>1 DEF AloneInv, Awaited
        <4>. QED BY <1>4, <1>5, <3>1, <4>1 DEF AwaitedBy
      <3>2. CASE c = b /\ starting'[b].at = "closing"
        <4>1. PICK s \in Starters : starter[s].at = "starting" /\ starter[s].box = b
          BY <1>3 DEF ServiceInv, CallsOK, BoxCalls
        <4>. QED BY <1>5, <3>2, <4>1 DEF AwaitedBy
      <3>3. CASE c = b /\ starting'[b].at # "closing"
        <4>1. closing'[b] = closing[b] /\ ~overlap[b] BY <1>3, <3>3
        <4>2. AwaitedBy(b) BY <2>0, <3>3, <4>1 DEF AloneInv, Awaited
        <4>3. starting[b].at # "closing"
          <5>1. SUFFICES ASSUME starting[b].at = "closing" PROVE FALSE OBVIOUS
          <5>2. starting'[b].at = "failed" BY <1>3, <5>1
          <5>3. closing'[b] = Finished BY <1>2, <3>3, <5>2 DEF BoxesInv, BoxInv, CallsInv
          <5>. QED BY <3>3, <5>3
        <4>. QED BY <1>5, <3>3, <4>2, <4>3 DEF AwaitedBy
      <3>. QED BY <3>1, <3>2, <3>3
    <2>8. StatusInv'
      <3>0. instance \in Boxes \cup {None} BY DEF ServiceInv, CallsOK, CallTypes
      <3>1. serviceStatus = "STARTED" =>
                /\ instance # None /\ starting'[instance].at = "ok" /\ closing'[instance] = 0
                /\ \A s \in Starters : starter[s].at = "idle"
        BY <1>3, <1>4, <2>0, <3>0 DEF AloneInv, StatusInv
      <3>2. ASSUME serviceStatus = "STARTING"
            PROVE  /\ instance # None
                   /\ starting'[instance].at \in {"next", "loop", "checked", "ok"} => closing'[instance] = 0
                   /\ \E s \in Starters : starter[s].at = "starting" /\ starter[s].box = instance
        <4>1. /\ instance # None
              /\ starting[instance].at \in {"next", "loop", "checked", "ok"} => closing[instance] = 0
              /\ \E s \in Starters : starter[s].at = "starting" /\ starter[s].box = instance
          BY <2>0, <3>2 DEF AloneInv, StatusInv
        <4>. QED BY <1>3, <1>4, <3>0, <4>1
      <3>3. ASSUME serviceStatus = "IDLE"
            PROVE  instance = None /\ Unlocked' /\ \A c \in Boxes : Running(c)' => overlap'[c]
        <4>1. instance = None /\ Unlocked /\ \A c \in Boxes : Running(c) => overlap[c]
          BY <2>0, <3>3 DEF AloneInv, StatusInv
        <4>2. Unlocked' BY <1>5, <4>1 DEF Unlocked
        <4>3. ASSUME NEW c \in Boxes, Running(c)' PROVE overlap'[c]
          <5>1. CASE item'[c] = item[c]
            <6>1. Running(c) BY <4>3, <5>1, SameConfig DEF Running
            <6>. QED BY <2>3, <4>1, <6>1
          <5>2. CASE item'[c] # item[c]
            <6>1. c = b /\ Busy(b) BY <1>3, <1>4, <5>2 DEF Busy
            <6>2. b # instance
              <7>1. None \notin Boxes BY BoxAssumption
              <7>. QED BY <4>1, <7>1
            <6>3. closing[b] # 0 BY <1>3, <2>0, <4>1, <6>2 DEF AloneInv, OthersClosed, Unlocked
            <6>4. overlap[b] BY <6>1, <6>3 DEF BoxesInv, BoxInv, CallsInv
            <6>. QED BY <2>3, <6>1, <6>4
          <5>. QED BY <5>1, <5>2
        <4>. QED BY <4>1, <4>2, <4>3
      <3>. QED BY <1>5, <3>1, <3>2, <3>3 DEF StatusInv
    <2>. QED BY <2>1, <2>4, <2>5, <2>6, <2>7, <2>8 DEF AloneInv
  <1>. QED BY <1>2, <1>5, <1>6, <1>7 DEF ServiceInv

\* A step of Close.
LEMMA ServiceCloseStep ==
    ASSUME BoxesInv, ServiceInv, NEW b \in Boxes, CloseNext(b), UNCHANGED <<config, daemonVars>>
    PROVE  BoxesInv' /\ ServiceInv'
  <1>1. /\ TypeOK' /\ BoxInv(b)' /\ \A c \in Boxes \ {b} : Untouched(c)
        /\ starting'[b] = starting[b] /\ overlap'[b] = overlap[b]
        /\ closing[b] \in 1 .. 10 /\ closing'[b] \in 1 .. 11
        /\ \A x \in AllItems : item'[b][x].open => item[b][x].open
    BY CloseNextKeeps DEF BoxesInv
  <1>2. BoxesInv' BY <1>1, BoxesKept
  <1>3. /\ \A c \in Boxes : starting'[c] = starting[c] /\ overlap'[c] = overlap[c]
        /\ \A c \in Boxes \ {b} : closing'[c] = closing[c] /\ item'[c] = item[c]
    BY <1>1 DEF Untouched
  <1>4. closing[b] # 0 /\ closing[b] # Finished /\ closing'[b] # 0 BY <1>1, CloseOrderIs
  <1>5. UNCHANGED <<serviceStatus, instance, fresh, starter, closer, crowded>> BY DEF daemonVars
  <1>6. CallsOK'
    <2>1. CallTypes' /\ OneCloser' BY <1>5 DEF ServiceInv, CallsOK, CallTypes, OneCloser
    <2>2. BoxCalls'
      <3>1. fresh \subseteq Boxes /\ instance \in Boxes \cup {None} BY DEF ServiceInv, CallsOK, CallTypes
      <3>. QED BY <1>3, <1>5, <3>1 DEF ServiceInv, CallsOK, BoxCalls
    <2>. QED BY <2>1, <2>2 DEF CallsOK
  <1>7. ASSUME ~crowded PROVE AloneInv'
    <2>0. AloneInv BY <1>7 DEF ServiceInv
    <2>1. OneStarter' /\ StartsNew' BY <1>5, <2>0 DEF AloneInv, OneStarter, StartsNew
    <2>2. \A c \in Boxes : closing[c] = 0 <=> closing'[c] = 0 BY <1>3, <1>4
    <2>3. \A c \in Boxes : closing[c] = Finished => closing'[c] = Finished BY <1>3, <1>4
    <2>4. ClosesOld'
      <3>1. \A s \in Starters : starter[s].at \in {"checked", "closeOld"} => instance \in Boxes
        BY <2>0 DEF AloneInv, ClosesOld, ServiceInv, CallsOK, BoxCalls
      <3>. QED BY <1>3, <1>5, <2>0, <2>2, <2>3, <3>1 DEF AloneInv, ClosesOld
    <2>5. ClosesAll' BY <1>5, <2>0, <2>2 DEF AloneInv, ClosesAll
    <2>6. OthersClosed' BY <1>3, <1>5, <2>0, <2>2 DEF AloneInv, OthersClosed
    <2>7. Awaited'
      <3> SUFFICES ASSUME NEW c \in Boxes, closing'[c] \notin {0, Finished}, ~overlap'[c] PROVE AwaitedBy(c)'
        BY DEF Awaited
      <3>1. closing[c] \notin {0, Finished} /\ ~overlap[c] BY <1>3, <2>2, <2>3
      <3>2. AwaitedBy(c) BY <2>0, <3>1 DEF AloneInv, Awaited
      <3>. QED BY <1>3, <1>5, <3>2 DEF AwaitedBy
    <2>8. StatusInv'
      <3>0. instance \in Boxes \cup {None} BY DEF ServiceInv, CallsOK, CallTypes
      <3>1. \A c \in Boxes : Running(c)' => Running(c)
        <4>1. Running(b)' => Running(b) BY <1>1, SameConfig DEF Running
        <4>2. \A c \in Boxes \ {b} : Running(c)' => Running(c) BY <1>3, SameConfig DEF Running
        <4>. QED BY <4>1, <4>2
      <3>2. Unlocked' = Unlocked BY <1>5 DEF Unlocked
      <3>. QED BY <1>3, <1>5, <2>0, <2>2, <3>0, <3>1, <3>2 DEF AloneInv, StatusInv
    <2>. QED BY <2>1, <2>4, <2>5, <2>6, <2>7, <2>8 DEF AloneInv
  <1>. QED BY <1>2, <1>5, <1>6, <1>7 DEF ServiceInv

\* The calls that are going on.
LEMMA CallFacts ==
    ASSUME ServiceInv
    PROVE  /\ None \notin Boxes /\ instance \in Boxes \cup {None} /\ fresh \subseteq Boxes
           /\ \A s \in Starters : starter[s].at \in {"idle", "checked", "closeOld", "starting"}
           /\ \A k \in Closers : closer[k].at \in {"idle", "checked", "closing"}
           /\ NoCall \in [at : {"idle", "checked", "closeOld", "starting"}, box : Boxes \cup {None}, own : BOOLEAN]
           /\ NoCall \in [at : {"idle", "checked", "closing"}, box : Boxes \cup {None}, own : BOOLEAN]
           /\ NoCall.at = "idle"
  BY BoxAssumption DEF ServiceInv, CallsOK, CallTypes, NoCall

\* One caller of StartOrReloadService gets somewhere.
LEMMA StarterMoves ==
    ASSUME ServiceInv, NEW s \in Starters,
           NEW call \in [at : {"idle", "checked", "closeOld", "starting"}, box : Boxes \cup {None}, own : BOOLEAN],
           starter' = [starter EXCEPT ![s] = call]
    PROVE  /\ starter'[s] = call /\ \A t \in Starters : t # s => starter'[t] = starter[t]
           /\ starter' \in [Starters -> [at : {"idle", "checked", "closeOld", "starting"}, box : Boxes \cup {None}, own : BOOLEAN]]
  BY DEF ServiceInv, CallsOK, CallTypes

\* One caller of CloseService gets somewhere.
LEMMA CloserMoves ==
    ASSUME ServiceInv, NEW k \in Closers,
           NEW call \in [at : {"idle", "checked", "closing"}, box : Boxes \cup {None}, own : BOOLEAN],
           closer' = [closer EXCEPT ![k] = call]
    PROVE  /\ closer'[k] = call /\ \A l \in Closers : l # k => closer'[l] = closer[l]
           /\ closer' \in [Closers -> [at : {"idle", "checked", "closing"}, box : Boxes \cup {None}, own : BOOLEAN]]
  BY DEF ServiceInv, CallsOK, CallTypes

\* A new instance is created, or cannot be: everything else has been closed.
LEMMA NewInstanceKeeps ==
    ASSUME BoxesInv, ServiceInv, NEW s \in Starters, NewInstance(s), Unlocked, starter[s].at # "starting",
           UNCHANGED <<config, manager, item, closing, overlap, faulty, closer>>, crowded' \in BOOLEAN,
           ~crowded' => /\ ~crowded
                        /\ \A t \in Starters : t # s => starter[t].at = "idle"
                        /\ \A c \in Boxes : closing[c] \in {0, Finished} \/ overlap[c]
                        /\ instance # None => closing[instance] # 0
    PROVE  BoxesInv' /\ ServiceInv'
  <1>0. UNCHANGED <<closing, overlap>> OBVIOUS
  <1>a. Unlocked' /\ \A k \in Closers : closer'[k].at = "idle" BY DEF Unlocked
  <1>1. CASE /\ serviceStatus' = "FATAL"
             /\ starter' = [starter EXCEPT ![s] = NoCall]
             /\ UNCHANGED <<instance, fresh, starting>>
    <2>1. BoxesInv' BY <1>0, <1>1, NoBoxMoves DEF boxVars
    <2>2. /\ starter'[s] = NoCall /\ \A t \in Starters : t # s => starter'[t] = starter[t]
          /\ starter' \in [Starters -> [at : {"idle", "checked", "closeOld", "starting"}, box : Boxes \cup {None}, own : BOOLEAN]]
      BY <1>1, CallFacts, StarterMoves
    <2>3. starter'[s].at = "idle" BY <2>2, CallFacts
    <2>4. CallsOK'
      <3>1. CallTypes' BY <1>1, <2>2 DEF ServiceInv, CallsOK, CallTypes
      <3>2. OneCloser' BY <1>a DEF OneCloser
      <3>3. \A b \in Boxes : starting[b].at \in {"next", "loop", "checked", "closing"} =>
                \E t \in Starters : starter'[t].at = "starting" /\ starter'[t].box = b
        BY <2>2 DEF ServiceInv, CallsOK, BoxCalls
      <3>4. \A t \in Starters : starter'[t].at # "idle" =>
                starter'[t].box \in Boxes /\ starting[starter'[t].box].at # "none"
        BY <2>2, <2>3 DEF ServiceInv, CallsOK, BoxCalls
      <3>5. BoxCalls' BY <1>1, <3>3, <3>4 DEF ServiceInv, CallsOK, BoxCalls
      <3>. QED BY <3>1, <3>2, <3>5 DEF CallsOK
    <2>5. ASSUME ~crowded' PROVE AloneInv'
      <3>0. AloneInv BY <2>5 DEF ServiceInv
      <3>1. \A t \in Starters : starter'[t].at = "idle" BY <2>2, <2>3, <2>5
      <3>2. OneStarter' /\ ClosesOld' /\ StartsNew' BY <3>1 DEF OneStarter, ClosesOld, StartsNew
      <3>3. ClosesAll' BY <1>a DEF ClosesAll
      <3>4. OthersClosed' BY <1>0, <1>1, <3>0 DEF AloneInv, OthersClosed
      <3>5. Awaited' BY <1>0, <2>5 DEF Awaited
      <3>6. StatusInv' BY <1>1 DEF StatusInv
      <3>. QED BY <3>2, <3>3, <3>4, <3>5, <3>6 DEF AloneInv
    <2>. QED BY <2>1, <2>4, <2>5 DEF ServiceInv
  <1>2. CASE \E b \in fresh :
                /\ serviceStatus' = "STARTING"
                /\ instance' = b
                /\ fresh' = fresh \ {b}
                /\ starter' = [starter EXCEPT ![s] = [at |-> "starting", box |-> b, own |-> FALSE]]
                /\ BoxStarts(b)
    <2>1. PICK b \in fresh :
                /\ serviceStatus' = "STARTING"
                /\ instance' = b
                /\ fresh' = fresh \ {b}
                /\ starter' = [starter EXCEPT ![s] = [at |-> "starting", box |-> b, own |-> FALSE]]
                /\ BoxStarts(b)
      BY <1>2
    <2>2. b \in Boxes /\ starting[b].at = "none" /\ b # None
      BY CallFacts DEF ServiceInv, CallsOK, BoxCalls
    <2>3. /\ TypeOK' /\ BoxInv(b)' /\ \A c \in Boxes \ {b} : Untouched(c)
          /\ starting'[b].at = "next" /\ closing[b] = 0
      BY <1>0, <2>1, <2>2, BoxStartsKeeps DEF BoxesInv
    <2>4. BoxesInv' BY <2>2, <2>3, BoxesKept
    <2>5. \A c \in Boxes : c # b => starting'[c] = starting[c] BY <2>3 DEF Untouched
    <2> DEFINE call == [at |-> "starting", box |-> b, own |-> FALSE]
    <2>6. /\ call \in [at : {"idle", "checked", "closeOld", "starting"}, box : Boxes \cup {None}, own : BOOLEAN]
          /\ call.at = "starting" /\ call.box = b /\ starter' = [starter EXCEPT ![s] = call]
      BY <2>1, <2>2
    <2> HIDE DEF call
    <2>7. /\ starter'[s] = call /\ \A t \in Starters : t # s => starter'[t] = starter[t]
          /\ starter' \in [Starters -> [at : {"idle", "checked", "closeOld", "starting"}, box : Boxes \cup {None}, own : BOOLEAN]]
      BY <2>6, StarterMoves
    <2>8. starter'[s].at = "starting" /\ starter'[s].box = b BY <2>6, <2>7
    <2>9. /\ serviceStatus' = "STARTING" /\ instance' = b /\ fresh' = fresh \ {b} BY <2>1
    <2>10. CallsOK'
      <3>1. CallTypes' BY <2>2, <2>7, <2>9 DEF ServiceInv, CallsOK, CallTypes
      <3>2. OneCloser' BY <1>a DEF OneCloser
      <3>3. ASSUME NEW c \in Boxes, starting'[c].at \in {"next", "loop", "checked", "closing"}
            PROVE  \E t \in Starters : starter'[t].at = "starting" /\ starter'[t].box = c
        <4>1. CASE c = b BY <2>8, <4>1
        <4>2. CASE c # b BY <2>5, <2>7, <3>3, <4>2 DEF ServiceInv, CallsOK, BoxCalls
        <4>. QED BY <4>1, <4>2
      <3>4. ASSUME NEW t \in Starters, starter'[t].at # "idle"
            PROVE  starter'[t].box \in Boxes /\ starting'[starter'[t].box].at # "none"
        <4>1. CASE t = s BY <2>2, <2>3, <2>8, <4>1
        <4>2. CASE t # s
          <5>1. starter[t].box \in Boxes /\ starting[starter[t].box].at # "none" /\ starter'[t] = starter[t]
            BY <2>7, <3>4, <4>2 DEF ServiceInv, CallsOK, BoxCalls
          <5>. QED BY <2>2, <2>5, <5>1
        <4>. QED BY <4>1, <4>2
      <3>5. /\ instance' \notin fresh' /\ \A c \in fresh' : starting'[c].at = "none"
            /\ starting'[instance'].at # "none"
        BY <2>3, <2>5, <2>9, CallFacts DEF ServiceInv, CallsOK, BoxCalls
      <3>6. BoxCalls' BY <1>a, <3>3, <3>4, <3>5 DEF BoxCalls
      <3>. QED BY <3>1, <3>2, <3>6 DEF CallsOK
    <2>11. ASSUME ~crowded' PROVE AloneInv'
      <3>0. AloneInv BY <2>11 DEF ServiceInv
      <3>1. \A t \in Starters : t # s => starter'[t].at = "idle" BY <2>7, <2>11
      <3>2. OneStarter' BY <3>1 DEF OneStarter
      <3>3. ClosesOld' BY <2>8, <3>1 DEF ClosesOld
      <3>4. StartsNew' BY <2>8, <2>9, <3>1 DEF StartsNew
      <3>5. ClosesAll' BY <1>a DEF ClosesAll
      <3>6. OthersClosed'
        <4>1. ASSUME NEW c \in Boxes, starting'[c].at # "none", c # b PROVE closing'[c] # 0
          BY <1>0, <2>5, <2>11, <3>0, <4>1, CallFacts DEF AloneInv, OthersClosed, Unlocked
        <4>. QED BY <2>9, <4>1 DEF OthersClosed
      <3>7. Awaited' BY <1>0, <2>11 DEF Awaited
      <3>8. StatusInv'
        <4>1. closing'[b] = 0 BY <1>0, <2>3
        <4>. QED BY <2>2, <2>8, <2>9, <4>1 DEF StatusInv
      <3>. QED BY <3>2, <3>3, <3>4, <3>5, <3>6, <3>7, <3>8 DEF AloneInv
    <2>. QED BY <2>4, <2>10, <2>11 DEF ServiceInv
  <1>. QED BY <1>1, <1>2 DEF NewInstance

\* Where a caller of Close is after it has looked at done.
LEMMA CallIs ==
    ASSUME NEW b, NEW waiting
    PROVE  /\ CallClose(b, waiting) \in [at : {"checked", waiting}, box : {b}, own : BOOLEAN]
           /\ CallClose(b, waiting).box = b
           /\ CallClose(b, waiting).own <=> closing[b] = 0
           /\ CallClose(b, waiting).at = IF closing[b] = 0 THEN "checked" ELSE waiting
  <1> DEFINE own == closing[b] = 0
             at == IF own THEN "checked" ELSE waiting
  <1>1. own \in BOOLEAN /\ at \in {"checked", waiting} OBVIOUS
  <1>2. CallClose(b, waiting) = [at |-> at, box |-> b, own |-> own] BY DEF CallClose, FoundOpen
  <1>3. (own <=> closing[b] = 0) /\ at = IF closing[b] = 0 THEN "checked" ELSE waiting OBVIOUS
  <1> HIDE DEF own, at
  <1>. QED BY <1>1, <1>2, <1>3

\* StartOrReloadService calls Close of the old instance.
LEMMA CloseOldKeeps ==
    ASSUME BoxesInv, ServiceInv, NEW s \in Starters, StartOrReloadService(s), instance # None
    PROVE  BoxesInv' /\ ServiceInv'
  <1> DEFINE call == CallClose(instance, "closeOld")
  <1>0. /\ Unlocked /\ starter[s].at = "idle" /\ serviceStatus' = "STOPPING"
        /\ starter' = [starter EXCEPT ![s] = call]
        /\ UNCHANGED <<config, manager, item, starting, closing, overlap, faulty, instance, fresh, closer>>
        /\ crowded' = (crowded \/ \E t \in Starters : starter[t].at # "idle")
    BY DEF StartOrReloadService, CloseOld
  <1>1. PICK i \in Boxes : i = instance BY CallFacts
  <1>2. /\ call \in [at : {"idle", "checked", "closeOld", "starting"}, box : Boxes \cup {None}, own : BOOLEAN]
        /\ call.at = (IF closing[i] = 0 THEN "checked" ELSE "closeOld")
        /\ call.box = i /\ (call.own <=> closing[i] = 0)
    <2>1. /\ call \in [at : {"checked", "closeOld"}, box : {i}, own : BOOLEAN]
          /\ call.box = i /\ (call.own <=> closing[i] = 0)
          /\ call.at = IF closing[i] = 0 THEN "checked" ELSE "closeOld"
      BY <1>1, CallIs
    <2> HIDE DEF call
    <2>. QED BY <2>1
  <1> HIDE DEF call
  <1>3. /\ starter'[s] = call /\ \A t \in Starters : t # s => starter'[t] = starter[t]
        /\ starter' \in [Starters -> [at : {"idle", "checked", "closeOld", "starting"}, box : Boxes \cup {None}, own : BOOLEAN]]
    BY <1>0, <1>2, StarterMoves
  <1>4. starting[i].at # "none" BY <1>1 DEF ServiceInv, CallsOK, BoxCalls
  <1>6. BoxesInv' BY <1>0, NoBoxMoves DEF boxVars
  <1>8. /\ starter'[s].at = (IF closing[i] = 0 THEN "checked" ELSE "closeOld")
        /\ starter'[s].box = i /\ (starter'[s].own <=> closing[i] = 0)
    BY <1>2, <1>3
  <1>9. CallsOK'
    <2>1. crowded' \in BOOLEAN BY <1>0 DEF ServiceInv, CallsOK, CallTypes
    <2>2. CallTypes' BY <1>0, <1>3, <2>1 DEF ServiceInv, CallsOK, CallTypes
    <2>3. OneCloser' BY <1>0 DEF ServiceInv, CallsOK, OneCloser
    <2>4. ASSUME NEW c \in Boxes, starting[c].at \in {"next", "loop", "checked", "closing"}
          PROVE  \E t \in Starters : starter'[t].at = "starting" /\ starter'[t].box = c
      <3>1. PICK t \in Starters : starter[t].at = "starting" /\ starter[t].box = c
        BY <2>4 DEF ServiceInv, CallsOK, BoxCalls
      <3>2. t # s BY <1>0, <3>1
      <3>. QED BY <1>3, <3>1, <3>2
    <2>5. ASSUME NEW t \in Starters, starter'[t].at # "idle"
          PROVE  starter'[t].box \in Boxes /\ starting[starter'[t].box].at # "none"
      <3>1. CASE t = s BY <1>4, <1>8, <3>1
      <3>2. CASE t # s BY <1>3, <2>5, <3>2 DEF ServiceInv, CallsOK, BoxCalls
      <3>. QED BY <3>1, <3>2
    <2>6. BoxCalls' BY <1>0, <2>4, <2>5 DEF ServiceInv, CallsOK, BoxCalls
    <2>. QED BY <2>2, <2>3, <2>6 DEF CallsOK
  <1>10. ASSUME ~crowded' PROVE AloneInv'
    <2>0. AloneInv /\ \A t \in Starters : starter[t].at = "idle" BY <1>0, <1>10 DEF ServiceInv
    <2>1. \A t \in Starters : t # s => starter'[t].at = "idle" BY <1>3, <2>0
    <2>2. OneStarter' /\ StartsNew' BY <1>8, <2>1 DEF OneStarter, StartsNew
    <2>3. \A k \in Closers : closer[k].at = "idle" BY <1>0 DEF Unlocked
    <2>4. ClosesAll' BY <1>0, <2>3 DEF ClosesAll
    <2>5. \A c \in Boxes : closing[c] \in {0, Finished} \/ overlap[c]
      BY <2>0, <2>3 DEF AloneInv, Awaited, AwaitedBy
    <2>7. ClosesOld' BY <1>0, <1>1, <1>8, <2>1, <2>5, SameConfig DEF ClosesOld
    <2>8. OthersClosed' BY <1>0, <2>0 DEF AloneInv, OthersClosed
    <2>9. Awaited' BY <1>0, <2>5, SameConfig DEF Awaited
    <2>10. StatusInv' BY <1>0 DEF StatusInv
    <2>. QED BY <2>2, <2>4, <2>7, <2>8, <2>9, <2>10 DEF AloneInv
  <1>. QED BY <1>6, <1>9, <1>10 DEF ServiceInv

\* A reload closes done of the old instance.
LEMMA OldClosesKeeps ==
    ASSUME BoxesInv, ServiceInv, NEW s \in Starters, OldCloses(s)
    PROVE  BoxesInv' /\ ServiceInv'
  <1> DEFINE call == [starter[s] EXCEPT !.at = "closeOld"]
  <1>0. /\ starter[s].at = "checked" /\ CloseBegins(starter[s].box)
        /\ starter' = [starter EXCEPT ![s].at = "closeOld"]
        /\ UNCHANGED <<config, manager, item, starting, faulty>>
        /\ UNCHANGED <<serviceStatus, instance, fresh, closer, crowded>>
    BY DEF OldCloses
  <1>1. PICK i \in Boxes : i = starter[s].box /\ starting[i].at # "none"
    BY <1>0 DEF ServiceInv, CallsOK, BoxCalls
  <1>2. /\ call \in [at : {"idle", "checked", "closeOld", "starting"}, box : Boxes \cup {None}, own : BOOLEAN]
        /\ call.at = "closeOld" /\ call.box = i /\ (call.own <=> starter[s].own)
        /\ starter' = [starter EXCEPT ![s] = call]
    BY <1>0, <1>1 DEF ServiceInv, CallsOK, CallTypes
  <1> HIDE DEF call
  <1>3. /\ starter'[s] = call /\ \A t \in Starters : t # s => starter'[t] = starter[t]
        /\ starter' \in [Starters -> [at : {"idle", "checked", "closeOld", "starting"}, box : Boxes \cup {None}, own : BOOLEAN]]
    BY <1>2, StarterMoves
  <1>4. starter'[s].at = "closeOld" /\ starter'[s].box = i /\ (starter'[s].own <=> starter[s].own) BY <1>2, <1>3
  <1>5. /\ TypeOK' /\ BoxInv(i)' /\ \A c \in Boxes \ {i} : Untouched(c)
        /\ closing[i] = 0 /\ closing'[i] \in 1 .. 11
    BY <1>0, <1>1, CloseBeginsKeeps DEF BoxesInv
  <1>6. BoxesInv' BY <1>0, <1>5, BoxesKept
  <1>7. closing'[i] # 0 /\ \A c \in Boxes : c # i => closing'[c] = closing[c] /\ overlap'[c] = overlap[c]
    BY <1>5 DEF Untouched
  <1>8. CallsOK'
    <2>1. CallTypes' BY <1>0, <1>3 DEF ServiceInv, CallsOK, CallTypes
    <2>2. OneCloser' BY <1>0 DEF ServiceInv, CallsOK, OneCloser
    <2>3. ASSUME NEW c \in Boxes, starting[c].at \in {"next", "loop", "checked", "closing"}
          PROVE  \E t \in Starters : starter'[t].at = "starting" /\ starter'[t].box = c
      <3>1. PICK t \in Starters : starter[t].at = "starting" /\ starter[t].box = c
        BY <2>3 DEF ServiceInv, CallsOK, BoxCalls
      <3>2. t # s BY <1>0, <3>1
      <3>. QED BY <1>3, <3>1, <3>2
    <2>4. ASSUME NEW t \in Starters, starter'[t].at # "idle"
          PROVE  starter'[t].box \in Boxes /\ starting[starter'[t].box].at # "none"
      <3>1. CASE t = s BY <1>1, <1>4, <3>1
      <3>2. CASE t # s BY <1>3, <2>4, <3>2 DEF ServiceInv, CallsOK, BoxCalls
      <3>. QED BY <3>1, <3>2
    <2>5. BoxCalls' BY <1>0, <2>3, <2>4 DEF ServiceInv, CallsOK, BoxCalls
    <2>. QED BY <2>1, <2>2, <2>5 DEF CallsOK
  <1>9. ASSUME ~crowded PROVE AloneInv'
    <2>0. AloneInv BY <1>9 DEF ServiceInv
    <2>1. \A t \in Starters : t # s => starter'[t].at = "idle" BY <1>0, <1>3, <2>0 DEF AloneInv, OneStarter
    <2>2. OneStarter' /\ StartsNew' BY <1>4, <2>1 DEF OneStarter, StartsNew
    <2>3. i = instance /\ starter[s].own /\ serviceStatus \in {"STOPPING", "FATAL"}
      BY <1>0, <1>1, <2>0 DEF AloneInv, ClosesOld
    <2>4. ClosesOld' BY <1>0, <1>4, <1>7, <2>1, <2>3 DEF ClosesOld
    <2>5. \A k \in Closers : closer[k].at = "idle" BY <2>0, <2>3, CallFacts DEF AloneInv, ClosesAll
    <2>6. ClosesAll' BY <1>0, <2>5 DEF ClosesAll
    <2>7. OthersClosed' BY <1>0, <1>7, <2>0, <2>3 DEF AloneInv, OthersClosed
    <2>8. Awaited'
      <3> SUFFICES ASSUME NEW c \in Boxes, closing'[c] \notin {0, Finished}, ~overlap'[c] PROVE AwaitedBy(c)'
        BY DEF Awaited
      <3>1. CASE c = i BY <1>4, <3>1 DEF AwaitedBy
      <3>2. CASE c # i
        <4>1. AwaitedBy(c) BY <1>7, <2>0, <3>2 DEF AloneInv, Awaited
        <4>2. PICK t \in Starters : /\ starter[t].box = c
                                    /\ starter[t].at = "closeOld" \/ starter[t].at = "starting"
          BY <2>5, <4>1 DEF AwaitedBy
        <4>. QED BY <1>0, <2>0, <4>2 DEF AloneInv, OneStarter
      <3>. QED BY <3>1, <3>2
    <2>9. StatusInv' BY <1>0, <2>3 DEF StatusInv
    <2>. QED BY <2>2, <2>4, <2>6, <2>7, <2>8, <2>9 DEF AloneInv
  <1>. QED BY <1>0, <1>6, <1>8, <1>9 DEF ServiceInv

\* Every call of StartOrReloadService.
LEMMA StartOrReloadKeeps ==
    ASSUME BoxesInv, ServiceInv, NEW s \in Starters, StartOrReloadService(s)
    PROVE  BoxesInv' /\ ServiceInv'
  <1>1. CASE instance # None BY <1>1, CloseOldKeeps
  <1>2. CASE instance = None
    <2>1. /\ Unlocked /\ starter[s].at = "idle" /\ NewInstance(s)
          /\ UNCHANGED <<config, manager, item, closing, overlap, faulty, closer>>
          /\ crowded' = (crowded \/ \E t \in Starters : starter[t].at # "idle")
      BY <1>2 DEF StartOrReloadService, CloseOld
    <2>2. crowded' \in BOOLEAN BY <2>1 DEF ServiceInv, CallsOK, CallTypes
    <2>3. ASSUME ~crowded'
          PROVE  /\ ~crowded
                 /\ \A t \in Starters : t # s => starter[t].at = "idle"
                 /\ \A c \in Boxes : closing[c] \in {0, Finished} \/ overlap[c]
      <3>1. ~crowded /\ \A t \in Starters : starter[t].at = "idle" BY <2>1, <2>3
      <3>2. Awaited BY <3>1 DEF ServiceInv, AloneInv
      <3>3. \A k \in Closers : closer[k].at = "idle" BY <2>1 DEF Unlocked
      <3>4. \A c \in Boxes : closing[c] \in {0, Finished} \/ overlap[c]
        BY <3>1, <3>2, <3>3 DEF Awaited, AwaitedBy
      <3>. QED BY <3>1, <3>4
    <2>. QED BY <1>2, <2>1, <2>2, <2>3, NewInstanceKeeps
  <1>. QED BY <1>1, <1>2

\* The old instance has been closed.
LEMMA OldClosedKeeps ==
    ASSUME BoxesInv, ServiceInv, NEW s \in Starters, OldClosed(s)
    PROVE  BoxesInv' /\ ServiceInv'
  <1>1. /\ Unlocked /\ starter[s].at = "closeOld" /\ Closed(starter[s]) /\ NewInstance(s)
        /\ UNCHANGED <<config, manager, item, closing, overlap, faulty, closer, crowded>>
    BY DEF OldClosed
  <1>2. crowded' \in BOOLEAN BY <1>1 DEF ServiceInv, CallsOK, CallTypes
  <1>3. ASSUME ~crowded
        PROVE  /\ \A t \in Starters : t # s => starter[t].at = "idle"
               /\ \A c \in Boxes : closing[c] \in {0, Finished} \/ overlap[c]
               /\ closing[instance] # 0
    <2>0. OneStarter /\ ClosesOld /\ Awaited BY <1>3 DEF ServiceInv, AloneInv
    <2>1. \A t \in Starters : t # s => starter[t].at = "idle" BY <1>1, <2>0 DEF OneStarter
    <2>2. starter[s].box = instance /\ closing[instance] # 0 /\ instance \in Boxes
      BY <1>1, <2>0, CallFacts DEF ClosesOld, ServiceInv, CallsOK, BoxCalls
    <2>3. closing[instance] = Finished \/ overlap[instance]
      <3>1. CASE starter[s].own BY <1>1, <2>2, <3>1 DEF Closed
      <3>2. CASE ~starter[s].own BY <1>1, <2>0, <3>2 DEF ClosesOld
      <3>. QED BY <3>1, <3>2
    <2>4. \A k \in Closers : closer[k].at = "idle" BY <1>1 DEF Unlocked
    <2>5. \A c \in Boxes : c # instance => ~AwaitedBy(c) BY <1>1, <2>1, <2>2, <2>4 DEF AwaitedBy
    <2>6. \A c \in Boxes : closing[c] \in {0, Finished} \/ overlap[c] BY <2>0, <2>3, <2>5 DEF Awaited
    <2>. QED BY <2>1, <2>2, <2>6
  <1>. QED BY <1>1, <1>2, <1>3, NewInstanceKeeps

\* Start has returned.
LEMMA StartReturnsKeeps ==
    ASSUME BoxesInv, ServiceInv, NEW s \in Starters, StartReturns(s)
    PROVE  BoxesInv' /\ ServiceInv'
  <1>1. /\ Unlocked /\ starter[s].at = "starting" /\ starting[starter[s].box].at \in {"ok", "failed"}
        /\ starter' = [starter EXCEPT ![s] = NoCall]
        /\ UNCHANGED <<config, manager, item, starting, closing, overlap, faulty, instance, fresh, closer, crowded>>
    BY DEF StartReturns, boxVars
  <1>2. /\ serviceStatus # "STARTING" => serviceStatus' = serviceStatus
        /\ serviceStatus = "STARTING" /\ starting[starter[s].box].at = "ok" => serviceStatus' = "STARTED"
        /\ serviceStatus = "STARTING" /\ starting[starter[s].box].at # "ok" => serviceStatus' = "FATAL"
    BY DEF StartReturns, StillStarting
  <1>3. BoxesInv' /\ \A b \in Boxes : Running(b)' = Running(b) BY <1>1, NoBoxMoves DEF boxVars
  <1>4. /\ starter'[s] = NoCall /\ \A t \in Starters : t # s => starter'[t] = starter[t]
        /\ starter' \in [Starters -> [at : {"idle", "checked", "closeOld", "starting"}, box : Boxes \cup {None}, own : BOOLEAN]]
    BY <1>1, CallFacts, StarterMoves
  <1>5. starter'[s].at = "idle" BY <1>4, CallFacts
  <1>6. CallsOK'
    <2>1. serviceStatus' \in {"IDLE", "STARTING", "STARTED", "STOPPING", "FATAL"}
      BY <1>2 DEF ServiceInv, CallsOK, CallTypes
    <2>2. CallTypes' BY <1>1, <1>4, <2>1 DEF ServiceInv, CallsOK, CallTypes
    <2>3. OneCloser' BY <1>1 DEF ServiceInv, CallsOK, OneCloser
    <2>4. ASSUME NEW c \in Boxes, starting[c].at \in {"next", "loop", "checked", "closing"}
          PROVE  \E t \in Starters : starter'[t].at = "starting" /\ starter'[t].box = c
      <3>1. PICK t \in Starters : starter[t].at = "starting" /\ starter[t].box = c
        BY <2>4 DEF ServiceInv, CallsOK, BoxCalls
      <3>2. t # s BY <1>1, <2>4, <3>1
      <3>. QED BY <1>4, <3>1, <3>2
    <2>5. ASSUME NEW t \in Starters, starter'[t].at # "idle"
          PROVE  starter'[t].box \in Boxes /\ starting[starter'[t].box].at # "none"
      BY <1>4, <1>5, <2>5 DEF ServiceInv, CallsOK, BoxCalls
    <2>6. BoxCalls' BY <1>1, <2>4, <2>5 DEF ServiceInv, CallsOK, BoxCalls
    <2>. QED BY <2>2, <2>3, <2>6 DEF CallsOK
  <1>7. ASSUME ~crowded PROVE AloneInv'
    <2>0. AloneInv BY <1>7 DEF ServiceInv
    <2>1. \A t \in Starters : t # s => starter[t].at = "idle" BY <1>1, <2>0 DEF AloneInv, OneStarter
    <2>2. \A t \in Starters : starter'[t].at = "idle" BY <1>4, <1>5, <2>1
    <2>3. OneStarter' /\ ClosesOld' /\ StartsNew' BY <2>2 DEF OneStarter, ClosesOld, StartsNew
    <2>4. \A k \in Closers : closer[k].at = "idle" BY <1>1 DEF Unlocked
    <2>5. ClosesAll' BY <1>1, <2>4 DEF ClosesAll
    <2>6. OthersClosed' BY <1>1, <2>0 DEF AloneInv, OthersClosed
    <2>7. Awaited'
      <3>1. \A c \in Boxes : ~AwaitedBy(c) BY <1>1, <2>1, <2>4 DEF AwaitedBy
      <3>. QED BY <1>1, <2>0, <3>1, SameConfig DEF AloneInv, Awaited
    <2>8. StatusInv'
      <3>1. CASE serviceStatus = "STARTING"
        <4>1. PICK t \in Starters : starter[t].at = "starting" /\ starter[t].box = instance
          BY <2>0, <3>1 DEF AloneInv, StatusInv
        <4>2. starter[s].box = instance BY <2>1, <4>1
        <4>3. /\ instance # None
              /\ starting[instance].at \in {"next", "loop", "checked", "ok"} => closing[instance] = 0
          BY <2>0, <3>1 DEF AloneInv, StatusInv
        <4>. QED BY <1>1, <1>2, <2>2, <3>1, <4>2, <4>3 DEF StatusInv
      <3>2. CASE serviceStatus # "STARTING"
        <4>1. Unlocked' = Unlocked BY <1>1 DEF Unlocked
        <4>2. serviceStatus' = serviceStatus BY <1>2, <3>2
        <4>. QED BY <1>1, <1>3, <2>0, <2>2, <3>2, <4>1, <4>2 DEF AloneInv, StatusInv
      <3>. QED BY <3>1, <3>2
    <2>. QED BY <2>3, <2>5, <2>6, <2>7, <2>8 DEF AloneInv
  <1>. QED BY <1>1, <1>3, <1>6, <1>7 DEF ServiceInv

\* CloseService takes the lock and calls Close of the instance.
LEMMA CloseServiceKeeps ==
    ASSUME BoxesInv, ServiceInv, NEW k \in Closers, CloseService(k)
    PROVE  BoxesInv' /\ ServiceInv'
  <1> DEFINE call == IF instance = None THEN [NoCall EXCEPT !.at = "closing"] ELSE CallClose(instance, "closing")
  <1>1. /\ Unlocked /\ serviceStatus \in {"STARTING", "STARTED"} /\ serviceStatus' = "STOPPING"
        /\ instance' = None /\ closer' = [closer EXCEPT ![k] = call]
        /\ UNCHANGED <<config, manager, item, starting, closing, overlap, faulty, fresh, starter, crowded>>
    BY DEF CloseService, boxVars
  <1>2. call \in [at : {"idle", "checked", "closing"}, box : Boxes \cup {None}, own : BOOLEAN]
    <2>1. CASE instance = None BY <2>1 DEF NoCall
    <2>2. CASE instance # None
      <3>1. call \in [at : {"checked", "closing"}, box : {instance}, own : BOOLEAN] BY <2>2, CallIs
      <3>2. instance \in Boxes BY <2>2, CallFacts
      <3> HIDE DEF call
      <3>. QED BY <3>1, <3>2
    <2>. QED BY <2>1, <2>2
  <1>b. instance # None => /\ call.box = instance /\ (call.own <=> closing[instance] = 0)
                           /\ call.at = IF closing[instance] = 0 THEN "checked" ELSE "closing"
    BY CallIs
  <1> HIDE DEF call
  <1>3. /\ closer'[k] = call /\ \A l \in Closers : l # k => closer'[l] = closer[l]
        /\ closer' \in [Closers -> [at : {"idle", "checked", "closing"}, box : Boxes \cup {None}, own : BOOLEAN]]
    BY <1>1, <1>2, CloserMoves
  <1>4. \A l \in Closers : l # k => closer'[l].at = "idle" BY <1>1, <1>3 DEF Unlocked
  <1>5. CallsOK'
    <2>1. CallTypes' BY <1>1, <1>3 DEF ServiceInv, CallsOK, CallTypes
    <2>2. OneCloser' BY <1>4 DEF OneCloser
    <2>3. instance' \notin fresh BY <1>1, CallFacts
    <2>5. closer'[k].at = "checked" => closer'[k].box \in Boxes /\ starting[closer'[k].box].at # "none"
      <3>1. CASE instance = None
        <4>1. call.at = "closing" BY <3>1 DEF call, NoCall
        <4>. QED BY <1>3, <4>1
      <3>2. CASE instance # None BY <1>3, <1>b, <3>2, CallFacts DEF ServiceInv, CallsOK, BoxCalls
      <3>. QED BY <3>1, <3>2
    <2>4. BoxCalls' BY <1>1, <1>4, <2>3, <2>5 DEF ServiceInv, CallsOK, BoxCalls
    <2>. QED BY <2>1, <2>2, <2>4 DEF CallsOK
  <1>6. BoxesInv' BY <1>1, NoBoxMoves DEF boxVars
  <1>7. ASSUME ~crowded PROVE AloneInv'
    <2>0. AloneInv BY <1>7 DEF ServiceInv
    <2>1. PICK i \in Boxes : i = instance /\ instance # None
      BY <1>1, <2>0, CallFacts DEF AloneInv, StatusInv
    <2>2. /\ closer'[k].box = i /\ (closer'[k].own <=> closing[i] = 0)
          /\ closer'[k].at = IF closing[i] = 0 THEN "checked" ELSE "closing"
      BY <1>3, <1>b, <2>1
    <2>4. OneStarter' /\ StartsNew' BY <1>1, <2>0 DEF AloneInv, OneStarter, StartsNew
    <2>5. \A s \in Starters : starter[s].at \notin {"checked", "closeOld"} BY <1>1, <2>0 DEF AloneInv, ClosesOld
    <2>6. ClosesOld' BY <1>1, <2>5 DEF ClosesOld
    <2>7. \A s \in Starters : starter[s].at # "idle" => starter[s].box = i
      <3>1. CASE serviceStatus = "STARTED" BY <2>0, <3>1 DEF AloneInv, StatusInv
      <3>2. CASE serviceStatus = "STARTING"
        <4>1. PICK t \in Starters : starter[t].at = "starting" /\ starter[t].box = instance
          BY <2>0, <3>2 DEF AloneInv, StatusInv
        <4>. QED BY <2>0, <2>1, <4>1 DEF AloneInv, OneStarter
      <3>. QED BY <1>1, <3>1, <3>2
    <2>8. ClosesAll' BY <1>1, <1>4, <2>2, <2>7 DEF ClosesAll
    <2>9. OthersClosed'
      <3> SUFFICES ASSUME NEW c \in Boxes, starting[c].at # "none", closing[c] = 0
                   PROVE  \E l \in Closers : closer'[l].at = "checked" /\ closer'[l].box = c
        BY <1>1 DEF OthersClosed
      <3>1. c = i BY <1>1, <2>0, <2>1 DEF AloneInv, OthersClosed, Unlocked
      <3>. QED BY <2>2, <3>1
    <2>10. Awaited'
      <3> SUFFICES ASSUME NEW c \in Boxes, closing[c] \notin {0, Finished}, ~overlap[c] PROVE AwaitedBy(c)'
        BY <1>1, SameConfig DEF Awaited
      <3>1. AwaitedBy(c) BY <2>0 DEF AloneInv, Awaited
      <3>. QED BY <1>1, <3>1 DEF AwaitedBy, Unlocked
    <2>11. StatusInv' BY <1>1 DEF StatusInv
    <2>. QED BY <2>4, <2>6, <2>8, <2>9, <2>10, <2>11 DEF AloneInv
  <1>. QED BY <1>1, <1>5, <1>6, <1>7 DEF ServiceInv

\* CloseService closes done of the instance.
LEMMA ServiceClosesKeeps ==
    ASSUME BoxesInv, ServiceInv, NEW k \in Closers, ServiceCloses(k)
    PROVE  BoxesInv' /\ ServiceInv'
  <1> DEFINE call == [closer[k] EXCEPT !.at = "closing"]
  <1>0. /\ closer[k].at = "checked" /\ CloseBegins(closer[k].box)
        /\ closer' = [closer EXCEPT ![k].at = "closing"]
        /\ UNCHANGED <<config, manager, item, starting, faulty>>
        /\ UNCHANGED <<serviceStatus, instance, fresh, starter, crowded>>
    BY DEF ServiceCloses
  <1>1. PICK i \in Boxes : i = closer[k].box /\ starting[i].at # "none"
    BY <1>0 DEF ServiceInv, CallsOK, BoxCalls
  <1>2. /\ call \in [at : {"idle", "checked", "closing"}, box : Boxes \cup {None}, own : BOOLEAN]
        /\ call.at = "closing" /\ call.box = i /\ (call.own <=> closer[k].own)
        /\ closer' = [closer EXCEPT ![k] = call]
    BY <1>0, <1>1 DEF ServiceInv, CallsOK, CallTypes
  <1> HIDE DEF call
  <1>3. /\ closer'[k] = call /\ \A l \in Closers : l # k => closer'[l] = closer[l]
        /\ closer' \in [Closers -> [at : {"idle", "checked", "closing"}, box : Boxes \cup {None}, own : BOOLEAN]]
    BY <1>2, CloserMoves
  <1>4. closer'[k].at = "closing" /\ closer'[k].box = i /\ (closer'[k].own <=> closer[k].own) BY <1>2, <1>3
  <1>5. /\ TypeOK' /\ BoxInv(i)' /\ \A c \in Boxes \ {i} : Untouched(c)
        /\ closing[i] = 0 /\ closing'[i] \in 1 .. 11
    BY <1>0, <1>1, CloseBeginsKeeps DEF BoxesInv
  <1>6. BoxesInv' BY <1>0, <1>5, BoxesKept
  <1>7. closing'[i] # 0 /\ \A c \in Boxes : c # i => closing'[c] = closing[c] /\ overlap'[c] = overlap[c]
    BY <1>5 DEF Untouched
  <1>8. \A l \in Closers : l # k => closer'[l].at = "idle" /\ closer[l].at = "idle"
    BY <1>0, <1>3 DEF ServiceInv, CallsOK, OneCloser
  <1>9. CallsOK'
    <2>1. CallTypes' BY <1>0, <1>3 DEF ServiceInv, CallsOK, CallTypes
    <2>2. OneCloser' BY <1>8 DEF OneCloser
    <2>3. BoxCalls' BY <1>0, <1>4, <1>8 DEF ServiceInv, CallsOK, BoxCalls
    <2>. QED BY <2>1, <2>2, <2>3 DEF CallsOK
  <1>10. ASSUME ~crowded PROVE AloneInv'
    <2>0. AloneInv BY <1>10 DEF ServiceInv
    <2>1. /\ instance = None /\ serviceStatus = "STOPPING" /\ closer[k].own
          /\ \A s \in Starters : starter[s].at # "idle" => starter[s].box = i
      BY <1>0, <1>1, <2>0 DEF AloneInv, ClosesAll
    <2>2. \A s \in Starters : starter[s].at \notin {"checked", "closeOld"}
      BY <2>0, <2>1, CallFacts DEF AloneInv, ClosesOld, ServiceInv, CallsOK, BoxCalls
    <2>3. OneStarter' /\ StartsNew' /\ ClosesOld'
      BY <1>0, <2>0, <2>2 DEF AloneInv, OneStarter, StartsNew, ClosesOld
    <2>4. ClosesAll' BY <1>0, <1>1, <1>4, <1>7, <1>8, <2>1 DEF ClosesAll
    <2>5. OthersClosed'
      <3> SUFFICES ASSUME NEW c \in Boxes, starting[c].at # "none", c # instance PROVE closing'[c] # 0
        BY <1>0 DEF OthersClosed
      <3>1. CASE c = i BY <1>7, <3>1
      <3>2. CASE c # i BY <1>1, <1>7, <1>8, <2>0, <3>2 DEF AloneInv, OthersClosed
      <3>. QED BY <3>1, <3>2
    <2>6. Awaited'
      <3> SUFFICES ASSUME NEW c \in Boxes, closing'[c] \notin {0, Finished}, ~overlap'[c] PROVE AwaitedBy(c)'
        BY DEF Awaited
      <3>1. CASE c = i BY <1>4, <2>1, <3>1 DEF AwaitedBy
      <3>2. CASE c # i
        <4>1. AwaitedBy(c) BY <1>7, <2>0, <3>2 DEF AloneInv, Awaited
        <4>. QED BY <1>0, <1>1, <1>8, <2>1, <3>2, <4>1 DEF AwaitedBy
      <3>. QED BY <3>1, <3>2
    <2>7. StatusInv' BY <1>0, <2>1 DEF StatusInv
    <2>. QED BY <2>3, <2>4, <2>5, <2>6, <2>7 DEF AloneInv
  <1>. QED BY <1>0, <1>6, <1>9, <1>10 DEF ServiceInv

\* CloseService has closed the instance and lets go of the lock.
LEMMA ServiceClosedKeeps ==
    ASSUME BoxesInv, ServiceInv, NEW k \in Closers, ServiceClosed(k)
    PROVE  BoxesInv' /\ ServiceInv'
  <1>1. /\ closer[k].at = "closing" /\ Closed(closer[k])
        /\ closer' = [closer EXCEPT ![k] = NoCall]
        /\ UNCHANGED <<config, manager, item, starting, closing, overlap, faulty, instance, fresh, starter, crowded>>
    BY DEF ServiceClosed, boxVars
  <1>2. /\ serviceStatus' \in {"IDLE", "FATAL"}
        /\ serviceStatus' = "IDLE" => closer[k].own \/ closer[k].box = None
    BY DEF ServiceClosed
  <1>3. BoxesInv' /\ \A b \in Boxes : Running(b)' = Running(b) BY <1>1, NoBoxMoves DEF boxVars
  <1>4. /\ closer'[k] = NoCall /\ \A l \in Closers : l # k => closer'[l] = closer[l]
        /\ closer' \in [Closers -> [at : {"idle", "checked", "closing"}, box : Boxes \cup {None}, own : BOOLEAN]]
    BY <1>1, CallFacts, CloserMoves
  <1>5. \A l \in Closers : closer'[l].at = "idle"
    <2>1. \A l \in Closers : l # k => closer[l].at = "idle" BY <1>1 DEF ServiceInv, CallsOK, OneCloser
    <2>. QED BY <1>4, <2>1, CallFacts
  <1>6. CallsOK'
    <2>1. CallTypes' BY <1>1, <1>2, <1>4 DEF ServiceInv, CallsOK, CallTypes
    <2>2. OneCloser' BY <1>5 DEF OneCloser
    <2>3. BoxCalls' BY <1>1, <1>5 DEF ServiceInv, CallsOK, BoxCalls
    <2>. QED BY <2>1, <2>2, <2>3 DEF CallsOK
  <1>7. ASSUME ~crowded PROVE AloneInv'
    <2>0. AloneInv BY <1>7 DEF ServiceInv
    <2>1. /\ instance = None /\ closer[k].box \in Boxes
          /\ \A s \in Starters : starter[s].at # "idle" => starter[s].box = closer[k].box
      BY <1>1, <2>0 DEF AloneInv, ClosesAll
    <2>2. \A s \in Starters : starter[s].at \notin {"checked", "closeOld"}
      BY <2>0, <2>1, CallFacts DEF AloneInv, ClosesOld, ServiceInv, CallsOK, BoxCalls
    <2>3. OneStarter' /\ StartsNew' /\ ClosesOld'
      BY <1>1, <2>0, <2>2 DEF AloneInv, OneStarter, StartsNew, ClosesOld
    <2>4. ClosesAll' BY <1>5 DEF ClosesAll
    <2>6. \A l \in Closers : closer[l].at # "idle" => l = k BY <1>1 DEF ServiceInv, CallsOK, OneCloser
    <2>5. OthersClosed'
      <3>1. \A l \in Closers : closer[l].at # "checked" BY <1>1, <2>6
      <3>. QED BY <1>1, <2>0, <3>1 DEF AloneInv, OthersClosed
    <2>7. closer[k].own => closing[closer[k].box] = Finished BY <1>1 DEF Closed
    <2>8. Awaited'
      <3> SUFFICES ASSUME NEW c \in Boxes, closing'[c] \notin {0, Finished}, ~overlap'[c] PROVE AwaitedBy(c)'
        BY DEF Awaited
      <3>1. closing[c] \notin {0, Finished} /\ ~overlap[c] BY <1>1
      <3>2. AwaitedBy(c) BY <2>0, <3>1 DEF AloneInv, Awaited
      <3>. QED BY <1>1, <2>6, <2>7, <3>1, <3>2 DEF AwaitedBy
    <2>9. StatusInv'
      <3>1. ASSUME serviceStatus' = "IDLE", NEW b \in Boxes, Running(b), ~overlap[b] PROVE FALSE
        <4>1. closing[closer[k].box] = Finished BY <1>2, <2>1, <2>7, <3>1, CallFacts
        <4>2. starting[b].at # "none" /\ closing[b] # Finished BY <3>1, BoxFacts
        <4>3. b # instance BY <2>1, CallFacts
        <4>4. closing[b] # 0 BY <1>1, <2>0, <2>6, <4>2, <4>3 DEF AloneInv, OthersClosed
        <4>5. AwaitedBy(b) BY <2>0, <3>1, <4>2, <4>4 DEF AloneInv, Awaited
        <4>6. b # closer[k].box BY <4>1, <4>2
        <4>. QED BY <2>1, <2>6, <4>5, <4>6 DEF AwaitedBy
      <3>2. Unlocked' BY <1>5 DEF Unlocked
      <3>. QED BY <1>1, <1>2, <1>3, <2>1, <3>1, <3>2 DEF StatusInv
    <2>. QED BY <2>3, <2>4, <2>5, <2>8, <2>9 DEF AloneInv
  <1>. QED BY <1>1, <1>3, <1>6, <1>7 DEF ServiceInv

\* The platform reports an error.
LEMMA SetErrorKeeps ==
    ASSUME BoxesInv, ServiceInv, SetError
    PROVE  BoxesInv' /\ ServiceInv'
  <1>1. /\ Unlocked /\ serviceStatus' = "FATAL"
        /\ UNCHANGED <<config, manager, item, starting, closing, overlap, faulty, instance, fresh, starter,
                       closer, crowded>>
    BY DEF SetError, boxVars
  <1>2. BoxesInv' BY <1>1, NoBoxMoves DEF boxVars
  <1>3. CallsOK' BY <1>1 DEF ServiceInv, CallsOK, CallTypes, OneCloser, BoxCalls
  <1>4. ASSUME ~crowded PROVE AloneInv'
    <2>0. AloneInv BY <1>4 DEF ServiceInv
    <2>1. OneStarter' /\ StartsNew' /\ ClosesOld' BY <1>1, <2>0 DEF AloneInv, OneStarter, StartsNew, ClosesOld
    <2>2. ClosesAll' BY <1>1 DEF ClosesAll, Unlocked
    <2>3. OthersClosed' BY <1>1, <2>0 DEF AloneInv, OthersClosed
    <2>4. Awaited' BY <1>1, <2>0 DEF AloneInv, Awaited, AwaitedBy
    <2>5. StatusInv' BY <1>1 DEF StatusInv
    <2>. QED BY <2>1, <2>2, <2>3, <2>4, <2>5 DEF AloneInv
  <1>. QED BY <1>1, <1>2, <1>3, <1>4 DEF ServiceInv

\* Nothing happens, or the program panics.
LEMMA StutterKeeps ==
    ASSUME BoxesInv, ServiceInv,
           UNCHANGED <<config, boxVars, serviceStatus, instance, fresh, starter, closer, crowded>>
    PROVE  BoxesInv' /\ ServiceInv'
  <1>1. UNCHANGED <<config, manager, item, starting, closing, overlap, faulty, serviceStatus, instance, fresh,
                    starter, closer, crowded>>
    BY DEF boxVars
  <1>2. BoxesInv' /\ \A b \in Boxes : Running(b)' = Running(b) BY <1>1, NoBoxMoves DEF boxVars
  <1>3. CallsOK' BY <1>1 DEF ServiceInv, CallsOK, CallTypes, OneCloser, BoxCalls
  <1>4. ASSUME ~crowded PROVE AloneInv'
    <2>0. AloneInv BY <1>4 DEF ServiceInv
    <2>1. OneStarter' /\ StartsNew' /\ ClosesOld' BY <1>1, <2>0 DEF AloneInv, OneStarter, StartsNew, ClosesOld
    <2>2. ClosesAll' BY <1>1, <2>0 DEF AloneInv, ClosesAll
    <2>3. OthersClosed' BY <1>1, <2>0 DEF AloneInv, OthersClosed
    <2>4. Awaited' BY <1>1, <2>0 DEF AloneInv, Awaited, AwaitedBy
    <2>5. StatusInv'
      <3>1. Unlocked' = Unlocked BY <1>1 DEF Unlocked
      <3>. QED BY <1>1, <1>2, <2>0, <3>1 DEF AloneInv, StatusInv
    <2>. QED BY <2>1, <2>2, <2>3, <2>4, <2>5 DEF AloneInv
  <1>. QED BY <1>1, <1>2, <1>3, <1>4 DEF ServiceInv

-----------------------------------------------------------------------------
(* The theorems.                                                           *)

\* No Box has been created.
LEMMA InitHolds ==
    ASSUME Init
    PROVE  BoxesInv /\ ServiceInv
  <1>0. /\ config \in DOMAIN Configs
        /\ manager = [b \in Boxes |-> [m \in Components |-> [started |-> FALSE, items |-> Items(m)]]]
        /\ item = [b \in Boxes |-> [x \in AllItems |-> [stage |-> 0, open |-> FALSE]]]
        /\ starting = [b \in Boxes |-> NotStarted]
        /\ closing = [b \in Boxes |-> 0]
        /\ overlap = [b \in Boxes |-> FALSE]
        /\ faulty = [b \in Boxes |-> FALSE]
    BY DEF Init, BoxInit
  <1>1. /\ <<>> \in Lists
        /\ \A m \in Components : Items(m) \in Lists
    BY <1>0, ListsAre DEF Lists
  <1>2. NotStarted \in StartStates /\ NotStarted.at = "none" /\ NotStarted.phase = 0
    BY <1>1 DEF NotStarted, StartStates
  <1>3. TypeOK
    <2>1. manager \in [Boxes -> ManagerStates] BY <1>0, <1>1 DEF ManagerStates
    <2>2. item \in [Boxes -> ItemStates] BY <1>0 DEF ItemStates
    <2>3. starting \in [Boxes -> StartStates] BY <1>0, <1>2
    <2>4. closing \in [Boxes -> 0 .. Finished] BY <1>0, CloseOrderIs
    <2>5. overlap \in [Boxes -> BOOLEAN] /\ faulty \in [Boxes -> BOOLEAN] BY <1>0
    <2>. QED BY <1>0, <2>1, <2>2, <2>3, <2>4, <2>5 DEF TypeOK
  <1>4. ASSUME NEW b \in Boxes PROVE BoxInv(b)
    <2>1. starting[b].at = "none" /\ starting[b].phase = 0 BY <1>0, <1>2
    <2>2. closing[b] = 0 /\ ~overlap[b] BY <1>0
    <2>3. \A x \in AllItems : item[b][x].stage = 0 /\ ~item[b][x].open BY <1>0
    <2>4. \A m \in Components : manager[b][m].items = Items(m) BY <1>0
    <2>5. \A s, m : ~Begun(b, s, m)
      <3>1. \A p : p \notin 1 .. 0 OBVIOUS
      <3>. QED BY <2>1, <3>1 DEF Begun
    <2>6. ~Busy(b) BY <2>1 DEF Busy
    <2>i. ItemsInv(b) BY <2>4, <2>5 DEF ItemsInv
    <2>l. LoopInv(b) /\ PassInv(b) BY <2>1 DEF LoopInv, PassInv
    <2>s. StageInv(b) BY <2>3, <2>6 DEF StageInv
    <2>a. CallsInv(b) BY <2>1, <2>2, <2>6 DEF CallsInv
    <2>o. OpenInv(b) BY <2>3, <2>6 DEF OpenInv
    <2>v. ServedInv(b)
      <3>1. ItemsOf("inbound") \subseteq AllItems BY DEF AllItems, ItemsOf
      <3>. QED BY <2>3, <3>1 DEF ServedInv
    <2>d. DepsInv(b) BY <2>3 DEF DepsInv
    <2>r. VerdictInv(b) BY <2>1, <2>6 DEF VerdictInv
    <2>. QED BY <2>i, <2>l, <2>s, <2>a, <2>o, <2>v, <2>d, <2>r DEF BoxInv
  <1>5. BoxesInv BY <1>3, <1>4 DEF BoxesInv
  <1>6. /\ serviceStatus = "IDLE" /\ instance = None /\ crowded = FALSE
        /\ fresh \subseteq Boxes
        /\ starter = [s \in Starters |-> NoCall] /\ closer = [k \in Closers |-> NoCall]
    BY <1>0, ConfigIs DEF Init
  <1>7. /\ NoCall \in [at : {"idle", "checked", "closeOld", "starting"}, box : Boxes \cup {None}, own : BOOLEAN]
        /\ NoCall \in [at : {"idle", "checked", "closing"}, box : Boxes \cup {None}, own : BOOLEAN]
        /\ NoCall.at = "idle"
    BY DEF NoCall
  <1>8. /\ \A s \in Starters : starter[s].at = "idle"
        /\ \A k \in Closers : closer[k].at = "idle"
    BY <1>6, <1>7
  <1>9. \A b \in Boxes : starting[b].at = "none" /\ closing[b] = 0 BY <1>0, <1>2
  <1>10. \A b \in Boxes : ~Running(b) BY <1>5, <1>9, BoxFacts
  <1>11. CallsOK
    <2>1. CallTypes BY <1>6, <1>7 DEF CallTypes
    <2>2. OneCloser BY <1>8 DEF OneCloser
    <2>3. BoxCalls BY <1>6, <1>8, <1>9, BoxAssumption DEF BoxCalls
    <2>. QED BY <2>1, <2>2, <2>3 DEF CallsOK
  <1>12. AloneInv
    <2>1. OneStarter /\ ClosesOld /\ StartsNew BY <1>8 DEF OneStarter, ClosesOld, StartsNew
    <2>2. ClosesAll BY <1>8 DEF ClosesAll
    <2>3. OthersClosed /\ Awaited BY <1>9 DEF OthersClosed, Awaited
    <2>4. StatusInv BY <1>6, <1>8, <1>10 DEF StatusInv, Unlocked
    <2>. QED BY <2>1, <2>2, <2>3, <2>4 DEF AloneInv
  <1>. QED BY <1>5, <1>11, <1>12 DEF ServiceInv

(* Whatever the configuration, the number of Boxes and the callers, what   *)
(* is known of each Box and of the service holds in every state.           *)
THEOREM BoxInvariance == Spec => [](BoxesInv /\ ServiceInv)
  <1>1. Init => BoxesInv /\ ServiceInv BY InitHolds
  <1>2. BoxesInv /\ ServiceInv /\ [Next]_vars => (BoxesInv /\ ServiceInv)'
    <2> SUFFICES ASSUME BoxesInv, ServiceInv, [Next]_vars PROVE BoxesInv' /\ ServiceInv' OBVIOUS
    <2>1. ASSUME NEW s \in Starters, StartOrReloadService(s) PROVE BoxesInv' /\ ServiceInv'
      BY <2>1, StartOrReloadKeeps
    <2>2. ASSUME NEW s \in Starters, StarterStep(s) PROVE BoxesInv' /\ ServiceInv'
      <3>1. CASE Panics(starter[s]) BY <3>1, StutterKeeps DEF Panics
      <3>. QED BY <2>2, <3>1, OldClosesKeeps, OldClosedKeeps, StartReturnsKeeps DEF StarterStep
    <2>3. ASSUME NEW k \in Closers, CloseService(k) PROVE BoxesInv' /\ ServiceInv' BY <2>3, CloseServiceKeeps
    <2>4. ASSUME NEW k \in Closers, CloserStep(k) PROVE BoxesInv' /\ ServiceInv'
      <3>1. CASE Panics(closer[k]) BY <3>1, StutterKeeps DEF Panics
      <3>2. CASE ServiceCloses(k) BY <3>2, ServiceClosesKeeps
      <3>. QED BY <2>4, <3>1, <3>2, ServiceClosedKeeps DEF CloserStep
    <2>6. ASSUME NEW b \in Boxes, BoxStep(b) PROVE BoxesInv' /\ ServiceInv'
      <3>1. CASE StartStep(b) BY <2>6, <3>1, ServiceStartStep DEF BoxStep
      <3>2. CASE CloseNext(b) BY <2>6, <3>2, ServiceCloseStep DEF BoxStep
      <3>. QED BY <2>6, <3>1, <3>2 DEF BoxStep
    <2>7. CASE SetError BY <2>7, SetErrorKeeps
    <2>8. CASE UNCHANGED vars BY <2>8, StutterKeeps DEF vars, daemonVars
    <2>. QED BY <2>1, <2>2, <2>3, <2>4, <2>6, <2>7, <2>8 DEF Next, Runs, Rest, Stopped
  <1>. QED BY <1>1, <1>2, PTL DEF Spec

(* Nothing is started before what it depends on (startOutbounds,           *)
(* startTransports), whatever the configuration and its order.             *)
THEOREM DependenciesStartFirst == Spec => []DependenciesFirst
  <1>1. BoxesInv /\ ServiceInv => DependenciesFirst BY DEF BoxesInv, BoxInv, DepsInv, DependenciesFirst
  <1>. QED BY <1>1, BoxInvariance, PTL

(* An inbound that takes connections has everything it needs (Box.start,   *)
(* Box.Close).                                                             *)
THEOREM InboundsAreServed == Spec => []InboundsServed
  <1>1. BoxesInv /\ ServiceInv => InboundsServed BY DEF BoxesInv, BoxInv, ServedInv, InboundsServed
  <1>. QED BY <1>1, BoxInvariance, PTL

(* What Start has opened, Close closes, wherever Start failed.             *)
THEOREM NothingIsLeft == Spec => []NothingLeft
  <1>1. BoxesInv /\ ServiceInv => NothingLeft BY BoxFacts DEF NothingLeft
  <1>. QED BY <1>1, BoxInvariance, PTL

(* Start fails exactly when an item fails or the dependencies cannot be    *)
(* obeyed: the passes over outbounds and DNS servers find an order when    *)
(* there is one.                                                           *)
THEOREM VerdictsAreRight == Spec => []StartVerdict
  <1>1. BoxesInv /\ ServiceInv => StartVerdict BY DEF BoxesInv, BoxInv, VerdictInv, StartVerdict
  <1>. QED BY <1>1, BoxInvariance, PTL

(* The status of the service tells what runs, for any number of callers.   *)
THEOREM StatusIsHonest == Spec => []StatusHonest
  <1>1. BoxesInv /\ ServiceInv => StatusHonest
    BY DEF ServiceInv, AloneInv, StatusInv, StatusHonest
  <1>. QED BY <1>1, BoxInvariance, PTL

(* A Box that runs and is not the instance of the service is being closed  *)
(* by a call that is waited for, and two such calls are one.               *)
THEOREM InstancesDoNotOverlap == Spec => []OneInstance
  <1>1. ASSUME BoxesInv, ServiceInv PROVE OneInstance
    <2> SUFFICES ASSUME ~crowded, NEW b \in Boxes, NEW c \in Boxes, b # c,
                        Running(b), Running(c), ~overlap[b], ~overlap[c]
                 PROVE  FALSE
      BY <1>1, BoxFacts DEF OneInstance
    <2>0. AloneInv BY <1>1 DEF ServiceInv
    <2>1. ASSUME NEW d \in Boxes, d # instance, Running(d), ~overlap[d]
          PROVE  /\ instance = None
                 /\ \/ \E k \in Closers : closer[k].at # "idle" /\ closer[k].box = d
                    \/ \E s \in Starters : starter[s].at # "idle" /\ starter[s].box = d
      <3>1. starting[d].at # "none" /\ closing[d] # Finished BY <1>1, <2>1, BoxFacts
      <3>2. CASE \E k \in Closers : closer[k].at # "idle" /\ closer[k].box = d
        BY <2>0, <3>2 DEF AloneInv, ClosesAll
      <3>3. CASE ~\E k \in Closers : closer[k].at # "idle" /\ closer[k].box = d
        <4>1. closing[d] # 0 BY <2>0, <2>1, <3>1, <3>3 DEF AloneInv, OthersClosed
        <4>2. AwaitedBy(d) BY <2>0, <2>1, <3>1, <4>1 DEF AloneInv, Awaited
        <4>3. PICK s \in Starters : starter[s].box = d /\ starter[s].at \in {"closeOld", "starting"}
          BY <3>3, <4>2 DEF AwaitedBy
        <4>4. instance = None BY <2>0, <2>1, <4>3 DEF AloneInv, ClosesOld, StartsNew
        <4>. QED BY <4>3, <4>4
      <3>. QED BY <3>2, <3>3
    <2>2. instance = None BY <2>1
    <2>3. b # instance /\ c # instance BY <1>1, <2>2, CallFacts
    <2>5. \A k, l \in Closers : closer[k].at # "idle" /\ closer[l].at # "idle" => k = l
      BY <1>1 DEF ServiceInv, CallsOK, OneCloser
    <2>6. \A s, t \in Starters : starter[s].at # "idle" /\ starter[t].at # "idle" => s = t
      BY <2>0 DEF AloneInv, OneStarter
    <2>7. \A k \in Closers, s \in Starters : closer[k].at # "idle" /\ starter[s].at # "idle"
                                    => starter[s].box = closer[k].box
      BY <2>0 DEF AloneInv, ClosesAll
    <2>. QED BY <2>1, <2>3, <2>5, <2>6, <2>7
  <1>. QED BY <1>1, BoxInvariance, PTL
=============================================================================
