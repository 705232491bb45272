--------------------------- MODULE BoxLifecycle ---------------------------
(***************************************************************************)
(* The life cycle of a Box (box.go) with its managers (adapter/outbound,   *)
(* adapter/inbound, adapter/endpoint, adapter/service, dns): Start takes   *)
(* the components through four stages and closes the Box when one of them  *)
(* fails; Close closes the components once, also while Start still runs.   *)
(* Close looks at the channel done and then closes it, without a lock: two *)
(* calls may both find it open, and the second to close it panics.         *)
(*                                                                         *)
(* The items of a manager are its outbounds, endpoints, inbounds, services *)
(* or DNS servers; the other components are their own only item.  An item  *)
(* holds something from the first Start it returns from until it is closed.*)
(***************************************************************************)
EXTENDS Naturals, Sequences, FiniteSets, Functions

CONSTANTS
    Boxes,
    Configs,      \* configurations: [boxes, components, items, deps, default]
    Fallback,     \* the outbound, and the DNS server, made when there is none
    None

VARIABLES
    config,     \* the configuration of the Boxes
    manager,    \* manager[b][m]: [started, items]
    item,       \* item[b][x]: the stage it has been started to, and open
    starting,   \* the goroutine in Start of each Box
    closing,    \* the position of Close of each Box in CloseOrder
    overlap,    \* history: Close was called while Start was running
    faulty      \* history: an item of the Box has failed to start

boxVars == <<manager, item, starting, closing, overlap, faulty>>

Stages == <<"initialize", "start", "post-start", "finish-start">>

Managers == {"outbound", "inbound", "endpoint", "service", "dnsTransport"}

\* The components that are looked at.
Components == Configs[config].components

InitializeOrder == <<"internal", "network", "dnsTransport", "dnsRouter", "connection",
                     "router", "outbound", "inbound", "endpoint", "service">>
StartOrder == <<"outbound", "dnsTransport", "dnsRouter", "network", "connection", "router",
                "internal", "inbound", "endpoint", "service">>
PostStartOrder == <<"outbound", "network", "dnsTransport", "dnsRouter", "connection",
                    "router", "inbound", "endpoint", "service", "internal">>
StartedOrder == <<"network", "dnsTransport", "dnsRouter", "connection", "router",
                  "outbound", "inbound", "endpoint", "service", "internal">>

Orders == <<InitializeOrder, StartOrder, PostStartOrder, StartedOrder>>

\* The calls of Start, one stage of one component after the other.
Phases ==
    [p \in 1 .. 40 |-> LET stage == (p - 1) \div 10 + 1
                       IN  <<stage, Orders[stage][p - 10 * (stage - 1)]>>]

\* Mutant: inbounds are closed after the outbounds.
OutboundsFirst ==
    <<"service", "endpoint", "outbound", "inbound", "router", "connection",
      "dnsRouter", "dnsTransport", "network", "internal">>

CloseOrder ==
    <<"service", "endpoint", "inbound", "outbound", "router", "connection",
      "dnsRouter", "dnsTransport", "network", "internal">>

Finished == Len(CloseOrder) + 1

\* The items of a component in configuration c, and the names of its own and of
\* a fallback.
ItemsIn(c, m) == IF m \in Managers THEN c.items[m] ELSE <<m>>
NamesIn(c, m) == Range(ItemsIn(c, m)) \cup (IF m \in DOMAIN Fallback THEN {Fallback[m]} ELSE {})

\* The items of a manager are a list, and no two items have the same name: the
\* options are checked for that among inbounds, and among outbounds together with
\* endpoints; for services, DNS servers and the fallbacks it is assumed.  Only
\* outbounds, endpoints and DNS servers depend on others, and the endpoints are
\* looked at together with the outbounds that start them.
IsConfig(c) ==
    /\ c.boxes \subseteq Boxes
    /\ c.components \subseteq Range(CloseOrder)
    /\ "endpoint" \in c.components => "outbound" \in c.components
    /\ \A m \in Managers :
        /\ c.items[m] \in Seq(Range(c.items[m]))
        /\ \A i, j \in DOMAIN c.items[m] : c.items[m][i] = c.items[m][j] => i = j
    /\ \A m, n \in Range(CloseOrder) : m # n => NamesIn(c, m) \cap NamesIn(c, n) = {}
    /\ \A m \in DOMAIN Fallback : Fallback[m] \notin Range(c.items[m])
    /\ DOMAIN c.deps \subseteq UNION {Range(c.items[m]) : m \in {"outbound", "endpoint", "dnsTransport"}}

ASSUME BoxAssumption ==
    /\ None \notin Boxes
    /\ DOMAIN Fallback = {"outbound", "dnsTransport"}
    /\ \A n \in DOMAIN Configs : IsConfig(Configs[n])

\* Where Close goes on.
NextToClose(n) ==
    LET left == {k \in n .. Len(CloseOrder) : CloseOrder[k] \in Components}
    IN  IF left = {} THEN Finished ELSE CHOOSE k \in left : \A l \in left : k <= l

Items(m) == ItemsIn(Configs[config], m)

ItemsOf(m) == IF m \in Components THEN Range(Items(m)) ELSE {}

AllItems == (UNION {ItemsOf(m) : m \in Components})
                \cup {Fallback[m] : m \in DOMAIN Fallback \cap Components}

Deps(x) == IF x \in DOMAIN Configs[config].deps THEN Configs[config].deps[x] ELSE {}

NotStarted == [at |-> "none", phase |-> 0, list |-> <<>>, todo |-> <<>>,
               started |-> {}, canContinue |-> FALSE]

BoxInit ==
    /\ config \in DOMAIN Configs
    /\ manager = [b \in Boxes |-> [m \in Components |->
                    [started |-> FALSE, items |-> Items(m)]]]
    /\ item = [b \in Boxes |-> [x \in AllItems |-> [stage |-> 0, open |-> FALSE]]]
    /\ starting = [b \in Boxes |-> NotStarted]
    /\ closing = [b \in Boxes |-> 0]
    /\ overlap = [b \in Boxes |-> FALSE]
    /\ faulty = [b \in Boxes |-> FALSE]

Stage(b) == Phases[starting[b].phase][1]
Component(b) == Phases[starting[b].phase][2]

\* Outbounds and DNS servers are started in passes over their dependencies.
InPasses(b) == Stage(b) = 2 /\ Component(b) \in {"outbound", "dnsTransport"}

BoxStarts(b) == starting' = [starting EXCEPT ![b].at = "next"]

\* The select of Close: done is open, or else Close returns at once (os.ErrClosed).
FoundOpen(b) == closing[b] = 0

\* close(s.done), with which the work of Close begins.
Closes(b) ==
    /\ closing[b] = 0
    /\ closing' = [closing EXCEPT ![b] = NextToClose(1)]

\* Start fails: it calls Close, which looks at done.
Fail(b) ==
    /\ starting' = [starting EXCEPT ![b] = [NotStarted EXCEPT !.at =
                        IF FoundOpen(b) THEN "checked" ELSE "closing"]]
    /\ UNCHANGED closing

\* The outbounds are looked at together with the endpoints.
Among(m) == ItemsOf(m) \cup (IF m = "outbound" THEN ItemsOf("endpoint") ELSE {})

\* A default that does not exist.
NoDefault(m) ==
    m \in DOMAIN Fallback /\ Configs[config].default[m] \notin Among(m) \cup {None}

\* Without a default and without items one is made.
NeedsFallback(m) ==
    m \in DOMAIN Fallback /\ Configs[config].default[m] = None /\ Items(m) = <<>>

WithFallback(b, m) ==
    IF NeedsFallback(m) THEN Append(manager[b][m].items, Fallback[m]) ELSE manager[b][m].items

Endpoints(b) == IF "endpoint" \in Components THEN manager[b]["endpoint"].items ELSE <<>>

PhaseDone(b) ==
    \/ starting[b].at = "next"
    \/ starting[b].at = "loop" /\ starting[b].todo = <<>> /\ ~InPasses(b)

\* The calls that are left.
Later(b) == {p \in DOMAIN Phases : p > starting[b].phase /\ Phases[p][2] \in Components}

\* Start of a component at a stage: a manager notes that it has been started
\* and takes its items, at stage start the outbounds with the endpoints.
StartPhase(b, p) ==
    LET stage == Phases[p][1]
        m == Phases[p][2]
        listed == IF stage = 2 THEN WithFallback(b, m) ELSE manager[b][m].items
        loop == IF stage # 2 THEN listed
                ELSE IF m = "outbound" THEN listed \o Endpoints(b)
                ELSE IF m = "endpoint" THEN <<>> ELSE listed
        begun == [at |-> "loop", phase |-> p, list |-> loop, todo |-> loop,
                  started |-> {}, canContinue |-> FALSE]
        fails == stage = 2 /\ NoDefault(m)
    IN  /\ manager' = [manager EXCEPT ![b][m] =
                [started |-> TRUE, items |-> IF fails THEN @.items ELSE listed]]
        /\ IF fails THEN Fail(b)
           ELSE starting' = [starting EXCEPT ![b] = begun] /\ UNCHANGED closing

NextPhase(b) ==
    /\ PhaseDone(b)
    /\ \E p \in Later(b) : (\A q \in Later(b) : p <= q) /\ StartPhase(b, p)
    /\ UNCHANGED <<item, overlap, faulty>>

\* An item is started, or fails, and the loop goes on with `rest`.
StartItem(b, x, rest, started) ==
    \/ /\ starting' = [starting EXCEPT ![b].todo = rest, ![b].started = started,
                                       ![b].canContinue = TRUE]
       /\ item' = [item EXCEPT ![b][x] = [stage |-> Stage(b), open |-> TRUE]]
       /\ UNCHANGED <<manager, closing, overlap, faulty>>
    \/ /\ Fail(b)
       /\ faulty' = [faulty EXCEPT ![b] = TRUE]
       /\ UNCHANGED <<manager, item, overlap>>

StartNext(b) ==
    /\ starting[b].at = "loop" /\ ~InPasses(b) /\ starting[b].todo # <<>>
    /\ StartItem(b, Head(starting[b].todo), Tail(starting[b].todo), {})

\* Mutant: an item is started when it is reached.
AnyOrder(b, x) == x \notin starting[b].started

\* startOutbounds, startTransports: what depends on nothing unstarted.
CanStart(b, x) ==
    /\ x \notin starting[b].started
    /\ Deps(x) \subseteq starting[b].started

PassStarts(b) ==
    /\ starting[b].at = "loop" /\ InPasses(b)
    /\ \E i \in 1 .. Len(starting[b].todo) :
        LET todo == starting[b].todo
        IN  /\ CanStart(b, todo[i]) /\ \A j \in 1 .. i - 1 : ~CanStart(b, todo[j])
            /\ StartItem(b, todo[i], SubSeq(todo, i + 1, Len(todo)),
                         starting[b].started \cup {todo[i]})

\* Mutant: a pass that started nothing is followed by another one.
AnotherPass(b) == TRUE

\* Mutant: there is only one pass.
OnePass(b) == FALSE

PassesGoOn(b) == starting[b].canContinue

\* The end of a pass: all started, another pass, or the dependencies are
\* circular or missing (lintOutbound, lintTransport).
PassEnds(b) ==
    LET s == starting[b]
    IN  /\ s.at = "loop" /\ InPasses(b)
        /\ \A i \in 1 .. Len(s.todo) : ~CanStart(b, s.todo[i])
        /\ IF Cardinality(s.started) = Len(s.list)
           THEN starting' = [starting EXCEPT ![b].at = "next"] /\ UNCHANGED closing
           ELSE IF PassesGoOn(b)
           THEN /\ starting' = [starting EXCEPT ![b].todo = s.list, ![b].canContinue = FALSE]
                /\ UNCHANGED closing
           ELSE Fail(b)
        /\ UNCHANGED <<manager, item, overlap, faulty>>

StartSucceeds(b) ==
    /\ PhaseDone(b) /\ Later(b) = {}
    /\ starting' = [starting EXCEPT ![b] = [NotStarted EXCEPT !.at = "ok"]]
    /\ UNCHANGED <<manager, item, closing, overlap, faulty>>

\* The failed Start closes done.  When another call has done so meanwhile this
\* panics, Start recovers and, its result not being set, returns nil.
StartCloses(b) ==
    /\ starting[b].at = "checked"
    /\ IF closing[b] = 0
       THEN Closes(b) /\ starting' = [starting EXCEPT ![b].at = "closing"]
       ELSE starting' = [starting EXCEPT ![b].at = "ok"] /\ UNCHANGED closing
    /\ UNCHANGED <<manager, item, overlap, faulty>>

\* The Close that the failed Start has called, or found called, has returned.
StartFails(b) ==
    /\ starting[b].at = "closing"
    /\ overlap[b] \/ closing[b] = Finished
    /\ starting' = [starting EXCEPT ![b].at = "failed"]
    /\ UNCHANGED <<manager, item, closing, overlap, faulty>>

\* Mutant: a manager closes its items only when Start has succeeded.
ClosedAfterStart(b, m) ==
    IF m \notin Managers THEN {m}
    ELSE IF starting[b].at = "ok"
    THEN Range(manager[b][m].items) ELSE {}

\* What Close of a component closes: a manager only if it has been started.
ClosedBy(b, m) ==
    IF m \notin Managers THEN {m}
    ELSE IF manager[b][m].started
    THEN Range(manager[b][m].items) ELSE {}

\* The endpoint manager holds its lock while it starts the endpoints.
Locked(b, m) == m = "endpoint" /\ starting[b].at = "loop" /\ Component(b) = m

CloseNext(b) ==
    LET m == CloseOrder[closing[b]]
    IN  /\ closing[b] \in 1 .. Len(CloseOrder)
        /\ ~Locked(b, m)
        /\ item' = [item EXCEPT ![b] = [x \in DOMAIN @ |->
                        IF x \in ClosedBy(b, m) THEN [@[x] EXCEPT !.open = FALSE] ELSE @[x]]]
        /\ manager' = [manager EXCEPT ![b][m] =
                        IF m \in Managers /\ @.started
                        THEN [started |-> FALSE, items |-> <<>>] ELSE @]
        /\ closing' = [closing EXCEPT ![b] = NextToClose(@ + 1)]
        /\ UNCHANGED <<starting, overlap, faulty>>

StartStep(b) ==
    \/ NextPhase(b) \/ StartNext(b) \/ PassStarts(b) \/ PassEnds(b)
    \/ StartSucceeds(b) \/ StartCloses(b) \/ StartFails(b)
=============================================================================
