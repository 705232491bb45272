# Verification of sing-box

TLA+ models of the concurrent core of sing-box, model-checked with TLC on small
instances and proved with TLAPS for every value of their constants where the
prover reaches. The reference is the Go code in the root tree of the repository;
`moeclub/`, `upstream/` and `third_party/` hold copies and vendored code and are
left aside. Paths below are relative to the root of the repository.

Contents: 1 inventory, 2 modules, 3 runs, 4 fairness, 5 proofs, 6 disagreements
between code and documents, 7 what is not modelled, 8 plan.

## 1 Inventory

A connection enters through an inbound, `route/` picks an outbound by its rules,
the connection manager dials through it and copies both directions. Names are
resolved by the DNS router, which walks its rules and asks the DNS client; the
client asks a transport; the transports share sockets through a connector.
Outbounds may be groups that stand for others. `box.go` builds the managers and
starts and closes everything in stages. A cache file (bbolt) persists FakeIP
bindings, rejected DNS responses, selections and rule sets.

| Component | State | Operations | What is hard | What makes it correct |
|---|---|---|---|---|
| Connector `dns/transport/connector.go` | cached connection and its cancel function, channel of the dial in flight, closed | Get, dial goroutine, completeDial, Close, Reset | a dial outlives its caller; Close and Reset during a dial; a dial that calls Get | one connection, none leaked, live context, no lost wakeup, every Get returns |
| Base transport `dns/transport/base.go` | state, queries in flight, channel of the waiting Close | SetStarted, BeginQuery, EndQuery, Shutdown, Close | concurrent closes, timeout of the wait | Close wakes when the last query ends; a closed transport is quiet |
| UDP transport `dns/transport/udp.go` | callbacks by query id, next id, UDP size, the two parts above | Exchange, recvLoop, Close, Reset | late and duplicated responses, ids that wrap and run out, failing sockets | ids exclusive, own answers, Close ends and releases all |
| FakeIP store `dns/transport/fakeip`, `experimental/cachefile/fakeip.go` | counter per family, address and domain maps, saved metadata, timer | Start, Create, Lookup, Reset, Close | two creates of one domain, crash between writes, changed ranges, stale timer | maps inverse, counters in range, addresses reused in turn |
| DNS client `dns/client.go`, `experimental/cachefile/rdrc.go` | cache, lock per question, rejections and those being saved | Exchange, lookupToExchange, ClearCache, saves | waiting for another query, expiry, nested lookups, filters that share a cache | only names of servers wait in circles, TTLs honoured, filters honoured, all return |
| URLTest group `protocol/group/urltest.go`, interrupt group `common/interrupt` | ticker, loop, time of last use, results, selections, open connections | PostStart, Touch, loopCheck, urlTest, Select, Interrupt, DialContext, Close | Touch against the loop that stops, rounds from two sides, results in any order | one loop, selections improve, fails over, stops when idle |
| DNS router `dns/router.go` | rules (fixed), reverse mapping | matchDNS, Exchange, Lookup, the response check | a rule is matched in two phases, before and after the answer; rule-sets reload in between | the first rule whose conditions and filter hold answers, and the walk ends |
| Router `route/` and rules `route/rule` | rules, rule-sets, metadata of each connection | PreMatch, matchRule and its actions, hijacked DNS, reload of a rule-set | fields of one group are alternatives across nested, merged and inverted rules; addresses outlive the destination they belong to | rules match as documented, own addresses are dialed, pre-match agrees with the match |
| Selector `protocol/group/selector.go` | selection, stored selection, interrupt group | Start, SelectOutbound, DialContext, NewConnectionEx | two selections at once, failing stores, restarts, dials during a switch | old connections interrupted, the selection survives |
| Connection manager `route/conn.go` | tracked connections, done flag of a relay | NewConnection, NewPacketConnection, connectionCopy, CloseAll | two directions, the write handshake, interrupts and CloseAll end in any order | onClose once, both ends closed, the list exact |
| Managers `adapter/*/manager.go`, `dns/transport_manager.go` | lists, maps by tag, default, stage, started | Start, Close, Create, Remove | dependency order, one manager starts the items of another | dependencies start first, circles are refused |
| Box `box.go` | stage, done | PreStart, Start, Close | failure at any item of any stage, Close during Start, two Closes at once | everything started is closed; what an inbound needs opens before it and, endpoints apart, closes after it |
| Daemon `daemon/started_service.go` | status, instance, lock | StartOrReloadService, CloseService, SetError | the lock is let go while instances start and close | the status tells what runs, one instance, calls return |
| TLS, HTTPS, QUIC, local transports | connection pools | Exchange, Close, Reset | a connection returned to the pool during Close | nothing left open |

The full list of components, with those that are glue, I/O or adapters of
third-party protocols, is in `PROJECT.json`, and so is the list of hazards: the
places where the code can go wrong in a way a test would hardly reach, with the
properties that watch them.

## 2 Modules

| Module | Models | Composed of |
|---|---|---|
| `SharedConnection` | abstract: one slot, one dial, nothing open outside them | |
| `Connector` | connector.go | implements `SharedConnection` |
| `BaseTransport` | base.go | |
| `UDPTransport` | udp.go | extends `BaseTransport`; contains the connector at the level of `SharedConnection` |
| `FakeIPStore` | store.go, memory.go, cachefile/fakeip.go | |
| `DNSClient` | client.go, cachefile/rdrc.go, the resolving dialer, the filters of router.go | |
| `URLTestGroup` | urltest.go, common/urltest, common/interrupt | |
| `ConnectionManager` | route/conn.go, the calls of the router that hand connections to it, the dialer's tracking | |
| `Selector` | selector.go, common/interrupt, the stored selection | extends `ConnectionManager` |
| `RuleMatch` | matching of rules and rule-sets (`route/rule`), and the documented meaning to compare it with | |
| `DNSRouter` | dns/router.go | extends `RuleMatch` |
| `Router` | route/route.go, route/dns.go, protocol/dns/handle.go, pre-match of tun | extends `DNSRouter` |
| `BoxLifecycle` | box.go and the managers | |
| `Daemon` | daemon/started_service.go, daemon/instance.go | extends `BoxLifecycle` |
| `*Proofs` | theorems about the module they extend | |
| `MC*` | instances for TLC | |

A definition has the name of the function it models where it stands for a whole
function, and the `map` of `PROJECT.json` gives its lines. Operators whose
comment says "Mutant" are plausible bugs: each replaces the definition after it
in a test that the property named in `mutants` notices it. They are not used by
the specification.

**Connector.** A call of `Get` dials at most once, so one identifier names the
call, its channel, its dial goroutine, its context and its connection. `pc` is
the caller, `dial` the goroutine, `connecting`, `connection`, `connectionCancel`
and `closed` are the fields. A step is one section under `access` or a step of
a goroutine without the lock: the AfterFunc that cancels a dial, the return of
the dial, the send of its result and the completion are apart, because the
interesting cases lie between them. `DialedFrom[c]` says from whose dial
context a call is made, which is what `errRecursiveConnectorDial` looks at.

**BaseTransport, UDPTransport.** A worker runs one Exchange after another;
`at` is its program counter, `callbacks` the table, `wire` the responses that
are on their way. They are delivered any number of times, none included, and
late. `queryId` wraps at `NumIds` (2^16 in the code). The connector is used at
its abstract level: `slot`, `flight` and `open` change by the steps
`SharedConnection` allows, which `Connector` is proved to take.

**FakeIPStore.** The variable `storeFakeIP` chooses the storage once. Transactions of
the cache file are single steps and may fail as a whole; the deletion of a
missing bucket is an error, as in bbolt. `Stop` ends the program cleanly or by a
crash, `ResetDB` throws a corrupted file away; the next `Start` may have other ranges.
`metadata` is the saved counter and `timerSaves` what the pending timer's closure
holds, which is what its first call gave it.

**DNSClient.** A query is a record of what the configuration's rules can call
(`Inputs`). The cache is checked before the lock (`peek`) and after it (`load`)
as in the code, waiting is waiting for the query that has the lock, a dial of a
server named by a domain starts a child query. `SaveRDRCAsync` is a goroutine
of its own per rejection. `blame` is a history variable: which filters rejected an
answer of a server to a question. The answers are opaque, and come with a set of
TTLs, one per record: `TimeToLive` is the one that `Exchange` keeps of them, the entry
holds the end it computes, and `NowTTL` is the difference of unsigned numbers that
`loadResponse` computes, modulo `TTLModulus` (2^32 in the code). `given` and `at`
of an entry are history: the TTLs as they came and when. The lookups of a server's
name use the cache unless the server is one of `UncachedResolvers`
(`domain_resolver` with `disable_cache`).

**URLTestGroup.** Times are ages, capped where the code no longer tells them
apart, so the state is finite without a bound on time. The start of a round and
a call of `Select` are single steps; the end of each test, the two halves of
`performUpdateCheck`, the interruption and the steps of a dial are apart. A
round holds the flag `checking`; a second one returns at once. Until
`settled`, tests and dials have any outcome; `settled` need never become true.

**ConnectionManager, Selector.** A connection has a local side (the inbound's)
and a remote side (what was dialed). `at` is NewConnection or
NewPacketConnection, `up` and `down` are the two copying goroutines with the
swap of the shared flag, the half close and the closing of both sides as steps
of their own. A copy reads and writes in turn (`CopyReads`, `CopyWrites`); a
write, as a read, may wait for the peer for ever. A copy ends because its source
has ended, or by an error at any time. `connections` is the list of the manager, `group` the interrupt group.
Internal connections are dialed with the selector's `DialContext` and
registered; inbound ones come through another group (registered) or from
`NewConnectionEx` (not registered, which `Register` leaves open because both
exist). `late` and `diverged` are history variables: connections being dialed
when an Interrupt ran, and selections that overlapped or were not stored. The
packet path's `ReportHandshakeSuccess` that fails without `onClose`, and
`RoutePacketConnection` that waits after routing has failed, end in places of
their own (`unreported`, `unrouted`), which the properties name.

**RuleMatch.** A rule is a record: the values each of the four groups accepts, the
addresses of ip_cidr, other items, rule-sets with their flags, inversion, or a
logical rule of two levels. `MatchStates` computes the set of match states the
way `matchStatesWithBase` does: sets of groups already satisfied, passed down to
rule-sets and combined on the way up. `Documented` is the reference for route
rules: the formula in `docs/configuration/route/rule.md` and `rule_set.md`, without
states. The documents of DNS rules say something else (section 6), so it is not
applied to them; what a DNS rule should do is `DNSFirstRuleWins`.

**DNSRouter, Router.** A query is walked one rule at a time; the answer of a
server comes later and is checked with `MatchAddressLimit`; Lookup goes on after
any error under a filter, Exchange only after a rejection, and ends by the first
rule without a filter. A predefined rule answers with its addresses, and a lookup
goes on with them. A connection has metadata that the actions of route
rules change (sniffing, resolving, overriding), at the index of the rule. The
resolve action starts a lookup of the DNS router, which with `server` asks that
server past the DNS rules and the check for fakeip, and fails if there is no such
server. `given` is history: the domain the addresses of a connection were looked
up for. Hijacked connections send
queries to it. `Comes` is an inbound; a tun connection passes `PreMatch` first.
`Reload` gives a rule-set its next content at any moment. The client is its
servers' answers (`Zone`): cache and saved rejections are those of `DNSClient`.
`OverrideDestination`
of the sniff action is left out: no option sets it.

**BoxLifecycle, Daemon.** `Start` is one list of calls, a stage of a component each
(`Phases`), of which a configuration looks at the components it names; managers
loop over their items, outbounds (with the endpoints) and DNS servers in passes
at stage start. An item is open from the first stage it has been
started to until its manager, or Close of the component, closes it; Close of
one component is a step. The look at `done` (`FoundOpen`) and its close (`Closes`)
are two steps, because no lock is held between them: of two calls that both find it
open the second panics, which Start recovers from (`StartCloses`) and which
elsewhere ends the program (`panicked`). Each item may fail at each stage. `Daemon` adds the
callers: the lock is free between `StartOrReloadService` and `OldClosed` or
`StartReturns`, and held from `CloseService` to `ServiceClosed`. `overlap` and
`crowded` are history variables for what the properties except: Close called
during Start, and starts at the same time. An error set by the platform is no
exception, other than that it lets such starts in.

## 3 Runs

| Run | Bounds | Shows |
|---|---|---|
| `connector` | two calls and one from inside the first one's dial | `NoOrphanConnection`, `CachedContextLive`, `RecursiveGetRefused`, refinement of `SharedConnection`, `GetReturns` |
| `udp_transport` | two workers, two closers, two connections, four ids, responses alive for two allocations | `UDPInv` (with the invariant of the base transport), `ExclusiveIds`, `OwnAnswer`, `CloseReleases` |
| `udp_close_drains` | two workers, one id, one closer, one connection | `CloseDrains`: Close ends although nobody gives up and no response comes |
| `fakeip` | two clients, three domains, both families, ranges with one and two usable addresses, both storages | `InverseMaps`, `RoundRobin`, `MemoryAnswersInRange` |
| `dns_client` | two queries, one of which may be the lookup of a server's name; independent caches, two servers, one named by a domain, a filter per server, rejections, TTLs up to 2 | `FilterHonoured`, `RejectionIsOwn`, `CacheHonoursTTL` |
| `dns_client_live` | two queries, the shared cache, clock to 2; a server asked for its own name, beside another question; a server that ignores deadlines | `AllReturn`, `CirclesAskServerNames` |
| `dns_shared_filter` | two queries, the shared cache, a filtered rule and the default server | violation, section 6 |
| `urltest` | two outbounds, one a nested group, delays within and beyond the tolerance, two loops' worth of goroutines | `LoopInv`, `SwitchImproves`, `GroupInv`, `Failover`, `IdleStops` |
| `selector` | one connection at a time of any kind, two users, two outbounds and one that was removed | `SelectorInv` (with the invariant of the relay), `CloseOnce`, `SwitchReaches`, `Persisted`, `Released` |
| `selector_inbound` | one connection (the trace has a packet connection; a stream does the same) | violation, section 6 |
| `routing` | two connections of eight kinds, four configurations of up to eight rules, two domains, five addresses, three servers of which one may never answer, two rule-sets | `MatchesAsDocumented`, `DNSFirstRuleWins`, `DialsOwnAddresses`, `PreMatchAgrees`, `Decided` |
| `lifecycle` | eight configurations; two starters, one closer; two Boxes where reloads are the question | `DependenciesFirst`, `InboundsServed`, `NothingLeft`, `StartVerdict`, `StatusHonest`, `OneInstance`, `CallsReturn` |

Why the bounds are enough to be interesting. The connector needs two calls for a race
over the slot and a third for recursion; a call is used once, so `Close`,
`Reset` and dying connections supply the rest. Four ids with two workers make
the id wrap and meet taken ids, and `MaxLifetime + workers = NumIds` is the
border of what `OwnAnswer` needs; one id makes the table run full. Ranges with
one or two usable addresses and three domains reuse addresses at once. Two
queries are a holder and a waiter, or a dial and its lookup; when a client asks a
server for the name of that server they are both, and wait for each other. Responses
whose records end after 1 and 2, together or not (`Lifetimes`), with a clock to 2
are read before, at and after each end, and the modulus 8
would let a wrong difference wrap. Two slots for
`loopCheck` let a second loop start, which the invariant excludes. `SwitchImproves` is stated for
delays above 0 that leave room for the tolerance in a uint16, which the
instances respect: a result of 0 ms is taken for "none yet" by `Select`, and
the sum wraps. `Failover` is checked with `idle_timeout` twice the interval
(the defaults are ten times); a `Touch` between the loop's look at the clock and
its lock is lost, and with equal values such a loss can recur at every tick.

The state of the relay is per connection, and the lists only hold connections
apart, so one connection against two users and CloseAll has the races; when it
is over it comes again as another kind. The configurations of `routing` and
`lifecycle` are chosen by feature: fakeip with overrides, filters with a
reloaded rule-set, merged rule-sets, logical rules with bypass; dependencies
out of order, through an endpoint, on the fallback, circular, missing, a default
that is an endpoint or does not exist, reloads. Two connections let one leave a reverse mapping for
the other and let pre-match be compared with the match. A Box has three or four
of the ten components in each configuration, and two Boxes have the inbound
manager alone, because reloads are about whole instances; `fresh` bounds the starts.

Some properties are stated with an exception that the code needs. Each is a
history variable or a predicate with a comment, and a hazard in `PROJECT.json`
says what happens there: a switch and the dials in flight, overlapping
selections, Close during Start, starts at the same time, a write the peer never
takes (`Released`), a server that never answers over a transport without a deadline
(`AllReturn`, `Decided`), a panic of the second of two Closes (`CallsReturn`),
endpoints once Close has been called (`InboundsServed`), DNS rules whose
filters the first phase drops (`rule_set_ip_cidr_match_source`, domains beside
ip_cidr), flags that logical rules of a set reset.

Deadlock is checked in all runs. Symmetry is used only in runs without
liveness properties, over values that differ in nothing else.

## 4 Fairness

Only goroutines that can run are assumed to run, and deadlines that the code sets to
fire: a dial of the connector carries its caller's deadline; tests of the URLTest
group have a timeout; exchanges end by theirs, except over a transport that reads
without a deadline (`dns/transport/tcp.go`, `Deadlineless`), of which nothing is
assumed and which appears in `CloseDrains`, `AllReturn` and `Decided` as the
exception it is. Nothing is assumed of servers, of callers giving up, of the timeout of
Close, of a network that recovers, or of anybody calling at all.
In `URLTestGroup` the clock goes on while the loop waits; a loop that is ready
to run runs before the next tick of the model's clock, whose unit is minutes.
In `Selector` each goroutine that does not wait for a peer runs, and CloseAll and
callers go on; peers, dials and users do as they like, so `Released` speaks of
connections that have lost a side, and excepts those where a copy or the kick of
the handshake is for ever in a Write to the side that is still open (`Writing`):
no deadline is set there. In `Router` the router works on what it has
(a rule to match, an answer to check, a server's answer or failure, which its
deadline brings unless it is one of `Deadlineless`: then the connections that wait
for it are `Unanswered`); `FairSpec`, here and in `Selector`, writes weak fairness out with what enables the
work, which TLC evaluates faster than ENABLED. In `Daemon` Start, Close and the calls of
the service run on as long as the program does; nobody need call.

## 5 Proofs

All proofs are by invariance; every leaf is checked by SMT, Zenon or (for the
last temporal step) LS4. The assumptions on the constants are named, stated in
the module that declares them, and evaluated by TLC in every run. A theorem
that needs more of an instance states it as a hypothesis; each such hypothesis
is named below, and the instance of its run satisfies it. Where a definition is a
recursive function over a list (a fold of the code's loop), its result is
characterised by a least counterexample: were the claim false at some length,
look at the least one.

* **Connector** (`CallsAssumption`: the nil value is not a call). `IInv` is the
  strengthening: a dial in flight, the field `connecting` and the caller's
  position determine each other and exclude a cached connection (`FlightInv`);
  the cached connection has its own context and cancel function (`CacheInv`);
  a dial's context is cancelled only for its caller or the transport
  (`DialInv`); waiters wait on the dial in flight or a closed channel
  (`WaitInv`); nested calls never get past the check (`NestedInv`). None of the
  safety properties is inductive alone: `AtMostOneOpen`, say, needs that a dial
  completes into an empty slot. From it follow all safety properties of the run
  and, step by step, the refinement `Spec => Shared!Spec`.
* **BaseTransport** (`BaseAssumption`: finitely many workers). `BaseInv`: the
  counter is the cardinality of the running queries, hence `EndQuery` wakes the
  one Shutdown that waits. `ClosedIsQuiet` follows.
* **UDPTransport** (`UDPAssumption`; `UDPTransportProofs`, which also has the
  theorems of the base transport). `Spec => BaseSpec`: every step is a step
  of the base transport or leaves it alone, so its theorems carry over.
  `UDPInv` is the inductive invariant: `IdsInv` ties an id to the worker's
  position (hence `ExclusiveIds`), `SlotInv` is the connector's part (hence
  `CloseReleases`), and `LapInv` bounds, for every response on its way, how far
  the counter can have come since by the age of the response, in allocations and
  the ids they skip. `nextAvailableQueryId` goes around, so an id comes back only after
  every id that is not taken; if no response lives that long, no response
  meets another query with its id (`OwnAnswer`). The bound on the lifetime is part of
  the property.
* **FakeIPStore** (`FakeIPAssumption`: every configured range has room for an
  address beyond its second). `IInv`: types, inverse maps, all three counters
  (running, saved, about to be saved) in the range they belong to, and without a
  cache file every binding in the current range. The counter saved by a
  timer must be included because a later start restores it. `RoundRobin` needs
  `LapInv`: the latest address is the counter, and each one before it lies one
  step further back on the ring of usable addresses, so that two of them within a lap differ.
* **DNSClient** (`ClientAssumption`). `ClientInv`: whoever waits, waits for the query
  that has the lock now; entries end with, or before, each of the TTLs they came
  with, counted from when they came. From it the action property `CacheHonoursTTL`:
  the entry has not expired when it is read, so the unsigned difference does not
  wrap (TTLs are below the modulus, by `ClientAssumption`), and what is shown is over no later than each record. `ServerIsolation` follows from where answers come
  from. `FilterHonoured` is proved under two named hypotheses, independent
  caches and `SingleFilter` (a question is asked of a server under one filter),
  and the run `dns_shared_filter` shows that the first cannot be dropped.
  `RejectionIsOwn` needs `SingleFilter` too, since the key of a rejection has
  no rule; its invariant follows a rejection from the check through the
  goroutine that saves it to the table. Queries can wait for each other in a
  circle: a client may ask a server for the name of that server.
  `CirclesAskServerNames` says that only such queries do, for any number of them and
  any resolvers. Take a query of a circle and one that waits for it. If that one
  dials, the query is the lookup of its server's name. If it waits for the lock of
  a question, it has no lock itself, so whoever waits for it dials: it is the
  lookup of a server's name, and has the same question as the query.
* **URLTestGroup** (`GroupAssumption`). `LoopInv` is inductive as it stands: the
  ticker is there exactly as long as its loop unless the group is closed, and
  the round of a loop is the one it waits for. `GroupInv`: an element of the
  interrupt group is an open connection and the reverse; its types include that
  `Select` returns an outbound of the group. `SwitchImproves` (hypothesis
  `PlainDelays`: delays are positive and leave room for the tolerance) is about
  the loop of `Select`: after any number of outbounds the one it holds is
  within the tolerance of all those it has seen, and never a worse one than the
  current selection.
* **RuleMatch, DNSRouter, Router** (`RouterAssumption`: the rules have the
  shape of rules, zones and connections that of zones and connections;
  `RouterProofs`). Three arguments.
  *Rules match as documented.* `Accepts` says of a rule, without states, when a
  set of states it returns is not empty; `MatchAccepts` proves it of the code's
  computation, bottom up: a rule of a set returns one state or none, the states
  of a logical rule are the combination of those of its parts, a
  rule-set hands the groups its rule has matched down and its branches'
  alternatives back. `AcceptsAsDocumented` compares it with the formula of the
  documents. `MatchesAsDocumented` holds for all route rules, fields and metadata
  where the flags of a rule-set reach its rules (`FlagsReach`).
  *Two phases decide as one.* A rule that accepts the answer has accepted
  before it (`MatchesBefore`): without the addresses, what an inverted rule or a
  rule-set cannot decide is deferred, not refused. A rule behind which the walk stands has
  been passed for a reason (`Walked`: it did not match, it does not decide, its
  server failed or was not usable, or its check rejected the answer), and none
  of the reasons is open to a rule that applies. So the first one that applies
  answers (`DNSFirstRuleWins`).
  *Pre-match.* While no rule-set is reloaded and no server fails, the metadata
  after each rule is a function of the metadata at the start (`Reaches`,
  `PathsAgree`); a pre-match that rejects has come to the rejecting rule along
  this path without the payload, and a match with the payload comes along the
  same path to the same rule (`WalkOK`).
  `DialsOwnAddresses` follows from a part of `RouterInv`: addresses in the metadata,
  and those of the answer a connection waits for, are one whole answer of a server
  or of a predefined rule, for the domain the connection goes to now. An answer of
  the fakeip server is among them only if a resolve rule names that server, since
  otherwise the walk of the DNS rules passes it over.
* **ConnectionManager, Selector** (`ManagerAssumption`, `SelectorAssumption`).
  `SelectorInv` is inductive: a connection is in one of three phases (`Before`,
  `During`, `After`) that tie the copies, the shared flag, the open sides and the
  count of `onClose` together; `TakenInv` says that what a CloseAll has taken was
  dialed and has left the list, without which its close would leave a closed
  connection in the list; a connection is in the group only after its dial. A
  step changes one connection (`OthersKept`), so each action is looked at for
  the connection that takes it. `CloseOnce` is read off the phases. `Persisted`
  needs `StoreInv` (the one call that is about to store has the selected tag),
  `SwitchReaches` needs `ReachInv`, which includes the connections being dialed.
* **BoxLifecycle, Daemon** (`BoxAssumption`: the configurations have the shape of
  configurations, with different names for different items; `DaemonProofs`).
  For any configuration, that is any lists and any graph of dependencies, any
  number of Boxes and any callers. `BoxesInv` is about each Box, `ServiceInv`
  about the calls.
  *A Box.* `ItemsInv` says which list a manager has, `LoopInv` what a loop still
  has to start, `StageInv` how far each item has come in terms of the calls that
  are over, `CallsInv` how Start and Close stand to each other, and `OpenInv`
  that what is open belongs to a component whose Close is still to come: with
  it `NothingLeft` is read off the end of Close, and `InboundsServed` off the
  position of the inbounds in both lists, for endpoints in the list of Start and
  through the passes of the outbound manager, which starts them (`InboundsLast`).
  A Close between its look at `done` and its close is part of `CallsInv`. Close may run while Start does; the
  parts that fail then say so, `DependenciesFirst` does not. For
  `StartVerdict`, `PassInv` says that what the passes have started could be
  started in that order (`Ordered`). When a pass ends with nothing done, every
  item left depends on one that is left or missing, so the dependencies cannot be
  obeyed (`NoneCould`); when nothing is left, they have been (`AllCould`).
  *The service.* While starts do not come at the same time: at most one call of
  `StartOrReloadService` and one of `CloseService` are going on, and of one
  instance (`OneStarter`, `ClosesAll`, `StartsNew`); every other instance has been closed or is about to be
  (`OthersClosed`), and a Close that is not over is waited for by one of
  these calls (`Awaited`): the caller whose Close did the work, the reload, or the
  Start that failed and closes itself. A new instance is created only when
  nobody waits any more. Two instances that run would be waited for by the same
  call, which has one of them (`OneInstance`); IDLE is set by the last waiting
  call (`StatusHonest`).

Proved for every instance, and therefore not among the runs: `AtMostOneOpen`,
`CloseLeavesNothing` and `NoLostWakeup` of the connector, `DrainSignalled` and
`ClosedIsQuiet` of the base transport, `ServerIsolation` of the client, and the
inductive invariants `IInv`, `ClientInv`, `RouterInv`, `BoxesInv` and `ServiceInv`.

Only model-checked: all liveness (`GetReturns`, `CloseDrains`, `AllReturn`,
`Failover`, `IdleStops`, `Released`, `Decided`, `CallsReturn`), which is out of
the prover's reach. Every safety property of a passing run is also a theorem.

## 6 Where code and documents disagree

* `dns_shared_filter`: the cache is consulted before the filter of a rule and is
  by default keyed by the question alone, so a rule with an address filter can
  return an answer its filter rejects (docs/configuration/dns/rule.md:495).
* `selector_inbound`: with `interrupt_exist_connections` an inbound connection
  routed to the selector stays on the old outbound after a switch, because
  `NewConnectionEx` hands the selected outbound to the connection manager and
  nothing registers the connection (docs/configuration/outbound/selector.md:36).

A third disagreement is in the models and not a run of its own: the documents list
the fields of a DNS rule's address group without `ip_cidr`
(docs/configuration/dns/rule.md:205-210) and say that a rule is skipped when the
answer does not match (:495), while in the code a domain that matches satisfies the
group, so a rule with a domain and `ip_cidr` accepts every answer for that domain.
`DNSFirstRuleWins` excepts such rules.

Three more behaviours are recorded as hazards, since no document promises
otherwise: two calls of `Box.Close` that meet between the look at `done` and its
close (box.go:497-502) make the second panic, with the lock of the service held if
it is `CloseService`'s; after a change of ranges with one family in use, `FakeIPReset` fails
as a whole on the missing bucket and old bindings stay answered; and a query for
the domain of a server's own address holds the lock its own dial waits for,
until the deadline.

## 7 Not modelled

Protocol adapters, wire formats, TLS, sniffers, the platform bindings, the HTTP
and gRPC APIs and configuration parsing: data processing over third-party
libraries with little control of their own. They are most of the lines of the
repository, together with the copies under `moeclub/` and `upstream/`. Within the modelled components:
message contents and logging; `FakeIPStoreAsync`, which nothing calls; the pause manager and
`NewDirectRouteConnection` of the groups; changes of what a nested group
stands for during a round; NAT and addresses of relayed packets; detours between
inbounds, process search and ICMP in the router; downloads of remote rule-sets
and their timers; `Create` and `Remove` of the managers while the program runs,
which only `box.New` calls; the subscribers of the daemon (`waitForStarted`);
a fallback that cannot be created; the options of rules that change how a query is
sent (TTL, client subnet, strategy). Tags are different by assumption: the options
refuse equal tags for inbounds and for outbounds with endpoints
(option/options.go:77-100), not for DNS servers, services or an endpoint with the
tag of the fallback outbound. Shared fields read without a lock (the
selections of the URLTest group) are modelled as reads of the old or the new value.

Simplifications inside modelled handlers:

* `Connector` is one connector. The code looks at the innermost connector of the
  context only (connector.go:143-146), so a recursion through a second one is
  not recognised; the model has none.
* `UDPTransport` installs a connection that is still open; one that has died while
  it was dialed is installed by the code and fails at its first use, as one that
  dies right after. An error of packing a message (udp.go:199-202) ends as one of
  writing it does.
* `FakeIPStore`: every range has room for an address; `NewStore` checks nothing.
* `DNSClient`: letting the lock go and waking the waiters (client.go:154-155,
  168-169) is one step; the lookup of a server's name is one query, not a
  pair for A and AAAA.
* `URLTestGroup`: what a nested group stands for is fixed, and is always found;
  `Select` and the assignment after it (urltest.go) are one step, though a failing dial
  can delete a result in between.
* `ConnectionManager`: a tracked connection leaves the list and closes in one step
  (conn.go:381-386).
* `DNSRouter`: the answer to a query is the server's own, which with the default
  cache it need not be (`dns_shared_filter`).

## 8 Plan

Modelled: the DNS path from the router to the transports, routing, the relay of
connections, both groups, and the life cycle up to the daemon. Next, in this order:

1. `TLSTransport` (dns/transport/tls.go) on `BaseTransport`: the pool against
   Close and Reset; a connection put back between the two halves of Close.
2. Remote rule-sets: the download with its tag and ticker against Close.
3. The subscribers of the daemon.
