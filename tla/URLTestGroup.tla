---------------------------- MODULE URLTestGroup ----------------------------
(***************************************************************************)
(* The URLTest outbound group (protocol/group/urltest.go): connections are *)
(* dialed through the outbound that is selected for their network, a loop  *)
(* started by the first use tests the outbounds until the group has been   *)
(* idle for IdleTimeout, and a round of tests ends by selecting again and  *)
(* interrupting the connections of the group (common/interrupt).           *)
(*                                                                         *)
(* Times are kept as ages: how long ago the group was last used and how    *)
(* old each test result is, capped where the code stops telling them apart.*)
(* Starting the tests of a round is one step and so is a Select; the ends  *)
(* of the tests, the two updates, the interruption and the steps of        *)
(* DialContext interleave. Tests and dials have any outcome until the      *)
(* network settles, which it need not do; from then on they succeed        *)
(* exactly through the tags in Survivors.                                  *)
(***************************************************************************)
EXTENDS Naturals, Sequences, SequencesExt

CONSTANTS
    Outbounds,          \* the outbounds of the group, in the order of the options
    Network,            \* the networks each of them supports
    RealTag,            \* the tag it is tested under: its own, or a group's current one
    Delays,             \* delays a test of each tag may measure
    Word,               \* 2^16: delays are uint16
    Tolerance, Interval, IdleTimeout,
    InterruptExternal,  \* interrupt_exist_connections
    Clients,            \* callers of DialContext and ListenPacket
    Loops,              \* goroutines that may run loopCheck
    Outside,            \* a round asked for by PostStart or by an API
    Survivors,          \* tags that work once the network has settled
    None

Detours == ToSet(Outbounds)
Tags == Detours \cup {RealTag[o] : o \in Detours}
Networks == {"tcp", "udp"}

ASSUME GroupAssumption ==
    /\ Outbounds \in Seq(Detours) /\ None \notin Detours
    /\ Tolerance \in Nat /\ Word \in Nat /\ Delays \in [Tags -> SUBSET (0..(Word - 1))]
    /\ Interval \in Nat \ {0} /\ IdleTimeout \in Nat /\ Interval <= IdleTimeout
    /\ InterruptExternal \in BOOLEAN
    /\ None \notin Loops /\ Outside \notin Loops /\ None # Outside

VARIABLES
    started,    \* PostStart has been called
    closed,     \* the channel close is closed
    ticker,     \* "nil", "on" or "stopped"
    tick,       \* ticker.C holds a tick
    due,        \* time until the ticker fires
    loop,       \* program counter of each loopCheck goroutine
    idle,       \* time since lastActive
    history,    \* result of the last test of a tag, or None
    round,      \* the round of tests that has the flag checking, if any
    selected,   \* selectedOutboundTCP and selectedOutboundUDP
    dial,       \* the connection each client dials or uses
    group,      \* clients whose connection is in the interrupt group
    settled     \* environment: only the Survivors work, and they do

vars == <<started, closed, ticker, tick, due, loop, idle, history, round, selected,
          dial, group, settled>>

loopVars == <<started, closed, ticker, tick, due, loop, idle>>
dialVars == <<dial, group>>

Results == [delay : UNION {Delays[t] : t \in Tags}, age : 0..Interval]
NoRound == [by |-> None, phase |-> "none", testing |-> {}, updated |-> FALSE]
NoDial == [pc |-> "idle", network |-> "tcp", external |-> FALSE, outbound |-> None]

TypeOK ==
    /\ started \in BOOLEAN /\ closed \in BOOLEAN /\ tick \in BOOLEAN
    /\ ticker \in {"nil", "on", "stopped"}
    /\ loop \in [Loops -> {"none", "start", "wait", "fired", "stopping", "checking"}]
    /\ idle \in 0..(IdleTimeout + 1) /\ due \in 1..Interval
    /\ history \in [Tags -> Results \cup {None}]
    /\ round \in [by : Loops \cup {Outside, None}, testing : SUBSET Tags, updated : BOOLEAN,
                  phase : {"none", "tcp", "udp", "interrupt"}]
    /\ selected \in [Networks -> Detours \cup {None}]
    /\ dial \in [Clients -> [pc : {"idle", "touched", "picked", "dialed", "open", "interrupted"},
                             network : Networks, external : BOOLEAN,
                             outbound : Detours \cup {None}]]
    /\ group \subseteq Clients
    /\ settled \in BOOLEAN

Init ==
    /\ started = FALSE /\ closed = FALSE /\ tick = FALSE /\ ticker = "nil"
    /\ loop = [l \in Loops |-> "none"]
    /\ idle = IdleTimeout + 1 /\ due = Interval
    /\ history = [t \in Tags |-> None]
    /\ round = NoRound
    /\ selected = [n \in Networks |-> None]
    /\ dial = [c \in Clients |-> NoDial]
    /\ group = {}
    /\ settled = FALSE

(***************************************************************************)
(* Selection.                                                              *)
(***************************************************************************)
Tested(o) == history[RealTag[o]] # None
Delay(o) == history[RealTag[o]].delay

\* Mutant: the tolerance is forgotten.
BetterByAny(min, o) == min = 0 \/ min > Delay(o)

\* A delay of 0 means none so far; the sum is computed in uint16.
Better(min, o) == min = 0 \/ min > (Delay(o) + Tolerance) % Word

\* Where Select starts: the current selection, if it has a result.
Current(n) ==
    IF selected[n] # None /\ Tested(selected[n])
      THEN [delay |-> Delay(selected[n]), outbound |-> selected[n]]
      ELSE [delay |-> 0, outbound |-> None]

\* One round of its loop.
Consider(n, min, o) ==
    IF n \in Network[o] /\ Tested(o) /\ Better(min.delay, o)
      THEN [delay |-> Delay(o), outbound |-> o]
      ELSE min

\* The minimum after so many outbounds.
MinAfter(n) ==
    LET min[i \in 0..Len(Outbounds)] ==
            IF i = 0 THEN Current(n) ELSE Consider(n, min[i - 1], Outbounds[i])
    IN min

\* Without any result the first outbound that supports the network.
Select(n) ==
    LET best == MinAfter(n)[Len(Outbounds)].outbound
        able == {i \in 1..Len(Outbounds) : n \in Network[Outbounds[i]]}
    IN CASE best # None -> [outbound |-> best, exists |-> TRUE]
         [] best = None /\ able # {} -> [outbound |-> Outbounds[Min(able)], exists |-> FALSE]
         [] OTHER -> [outbound |-> None, exists |-> FALSE]

(***************************************************************************)
(* The loop and its ticker.                                                *)
(***************************************************************************)
PostStart ==
    /\ ~started
    /\ started' = TRUE /\ idle' = 0
    /\ UNCHANGED <<closed, ticker, tick, due, loop, history, round, selected, dialVars, settled>>

\* A use of the group starts the loop, or tells the running one to go on.
Touch ==
    /\ UNCHANGED <<started, closed>>
    /\ \/ /\ ~started
          /\ UNCHANGED <<ticker, tick, due, loop, idle>>
       \/ /\ started /\ ticker # "nil"
          /\ idle' = 0
          /\ UNCHANGED <<ticker, tick, due, loop>>
       \/ /\ started /\ ticker = "nil"
          /\ ticker' = "on" /\ tick' = FALSE /\ due' = Interval
          /\ \E l \in Loops : loop[l] = "none"
          /\ LET l == CHOOSE l \in Loops : loop[l] = "none"
             IN loop' = [loop EXCEPT ![l] = "start"]
          /\ UNCHANGED idle

LoopTick(l) ==
    /\ loop[l] = "wait" /\ tick
    /\ tick' = FALSE /\ loop' = [loop EXCEPT ![l] = "fired"]
    /\ UNCHANGED <<started, closed, due, ticker, idle, history, round, selected, dialVars, settled>>

LoopCloses(l) ==
    /\ loop[l] = "wait" /\ closed
    /\ loop' = [loop EXCEPT ![l] = "none"]
    /\ UNCHANGED <<started, closed, due, ticker, tick, idle, history, round, selected, dialVars, settled>>

\* Mutant: idle_timeout is not looked at.
NeverIdle == FALSE
TooIdle == idle > IdleTimeout

\* Mutant: the stopped ticker is not forgotten.
KeepTicker == ticker' = "stopped"
DropTicker == ticker' = "nil"

\* The age is read before the lock is taken.
LoopIsIdle(l) ==
    /\ loop[l] = "fired" /\ TooIdle
    /\ loop' = [loop EXCEPT ![l] = "stopping"]
    /\ UNCHANGED <<started, closed, due, ticker, tick, idle, history, round, selected, dialVars, settled>>

LoopStops(l) ==
    /\ loop[l] = "stopping"
    /\ DropTicker /\ tick' = FALSE
    /\ loop' = [loop EXCEPT ![l] = "none"]
    /\ UNCHANGED <<started, closed, due, idle, history, round, selected, dialVars, settled>>

\* The group is closed once, by the outbound manager; without a ticker the
\* call has no effect.
Close ==
    /\ ticker # "nil" /\ ~closed
    /\ ticker' = "stopped" /\ closed' = TRUE
    /\ UNCHANGED <<started, due, tick, loop, idle, history, round, selected, dialVars, settled>>

(***************************************************************************)
(* A round of tests.                                                       *)
(***************************************************************************)
Fresh(t) == history[t] # None /\ history[t].age < Interval

\* urlTest gets the flag checking and starts a test of every tag, unless the
\* last result is fresh.
Begin(by, force) ==
    round' = [by |-> by, phase |-> "tcp", updated |-> FALSE,
              testing |-> {t \in {RealTag[o] : o \in Detours} : force \/ ~Fresh(t)}]

\* urlTest called by the loop: without the flag it returns at once.
LoopChecks(l) ==
    \/ round.by = None /\ Begin(l, FALSE) /\ loop' = [loop EXCEPT ![l] = "checking"]
    \/ round.by # None /\ UNCHANGED round /\ loop' = [loop EXCEPT ![l] = "wait"]

LoopStart(l) ==
    /\ loop[l] = "start"
    /\ \/ idle > Interval /\ idle' = 0 /\ LoopChecks(l)
       \/ idle <= Interval /\ loop' = [loop EXCEPT ![l] = "wait"] /\ UNCHANGED <<idle, round>>
    /\ UNCHANGED <<started, closed, due, ticker, tick, history, selected, dialVars, settled>>

LoopFired(l) ==
    /\ loop[l] = "fired" /\ ~TooIdle
    /\ LoopChecks(l)
    /\ UNCHANGED <<started, closed, due, ticker, tick, idle, history, selected, dialVars, settled>>

\* The goroutine of PostStart, CheckOutbounds and URLTest; while a round runs
\* they return at once.
OutsideCheck ==
    /\ round.by = None
    /\ \E force \in BOOLEAN : Begin(Outside, force)
    /\ UNCHANGED <<loopVars, history, selected, dialVars, settled>>

MayWork(t) == settled => t \in Survivors
MayFail(t) == settled => t \notin Survivors

\* Mutant: a failed test leaves the last result.
KeepHistory(t) == history' = history
DeleteHistory(t) == history' = [history EXCEPT ![t] = None]

TestEnds(t) ==
    /\ t \in round.testing
    /\ round' = [round EXCEPT !.testing = @ \ {t}]
    /\ \/ /\ MayWork(t)
          /\ \E d \in Delays[t] : history' = [history EXCEPT ![t] = [delay |-> d, age |-> 0]]
       \/ MayFail(t) /\ DeleteHistory(t)
    /\ UNCHANGED <<loopVars, selected, dialVars, settled>>

\* One half of performUpdateCheck, after the tests have ended.
UpdateCheck(n) ==
    /\ round.phase = n /\ round.testing = {}
    /\ LET s == Select(n)
           change == s.outbound # None
                       /\ (selected[n] = None \/ (s.exists /\ s.outbound # selected[n]))
       IN /\ selected' = IF change THEN [selected EXCEPT ![n] = s.outbound] ELSE selected
          /\ round' = [round EXCEPT !.phase = IF n = "tcp" THEN "udp" ELSE "interrupt",
                                    !.updated = @ \/ (change /\ selected[n] # None)]
    /\ UNCHANGED <<loopVars, history, dialVars, settled>>

Interrupted == {c \in group : ~dial[c].external \/ InterruptExternal}

\* Interrupt, if an outbound that was selected before has been replaced, and
\* the end of the round.
RoundEnds ==
    /\ round.phase = "interrupt"
    /\ LET cut == IF round.updated THEN Interrupted ELSE {}
       IN /\ group' = group \ cut
          /\ dial' = [c \in Clients |-> IF c \in cut THEN [NoDial EXCEPT !.pc = "interrupted"]
                                                    ELSE dial[c]]
    /\ round' = NoRound
    /\ loop' = [l \in Loops |-> IF l = round.by THEN "wait" ELSE loop[l]]
    /\ UNCHANGED <<started, closed, due, ticker, tick, idle, history, selected, settled>>

(***************************************************************************)
(* DialContext and ListenPacket.                                           *)
(***************************************************************************)
DialContext(c) ==
    /\ dial[c].pc = "idle"
    /\ \E n \in Networks :
         dial' = [dial EXCEPT ![c] = [NoDial EXCEPT !.pc = "touched", !.network = n]]
    /\ Touch
    /\ UNCHANGED <<history, round, selected, group, settled>>

Pick(c) ==
    /\ dial[c].pc = "touched"
    /\ LET n == dial[c].network
           o == IF selected[n] # None THEN selected[n] ELSE Select(n).outbound
       IN dial' = [dial EXCEPT ![c] = IF o = None THEN NoDial
                                      ELSE [@ EXCEPT !.pc = "picked", !.outbound = o]]
    /\ UNCHANGED <<loopVars, history, round, selected, group, settled>>

Dialed(c) ==
    /\ dial[c].pc = "picked" /\ MayWork(RealTag[dial[c].outbound])
    /\ dial' = [dial EXCEPT ![c] = [NoDial EXCEPT !.pc = "dialed"]]
    /\ UNCHANGED <<loopVars, history, round, selected, group, settled>>

\* The result is deleted under the outbound's own tag.
DialFails(c) ==
    /\ dial[c].pc = "picked" /\ MayFail(RealTag[dial[c].outbound])
    /\ history' = [history EXCEPT ![dial[c].outbound] = None]
    /\ dial' = [dial EXCEPT ![c] = NoDial]
    /\ UNCHANGED <<loopVars, round, selected, group, settled>>

NewConn(c) ==
    /\ dial[c].pc = "dialed"
    /\ \E external \in BOOLEAN : dial' = [dial EXCEPT ![c].pc = "open", ![c].external = external]
    /\ group' = group \cup {c}
    /\ UNCHANGED <<loopVars, history, round, selected, settled>>

\* Mutant: a closed connection stays in the group.
StayInGroup(c) == group' = group
LeaveGroup(c) == group' = group \ {c}

CloseConn(c) ==
    /\ dial[c].pc \in {"open", "interrupted"}
    /\ dial' = [dial EXCEPT ![c] = NoDial]
    /\ LeaveGroup(c)
    /\ UNCHANGED <<loopVars, history, round, selected, settled>>

(***************************************************************************)
(* Environment: time passes, the network settles.                          *)
(***************************************************************************)
LoopReady(l) ==
    loop[l] \in {"start", "fired", "stopping"} \/ (loop[l] = "wait" /\ (tick \/ closed))

\* Time passes while the loop waits for its ticker or for tests; the loop's own
\* steps take none.
Clock ==
    /\ \A l \in Loops : ~LoopReady(l)
    /\ idle' = IF idle > IdleTimeout THEN idle ELSE idle + 1
    /\ history' = [t \in Tags |-> IF history[t] = None \/ history[t].age = Interval
                                    THEN history[t]
                                    ELSE [history[t] EXCEPT !.age = @ + 1]]
    /\ tick' = (tick \/ (ticker = "on" /\ due = 1))
    /\ due' = IF ticker # "on" THEN due ELSE IF due = 1 THEN Interval ELSE due - 1
    /\ UNCHANGED <<started, closed, ticker, loop, round, selected, dialVars, settled>>

Settles ==
    /\ ~settled
    /\ settled' = TRUE
    /\ UNCHANGED <<loopVars, history, round, selected, dialVars>>

LoopStep(l) ==
    \/ LoopStart(l) \/ LoopTick(l) \/ LoopCloses(l) \/ LoopFired(l) \/ LoopIsIdle(l) \/ LoopStops(l)
RoundStep ==
    \/ RoundEnds
    \/ \E t \in Tags : TestEnds(t)
    \/ \E n \in Networks : UpdateCheck(n)
DialStep(c) == Pick(c) \/ Dialed(c) \/ DialFails(c) \/ NewConn(c)

Next ==
    \/ PostStart \/ Close \/ Clock \/ Settles \/ OutsideCheck
    \/ \E l \in Loops : LoopStep(l)
    \/ RoundStep
    \/ \E c \in Clients : DialContext(c) \/ DialStep(c) \/ CloseConn(c)

Spec == Init /\ [][Next]_vars

\* The goroutines run, tests and dials end by their timeouts and time passes;
\* nobody has to use the group or close it.
FairSpec ==
    /\ Spec
    /\ WF_vars(Clock) /\ WF_vars(RoundStep)
    /\ \A l \in Loops : WF_vars(LoopStep(l))
    /\ \A c \in Clients : WF_vars(DialStep(c))

(***************************************************************************)
(* Properties.                                                             *)
(***************************************************************************)

\* Types, and the interrupt group holds exactly the open connections: Interrupt
\* closes what it removes and Close removes what it closes.
GroupInv ==
    /\ TypeOK
    /\ group = {c \in Clients : dial[c].pc = "open"}

Running(l) == loop[l] # "none"

\* At most one loopCheck runs and it never finds the ticker nil; while the group
\* is not closed a ticker that is set has a running loop, so a Touch that only
\* notes the time relies on a loop that is there; and the round of a loop is
\* the one the loop waits for.
LoopInv ==
    /\ loop \in [Loops -> {"none", "start", "wait", "fired", "stopping", "checking"}]
    /\ \A l, m \in Loops : Running(l) /\ Running(m) => l = m
    /\ \A l \in Loops : Running(l) => ticker # "nil"
    /\ ticker # "nil" /\ ~closed => ticker = "on" /\ \E l \in Loops : Running(l)
    /\ \A l \in Loops : loop[l] = "checking" <=> round.by = l

\* With positive delays that leave room for the tolerance in a uint16,
\* performUpdateCheck replaces a selection only by an outbound with a result that
\* is better by more than the tolerance than the one it replaces, if that one
\* still has a result, and no other outbound is then better than it by more than
\* the tolerance.
SwitchImproves ==
    [][\A n \in Networks :
        LET old == selected[n]
            new == selected'[n]
        IN new # old /\ old # None =>
            /\ Tested(new)
            /\ Tested(old) => Delay(new) + Tolerance < Delay(old)
            /\ \A o \in Detours :
                 n \in Network[o] /\ Tested(o) => Delay(new) <= Delay(o) + Tolerance]_vars

\* If the group is started, the network settles and the group is used again and again and not closed,
\* it ends up with an outbound that works, for every network that has one.
Failover ==
    \A n \in Networks :
        LET working == {o \in Detours : n \in Network[o] /\ RealTag[o] \in Survivors}
        IN /\ working # {}
           /\ []~closed
           /\ <>started /\ <>settled
           /\ []<>(\E c \in Clients : dial[c].pc = "touched")
           => <>[](selected[n] \in working)

\* If nobody uses the group any more the loop ends, also when the group is closed
\* before or after that.
IdleStops ==
    <>[](\A c \in Clients : dial[c].pc # "touched") => <>[](\A l \in Loops : ~Running(l))
=============================================================================
