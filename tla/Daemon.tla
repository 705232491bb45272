------------------------------- MODULE Daemon -------------------------------
(***************************************************************************)
(* StartedService (daemon/started_service.go) runs one Box at a time for   *)
(* an application: StartOrReloadService replaces the running instance by a *)
(* new one, CloseService stops it, SetError reports an error of the        *)
(* platform.  The lock is let go while the old instance is closed and      *)
(* while the new one starts, and is held while CloseService closes.  A     *)
(* panic in a call of the service is not recovered and ends the program.   *)
(***************************************************************************)
EXTENDS BoxLifecycle

CONSTANTS
    Starters,   \* callers of StartOrReloadService
    Closers     \* callers of CloseService

VARIABLES
    serviceStatus,
    instance,     \* the Box of the service, or None
    fresh,        \* Boxes that have not been created
    starter,      \* where each caller of StartOrReloadService is, with its Box
    closer,       \* the same for CloseService
    crowded,      \* history: a start began while another was going on
    panicked      \* done of a Box has been closed twice

daemonVars == <<serviceStatus, instance, fresh, starter, closer, crowded, panicked>>
vars == <<config, boxVars, daemonVars>>

NoCall == [at |-> "idle", box |-> None, own |-> FALSE]

Init ==
    /\ BoxInit
    /\ serviceStatus = "IDLE"
    /\ instance = None
    /\ fresh = Configs[config].boxes
    /\ starter = [s \in Starters |-> NoCall]
    /\ closer = [k \in Closers |-> NoCall]
    /\ crowded = FALSE
    /\ panicked = FALSE

\* serviceAccess is free.
Unlocked == \A k \in Closers : closer[k].at = "idle"

\* A caller calls Close of a Box, which looks at done; `waiting` is where the
\* caller waits for Close to return.
CallClose(b, waiting) ==
    [at |-> IF FoundOpen(b) THEN "checked" ELSE waiting, box |-> b, own |-> FoundOpen(b)]

\* The work of the Close that has been called begins.
CloseBegins(b) ==
    /\ Closes(b)
    /\ overlap' = [overlap EXCEPT ![b] = starting[b].at \notin {"none", "ok", "failed"}]

\* Close has returned.
Closed(call) == call.own => closing[call.box] = Finished

\* A new instance is created and started, or cannot be created.
NewInstance(s) ==
    /\ \/ \E b \in fresh :
            /\ \A c \in fresh : b <= c
            /\ serviceStatus' = "STARTING"
            /\ instance' = b
            /\ fresh' = fresh \ {b}
            /\ starter' = [starter EXCEPT ![s] = [at |-> "starting", box |-> b, own |-> FALSE]]
            /\ BoxStarts(b)
       \/ /\ serviceStatus' = "FATAL"
          /\ starter' = [starter EXCEPT ![s] = NoCall]
          /\ UNCHANGED <<instance, fresh, starting>>

\* Mutant: the old instance is left running.
LeaveOld(s) == NewInstance(s)

\* The old instance, if there is one, is closed without the lock.
CloseOld(s) ==
    IF instance = None THEN NewInstance(s)
    ELSE /\ serviceStatus' = "STOPPING"
         /\ starter' = [starter EXCEPT ![s] = CallClose(instance, "closeOld")]
         /\ UNCHANGED <<instance, fresh, starting>>

StartOrReloadService(s) ==
    /\ Unlocked /\ starter[s].at = "idle" /\ fresh # {}
    /\ serviceStatus # "STOPPING"
    /\ CloseOld(s)
    /\ crowded' = (crowded \/ \E t \in Starters : starter[t].at # "idle")
    /\ UNCHANGED <<config, manager, item, closing, overlap, faulty, closer, panicked>>

OldCloses(s) ==
    /\ starter[s].at = "checked"
    /\ CloseBegins(starter[s].box)
    /\ starter' = [starter EXCEPT ![s].at = "closeOld"]
    /\ UNCHANGED <<config, manager, item, starting, faulty>>
    /\ UNCHANGED <<serviceStatus, instance, fresh, closer, crowded, panicked>>

OldClosed(s) ==
    /\ Unlocked
    /\ starter[s].at = "closeOld" /\ Closed(starter[s])
    /\ NewInstance(s)
    /\ UNCHANGED <<config, manager, item, closing, overlap, faulty, closer, crowded, panicked>>

\* Mutant: the status is set whatever it has become.
AnyStatus(s) == TRUE

StillStarting(s) == serviceStatus = "STARTING"

\* Start of the instance has returned.
StartReturns(s) ==
    /\ Unlocked
    /\ starter[s].at = "starting" /\ starting[starter[s].box].at \in {"ok", "failed"}
    /\ serviceStatus' = IF ~StillStarting(s) THEN serviceStatus
                        ELSE IF starting[starter[s].box].at = "ok" THEN "STARTED" ELSE "FATAL"
    /\ starter' = [starter EXCEPT ![s] = NoCall]
    /\ UNCHANGED <<config, boxVars, instance, fresh, closer, crowded, panicked>>

CloseService(k) ==
    /\ Unlocked /\ serviceStatus \in {"STARTING", "STARTED"}
    /\ serviceStatus' = "STOPPING"
    /\ instance' = None
    /\ closer' = [closer EXCEPT ![k] =
            IF instance = None THEN [NoCall EXCEPT !.at = "closing"]
            ELSE CallClose(instance, "closing")]
    /\ UNCHANGED <<config, boxVars, fresh, starter, crowded, panicked>>

ServiceCloses(k) ==
    /\ closer[k].at = "checked"
    /\ CloseBegins(closer[k].box)
    /\ closer' = [closer EXCEPT ![k].at = "closing"]
    /\ UNCHANGED <<config, manager, item, starting, faulty>>
    /\ UNCHANGED <<serviceStatus, instance, fresh, starter, crowded, panicked>>

\* The instance has been closed; closing it a second time is an error, and a
\* component may fail to close.
ServiceClosed(k) ==
    /\ closer[k].at = "closing" /\ Closed(closer[k])
    /\ \/ serviceStatus' = "IDLE" /\ (closer[k].own \/ closer[k].box = None)
       \/ serviceStatus' = "FATAL" /\ closer[k].box # None
    /\ closer' = [closer EXCEPT ![k] = NoCall]
    /\ UNCHANGED <<config, boxVars, instance, fresh, starter, crowded, panicked>>

SetError ==
    /\ Unlocked
    /\ serviceStatus' = "FATAL"
    /\ UNCHANGED <<config, boxVars, instance, fresh, starter, closer, crowded, panicked>>

\* A call that has found done open finds it closed when it closes it.
Panics(call) ==
    /\ call.at = "checked" /\ closing[call.box] # 0
    /\ panicked' = TRUE
    /\ UNCHANGED <<config, boxVars, serviceStatus, instance, fresh, starter, closer, crowded>>

BoxStep(b) == (StartStep(b) \/ CloseNext(b)) /\ UNCHANGED <<config, daemonVars>>

StarterStep(s) == OldCloses(s) \/ Panics(starter[s]) \/ OldClosed(s) \/ StartReturns(s)

CloserStep(k) == ServiceCloses(k) \/ Panics(closer[k]) \/ ServiceClosed(k)

\* Nobody calls any more.
Rest ==
    /\ fresh = {} /\ Unlocked
    /\ \A s \in Starters : starter[s].at = "idle"
    /\ \A b \in Configs[config].boxes :
            starting[b].at \in {"ok", "failed"} /\ closing[b] \in {0, Finished}
    /\ UNCHANGED vars

\* The program has ended.
Stopped == panicked /\ UNCHANGED vars

Runs ==
    \/ \E s \in Starters : StartOrReloadService(s) \/ StarterStep(s)
    \/ \E k \in Closers : CloseService(k) \/ CloserStep(k)
    \/ \E b \in Boxes : BoxStep(b)
    \/ SetError
    \/ Rest

Next == (~panicked /\ Runs) \/ Stopped

Spec == Init /\ [][Next]_vars

\* The goroutines in Start, Close and the calls of the service run on.
FairSpec ==
    /\ Spec
    /\ \A b \in Boxes :
        /\ WF_vars(~panicked /\ StartStep(b) /\ UNCHANGED <<config, daemonVars>>)
        /\ WF_vars(~panicked /\ CloseNext(b) /\ UNCHANGED <<config, daemonVars>>)
    /\ \A s \in Starters : WF_vars(~panicked /\ StarterStep(s))
    /\ \A k \in Closers : WF_vars(~panicked /\ CloserStep(k))
----------------------------------------------------------------------------
Running(b) == \E x \in AllItems : item[b][x].open

(* Outbounds, endpoints and DNS servers are started after everything they  *)
(* depend on, in whatever order they are configured (startOutbounds,       *)
(* startTransports), also when the Box is closed in between.               *)
DependenciesFirst ==
    \A b \in Boxes : \A x \in AllItems :
        item[b][x].stage >= 2 => \A y \in Deps(x) : y \in AllItems /\ item[b][y].stage >= 2

(* While an inbound takes connections, the outbounds, the endpoints, the   *)
(* DNS servers and the other components it needs are there: they have been *)
(* started before and are closed after it, whatever fails in between       *)
(* (Box.start, Box.Close), unless Close came while Start was running.      *)
(* Endpoints are there until Close is called: Close closes them before the *)
(* inbounds.  Services start after the inbounds and are not needed.        *)
InboundsServed ==
    \A b \in Boxes : ~overlap[b] =>
        \A x \in ItemsOf("inbound") : item[b][x].open /\ item[b][x].stage >= 2 =>
            \A m \in Components \ {"inbound", "service"} : \A y \in ItemsOf(m) :
                \/ item[b][y].open /\ item[b][y].stage >= 2
                \/ m = "endpoint" /\ closing[b] # 0

(* When Start and Close have returned nothing is left open, wherever Start *)
(* failed (the started flags of the managers), unless Close came while     *)
(* Start was running.                                                      *)
NothingLeft ==
    \A b \in Boxes :
        starting[b].at \in {"ok", "failed"} /\ closing[b] = Finished /\ ~overlap[b] => ~Running(b)

\* The dependencies can be obeyed: none is missing and none is circular.
Ordered(X) == \A Y \in SUBSET X : Y # {} => \E x \in Y : Deps(x) \cap Y = {}

Offered(m) == Among(m) \cup (IF NeedsFallback(m) THEN {Fallback[m]} ELSE {})

ResolvableFor(m) ==
    /\ \A x \in Offered(m) : Deps(x) \subseteq Offered(m)
    /\ Ordered(Offered(m))
    /\ ~NoDefault(m)

Resolvable == \A m \in DOMAIN Fallback \cap Components : ResolvableFor(m)

(* Start of a Box that nobody closes succeeds exactly when no item fails   *)
(* and the dependencies can be obeyed, and then every item has been        *)
(* through all stages.                                                     *)
StartVerdict ==
    \A b \in Boxes : ~overlap[b] =>
        /\ starting[b].at = "failed" => faulty[b] \/ ~Resolvable
        /\ starting[b].at = "ok" => /\ Resolvable
                                    /\ \A m \in Components : \A x \in ItemsOf(m) :
                                            item[b][x].stage = 4

(* The status tells what runs: STARTED means that the instance has started *)
(* and has not been closed, IDLE that nothing is left, unless starts came  *)
(* at the same time (StartOrReloadService, CloseService).                  *)
StatusHonest ==
    ~crowded =>
        /\ serviceStatus = "STARTED" =>
            instance # None /\ starting[instance].at = "ok" /\ closing[instance] = 0
        /\ serviceStatus = "STARTING" => \E s \in Starters : starter[s].at = "starting"
        /\ serviceStatus = "IDLE" => instance = None
            /\ \A b \in Boxes : Running(b) => overlap[b]

(* Two instances never run at the same time (the second would find ports   *)
(* and the cache file taken): the old one has been closed before the new   *)
(* one is created, unless starts came at the same time or the old one was  *)
(* closed while it was starting; an error the platform sets at any time    *)
(* makes no difference.                                                    *)
OneInstance ==
    ~crowded => \A b, c \in Boxes :
        b # c /\ Running(b) /\ Running(c) => overlap[b] \/ overlap[c]

(* Every call returns: passes over dependencies end, also when they are    *)
(* circular, and no two calls wait for each other; unless the program ends *)
(* in between, as two calls of Close that meet at done do (Box.Close).     *)
CallsReturn ==
    /\ \A s \in Starters : starter[s].at # "idle" ~> starter[s].at = "idle" \/ panicked
    /\ \A k \in Closers : closer[k].at # "idle" ~> closer[k].at = "idle" \/ panicked
=============================================================================
