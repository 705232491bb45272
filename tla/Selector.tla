------------------------------ MODULE Selector ------------------------------
(***************************************************************************)
(* The selector group (protocol/group/selector.go) on top of the           *)
(* connection manager: users select an outbound, which is stored in the    *)
(* cache file and interrupts connections; connections are dialed through   *)
(* the outbound that is selected when they come.                           *)
(*                                                                         *)
(* A connection dialed with the selector's DialContext or ListenPacket is  *)
(* registered with its interrupt group (common/interrupt): internal        *)
(* connections, and inbound ones that come through another group.  Inbound *)
(* connections that are routed to the selector itself go from              *)
(* NewConnectionEx straight to the selected outbound.                      *)
(***************************************************************************)
EXTENDS ConnectionManager

CONSTANTS
    Outbounds,          \* the group's tags
    Removed,            \* a tag that is no longer one of them
    Default,            \* the default tag, or the first one
    InterruptExternal,  \* interrupt_exist_connections
    Users,              \* calls of SelectOutbound
    None

ASSUME SelectorAssumption ==
    /\ Default \in Outbounds /\ Removed \notin Outbounds /\ None \notin Outbounds
    /\ InterruptExternal \in BOOLEAN

VARIABLES
    selected,
    stored,   \* the selection in the cache file, or None
    user,     \* where each call of SelectOutbound is, and with which tag
    via,      \* the outbound each connection is dialed through
    group,    \* the interrupt group
    late,     \* history: connections being dialed at an Interrupt
    diverged  \* history: two selections overlapped, or one was not stored

selectorVars == <<selected, stored, user, via, group, late, diverged>>
vars == <<managerVars, selectorVars>>

UserStates == [pc : {"idle", "store", "interrupt"}, tag : Outbounds \cup {None}]

TypeOK ==
    /\ ManagerTypeOK
    /\ selected \in Outbounds
    /\ stored \in Outbounds \cup {Removed, None}
    /\ user \in [Users -> UserStates]
    /\ via \in [Conns -> Outbounds \cup {None}]
    /\ group \subseteq Conns /\ late \subseteq Conns
    /\ diverged \in BOOLEAN

\* Mutant: the configured default goes first.
DefaultFirst(tag) == Default

\* Start: the stored selection, unless it is gone, or else the default.
Selection(tag) == IF tag \in Outbounds THEN tag ELSE Default

NotSelecting == [pc |-> "idle", tag |-> None]

Init ==
    /\ ManagerInit
    /\ stored = Removed
    /\ selected = Selection(stored)
    /\ user = [u \in Users |-> NotSelecting]
    /\ via = [c \in Conns |-> None]
    /\ group = {} /\ late = {}
    /\ diverged = FALSE

-----------------------------------------------------------------------------
(* Selecting.                                                              *)

Idle == \A u \in Users : user[u].pc = "idle"

\* s.selected.Swap; a tag that is selected already, or unknown, changes nothing.
Swap(u, t) ==
    /\ user[u].pc = "idle" /\ t # selected
    /\ selected' = t
    /\ user' = [user EXCEPT ![u] = [pc |-> "store", tag |-> t]]
    /\ diverged' = (diverged \/ \E v \in Users : user[v].pc = "store")
    /\ UNCHANGED <<managerVars, stored, via, group, late>>

StoreSelected(u) ==
    /\ user[u].pc = "store"
    /\ user' = [user EXCEPT ![u].pc = "interrupt"]
    /\ \/ stored' = user[u].tag /\ UNCHANGED diverged
       \/ UNCHANGED stored /\ diverged' = TRUE
    /\ UNCHANGED <<managerVars, selected, via, group, late>>

\* Mutant: external connections only, when they are to be interrupted.
ExternalOnly(c) == kind[c] # "internal" /\ InterruptExternal

\* !isExternal || interruptExternalConnections
Interrupts(c) == kind[c] = "internal" \/ InterruptExternal

\* Interrupt closes the tracked connections and takes them out of the group.
Interrupt(u) ==
    LET hit == {c \in group : Interrupts(c)}
    IN /\ user[u].pc = "interrupt"
       /\ user' = [user EXCEPT ![u] = NotSelecting]
       /\ group' = group \ hit
       /\ open' = [c \in Conns |-> IF c \in hit THEN open[c] \ {"remote"} ELSE open[c]]
       /\ connections' = connections \ hit
       /\ late' = late \cup {c \in Conns : at[c] \in {"dial", "dialed"} /\ via[c] # selected}
       /\ UNCHANGED <<at, kind, caller, up, down, done, onClose, closing>>
       /\ UNCHANGED <<selected, stored, via, diverged>>

-----------------------------------------------------------------------------
(* Dialing.                                                                *)

\* s.selected.Load()
Via(c) == via' = [via EXCEPT ![c] = selected]

\* NewConnectionEx, or the DialContext of the group in front.
RoutedHere(c) ==
    /\ Routed(c) \/ DialInternal(c)
    /\ Via(c)
    /\ UNCHANGED <<selected, stored, user, group, late, diverged>>

\* interruptGroup.NewConn for what was dialed with DialContext.
Register(c) ==
    /\ DialReturns(c)
    /\ group' \in IF kind[c] = "internal" THEN {group \cup {c}} ELSE {group, group \cup {c}}
    /\ UNCHANGED <<selected, stored, user, via, late, diverged>>

\* Mutant: the connection stays in the group.
LeaveInGroup(c) == group

\* Close of interrupt.Conn takes it out of the group.
LeaveGroup(c) == group \ {c}

CloseGrouped(c) ==
    /\ ClosesRemote(c)
    /\ group' = LeaveGroup(c)
    /\ UNCHANGED <<selected, stored, user, via, late, diverged>>

\* The program stops or crashes, and starts again.
Restart ==
    /\ ManagerRestarts
    /\ selected' = Selection(stored)
    /\ user' = [u \in Users |-> NotSelecting]
    /\ via' = [c \in Conns |-> None]
    /\ group' = {} /\ late' = {}
    /\ diverged' = FALSE
    /\ UNCHANGED stored

-----------------------------------------------------------------------------
ConnStep(c) ==
    \/ RoutedHere(c) \/ Register(c) \/ CloseGrouped(c)
    \/ KeepsRemote(c) /\ UNCHANGED selectorVars

Next ==
    \/ \E c \in Conns : ConnStep(c)
    \/ CloseAll /\ UNCHANGED selectorVars
    \/ \E u \in Users : (\E t \in Outbounds : Swap(u, t)) \/ StoreSelected(u) \/ Interrupt(u)
    \/ Restart

Spec == Init /\ [][Next]_vars

\* The goroutines that do not wait for a peer: NewConnection after its dial, and
\* a copy that is over or whose next call is to a side that has been closed.
HandshakeRuns(c) ==
    \/ at[c] = "dialed"
    \/ at[c] \in {"report", "kickDown"} /\ "local" \notin open[c]
    \/ at[c] = "kickUp" /\ "remote" \notin open[c]

CopyRuns(c, d) ==
    \/ Copier(c, d) \in {"swap", "close"}
    \/ Copier(c, d) = "copy" /\ Source(d) \notin open[c]
    \/ Copier(c, d) = "write" /\ Destination(d) \notin open[c]

\* A write to an open side, which ends when its peer takes the data: there is
\* no deadline (conn.go:260, :313).
Writing(c) ==
    \/ "local" \in open[c] /\ (at[c] \in {"report", "kickDown"} \/ down[c] = "write")
    \/ "remote" \in open[c] /\ (at[c] = "kickUp" \/ up[c] = "write")

\* Goroutines that can run do: weak fairness, with what enables a step written
\* out.  Nothing is assumed of peers, dials and users.
FairSpec ==
    /\ Spec
    /\ \A c \in Conns :
        /\ []<>~HandshakeRuns(c) \/ []<><<at'[c] # at[c]>>_vars
        /\ \A d \in Directions :
            []<>~CopyRuns(c, d) \/ []<><<Copier(c, d)' # Copier(c, d)>>_vars
        /\ WF_vars(CloseTaken(c) /\ UNCHANGED selectorVars)
        /\ WF_vars(CallerReturns(c) /\ UNCHANGED selectorVars)

-----------------------------------------------------------------------------
(* Properties.                                                             *)

\* Once a selection is complete, a registered connection that it was to
\* interrupt is not left open on an outbound that is not selected, unless it was
\* being dialed when Interrupt ran (selector.go:122-148).
SwitchReaches ==
    Idle => \A c \in group :
        /\ kind[c] = "internal" \/ InterruptExternal
        /\ "remote" \in open[c]
        /\ via[c] # selected
        => c \in late

\* The same of every inbound connection.
InboundInterrupted ==
    Idle /\ InterruptExternal =>
        \A c \in Conns :
            at[c] = "relay" /\ "remote" \in open[c] /\ via[c] # selected => c \in late

\* The selection survives a restart: unless selections overlapped or one could not
\* be stored, the file and the selection agree on what Start will select.
Persisted == Idle /\ ~diverged => selected = IF stored \in Outbounds THEN stored ELSE Default

\* Types, the invariant of the connection manager, and nothing is left of a
\* connection that is over, in either list; a connection is in the group only
\* after its dial has returned.
Grouped == {"report", "kickUp", "kickDown", "used", "relay"}
SelectorInv ==
    /\ TypeOK
    /\ RelayInv
    /\ \A c \in Conns : Over(c) => c \notin connections \cup group
    /\ \A c \in group : at[c] \in Grouped

\* A connection that loses a side while neither direction has ended comes to its
\* end, and whoever waits for it returns; only a packet connection whose inbound
\* did not take the success keeps its caller waiting, and only a peer that never
\* takes what is being written to it keeps the connection.  (When one direction
\* has ended, the other notices the loss of its destination only when it has
\* something to write.)
Released ==
    \A c \in Conns :
        /\ at[c] \in {"report", "kickUp", "kickDown"} \/ (up[c] \in Copying /\ down[c] \in Copying)
        /\ open[c] # Sides
        ~> \/ Over(c) /\ caller[c] # "waiting"
           \/ at[c] \in {"idle", "unreported"}
           \/ []Writing(c)
=============================================================================
