-------------------------- MODULE ConnectionManager --------------------------
(***************************************************************************)
(* The connection manager (route/conn.go) and the calls of the router that *)
(* hand connections to it (route/route.go): it dials the outbound, relays  *)
(* both directions with a goroutine each, tells the inbound once that the  *)
(* connection is over, and keeps a list of everything that was dialed so   *)
(* that CloseAll can close it.                                             *)
(*                                                                         *)
(* A connection has a local side, the inbound's, and a remote side, which  *)
(* the dialer (common/dialer/default.go) tracks.  An internal connection   *)
(* is dialed by a part of the program for itself and not relayed.          *)
(***************************************************************************)
EXTENDS Naturals, FiniteSets

CONSTANTS
    Conns,
    Kinds    \* the kinds each connection can be of

ASSUME ManagerAssumption ==
    Kinds \in [Conns -> SUBSET {"stream", "packet", "internal"}]

VARIABLES
    at,          \* where NewConnection or NewPacketConnection is
    kind,        \* the kind of each connection
    caller,      \* the call of Route(Packet)Connection; "ex": RouteConnectionEx
    up, down,    \* the goroutines that copy to and from the remote side
    open,        \* the sides that are open
    done,        \* the flag the two goroutines share
    onClose,     \* how often onClose was called
    connections, \* m.connections
    closing      \* what calls of CloseAll have taken and not yet closed

connVars == <<at, kind, caller, up, down, open, done, onClose>>
managerVars == <<connVars, connections, closing>>

Sides == {"local", "remote"}
Copying == {"copy", "write"}
Copiers == Copying \cup {"none", "swap", "close", "end"}
Places == {"idle", "route", "dial", "dialed", "report", "kickUp", "kickDown", "relay", "used",
           "unrouted", "unreported", "ended"}

ManagerTypeOK ==
    /\ at \in [Conns -> Places]
    /\ kind \in [Conns -> {"none", "stream", "packet", "internal"}]
    /\ caller \in [Conns -> {"none", "ex", "waiting", "returned"}]
    /\ up \in [Conns -> Copiers] /\ down \in [Conns -> Copiers]
    /\ open \in [Conns -> SUBSET Sides]
    /\ done \in [Conns -> BOOLEAN]
    /\ onClose \in [Conns -> Nat]
    /\ connections \subseteq Conns /\ closing \subseteq Conns

ManagerInit ==
    /\ at = [c \in Conns |-> "idle"]
    /\ kind = [c \in Conns |-> "none"]
    /\ caller = [c \in Conns |-> "none"]
    /\ up = [c \in Conns |-> "none"] /\ down = [c \in Conns |-> "none"]
    /\ open = [c \in Conns |-> {}]
    /\ done = [c \in Conns |-> FALSE]
    /\ onClose = [c \in Conns |-> 0]
    /\ connections = {} /\ closing = {}

\* The program starts again: nothing of a connection is left.
ManagerRestarts ==
    /\ at' = [c \in Conns |-> "idle"]
    /\ kind' = [c \in Conns |-> "none"]
    /\ caller' = [c \in Conns |-> "none"]
    /\ up' = [c \in Conns |-> "none"] /\ down' = [c \in Conns |-> "none"]
    /\ open' = [c \in Conns |-> {}]
    /\ done' = [c \in Conns |-> FALSE]
    /\ onClose' = [c \in Conns |-> 0]
    /\ connections' = {} /\ closing' = {}

Goto(c, place) == at' = [at EXCEPT ![c] = place]
CallOnClose(c) == onClose' = [onClose EXCEPT ![c] = @ + 1]

\* Mutant: the element stays in the list.
LeaveInList(c) == connections

\* trackedConn.Close takes the element out of the list.
Untrack(c) == connections \ {c}

\* Close of some sides of a connection, the remote one through its tracker.
Close(c, sides) ==
    /\ open' = [open EXCEPT ![c] = @ \ sides]
    /\ connections' = IF "remote" \in sides THEN Untrack(c) ELSE connections

-----------------------------------------------------------------------------
(* Routing and dialing.                                                    *)

\* An inbound hands a connection over and waits for it, or is called back.
Route(c, k, how) ==
    /\ at[c] = "idle"
    /\ k \in Kinds[c] \ {"internal"}
    /\ Goto(c, "route")
    /\ kind' = [kind EXCEPT ![c] = k]
    /\ caller' = [caller EXCEPT ![c] = how]
    /\ open' = [open EXCEPT ![c] = {"local"}]
    /\ UNCHANGED <<up, down, done, onClose, connections, closing>>

\* No rule or outbound takes it.  RouteConnectionEx reports and calls back;
\* RouteConnection returns the error to its caller, who closes the connection;
\* RoutePacketConnection closes it and then waits like for any other.
RouteFails(c) ==
    /\ at[c] = "route"
    /\ Close(c, {"local"})
    /\ Goto(c, IF caller[c] = "ex" THEN "ended" ELSE "unrouted")
    /\ IF caller[c] = "ex" THEN CallOnClose(c) ELSE UNCHANGED onClose
    /\ caller' = [caller EXCEPT ![c] = IF @ = "waiting" /\ kind[c] = "stream" THEN "returned" ELSE @]
    /\ UNCHANGED <<kind, up, down, done, closing>>

Routed(c) ==
    /\ at[c] = "route"
    /\ Goto(c, "dial")
    /\ UNCHANGED <<kind, caller, up, down, open, done, onClose, connections, closing>>

\* Another part of the program dials for itself.
DialInternal(c) ==
    /\ at[c] = "idle"
    /\ "internal" \in Kinds[c]
    /\ Goto(c, "dial")
    /\ kind' = [kind EXCEPT ![c] = "internal"]
    /\ UNCHANGED <<caller, up, down, open, done, onClose, connections, closing>>

\* CloseOnHandshakeFailure closes the local side and calls back.
DialFails(c) ==
    /\ at[c] = "dial"
    /\ Close(c, {"local"})
    /\ Goto(c, "ended")
    /\ IF kind[c] = "internal" THEN UNCHANGED onClose ELSE CallOnClose(c)
    /\ UNCHANGED <<kind, caller, up, down, done, closing>>

\* The dialer tracks the connection (TrackConn, TrackPacketConn).
Dialed(c) ==
    /\ at[c] = "dial"
    /\ Goto(c, "dialed")
    /\ open' = [open EXCEPT ![c] = @ \cup {"remote"}]
    /\ connections' = connections \cup {c}
    /\ UNCHANGED <<kind, caller, up, down, done, onClose, closing>>

\* The dial returns to whoever asked for it.
DialReturns(c) ==
    /\ at[c] = "dialed"
    /\ Goto(c, IF kind[c] = "internal" THEN "used" ELSE "report")
    /\ UNCHANGED <<kind, caller, up, down, open, done, onClose, connections, closing>>

UserCloses(c) ==
    /\ at[c] = "used"
    /\ Close(c, {"remote"})
    /\ Goto(c, "ended")
    /\ UNCHANGED <<kind, caller, up, down, done, onClose, closing>>

-----------------------------------------------------------------------------
(* The handshakes.                                                         *)

\* The inbound does not take the success: only a stream calls back.
ReportFails(c) ==
    /\ at[c] = "report"
    /\ Close(c, Sides)
    /\ \/ kind[c] = "stream" /\ CallOnClose(c) /\ Goto(c, "ended")
       \/ kind[c] = "packet" /\ UNCHANGED onClose /\ Goto(c, "unreported")
    /\ UNCHANGED <<kind, caller, up, down, done, closing>>

StartCopies(c) ==
    /\ Goto(c, "relay")
    /\ up' = [up EXCEPT ![c] = "copy"]
    /\ down' = [down EXCEPT ![c] = "copy"]

\* Reported; then kickWriteHandshake for each direction, where there is nothing
\* to do, it succeeds, or it has only run into its deadline.
Proceed(c) ==
    /\ \/ at[c] = "report" /\ kind[c] = "stream" /\ Goto(c, "kickUp") /\ UNCHANGED <<up, down>>
       \/ at[c] = "kickUp" /\ Goto(c, "kickDown") /\ UNCHANGED <<up, down>>
       \/ at[c] = "kickDown" /\ StartCopies(c)
       \/ at[c] = "report" /\ kind[c] = "packet" /\ StartCopies(c)
    /\ UNCHANGED <<kind, caller, open, done, onClose, connections, closing>>

KickFails(c) ==
    /\ at[c] \in {"kickUp", "kickDown"}
    /\ done' = [done EXCEPT ![c] = TRUE]
    /\ IF done[c] THEN UNCHANGED onClose ELSE CallOnClose(c)
    /\ Close(c, Sides)
    /\ Goto(c, "ended")
    /\ UNCHANGED <<kind, caller, up, down, closing>>

-----------------------------------------------------------------------------
(* The relay.  A direction is the pair of its source and its destination.  *)

Directions == {"up", "down"}
Copier(c, d) == IF d = "up" THEN up[c] ELSE down[c]
Source(d) == IF d = "up" THEN "local" ELSE "remote"
Destination(d) == IF d = "up" THEN "remote" ELSE "local"
MoveCopier(c, d, place) ==
    /\ up' = IF d = "up" THEN [up EXCEPT ![c] = place] ELSE up
    /\ down' = IF d = "down" THEN [down EXCEPT ![c] = place] ELSE down

\* The copy has read something and writes it.  Neither has a deadline: a read
\* waits for the peer of the source to send, a write for the peer of the
\* destination to take what was sent before.
CopyReads(c, d) ==
    /\ Copier(c, d) = "copy" /\ Source(d) \in open[c]
    /\ MoveCopier(c, d, "write")
    /\ UNCHANGED <<at, kind, caller, open, done, onClose, connections, closing>>

CopyWrites(c, d) ==
    /\ Copier(c, d) = "write" /\ Destination(d) \in open[c]
    /\ MoveCopier(c, d, "copy")
    /\ UNCHANGED <<at, kind, caller, open, done, onClose, connections, closing>>

\* Mutant: a direction that fails closes the side it reads.
SourceOnly(d) == {Source(d)}

ClosedOnError(d) == Sides

\* The copy ends with an error: a side was closed or its peer has gone, or
\* CloseWrite failed after it.  A stream closes both sides.
CopyFailsStream(c, d) ==
    /\ Copier(c, d) \in Copying /\ kind[c] = "stream"
    /\ MoveCopier(c, d, "swap")
    /\ Close(c, ClosedOnError(d))
    /\ UNCHANGED <<at, kind, caller, done, onClose, closing>>

CopyFailsPacket(c, d) ==
    /\ Copier(c, d) \in Copying /\ kind[c] = "packet"
    /\ MoveCopier(c, d, "swap")
    /\ UNCHANGED <<at, kind, caller, open, done, onClose, connections, closing>>

\* The source's peer has sent all it had.  A destination with halves has its
\* write half closed, any other is closed; a plain remote side always is,
\* because its tracker hides CloseWrite.
CopyFinishes(c, d) ==
    /\ Copier(c, d) = "copy" /\ kind[c] = "stream"
    /\ Source(d) \in open[c]
    /\ MoveCopier(c, d, "swap")

CloseWrite(c, d) ==
    /\ CopyFinishes(c, d)
    /\ UNCHANGED <<at, kind, caller, open, done, onClose, connections, closing>>

CloseDestination(c, d) ==
    /\ CopyFinishes(c, d)
    /\ Close(c, {Destination(d)})
    /\ UNCHANGED <<at, kind, caller, done, onClose, closing>>

\* Mutant: the first direction calls back for both kinds.
FirstCallsBack(c) == ~done[c]

\* A stream calls back when its second direction ends, a packet connection
\* when its first does.
CallsBack(c) == IF kind[c] = "stream" THEN done[c] ELSE ~done[c]

\* done.Swap(true)
SwapDone(c, d) ==
    /\ Copier(c, d) = "swap"
    /\ done' = [done EXCEPT ![c] = TRUE]
    /\ IF CallsBack(c) THEN CallOnClose(c) ELSE UNCHANGED onClose
    /\ MoveCopier(c, d, IF kind[c] = "packet" \/ CallsBack(c) THEN "close" ELSE "end")
    /\ UNCHANGED <<at, kind, caller, open, connections, closing>>

CloseBoth(c, d) ==
    /\ Copier(c, d) = "close"
    /\ Close(c, Sides)
    /\ MoveCopier(c, d, "end")
    /\ UNCHANGED <<at, kind, caller, done, onClose, closing>>

\* The idle timeout of a packet connection (canceler.NewPacketConn).
UDPTimeout(c) ==
    /\ at[c] = "relay" /\ kind[c] = "packet"
    /\ "local" \in open[c]
    /\ Close(c, {"local"})
    /\ UNCHANGED <<at, kind, caller, up, down, done, onClose, closing>>

-----------------------------------------------------------------------------
(* CloseAll, and the callers of the router.                                *)

\* The section of CloseAll under m.access, and one of its closes: of the
\* connection itself, not of its tracker.
CloseAll ==
    /\ connections # {}
    /\ closing' = closing \cup connections
    /\ connections' = {}
    /\ UNCHANGED connVars

CloseTaken(c) ==
    /\ c \in closing
    /\ closing' = closing \ {c}
    /\ open' = [open EXCEPT ![c] = @ \ {"remote"}]
    /\ UNCHANGED <<at, kind, caller, up, down, done, onClose, connections>>

\* Route(Packet)Connection returns when onClose was called; the end of r.ctx is
\* the end of the program.
CallerReturns(c) ==
    /\ caller[c] = "waiting"
    /\ onClose[c] > 0
    /\ caller' = [caller EXCEPT ![c] = "returned"]
    /\ UNCHANGED <<at, kind, up, down, open, done, onClose, connections, closing>>

-----------------------------------------------------------------------------
\* Steps that do not close the remote side through the tracker, and those that do.
KeepsRemote(c) ==
    \/ \E k \in {"stream", "packet"}, how \in {"ex", "waiting"} : Route(c, k, how)
    \/ RouteFails(c) \/ DialFails(c) \/ Dialed(c) \/ Proceed(c)
    \/ \E d \in Directions :
        \/ CopyReads(c, d) \/ CopyWrites(c, d)
        \/ CloseWrite(c, d) \/ SwapDone(c, d) \/ CopyFailsPacket(c, d)
    \/ CloseDestination(c, "down") \/ UDPTimeout(c)
    \/ CloseTaken(c) \/ CallerReturns(c)

ClosesRemote(c) ==
    \/ UserCloses(c) \/ ReportFails(c) \/ KickFails(c)
    \/ \E d \in Directions : CopyFailsStream(c, d) \/ CloseBoth(c, d)
    \/ CloseDestination(c, "up")

-----------------------------------------------------------------------------
(* Properties.                                                             *)

Over(c) ==
    \/ at[c] \in {"unrouted", "unreported", "ended"}
    \/ at[c] = "relay" /\ up[c] = "end" /\ down[c] = "end"

\* What was dialed and is open is in the list or in the hands of a CloseAll, and
\* nothing that was closed stays in the list (conn.go:51-64, 381-386).
TrackedInv ==
    \A c \in Conns :
        /\ "remote" \in open[c] => c \in connections \cup closing
        /\ c \in connections => "remote" \in open[c]

\* onClose is called once: not while a direction of a stream still copies, and
\* by the time the connection is over, when both sides are closed too.  Only a
\* connection that found no outbound, reported to a caller that waits, and a packet
\* connection whose inbound did not take the success end without it.
CloseOnce ==
    \A c \in Conns :
        /\ onClose[c] <= 1
        /\ kind[c] = "stream" /\ (up[c] \in Copying \/ down[c] \in Copying) => onClose[c] = 0
        /\ Over(c) => /\ open[c] = {}
                      /\ onClose[c] = IF kind[c] # "internal" /\ at[c] \in {"relay", "ended"} THEN 1 ELSE 0

\* Before the copies start nobody has been called back.
Before(c) ==
    /\ at[c] \in {"idle", "route", "dial", "dialed", "report", "kickUp", "kickDown", "used"}
    /\ up[c] = "none" /\ down[c] = "none"
    /\ ~done[c] /\ onClose[c] = 0
    /\ at[c] = "idle" => open[c] = {}
    /\ at[c] \in {"idle", "route", "dial"} => "remote" \notin open[c]
    /\ at[c] \in {"report", "kickUp", "kickDown"} => kind[c] \in {"stream", "packet"}
    /\ at[c] \in {"kickUp", "kickDown"} => kind[c] = "stream"
    /\ at[c] = "route" => kind[c] \in {"stream", "packet"}
    /\ at[c] \in {"dial", "dialed"} => kind[c] # "none"
    /\ at[c] = "used" => kind[c] = "internal"
    /\ kind[c] = "internal" => "local" \notin open[c]

After(c) ==
    /\ at[c] \in {"unrouted", "unreported", "ended"}
    /\ up[c] = "none" /\ down[c] = "none"
    /\ open[c] = {}
    /\ onClose[c] = IF kind[c] # "internal" /\ at[c] = "ended" THEN 1 ELSE 0

\* While the copies run, done is set by the first that swaps it; the second to
\* swap calls back for a stream and the first for a packet connection, and that
\* one closes both sides before it ends.
Swapped == {"close", "end"}
During(c) ==
    /\ at[c] = "relay"
    /\ kind[c] \in {"stream", "packet"}
    /\ up[c] # "none" /\ down[c] # "none"
    /\ done[c] <=> up[c] \in Swapped \/ down[c] \in Swapped
    /\ kind[c] = "stream" =>
        /\ onClose[c] = IF up[c] \in Swapped /\ down[c] \in Swapped THEN 1 ELSE 0
        /\ up[c] = "close" => down[c] = "end"
        /\ down[c] = "close" => up[c] = "end"
        /\ up[c] = "end" /\ down[c] = "end" => open[c] = {}
    /\ kind[c] = "packet" =>
        /\ onClose[c] = IF done[c] THEN 1 ELSE 0
        /\ "end" \in {up[c], down[c]} => open[c] = {}

\* What a CloseAll has taken was dialed before and is no longer in the list.
TakenInv ==
    \A c \in closing : c \notin connections /\ at[c] \notin {"idle", "route", "dial"}

\* The inductive invariant behind these.
RelayInv ==
    /\ ManagerTypeOK
    /\ TrackedInv
    /\ TakenInv
    /\ \A c \in Conns : Before(c) \/ During(c) \/ After(c)
=============================================================================
