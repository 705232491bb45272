--------------------------- MODULE SelectorProofs ---------------------------
(***************************************************************************)
(* Proofs about the selector and the connection manager, for any           *)
(* connections, users and outbounds.                                       *)
(***************************************************************************)
EXTENDS Selector, TLAPS

USE DEF Goto, CallOnClose, Close, Untrack, MoveCopier, connVars, managerVars, selectorVars

\* Where a connection is, of the three phases of RelayInv.
Phase(c) == Before(c) \/ During(c) \/ After(c)

\* The program starts without connections, at rest.
LEMMA InitSelectorInv == Init => SelectorInv
  <1> SUFFICES ASSUME Init PROVE SelectorInv OBVIOUS
  <1> USE DEF Init, ManagerInit
  <1>1. ManagerTypeOK BY DEF ManagerTypeOK, Places, Copiers, Copying, Sides
  <1>2. user \in [Users -> UserStates] BY DEF NotSelecting, UserStates
  <1>3. TypeOK BY <1>1, <1>2, SelectorAssumption DEF TypeOK, Selection
  <1>4. \A c \in Conns : Before(c) BY DEF Before
  <1>5. RelayInv BY <1>1, <1>4 DEF RelayInv, TrackedInv, TakenInv
  <1>. QED BY <1>3, <1>5 DEF SelectorInv

\* A connection that keeps its fields, but may lose sides once its dial has
\* returned, stays in its phase.
LEMMA PhaseKept ==
    ASSUME NEW c \in Conns, Phase(c),
           at'[c] = at[c], kind'[c] = kind[c], up'[c] = up[c], down'[c] = down[c],
           done'[c] = done[c], onClose'[c] = onClose[c],
           open'[c] \subseteq open[c]
    PROVE  Phase(c)'
  <1>1. CASE Before(c) BY <1>1 DEF Phase, Before
  <1>2. CASE During(c) BY <1>2 DEF Phase, During, Swapped
  <1>3. CASE After(c) BY <1>3 DEF Phase, After
  <1>. QED BY <1>1, <1>2, <1>3 DEF Phase

\* The steps of a connection that keep its remote side, and its dialing, in phases.
LEMMA PhaseStep ==
    ASSUME ManagerTypeOK, NEW c \in Conns, Phase(c),
           KeepsRemote(c) \/ ClosesRemote(c) \/ Routed(c) \/ DialInternal(c) \/ DialReturns(c)
    PROVE  Phase(c)'
  <1> USE DEF ManagerTypeOK, Sides
  <1>1. ASSUME NEW k \in {"stream", "packet"}, NEW how \in {"ex", "waiting"}, Route(c, k, how)
        PROVE  Phase(c)'
    <2>1. Before(c) BY <1>1 DEF Phase, Before, During, After, Route
    <2>2. Before(c)' BY <1>1, <2>1 DEF Before, Route
    <2>. QED BY <2>2 DEF Phase
  <1>2. CASE RouteFails(c) \/ DialFails(c)
    <2>1. Before(c) BY <1>2 DEF Phase, Before, During, After, RouteFails, DialFails
    <2>2. After(c)' BY <1>2, <2>1 DEF Before, After, RouteFails, DialFails
    <2>. QED BY <2>2 DEF Phase
  <1>3. CASE Dialed(c) \/ Routed(c) \/ DialInternal(c) \/ DialReturns(c)
    <2>1. Before(c)
      BY <1>3 DEF Phase, Before, During, After, Dialed, Routed, DialInternal, DialReturns
    <2>2. Before(c)'
      BY <1>3, <2>1 DEF Before, Dialed, Routed, DialInternal, DialReturns
    <2>. QED BY <2>2 DEF Phase
  <1>4. CASE Proceed(c)
    <2>1. Before(c) BY <1>4 DEF Phase, Before, During, After, Proceed
    <2>2. CASE (at[c] = "report" /\ kind[c] = "stream") \/ at[c] = "kickUp"
      BY <1>4, <2>1, <2>2 DEF Before, Phase, Proceed, StartCopies
    <2>3. CASE at[c] = "kickDown" \/ (at[c] = "report" /\ kind[c] = "packet")
      BY <1>4, <2>1, <2>3 DEF Before, During, Phase, Proceed, StartCopies, Swapped
    <2>4. \/ (at[c] = "report" /\ kind[c] = "stream") \/ at[c] = "kickUp"
          \/ at[c] = "kickDown" \/ (at[c] = "report" /\ kind[c] = "packet")
      BY <1>4 DEF Proceed
    <2>. QED BY <2>2, <2>3, <2>4
  <1>5. CASE UserCloses(c) \/ ReportFails(c) \/ KickFails(c)
    <2>1. Before(c) BY <1>5 DEF Phase, Before, During, After, UserCloses, ReportFails, KickFails
    <2>2. After(c)' BY <1>5, <2>1 DEF Before, After, UserCloses, ReportFails, KickFails
    <2>. QED BY <2>2 DEF Phase
  <1>6. ASSUME NEW d \in Directions, Copier(c, d) \in Copying \cup {"swap", "close"}
        PROVE  During(c)
    BY <1>6 DEF Phase, Before, During, After, Copier, Copying, Directions
  <1>7. ASSUME NEW d \in Directions,
               CopyFailsStream(c, d) \/ CopyFailsPacket(c, d) \/ CloseWrite(c, d) \/ CloseDestination(c, d)
        PROVE  Phase(c)'
    <2>1. During(c) /\ Copier(c, d) \in Copying
      BY <1>6, <1>7 DEF CopyFailsStream, CopyFailsPacket, CloseWrite, CloseDestination, CopyFinishes, Copying
    <2>2. /\ MoveCopier(c, d, "swap")
          /\ open'[c] \subseteq open[c]
          /\ UNCHANGED <<at, kind, done, onClose>>
      BY <1>7 DEF CopyFailsStream, CopyFailsPacket, CloseWrite, CloseDestination, CopyFinishes
    <2>3. During(c)' BY <2>1, <2>2 DEF During, Swapped, Copier, Copying, Directions
    <2>. QED BY <2>3 DEF Phase
  <1>11. ASSUME NEW d \in Directions, CopyReads(c, d) \/ CopyWrites(c, d) PROVE Phase(c)'
    <2>1. During(c) /\ Copier(c, d) \in Copying BY <1>6, <1>11 DEF CopyReads, CopyWrites, Copying
    <2>2. PICK place \in Copying : MoveCopier(c, d, place)
      BY <1>11, Zenon DEF CopyReads, CopyWrites, Copying
    <2>3. UNCHANGED <<at, kind, open, done, onClose>> BY <1>11 DEF CopyReads, CopyWrites
    <2>4. During(c)' BY <2>1, <2>2, <2>3 DEF During, Swapped, Copier, Copying, Directions
    <2>. QED BY <2>4 DEF Phase
  <1>8. ASSUME NEW d \in Directions, SwapDone(c, d) PROVE Phase(c)'
    <2>1. During(c) /\ Copier(c, d) = "swap" BY <1>6, <1>8 DEF SwapDone
    <2>2. CASE kind[c] = "stream"
      <3>1. During(c)'
        BY <1>8, <2>1, <2>2 DEF SwapDone, CallsBack, During, Swapped, Copier, Directions, Copiers
      <3>. QED BY <3>1 DEF Phase
    <2>3. CASE kind[c] = "packet"
      <3>1. During(c)'
        BY <1>8, <2>1, <2>3 DEF SwapDone, CallsBack, During, Swapped, Copier, Directions, Copiers
      <3>. QED BY <3>1 DEF Phase
    <2>. QED BY <2>1, <2>2, <2>3 DEF During
  <1>9. ASSUME NEW d \in Directions, CloseBoth(c, d) PROVE Phase(c)'
    <2>1. During(c) /\ Copier(c, d) = "close" BY <1>6, <1>9 DEF CloseBoth
    <2>2. During(c)'
      BY <1>9, <2>1 DEF CloseBoth, During, Swapped, Copier, Directions, Copiers
    <2>. QED BY <2>2 DEF Phase
  <1>10. CASE UDPTimeout(c) \/ CloseTaken(c) \/ CallerReturns(c)
    BY <1>10, PhaseKept DEF UDPTimeout, CloseTaken, CallerReturns
  <1>. QED
    BY <1>1, <1>2, <1>3, <1>4, <1>5, <1>7, <1>8, <1>9, <1>10, <1>11
       DEF KeepsRemote, ClosesRemote, Directions

\* A step of one connection leaves the others as they are.
LEMMA OthersKept ==
    ASSUME ManagerTypeOK, NEW c \in Conns, NEW d \in Conns, c # d,
           KeepsRemote(c) \/ ClosesRemote(c) \/ Routed(c) \/ DialInternal(c) \/ DialReturns(c)
    PROVE  /\ at'[d] = at[d] /\ kind'[d] = kind[d] /\ up'[d] = up[d] /\ down'[d] = down[d]
           /\ done'[d] = done[d] /\ onClose'[d] = onClose[d] /\ open'[d] = open[d]
           /\ d \in connections' <=> d \in connections
           /\ d \in closing' <=> d \in closing
  <1> USE DEF ManagerTypeOK
  <1>1. CASE Routed(c) \/ DialInternal(c) \/ DialReturns(c)
    BY <1>1 DEF Routed, DialInternal, DialReturns
  <1>2. CASE ClosesRemote(c)
    BY <1>2 DEF ClosesRemote, UserCloses, ReportFails, KickFails, CopyFailsStream, CloseBoth,
                CloseDestination, CopyFinishes
  <1>3. CASE \E k \in {"stream", "packet"}, how \in {"ex", "waiting"} : Route(c, k, how)
    BY <1>3 DEF Route
  <1>4. CASE RouteFails(c) \/ DialFails(c) \/ Dialed(c) \/ Proceed(c)
    BY <1>4 DEF RouteFails, DialFails, Dialed, Proceed, StartCopies
  <1>5. CASE \/ \E e \in Directions :
                \/ CopyReads(c, e) \/ CopyWrites(c, e)
                \/ CloseWrite(c, e) \/ SwapDone(c, e) \/ CopyFailsPacket(c, e)
            \/ CloseDestination(c, "down")
    BY <1>5 DEF CopyReads, CopyWrites, CloseWrite, SwapDone, CopyFailsPacket, CloseDestination, CopyFinishes
  <1>6. CASE UDPTimeout(c) \/ CloseTaken(c) \/ CallerReturns(c)
    BY <1>6 DEF UDPTimeout, CloseTaken, CallerReturns
  <1>. QED BY <1>1, <1>2, <1>3, <1>4, <1>5, <1>6 DEF KeepsRemote

\* The steps of a connection keep the types.
LEMMA TypeStep ==
    ASSUME ManagerTypeOK, NEW c \in Conns,
           KeepsRemote(c) \/ ClosesRemote(c) \/ Routed(c) \/ DialInternal(c) \/ DialReturns(c)
    PROVE  ManagerTypeOK'
  <1> USE DEF ManagerTypeOK, Places, Copiers, Copying, Sides
  <1>1. CASE Routed(c) \/ DialInternal(c) \/ DialReturns(c)
    BY <1>1 DEF Routed, DialInternal, DialReturns
  <1>2. CASE UserCloses(c) \/ ReportFails(c) \/ KickFails(c)
    <2>1. CASE UserCloses(c) BY <2>1 DEF UserCloses
    <2>2. CASE ReportFails(c) BY <2>2 DEF ReportFails
    <2>3. CASE KickFails(c) BY <2>3 DEF KickFails
    <2>. QED BY <1>2, <2>1, <2>2, <2>3
  <1>3. ASSUME NEW d \in Directions,
               CopyFailsStream(c, d) \/ CloseBoth(c, d) \/ CloseDestination(c, d)
        PROVE  ManagerTypeOK'
    BY <1>3 DEF CopyFailsStream, CloseBoth, CloseDestination, CopyFinishes
  <1>4. ASSUME NEW k \in {"stream", "packet"}, NEW how \in {"ex", "waiting"}, Route(c, k, how)
        PROVE  ManagerTypeOK'
    BY <1>4 DEF Route
  <1>5. CASE RouteFails(c) \/ DialFails(c)
    BY <1>5 DEF RouteFails, DialFails
  <1>6. CASE Dialed(c) \/ Proceed(c)
    BY <1>6 DEF Dialed, Proceed, StartCopies
  <1>7. ASSUME NEW d \in Directions, CloseWrite(c, d) \/ SwapDone(c, d) \/ CopyFailsPacket(c, d)
        PROVE  ManagerTypeOK'
    <2>1. CASE CloseWrite(c, d) BY <2>1 DEF CloseWrite, CopyFinishes
    <2>2. CASE SwapDone(c, d) BY <2>2 DEF SwapDone
    <2>3. CASE CopyFailsPacket(c, d) BY <2>3 DEF CopyFailsPacket
    <2>. QED BY <1>7, <2>1, <2>2, <2>3
  <1>9. ASSUME NEW d \in Directions, CopyReads(c, d) \/ CopyWrites(c, d) PROVE ManagerTypeOK'
    BY <1>9 DEF CopyReads, CopyWrites
  <1>8. CASE UDPTimeout(c) \/ CloseTaken(c) \/ CallerReturns(c)
    BY <1>8 DEF UDPTimeout, CloseTaken, CallerReturns
  <1>. QED
    BY <1>1, <1>2, <1>3, <1>4, <1>5, <1>6, <1>7, <1>8, <1>9 DEF KeepsRemote, ClosesRemote, Directions

\* The list and the open sides of the connection that takes the step.
LEMMA TrackedStep ==
    ASSUME ManagerTypeOK, NEW c \in Conns, Phase(c),
           "remote" \in open[c] => c \in connections \cup closing,
           c \in connections => "remote" \in open[c],
           c \in closing => c \notin connections /\ at[c] \notin {"idle", "route", "dial"},
           KeepsRemote(c) \/ ClosesRemote(c) \/ Routed(c) \/ DialInternal(c) \/ DialReturns(c)
    PROVE  /\ "remote" \in open'[c] => c \in connections' \cup closing'
           /\ c \in connections' => "remote" \in open'[c]
           /\ c \in closing' => c \notin connections' /\ at'[c] \notin {"idle", "route", "dial"}
  <1> USE DEF ManagerTypeOK, Sides
  <1>1. CASE Routed(c) \/ DialInternal(c) \/ DialReturns(c)
    BY <1>1 DEF Routed, DialInternal, DialReturns
  <1>2. CASE ClosesRemote(c)
    BY <1>2 DEF ClosesRemote, UserCloses, ReportFails, KickFails, CopyFailsStream, CloseBoth,
                CloseDestination, CopyFinishes, ClosedOnError, Destination
  <1>3. CASE \E k \in {"stream", "packet"}, how \in {"ex", "waiting"} : Route(c, k, how)
    <2>1. open[c] = {} BY <1>3 DEF Phase, Before, During, After, Route
    <2>. QED BY <1>3, <2>1 DEF Route
  <1>4. CASE RouteFails(c) \/ DialFails(c) \/ Dialed(c) \/ Proceed(c)
    BY <1>4 DEF RouteFails, DialFails, Dialed, Proceed, StartCopies
  <1>5. CASE \/ \E e \in Directions :
                \/ CopyReads(c, e) \/ CopyWrites(c, e)
                \/ CloseWrite(c, e) \/ SwapDone(c, e) \/ CopyFailsPacket(c, e)
            \/ CloseDestination(c, "down")
    BY <1>5 DEF CopyReads, CopyWrites, CloseWrite, SwapDone, CopyFailsPacket, CloseDestination, CopyFinishes, Destination
  <1>6. CASE UDPTimeout(c) \/ CloseTaken(c) \/ CallerReturns(c)
    BY <1>6 DEF UDPTimeout, CloseTaken, CallerReturns
  <1>. QED BY <1>1, <1>2, <1>3, <1>4, <1>5, <1>6 DEF KeepsRemote

\* A step of one connection preserves the invariant of the relay.
LEMMA RelayStep ==
    ASSUME RelayInv, NEW c \in Conns,
           KeepsRemote(c) \/ ClosesRemote(c) \/ Routed(c) \/ DialInternal(c) \/ DialReturns(c)
    PROVE  RelayInv'
  <1>1. ManagerTypeOK /\ ManagerTypeOK' BY TypeStep DEF RelayInv
  <1>2. ASSUME NEW d \in Conns
        PROVE  /\ Phase(d)'
               /\ "remote" \in open'[d] => d \in connections' \cup closing'
               /\ d \in connections' => "remote" \in open'[d]
               /\ d \in closing' => d \notin connections' /\ at'[d] \notin {"idle", "route", "dial"}
    <2>1. /\ Phase(d)
          /\ "remote" \in open[d] => d \in connections \cup closing
          /\ d \in connections => "remote" \in open[d]
          /\ d \in closing => d \notin connections /\ at[d] \notin {"idle", "route", "dial"}
      BY DEF RelayInv, TrackedInv, TakenInv, Phase
    <2>2. CASE d = c BY <1>1, <2>1, <2>2, PhaseStep, TrackedStep
    <2>3. CASE d # c
      <3>1. /\ at'[d] = at[d] /\ kind'[d] = kind[d] /\ up'[d] = up[d] /\ down'[d] = down[d]
            /\ done'[d] = done[d] /\ onClose'[d] = onClose[d] /\ open'[d] = open[d]
            /\ d \in connections' <=> d \in connections
            /\ d \in closing' <=> d \in closing
        BY <1>1, <2>3, OthersKept
      <3>2. Phase(d)' BY <2>1, <3>1, PhaseKept
      <3>. QED BY <2>1, <3>1, <3>2
    <2>. QED BY <2>2, <2>3
  <1>3. closing' \subseteq Conns BY <1>1 DEF ManagerTypeOK
  <1>4. TrackedInv' BY <1>2 DEF TrackedInv
  <1>5. TakenInv' BY <1>2, <1>3 DEF TakenInv
  <1>6. \A d \in Conns : (Before(d) \/ During(d) \/ After(d))' BY <1>2 DEF Phase
  <1>. QED BY <1>1, <1>4, <1>5, <1>6 DEF RelayInv

\* So does whatever takes connections from the list and closes remote sides of
\* connections that are in neither of the lists afterwards.
LEMMA RelayShrinks ==
    ASSUME RelayInv, UNCHANGED <<at, kind, caller, up, down, done, onClose>>,
           open' \in [Conns -> SUBSET Sides], closing' \subseteq Conns,
           connections' \subseteq connections, closing' \subseteq closing \cup connections,
           closing' \cap connections' = {},
           \A d \in Conns :
              /\ open'[d] \subseteq open[d]
              /\ "remote" \in open'[d] => d \in connections' \cup closing'
              /\ d \in connections' => "remote" \in open'[d]
    PROVE  RelayInv'
  <1>1. ManagerTypeOK' BY DEF RelayInv, ManagerTypeOK
  <1>2. TrackedInv' BY DEF TrackedInv
  <1>3. ASSUME NEW d \in Conns, d \in connections PROVE at[d] \notin {"idle", "route", "dial"}
    BY <1>3 DEF RelayInv, TrackedInv, Before, During, After
  <1>4. TakenInv' BY <1>3 DEF RelayInv, TakenInv, ManagerTypeOK
  <1>5. ASSUME NEW d \in Conns PROVE Phase(d)'
    <2>1. Phase(d) BY DEF RelayInv, Phase
    <2>. QED BY <2>1, PhaseKept
  <1>. QED BY <1>1, <1>2, <1>4, <1>5 DEF RelayInv, Phase

-----------------------------------------------------------------------------
(* The group.                                                              *)

\* The part of SelectorInv about the group, for a group and what is over.
GroupedInv == \A c \in group : at[c] \in Grouped /\ ~Over(c)

\* A connection that is over has no open side and has left the list.
LEMMA OverClosed ==
    ASSUME RelayInv, NEW c \in Conns, Over(c)
    PROVE  open[c] = {} /\ c \notin connections
  <1>1. open[c] = {} BY DEF RelayInv, Over, Before, During, After
  <1>. QED BY <1>1 DEF RelayInv, TrackedInv

\* SelectorInv in its parts.
LEMMA SelectorParts == SelectorInv <=> TypeOK /\ RelayInv /\ GroupedInv
  <1>1. SelectorInv => GroupedInv BY DEF SelectorInv, TypeOK, GroupedInv
  <1>2. TypeOK /\ RelayInv /\ GroupedInv => SelectorInv
    BY OverClosed DEF SelectorInv, GroupedInv
  <1>. QED BY <1>1, <1>2 DEF SelectorInv

\* A registered connection that keeps its remote side is not over: a stream's
\* first direction to end leaves the other, and a packet connection closes first.
LEMMA StaysInGroup ==
    ASSUME RelayInv, NEW c \in Conns, at[c] \in Grouped, ~Over(c), KeepsRemote(c)
    PROVE  at'[c] \in Grouped /\ ~Over(c)'
  <1> USE DEF RelayInv, ManagerTypeOK, Grouped
  <1>1. CASE \E k \in {"stream", "packet"}, how \in {"ex", "waiting"} : Route(c, k, how)
    BY <1>1 DEF Route
  <1>2. CASE RouteFails(c) \/ DialFails(c) \/ Dialed(c)
    BY <1>2 DEF RouteFails, DialFails, Dialed
  <1>3. CASE Proceed(c) BY <1>3 DEF Proceed, StartCopies, Over
  <1>4. ASSUME NEW d \in Directions, SwapDone(c, d) PROVE at'[c] \in Grouped /\ ~Over(c)'
    <2>1. During(c) BY <1>4 DEF SwapDone, Copier, Before, During, After
    <2>. QED
      BY <1>4, <2>1 DEF SwapDone, CallsBack, Copier, Directions, During, Swapped, Over
  <1>5. ASSUME NEW d \in Directions,
               \/ CopyReads(c, d) \/ CopyWrites(c, d)
               \/ CloseWrite(c, d) \/ CopyFailsPacket(c, d) \/ CloseDestination(c, d)
        PROVE  at'[c] \in Grouped /\ ~Over(c)'
    BY <1>5 DEF CopyReads, CopyWrites, CloseWrite, CopyFailsPacket, CloseDestination, CopyFinishes, Directions, Over
  <1>6. CASE UDPTimeout(c) \/ CloseTaken(c) \/ CallerReturns(c)
    BY <1>6 DEF UDPTimeout, CloseTaken, CallerReturns, Over
  <1>. QED BY <1>1, <1>2, <1>3, <1>4, <1>5, <1>6 DEF KeepsRemote, Directions

\* A step of a connection preserves the invariant.
LEMMA ConnStepPreserves ==
    ASSUME TypeOK, RelayInv, GroupedInv, NEW c \in Conns, ConnStep(c)
    PROVE  TypeOK' /\ RelayInv' /\ GroupedInv'
  <1>0. KeepsRemote(c) \/ ClosesRemote(c) \/ Routed(c) \/ DialInternal(c) \/ DialReturns(c)
    BY DEF ConnStep, RoutedHere, Register, CloseGrouped
  <1>1. RelayInv' BY <1>0, RelayStep
  <1>2. ManagerTypeOK /\ ManagerTypeOK' BY <1>1 DEF RelayInv
  <1>3. group \subseteq Conns /\ via \in [Conns -> Outbounds \cup {None}] /\ selected \in Outbounds
    BY DEF TypeOK
  <1>4. /\ group' \subseteq Conns
        /\ via' \in [Conns -> Outbounds \cup {None}]
        /\ UNCHANGED <<selected, stored, user, late, diverged>>
    BY <1>3 DEF ConnStep, RoutedHere, Register, CloseGrouped, Via, LeaveGroup
  <1>5. TypeOK' BY <1>2, <1>4 DEF TypeOK
  <1>6. ASSUME NEW d \in group', d # c PROVE d \in group /\ at'[d] \in Grouped /\ ~Over(d)'
    <2>1. d \in group
      BY <1>6 DEF ConnStep, RoutedHere, Register, CloseGrouped, LeaveGroup
    <2>2. at'[d] = at[d] /\ up'[d] = up[d] /\ down'[d] = down[d]
      BY <1>0, <1>2, <1>3, <1>6, <2>1, OthersKept
    <2>. QED BY <2>1, <2>2 DEF GroupedInv, Over
  <1>7. ASSUME c \in group' PROVE at'[c] \in Grouped /\ ~Over(c)'
    <2>1. CASE RoutedHere(c)
      BY <2>1, <1>7 DEF RoutedHere, Routed, DialInternal, GroupedInv, Grouped
    <2>2. CASE Register(c)
      BY <2>2, <1>2 DEF Register, DialReturns, Grouped, Over, ManagerTypeOK
    <2>3. CASE CloseGrouped(c) BY <2>3, <1>7 DEF CloseGrouped, LeaveGroup
    <2>4. CASE KeepsRemote(c) /\ UNCHANGED selectorVars
      BY <2>4, <1>7, StaysInGroup DEF GroupedInv
    <2>. QED BY <2>1, <2>2, <2>3, <2>4 DEF ConnStep
  <1>8. GroupedInv' BY <1>6, <1>7 DEF GroupedInv
  <1>. QED BY <1>1, <1>5, <1>8

\* Every step preserves the invariant.
LEMMA SelectorInvPreserved == SelectorInv /\ [Next]_vars => SelectorInv'
  <1> SUFFICES ASSUME TypeOK, RelayInv, GroupedInv, [Next]_vars
               PROVE  TypeOK' /\ RelayInv' /\ GroupedInv'
    <2>1. SelectorInv' <=> TypeOK' /\ RelayInv' /\ GroupedInv' BY SelectorParts, PTL
    <2>. QED BY <2>1, SelectorParts
  <1>m. ManagerTypeOK BY DEF RelayInv
  <1>k. ASSUME UNCHANGED <<managerVars, group>> PROVE RelayInv' /\ GroupedInv' /\ ManagerTypeOK'
    <2>1. RelayInv'
      BY <1>k, <1>m, RelayShrinks DEF RelayInv, TrackedInv, TakenInv, ManagerTypeOK
    <2>. QED BY <1>k, <2>1 DEF RelayInv, GroupedInv, Over
  <1>1. ASSUME NEW c \in Conns, ConnStep(c) PROVE TypeOK' /\ RelayInv' /\ GroupedInv'
    BY <1>1, ConnStepPreserves
  <1>2. CASE CloseAll /\ UNCHANGED selectorVars
    <2>1. RelayInv'
      BY <1>2, <1>m, RelayShrinks DEF CloseAll, RelayInv, TrackedInv, TakenInv, ManagerTypeOK
    <2>2. GroupedInv' BY <1>2 DEF CloseAll, GroupedInv, Over
    <2>3. TypeOK' BY <1>2, <2>1 DEF TypeOK, RelayInv
    <2>. QED BY <2>1, <2>2, <2>3
  <1>3. ASSUME NEW u \in Users, NEW t \in Outbounds, Swap(u, t)
        PROVE  TypeOK' /\ RelayInv' /\ GroupedInv'
    <2>1. [pc |-> "store", tag |-> t] \in UserStates BY DEF UserStates
    <2>. QED BY <1>3, <1>k, <2>1 DEF Swap, TypeOK
  <1>4. ASSUME NEW u \in Users, StoreSelected(u) PROVE TypeOK' /\ RelayInv' /\ GroupedInv'
    <2>1. user[u] \in UserStates BY DEF TypeOK
    <2>2. [user[u] EXCEPT !.pc = "interrupt"] \in UserStates BY <2>1 DEF UserStates
    <2>3. user' \in [Users -> UserStates] BY <1>4, <2>2 DEF StoreSelected, TypeOK
    <2>4. user[u].tag \in Outbounds \cup {None} BY <2>1 DEF UserStates
    <2>5. stored' \in Outbounds \cup {Removed, None} /\ diverged' \in BOOLEAN
      BY <1>4, <2>4 DEF StoreSelected, TypeOK
    <2>. QED BY <1>4, <1>k, <2>3, <2>5 DEF StoreSelected, TypeOK
  <1>5. ASSUME NEW u \in Users, Interrupt(u) PROVE TypeOK' /\ RelayInv' /\ GroupedInv'
    <2>1. group \subseteq Conns BY DEF TypeOK
    <2>2. RelayInv'
      <3>1. open' \in [Conns -> SUBSET Sides]
        BY <1>5, <1>m DEF Interrupt, ManagerTypeOK
      <3>2. ASSUME NEW d \in Conns
            PROVE  /\ open'[d] \subseteq open[d]
                   /\ "remote" \in open'[d] => d \in connections' \cup closing'
                   /\ d \in connections' => "remote" \in open'[d]
        BY <1>5, <1>m DEF Interrupt, RelayInv, TrackedInv, ManagerTypeOK
      <3>. QED BY <1>5, <1>m, <3>1, <3>2, RelayShrinks DEF Interrupt, RelayInv, TakenInv, ManagerTypeOK
    <2>3. GroupedInv' BY <1>5 DEF Interrupt, GroupedInv, Over
    <2>4. user' \in [Users -> UserStates] BY <1>5 DEF Interrupt, TypeOK, NotSelecting, UserStates
    <2>5. TypeOK' BY <1>5, <2>1, <2>2, <2>4 DEF Interrupt, TypeOK, RelayInv
    <2>. QED BY <2>2, <2>3, <2>5
  <1>6. CASE Restart
    <2> USE <1>6 DEF Restart, ManagerRestarts
    <2>1. ManagerTypeOK' BY DEF ManagerTypeOK, Places, Copiers, Copying, Sides
    <2>2. \A c \in Conns : Before(c)' BY DEF Before
    <2>3. RelayInv' BY <2>1, <2>2 DEF RelayInv, TrackedInv, TakenInv
    <2>4. user' \in [Users -> UserStates] BY DEF NotSelecting, UserStates
    <2>5. TypeOK' BY <2>1, <2>4, SelectorAssumption DEF TypeOK, Selection
    <2>6. GroupedInv' BY DEF GroupedInv
    <2>. QED BY <2>3, <2>5, <2>6
  <1>7. CASE UNCHANGED vars BY <1>7, <1>k DEF vars, TypeOK
  <1>. QED BY <1>1, <1>2, <1>3, <1>4, <1>5, <1>6, <1>7 DEF Next

\* Every dialed connection that is open is in the list or taken by a CloseAll, the
\* two copies go through their phases, and neither the list nor the group keeps
\* a connection that is over (conn.go, selector.go, interrupt.go).
THEOREM SelectorInvariance == Spec => []SelectorInv
  BY InitSelectorInv, SelectorInvPreserved, PTL DEF Spec

\* The inbound is called back exactly once for every connection, when neither
\* direction of a stream copies any more and, at the end, both sides are closed.
THEOREM CalledBackOnce == Spec => []CloseOnce
  <1>1. SelectorInv => CloseOnce
    <2> SUFFICES ASSUME SelectorInv, NEW c \in Conns
                 PROVE  /\ onClose[c] <= 1
                        /\ kind[c] = "stream" /\ (up[c] \in Copying \/ down[c] \in Copying) => onClose[c] = 0
                        /\ Over(c) => /\ open[c] = {}
                                      /\ onClose[c] = IF kind[c] # "internal" /\ at[c] \in {"relay", "ended"}
                                                      THEN 1 ELSE 0
      BY DEF CloseOnce
    <2>1. CASE Before(c) BY <2>1 DEF Before, Over
    <2>2. CASE During(c) BY <2>2 DEF During, Over, Swapped, Copying
    <2>3. CASE After(c) BY <2>3 DEF After, Over, Copying
    <2>. QED BY <2>1, <2>2, <2>3 DEF SelectorInv, RelayInv
  <1>. QED BY <1>1, SelectorInvariance, PTL

-----------------------------------------------------------------------------
(* The stored selection.                                                   *)

\* As long as selections have not overlapped and all were stored, the file agrees
\* with the selection, or the one call that is about to store has its tag.
StoreInv ==
    diverged \/
        \/ /\ \A u \in Users : user[u].pc # "store"
           /\ selected = Selection(stored)
        \/ \E u \in Users : /\ user[u].pc = "store" /\ user[u].tag = selected
                            /\ \A v \in Users \ {u} : user[v].pc # "store"

\* Every step keeps the file and the selection together.
LEMMA StoreInvPreserved == TypeOK /\ StoreInv /\ [Next]_vars => StoreInv'
  <1> SUFFICES ASSUME TypeOK, StoreInv, [Next]_vars PROVE StoreInv' OBVIOUS
  <1>1. CASE UNCHANGED <<selected, stored, user, diverged>> BY <1>1 DEF StoreInv, Selection
  <1>2. ASSUME NEW u \in Users, NEW t \in Outbounds, Swap(u, t) PROVE StoreInv'
    <2>1. user' = [user EXCEPT ![u] = [pc |-> "store", tag |-> t]] /\ selected' = t
      BY <1>2 DEF Swap
    <2>2. /\ user'[u].pc = "store" /\ user'[u].tag = selected'
          /\ \A v \in Users \ {u} : user'[v] = user[v]
      BY <2>1 DEF TypeOK
    <2>3. diverged' \/ \A v \in Users : user[v].pc # "store" BY <1>2 DEF Swap
    <2>. QED BY <2>2, <2>3 DEF StoreInv
  <1>3. ASSUME NEW u \in Users, StoreSelected(u) PROVE StoreInv'
    <2>1. CASE diverged' BY <2>1 DEF StoreInv
    <2>2. CASE ~diverged'
      <3>1. ~diverged /\ stored' = user[u].tag /\ selected' = selected
        BY <1>3, <2>2 DEF StoreSelected
      <3>2. user[u].tag = selected /\ \A v \in Users \ {u} : user[v].pc # "store"
        BY <1>3, <3>1 DEF StoreInv, StoreSelected
      <3>3. selected' = Selection(stored)' BY <3>1, <3>2 DEF Selection, TypeOK
      <3>4. user[u] \in UserStates BY DEF TypeOK
      <3>5. \A v \in Users : user'[v].pc # "store"
        BY <1>3, <3>2, <3>4 DEF StoreSelected, TypeOK, UserStates
      <3>. QED BY <3>3, <3>5 DEF StoreInv
    <2>. QED BY <2>1, <2>2
  <1>4. ASSUME NEW u \in Users, Interrupt(u) PROVE StoreInv'
    <2>1. /\ \A v \in Users : user'[v].pc = "store" <=> user[v].pc = "store"
          /\ \A v \in Users : user[v].pc = "store" => user'[v] = user[v]
      BY <1>4 DEF Interrupt, TypeOK, NotSelecting
    <2>. QED BY <1>4, <2>1 DEF Interrupt, StoreInv, Selection
  <1>5. CASE Restart BY <1>5 DEF Restart, StoreInv, Selection, NotSelecting
  <1>6. ASSUME NEW c \in Conns, ConnStep(c) PROVE UNCHANGED <<selected, stored, user, diverged>>
    BY <1>6 DEF ConnStep, RoutedHere, Register, CloseGrouped
  <1>. QED BY <1>1, <1>2, <1>3, <1>4, <1>5, <1>6 DEF Next, vars

\* What Start will select is what is selected, whenever no selection is being made,
\* unless two overlapped or one could not be stored (selector.go:86, 128-146).
THEOREM SelectionPersists == Spec => []Persisted
  <1>1. Init => StoreInv BY DEF Init, StoreInv, NotSelecting
  <1>2. SelectorInv => TypeOK BY DEF SelectorInv
  <1>3. StoreInv => Persisted BY DEF StoreInv, Persisted, Idle, Selection
  <1>. QED BY <1>1, <1>2, <1>3, StoreInvPreserved, SelectorInvariance, PTL DEF Spec

-----------------------------------------------------------------------------
(* Interruption.                                                           *)

\* What a switch has not reached: registered or being dialed, through another
\* outbound than the selected one, and to be interrupted.
Missed(c) ==
    /\ c \in group \/ at[c] \in {"dial", "dialed"}
    /\ kind[c] = "internal" \/ InterruptExternal
    /\ via[c] # selected
    /\ c \notin late

\* It exists only while a selection is on its way to Interrupt.
ReachInv == Idle => \A c \in Conns : ~Missed(c)

\* Every step keeps it so.
LEMMA ReachInvPreserved == SelectorInv /\ ReachInv /\ [Next]_vars => ReachInv'
  <1> SUFFICES ASSUME SelectorInv, ReachInv, [Next]_vars PROVE ReachInv' OBVIOUS
  <1>t. TypeOK /\ ManagerTypeOK /\ group \subseteq Conns BY DEF SelectorInv, TypeOK
  <1>1. ASSUME NEW c \in Conns, ConnStep(c) PROVE ReachInv'
    <2>0. KeepsRemote(c) \/ ClosesRemote(c) \/ Routed(c) \/ DialInternal(c) \/ DialReturns(c)
      BY <1>1 DEF ConnStep, RoutedHere, Register, CloseGrouped
    <2>1. UNCHANGED <<selected, user, late>>
      BY <1>1 DEF ConnStep, RoutedHere, Register, CloseGrouped
    <2>2. ASSUME NEW d \in Conns, d # c, Missed(d)' PROVE Missed(d)
      <3>1. at'[d] = at[d] /\ kind'[d] = kind[d] BY <1>t, <2>0, <2>2, OthersKept
      <3>2. via'[d] = via[d] /\ (d \in group' => d \in group)
        BY <1>1, <1>t, <2>2 DEF ConnStep, RoutedHere, Register, CloseGrouped, Via, LeaveGroup, TypeOK
      <3>. QED BY <2>1, <2>2, <3>1, <3>2 DEF Missed
    <2>3. ASSUME Missed(c)' PROVE Missed(c)
      <3>1. CASE RoutedHere(c)
        <4>1. via'[c] = selected BY <3>1, <1>t DEF RoutedHere, Via, TypeOK
        <4>. QED BY <2>1, <2>3, <4>1 DEF Missed
      <3>2. CASE Register(c)
        BY <3>2, <2>1, <2>3 DEF Register, DialReturns, Missed
      <3>3. CASE CloseGrouped(c)
        <4>1. c \notin group' BY <3>3 DEF CloseGrouped, LeaveGroup
        <4>2. at'[c] \notin {"dial", "dialed"}
          <5>1. at[c] \notin {"dial", "dialed"}
            BY <3>3 DEF CloseGrouped, ClosesRemote, UserCloses, ReportFails, KickFails, CopyFailsStream,
                        CloseBoth, CloseDestination, CopyFinishes, Copier, Copying, SelectorInv, RelayInv,
                        Before, During, After
          <5>. QED
            BY <5>1, <3>3, <1>t DEF CloseGrouped, ClosesRemote, UserCloses, ReportFails, KickFails,
                        CopyFailsStream, CloseBoth, CloseDestination, CopyFinishes, ManagerTypeOK
        <4>. QED BY <2>3, <4>1, <4>2 DEF Missed
      <3>4. CASE KeepsRemote(c) /\ UNCHANGED selectorVars
        <4>1. c \in group => at[c] \in Grouped BY DEF SelectorInv
        <4>2. CASE \E k \in {"stream", "packet"}, how \in {"ex", "waiting"} : Route(c, k, how)
          BY <4>2, <4>1, <3>4, <1>t, <2>3 DEF Route, Missed, Grouped, ManagerTypeOK
        <4>3. CASE RouteFails(c) \/ DialFails(c) \/ Dialed(c) \/ Proceed(c)
          BY <4>3, <3>4, <1>t, <2>3
             DEF RouteFails, DialFails, Dialed, Proceed, StartCopies, Missed, ManagerTypeOK
        <4>4. CASE \/ \E e \in Directions :
                        \/ CopyReads(c, e) \/ CopyWrites(c, e)
                        \/ CloseWrite(c, e) \/ SwapDone(c, e) \/ CopyFailsPacket(c, e)
                  \/ CloseDestination(c, "down")
          BY <4>4, <3>4, <2>3
             DEF CopyReads, CopyWrites, CloseWrite, SwapDone, CopyFailsPacket, CloseDestination, CopyFinishes, Missed
        <4>5. CASE UDPTimeout(c) \/ CloseTaken(c) \/ CallerReturns(c)
          BY <4>5, <3>4, <2>3 DEF UDPTimeout, CloseTaken, CallerReturns, Missed
        <4>. QED BY <3>4, <4>2, <4>3, <4>4, <4>5 DEF KeepsRemote
      <3>. QED BY <1>1, <3>1, <3>2, <3>3, <3>4 DEF ConnStep
    <2>. QED BY <2>1, <2>2, <2>3 DEF ReachInv, Idle
  <1>2. CASE CloseAll /\ UNCHANGED selectorVars BY <1>2 DEF CloseAll, ReachInv, Missed, Idle
  <1>3. ASSUME NEW u \in Users, NEW t \in Outbounds, Swap(u, t) PROVE ReachInv'
    <2>1. user'[u].pc = "store" BY <1>3, <1>t DEF Swap, TypeOK
    <2>. QED BY <2>1 DEF ReachInv, Idle
  <1>4. ASSUME NEW u \in Users, StoreSelected(u) PROVE ReachInv'
    <2>1. user[u] \in UserStates BY <1>t DEF TypeOK
    <2>2. user'[u].pc = "interrupt" BY <1>4, <1>t, <2>1 DEF StoreSelected, TypeOK, UserStates
    <2>. QED BY <2>2 DEF ReachInv, Idle
  <1>5. ASSUME NEW u \in Users, Interrupt(u) PROVE ReachInv'
    BY <1>5, <1>t DEF Interrupt, Interrupts, ReachInv, Missed
  <1>6. CASE Restart BY <1>6 DEF Restart, ManagerRestarts, ReachInv, Missed
  <1>7. CASE UNCHANGED vars BY <1>7 DEF vars, ReachInv, Missed, Idle
  <1>. QED BY <1>1, <1>2, <1>3, <1>4, <1>5, <1>6, <1>7 DEF Next

\* When no selection is under way, the registered connections that are to be
\* interrupted and are open go through the selected outbound, except those that
\* were being dialed when Interrupt ran (selector.go:122-148).
THEOREM SwitchReachesAll == Spec => []SwitchReaches
  <1>1. Init => ReachInv BY DEF Init, ManagerInit, ReachInv, Missed
  <1>2. SelectorInv /\ ReachInv => SwitchReaches
    BY DEF SelectorInv, TypeOK, ReachInv, Missed, SwitchReaches
  <1>. QED BY <1>1, <1>2, ReachInvPreserved, SelectorInvariance, PTL DEF Spec
=============================================================================
