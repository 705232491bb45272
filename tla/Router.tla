------------------------------- MODULE Router -------------------------------
(***************************************************************************)
(* The router (route/route.go) with the DNS router: a connection walks the *)
(* route rules to a verdict.  Rules on its way sniff its domain, resolve   *)
(* its destination with a Lookup, or override the destination; what they   *)
(* find is seen by the rules behind them.  A connection hijacked for DNS   *)
(* sends its queries to the DNS router, and later connections come to the  *)
(* addresses those queries got.                                            *)
(*                                                                         *)
(* A connection of the tun inbound is first matched without its payload    *)
(* (PreMatch), which may reject or bypass it, and then as any other.       *)
(***************************************************************************)
EXTENDS DNSRouter

CONSTANTS
    Entries,        \* connections that come: [tun, bypass, ip, fqdn, port, hello]
    Source, SourcePort, Ports,
    Outbounds,      \* outbounds the rules may name that exist
    Deadlineless    \* servers whose exchanges have no deadline, such as TCP's

\* Destinations are an address, a domain or neither; configurations hold rules.
ASSUME RouterAssumption ==
    /\ None \notin Domains \cup Addresses \cup Servers
                     \cup {"answer", "predefined", "error", "rejected"}
    /\ Deadlineless \subseteq Servers
    /\ Entries \subseteq [tun : BOOLEAN, bypass : BOOLEAN, ip : Addresses \cup {None},
                         fqdn : Domains \cup {None}, port : Ports, hello : Domains \cup {None}]
    /\ \A n \in DOMAIN Configs :
        LET dns == Configs[n].dns
            route == Configs[n].route
            update == Configs[n].update
        IN  /\ Len(dns) \in Nat /\ Len(route) \in Nat
            /\ \A i \in 1 .. Len(dns) :
                IsRule(dns[i].match) /\ dns[i].answer \in SUBSET Addresses
            /\ \A i \in 1 .. Len(route) :
                /\ IsRule(route[i].match)
                /\ route[i].ip \in Addresses \cup {None} /\ route[i].fqdn \in Domains \cup {None}
                /\ route[i].port \in Ports \cup {0}
            /\ DOMAIN Configs[n].sets = Tags /\ DOMAIN update \subseteq Tags
            /\ \A t \in Tags : \A h \in Configs[n].sets[t] : IsHeadlessRule(h)
            /\ \A t \in DOMAIN update : \A h \in update[t] : IsHeadlessRule(h)

VARIABLES
    reloaded,    \* a rule-set has been reloaded
    conn         \* the connections

configVars == <<config, sets, reloaded>>
vars == <<configVars, dnsVars, conn>>

routeRules == Configs[config].route

(* A route rule is [match, action, outbound, server, ip, fqdn, port]: the  *)
(* server of resolve, and the last three for override_address and          *)
(* override_port.  A connection is where it is, its entry, whether this is *)
(* its pre-match, its metadata, the rule it has come to and its verdict;   *)
(* and as history what the metadata was when the walk began, the domain    *)
(* its addresses were given for, and whether a DNS server failed it.       *)
NotCome == [at |-> "none"]

Metadata(e) ==
    [source |-> Source, sourcePort |-> SourcePort, domain |-> None,
     fqdn |-> e.fqdn, ip |-> e.ip, port |-> e.port, protocol |-> None,
     addresses |-> {}, ignore |-> FALSE, matchSource |-> FALSE, acceptEmpty |-> FALSE]

Init ==
    /\ config \in DOMAIN Configs
    /\ sets = Configs[config].sets
    /\ reloaded = FALSE
    /\ query = [c \in Conns |-> NoQuery]
    /\ reverse = [a \in Addresses |-> None]
    /\ mapped = {}
    /\ conn = [c \in Conns |-> NotCome]

\* matchRule, up to the rules: a fakeip address stands for its domain, any
\* other address for the domain it was given for, while that is remembered.
Identified(m) ==
    LET fake == {d \in Domains : FakeAddress[d] = m.ip}
    IN  IF fake # {} THEN {[m EXCEPT !.ip = None, !.fqdn = d] : d \in fake \cap mapped}
        ELSE {[m EXCEPT !.domain = d] :
                d \in {None} \cup {reverse[a] : a \in {m.ip} \cap Addresses}}

Walk(e, pre, m) ==
    [at |-> "match", entry |-> e, pre |-> pre, meta |-> m, start |-> m, index |-> 0,
     given |-> None, failed |-> FALSE, verdict |-> None]

\* matchRule begins; it fails when a fakeip address has no record.
Enter(c, e, pre) ==
    \/ \E m \in Identified(Metadata(e)) : conn' = [conn EXCEPT ![c] = Walk(e, pre, m)]
    \/ /\ Identified(Metadata(e)) = {}
       /\ conn' = [conn EXCEPT ![c] =
            [Walk(e, pre, Metadata(e)) EXCEPT !.at = "over", !.verdict = "error"]]

Comes(c) ==
    /\ conn[c].at = "none"
    /\ \E e \in Entries : Enter(c, e, e.tun)
    /\ UNCHANGED <<configVars, dnsVars>>

\* The rule the walk comes to next, 0 at the end.
NextRule(c) ==
    LET found == {i \in conn[c].index + 1 .. Len(routeRules) :
                    Match(routeRules[i].match, conn[c].meta)}
    IN  IF found = {} THEN 0 ELSE Min(found)

\* The walk goes on to the next rule that matches.
MatchRule(c) ==
    /\ conn[c].at = "match"
    /\ conn' = [conn EXCEPT ![c].index = NextRule(c), ![c].at = "matched"]
    /\ UNCHANGED <<configVars, dnsVars>>

Rule(c) == routeRules[conn[c].index]

AtRule(c, actions) ==
    /\ conn[c].at = "matched" /\ conn[c].index # 0
    /\ Rule(c).action \in actions
    /\ UNCHANGED <<configVars, reverse, mapped>>

GoOn(c) == conn' = [conn EXCEPT ![c].at = "match"]

Over(c, verdict) == conn' = [conn EXCEPT ![c].at = "over", ![c].verdict = verdict]

\* PreMatch leaves the connection alone; it is matched again when it comes.
LetThrough(c) == Enter(c, conn[c].entry, FALSE)

\* Mutant: the addresses of the destination that is overridden are kept.
KeepAddresses(r, m) ==
    LET moved == r.ip # None \/ r.fqdn # None
    IN  [m EXCEPT !.port = IF r.port # 0 THEN r.port ELSE m.port,
                  !.ip = IF moved THEN r.ip ELSE m.ip,
                  !.fqdn = IF moved THEN r.fqdn ELSE m.fqdn]

\* The options of a route or route-options rule.
Overridden(r, m) ==
    LET moved == r.ip # None \/ r.fqdn # None
    IN  [m EXCEPT !.port = IF r.port # 0 THEN r.port ELSE m.port,
                  !.ip = IF moved THEN r.ip ELSE m.ip,
                  !.fqdn = IF moved THEN r.fqdn ELSE m.fqdn,
                  !.addresses = IF moved THEN {} ELSE m.addresses]

\* A rule that routes: its outbound must exist.  (routeConnection; for
\* PreMatch the connection goes on.)
Routes(c) ==
    LET r == Rule(c)
        routed == r.action = "route" \/ r.outbound # None
    IN  /\ AtRule(c, {"route", "bypass"})
        /\ IF r.action = "bypass" /\ conn[c].pre /\ conn[c].entry.bypass
           THEN Over(c, "bypassed")
           ELSE IF ~routed THEN GoOn(c)
           ELSE IF conn[c].pre THEN LetThrough(c)
           ELSE IF r.outbound \notin Outbounds THEN Over(c, "error")
           ELSE conn' = [conn EXCEPT ![c].at = "over", ![c].verdict = r.outbound,
                            ![c].meta = IF r.action = "route" THEN Overridden(r, @) ELSE @]
        /\ UNCHANGED query

RouteOptions(c) ==
    /\ AtRule(c, {"route-options"})
    /\ conn' = [conn EXCEPT ![c].at = "match", ![c].meta = Overridden(Rule(c), @)]
    /\ UNCHANGED query

Rejects(c) ==
    /\ AtRule(c, {"reject"})
    /\ Over(c, "rejected")
    /\ UNCHANGED query

HijacksDNS(c) ==
    /\ AtRule(c, {"hijack-dns"})
    /\ IF conn[c].pre THEN LetThrough(c)
       ELSE conn' = [conn EXCEPT ![c].at = "dns"]
    /\ UNCHANGED query

\* Mutant: pre-match passes over a rule that sniffs.
SniffLater(c) == GoOn(c)

\* A rule that sniffs is where pre-match ends.
PreMatchSniff(c) == LetThrough(c)

\* actionSniff: the payload tells protocol and domain, or nothing.
Sniffs(c) ==
    LET m == conn[c].meta
        hello == conn[c].entry.hello
    IN  /\ AtRule(c, {"sniff"})
        /\ IF conn[c].pre THEN PreMatchSniff(c)
           ELSE conn' = [conn EXCEPT ![c].at = "match",
                    ![c].meta = IF m.protocol # None \/ hello = None THEN m
                                ELSE [m EXCEPT !.protocol = "tls", !.domain = hello]]
        /\ UNCHANGED query

\* Reading the first packet of a packet connection fails.
SniffFails(c) ==
    /\ AtRule(c, {"sniff"})
    /\ ~conn[c].pre /\ conn[c].meta.protocol = None
    /\ Over(c, "error")
    /\ UNCHANGED query

\* actionResolve: a domain is looked up, with the rule's server if it names one.
Resolves(c) ==
    LET server == Rule(c).server
        fqdn == conn[c].meta.fqdn
    IN  /\ AtRule(c, {"resolve"})
        /\ \/ fqdn = None /\ GoOn(c) /\ UNCHANGED query
           \/ /\ fqdn # None /\ server \notin Servers \cup {None}
              /\ Over(c, "error") /\ UNCHANGED query
           \/ /\ fqdn # None /\ server \in Servers \cup {None}
              /\ conn' = [conn EXCEPT ![c].at = "resolve"]
              /\ Begin(c, IF server = None THEN "lookup" ELSE "direct", TRUE,
                       fqdn, conn[c].meta, server)

\* The lookup returns: an error ends the walk.
Resolved(c) ==
    LET found == LookupResult(query[c])
        failed == conn[c].failed \/ query[c].failed # {} \/ query[c].result = "error"
    IN  /\ conn[c].at = "resolve" /\ query[c].at = "done"
        /\ conn' = [conn EXCEPT ![c] =
                IF found = {} THEN [@ EXCEPT !.at = "over", !.verdict = "error", !.failed = failed]
                ELSE [@ EXCEPT !.at = "match", !.failed = failed, !.meta.addresses = found,
                               !.given = query[c].meta.domain]]
        /\ query' = [query EXCEPT ![c] = NoQuery]
        /\ UNCHANGED <<configVars, reverse, mapped>>

\* No rule decides: the default outbound, or on from pre-match.
EndOfRules(c) ==
    /\ conn[c].at = "matched" /\ conn[c].index = 0
    /\ IF conn[c].pre THEN LetThrough(c) ELSE Over(c, "default")
    /\ UNCHANGED <<configVars, dnsVars>>

\* The client of a hijacked connection asks, and closes it in the end.
Asks(c) ==
    /\ conn[c].at = "dns" /\ query[c].at \in {"none", "done"}
    /\ \E d \in Domains, address \in BOOLEAN :
            Begin(c, "exchange", address, d, conn[c].meta, None)
    /\ UNCHANGED <<configVars, reverse, mapped, conn>>

ClientCloses(c) ==
    /\ conn[c].at = "dns"
    /\ Over(c, "hijacked")
    /\ UNCHANGED <<configVars, dnsVars>>

\* A rule-set is reloaded while connections walk.
Reload ==
    /\ ~reloaded
    /\ \E tag \in DOMAIN Configs[config].update :
            ReloadRules(tag, Configs[config].update[tag])
    /\ reloaded' = TRUE
    /\ UNCHANGED <<config, dnsVars, conn>>

ConnStep(c) ==
    \/ MatchRule(c) \/ Routes(c) \/ RouteOptions(c) \/ Rejects(c) \/ HijacksDNS(c)
    \/ Sniffs(c) \/ SniffFails(c) \/ Resolves(c) \/ Resolved(c) \/ EndOfRules(c)

QueryStep(c) == DNSStep(c) /\ UNCHANGED <<configVars, conn>>

Done ==
    /\ \A c \in Conns : conn[c].at = "over"
    /\ UNCHANGED vars

Next ==
    \/ \E c \in Conns : Comes(c) \/ ConnStep(c) \/ QueryStep(c) \/ Asks(c) \/ ClientCloses(c)
    \/ Reload
    \/ Done

Spec == Init /\ [][Next]_vars

\* A question may stay without an answer: its own exchange has no deadline, or
\* the one for the same question that the client has it wait for.
Unanswered(c) ==
    /\ query[c].at = "asked"
    /\ \E d \in Conns : /\ query[d].at = "asked" /\ query[d].server \in Deadlineless
                        /\ query[d].meta.domain = query[c].meta.domain

\* The router has work to do for c: a rule to match or to apply, a lookup
\* that has returned, a query to walk on, or one to be answered or to fail.
Runnable(c) ==
    \/ conn[c].at \in {"match", "matched"}
    \/ conn[c].at = "resolve" /\ query[c].at = "done"
    \/ query[c].at \in {"match", "check"}
    \/ query[c].at = "asked" /\ ~Unanswered(c)

Works(c) == Runnable(c) /\ <<conn[c], query[c]>> # <<conn'[c], query'[c]>>

\* Weak fairness of the router's work for each connection, with what enables
\* it written out; whether clients come, ask or close is theirs.
FairSpec == Spec /\ \A c \in Conns : []<>~Runnable(c) \/ []<><<Works(c)>>_vars

----------------------------------------------------------------------------
Come(c) == conn[c].at # "none"
Asking(c) == query[c].at # "none"

(* Where the flags of a rule_set item reach all the rules of its sets: a   *)
(* logical rule resets them for the rules it is made of.                   *)
FlagsReach(r) ==
    \A p \in Parts(r) : \A t \in p.sets : \A h \in sets[t] :
        h.logical /\ (p.matchSource \/ p.acceptEmpty) => \A l \in Parts(h) : l.cidr = {}

(* A route rule matches a connection exactly when the formula documented   *)
(* for route rules holds for it: a field of one group is enough for the    *)
(* group, all groups are needed, each branch of a rule-set is merged into  *)
(* the rule that includes it, branches are alternatives, and an inverted   *)
(* rule is taken on its own (matchStatesWithBase).                         *)
MatchesAsDocumented ==
    \A c \in Conns : conn[c].at = "match" =>
        \A i \in 1 .. Len(routeRules) :
            FlagsReach(routeRules[i].match) =>
                (Match(routeRules[i].match, conn[c].meta)
                    <=> Documented(routeRules[i].match, conn[c].meta))

(* The two phases of matching a DNS rule decide as one would, for every    *)
(* query, as long as no rule-set is reloaded between them.                 *)
DNSFirstRuleWins == ~reloaded => \A c \in Conns : Asking(c) => FirstRuleWins(query[c])

\* Servers whose addresses the router may dial: the fakeip server only where a
\* rule resolves with it, past the DNS rules.
Resolvers ==
    {s \in Servers : s = FakeServer =>
        \E i \in 1 .. Len(routeRules) :
            routeRules[i].action = "resolve" /\ routeRules[i].server = s}

\* What a lookup of d may find: the answer of a server or of a predefined rule.
Finds(d, a) ==
    \/ \E s \in Resolvers : a = Zone[s][d]
    \/ \E i \in 1 .. Len(dnsRules) : dnsRules[i].action = "predefined" /\ a = dnsRules[i].answer

(* The addresses a connection is dialed with were given for the domain it  *)
(* goes to, by a server or a predefined DNS rule: never those of a         *)
(* destination that has been overridden since (matchRule), never some of   *)
(* one answer and some of another, and never a fakeip address that the DNS *)
(* rules hold for clients (matchDNS).                                      *)
DialsOwnAddresses ==
    \A c \in Conns : Come(c) /\ conn[c].meta.addresses # {} =>
        /\ conn[c].given = conn[c].meta.fqdn
        /\ Finds(conn[c].meta.fqdn, conn[c].meta.addresses)

(* What pre-match rejects would have been rejected without it: a           *)
(* connection that comes with the same metadata and is matched with its    *)
(* payload gets the same verdict (PreMatch, matchRule).                    *)
PreMatchAgrees ==
    \A c, d \in Conns :
        /\ ~reloaded
        /\ Come(c) /\ conn[c].pre /\ conn[c].verdict = "rejected" /\ ~conn[c].failed
        /\ Come(d) /\ ~conn[d].pre /\ conn[d].at = "over" /\ ~conn[d].failed
        /\ conn[c].start = conn[d].start
        => conn[d].verdict = "rejected"

(* Every connection gets a verdict or is hijacked, and every query gets a  *)
(* result: the walks end, also when answer after answer is rejected.  The  *)
(* exception is a question again and again without an answer for want of a *)
(* deadline.                                                               *)
Decided ==
    \A c \in Conns :
        /\ Come(c) /\ conn[c].at # "dns"
                ~> conn[c].at \in {"over", "dns"} \/ []<>Unanswered(c)
        /\ Asking(c) ~> query[c].at \in {"none", "done"} \/ []<>Unanswered(c)
=============================================================================
