----------------------------- MODULE DNSRouter -----------------------------
(***************************************************************************)
(* The DNS router (dns/router.go): a query walks the DNS rules to a        *)
(* server.  Rules are first matched without the addresses they are to      *)
(* check; the answer of the server of a rule that checks addresses is      *)
(* matched against the whole rule, and when it does not match the walk     *)
(* goes on behind that rule.                                               *)
(*                                                                         *)
(* Each connection c of the router has at most one query at a time: one    *)
(* it has hijacked (Exchange) or one to resolve its destination (Lookup).  *)
(* Servers answer as Zone says, or fail.                                   *)
(***************************************************************************)
EXTENDS RuleMatch, FiniteSetsExt

CONSTANTS
    Configs,        \* the configurations: [dns, route, sets, update]
    Conns,
    Domains,
    Addresses,
    Servers,        \* the DNS servers of the configuration
    FakeServer,     \* the fakeip server, one of them
    DefaultServer,
    Zone,           \* Zone[s][d]: the addresses server s has for domain d
    FakeAddress     \* FakeAddress[d]: the address the fakeip store gives to d

ASSUME DNSRouterAssumption ==
    /\ FakeServer \in Servers /\ DefaultServer \in Servers \ {FakeServer}
    /\ Zone \in [Servers -> [Domains -> SUBSET Addresses]]
    /\ FakeAddress \in [Domains -> Addresses]
    /\ \A d, e \in Domains : FakeAddress[d] = FakeAddress[e] => d = e
    /\ \A d \in Domains : Zone[FakeServer][d] = {FakeAddress[d]}

VARIABLES
    config,    \* the configuration the router runs with
    query,     \* the query each connection has
    reverse,   \* dnsReverseMapping
    mapped     \* the domains that have a fakeip record

dnsVars == <<query, reverse, mapped>>

dnsRules == Configs[config].dns

(* A DNS rule is [match, action, server, answer], the last one the         *)
(* addresses of a predefined answer, none when its rcode is an error.  A   *)
(* query is where it is, whether it is an Exchange, a Lookup or a Lookup   *)
(* that names its server, whether it asks for addresses, its metadata, the *)
(* rule it has come to (0: none), the server that is asked, whether its    *)
(* answer will be checked, the rules whose server has failed, and its      *)
(* result.                                                                 *)
NoQuery == [at |-> "none"]

\* Mutant: the walk goes on at the rule it has come to.
SameRule(q) == IF q.index = 0 THEN 1 ELSE q.index

\* The walk goes on behind the rule it has come to.
FirstRule(q) == q.index + 1

\* The addresses of a rule are checked only when there is an answer.
PreLookup(m) == [m EXCEPT !.ignore = TRUE]

RuleMatches(i, q) ==
    /\ WithAddressLimit(dnsRules[i].match) => q.address
    /\ Match(dnsRules[i].match, PreLookup(q.meta))

\* A rule whose server is unknown, or is the fakeip server when the router
\* itself needs addresses, is passed over.
ServerUsable(i, q) ==
    /\ dnsRules[i].server \in Servers
    /\ dnsRules[i].server = FakeServer => q.kind = "exchange"

Decides(i, q) ==
    \/ dnsRules[i].action \in {"reject", "predefined"}
    \/ dnsRules[i].action = "route" /\ ServerUsable(i, q)

\* matchDNS: the first rule that decides (0: none); the others that match set
\* options of the query.
RuleFound(q) ==
    LET found == {i \in FirstRule(q) .. Len(dnsRules) : RuleMatches(i, q) /\ Decides(i, q)}
    IN  IF found = {} THEN 0 ELSE Min(found)

Finish(c, result) == query' = [query EXCEPT ![c].at = "done", ![c].result = result]

\* Exchange and Lookup begin: the destination of the connection is not seen.
\* A Lookup whose options name a server asks it at once.
Begin(c, kind, address, domain, meta, server) ==
    query' = [query EXCEPT ![c] =
        [at |-> IF kind = "direct" THEN "asked" ELSE "match",
         kind |-> kind, address |-> address,
         meta |-> [meta EXCEPT !.ip = None, !.fqdn = None, !.port = 0,
                               !.domain = domain],
         index |-> 0, server |-> server, check |-> FALSE,
         failed |-> {}, result |-> None]]

\* One round of the walk, up to the server it comes to.
MatchDNS(c) ==
    LET q == query[c]
        rule == RuleFound(q)
    IN  /\ q.at = "match"
        /\ IF rule # 0 /\ dnsRules[rule].action # "route"
           THEN query' = [query EXCEPT ![c] = [q EXCEPT
                    !.index = rule, !.at = "done", !.result = dnsRules[rule].action]]
           ELSE query' = [query EXCEPT ![c] = [q EXCEPT
                    !.index = rule, !.at = "check",
                    !.server = IF rule = 0 THEN DefaultServer ELSE dnsRules[rule].server]]
        /\ UNCHANGED <<reverse, mapped>>

\* addressLimitResponseCheck, and the question is sent.
Ask(c) ==
    /\ query[c].at = "check"
    /\ query' = [query EXCEPT
            ![c].at = "asked",
            ![c].check = query[c].index # 0 /\ WithAddressLimit(dnsRules[query[c].index].match)]
    /\ UNCHANGED <<reverse, mapped>>

\* The addresses in the answer, none when the query is not for addresses.
Answer(q) == IF q.address THEN Zone[q.server][q.meta.domain] ELSE {}

\* MatchAddressLimit
AddressLimit(q) == [q.meta EXCEPT !.addresses = Answer(q)]

\* Mutant: an answer that does not match is used.
UseAnyAnswer(q) == TRUE

Accepted(q) == q.check => Match(dnsRules[q.index].match, AddressLimit(q))

\* An Exchange that gets addresses remembers whose they are.
Remember(q) ==
    IF q.kind = "exchange" /\ q.server # FakeServer
    THEN [a \in DOMAIN reverse |-> IF a \in Answer(q) THEN q.meta.domain ELSE reverse[a]]
    ELSE reverse

\* The server answers: the answer is used, or the walk goes on.
Answered(c) ==
    LET q == query[c]
    IN  /\ q.at = "asked"
        /\ mapped' = IF q.server = FakeServer /\ q.address
                     THEN mapped \cup {q.meta.domain} ELSE mapped
        /\ \/ Accepted(q) /\ Finish(c, "answer") /\ reverse' = Remember(q)
           \/ /\ ~Accepted(q) /\ UNCHANGED reverse
              /\ query' = [query EXCEPT ![c].at = "match"]

\* The server fails: an Exchange ends, a Lookup goes on if there was a check.
Fails(c) ==
    LET q == query[c]
    IN  /\ q.at = "asked"
        /\ IF q.kind = "lookup" /\ q.check
           THEN query' = [query EXCEPT ![c].at = "match", ![c].failed = @ \cup {q.index}]
           ELSE Finish(c, "error")
        /\ UNCHANGED <<reverse, mapped>>

DNSStep(c) == MatchDNS(c) \/ Ask(c) \/ Answered(c) \/ Fails(c)

\* What the caller of Lookup gets; no addresses are an error.
LookupResult(q) ==
    CASE q.result = "answer" -> Answer(q)
      [] q.result = "predefined" -> dnsRules[q.index].answer
      [] OTHER -> {}
----------------------------------------------------------------------------
(* Rules whose addresses the two phases treat as the documented filter: no *)
(* domains beside the addresses, which would be enough for the group;      *)
(* inverted rules with nothing but addresses; and rule-sets that are       *)
(* matched against the answer and not against the source, whose addresses  *)
(* neither phase looks at.                                                 *)
Names(r) == r.on["destinationAddress"] # {}

SetRules(p) == UNION {sets[t] : t \in p.sets}

PartFilters(p) ==
    /\ p.cidr # {} => ~Names(p) /\ (p.invert => ~DidMatch(p))
    /\ \A h \in SetRules(p) : \A l \in Parts(h) :
        /\ p.cidr # {} => ~Names(l)
        /\ l.cidr # {} =>
            /\ ~p.matchSource /\ ~p.invert /\ ~Names(p) /\ ~Names(l)
            /\ l.invert => ~DidMatch(l)
            /\ h.logical => ~h.invert /\ ~p.acceptEmpty

FiltersAnswer(r) ==
    /\ r.logical /\ r.invert => ~WithAddressLimit(r)
    /\ \A p \in Parts(r) : PartFilters(p)

Applies(i, q, addresses) ==
    /\ WithAddressLimit(dnsRules[i].match) => q.address
    /\ Decides(i, q)
    /\ Documented(dnsRules[i].match, [q.meta EXCEPT !.addresses = addresses])

(* A query is answered by the first rule that matches it in the            *)
(* documented sense, with the answer its own server gives: matching first  *)
(* without the addresses and then against the answer (matchDNS and         *)
(* addressLimitResponseCheck) passes over no rule that matches and uses    *)
(* none that does not.                                                     *)
FirstRuleWins(q) ==
    LET filters(i) == WithAddressLimit(dnsRules[i].match)
        answer(i) == IF dnsRules[i].action = "route" /\ filters(i)
                     THEN Zone[dnsRules[i].server][q.meta.domain] ELSE {}
        rules == {i \in 1 .. Len(dnsRules) :
                    /\ dnsRules[i].action # "route-options"
                    /\ filters(i) => dnsRules[i].action = "route"
                    /\ FiltersAnswer(dnsRules[i].match)}
    IN  q.at = "done" /\ q.kind # "direct" =>
            /\ \A i \in rules : (i < q.index \/ q.index = 0) /\ Applies(i, q, answer(i))
                                    => i \in q.failed
            /\ q.index \in rules /\ q.result # "error" => Applies(q.index, q, answer(q.index))
=============================================================================
