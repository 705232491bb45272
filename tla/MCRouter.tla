------------------------------ MODULE MCRouter ------------------------------
(***************************************************************************)
(* Small configurations of the router: d1 and d2 have real addresses a1,   *)
(* a2 and b1, and fakeip addresses f1 and f2.                              *)
(***************************************************************************)
EXTENDS Router, TLC

CONSTANTS d1, d2, a1, a2, b1, f1, f2, local, remote, fakeip, client, other, ads, geo, direct, proxy

Zones ==
    [s \in {local, remote, fakeip} |-> [d \in {d1, d2} |->
        CASE s = local -> IF d = d1 THEN {a1} ELSE {b1}
          [] s = remote -> IF d = d1 THEN {a2} ELSE {}
          [] s = fakeip -> IF d = d1 THEN {f1} ELSE {f2}]]

Fakes == d1 :> f1 @@ d2 :> f2

\* Rules.
Anything ==
    [logical |-> FALSE, mode |-> "or", rules |-> <<>>, invert |-> FALSE,
     on |-> [g \in Groups |-> {}], cidr |-> {}, items |-> {},
     sets |-> {}, matchSource |-> FALSE, acceptEmpty |-> FALSE]

With(r, g, values) == [r EXCEPT !.on[g] = values]
CIDR(r, values) == [r EXCEPT !.cidr = values]
Not(r) == [r EXCEPT !.invert = TRUE]
Sets(r, tags) == [r EXCEPT !.sets = tags]
Logical(mode, rules) == [Anything EXCEPT !.logical = TRUE, !.mode = mode, !.rules = rules]

Domain(values) == With(Anything, "destinationAddress", values)
Always == With(Anything, "sourceAddress", {client})
OnPort(port) == With(Anything, "destinationPort", {port})
TLS == [Anything EXCEPT !.items = {"tls"}]

DNSDo(r, action) == [match |-> r, action |-> action, server |-> None, answer |-> {}]
DNS(r, server) == [DNSDo(r, "route") EXCEPT !.server = server]
Predefined(r, answer) == [DNSDo(r, "predefined") EXCEPT !.answer = answer]

Do(r, action) == [match |-> r, action |-> action, outbound |-> None,
                  server |-> None, ip |-> None, fqdn |-> None, port |-> 0]
Route(r, outbound) == [Do(r, "route") EXCEPT !.outbound = outbound]
ResolveWith(r, server) == [Do(r, "resolve") EXCEPT !.server = server]

Hijack == Do(OnPort(53), "hijack-dns")

\* Fakeip for clients, real and predefined addresses for the router; rejects
\* by domain and by address, overridden destinations.
FakeIPConfig ==
    [dns |-> <<DNSDo(Always, "route-options"), DNS(Domain({d1}), fakeip),
               DNS(CIDR(Domain({d1}), {a1}), local), Predefined(Domain({d2}), {a1})>>,
     route |-> <<Hijack, Do(Always, "resolve"), Do(CIDR(Anything, {a2}), "reject"),
                 [Do(Domain({d1}), "route-options") EXCEPT !.fqdn = d2],
                 [Do(OnPort(443), "route-options") EXCEPT !.port = 53],
                 Route(CIDR(Anything, {a1, b1}), direct), ResolveWith(Domain({d2}), local)>>,
     sets |-> (ads :> {} @@ geo :> {}), update |-> <<>>]

\* Address filters: of a rule, of a rule-set that is reloaded, inverted.
FilterConfig ==
    [dns |-> <<DNS(CIDR(Anything, {a2}), local), DNS(Sets(Domain({d2}), {geo}), remote),
               DNS(Not(CIDR(Anything, {a1})), local), DNSDo(Domain({d2}), "reject"),
               DNS(Always, None)>>,
     route |-> <<Hijack, Do(Sets(Anything, {ads}), "reject"), Do(Always, "sniff"),
                 Do(TLS, "resolve"), Route(Sets(CIDR(Anything, {a1}), {geo}), direct),
                 Route(Sets(TLS, {geo}), proxy)>>,
     sets |-> (ads :> {Domain({d2}), Not(With(Domain({d1, d2}), "sourcePort", {2000}))}
               @@ geo :> {CIDR(Anything, {a2}), CIDR(OnPort(443), {b1})}),
     update |-> geo :> {Domain({d1})}]

\* Rule-sets whose branches are merged with fields of the rule; the router
\* asks the fakeip server.
MergeConfig ==
    [dns |-> <<DNS([Sets(Anything, {geo}) EXCEPT !.acceptEmpty = TRUE], remote),
               DNS(Logical("and", <<Sets(Domain({d1}), {ads}), Not(Domain({d2}))>>), local)>>,
     route |-> <<[Do(Sets(Domain({d1}), {geo}), "route-options") EXCEPT !.ip = b1],
                 Do(Not(Sets(With(Anything, "sourcePort", {2000}), {ads})), "reject"),
                 Route(Sets(CIDR(With(Anything, "sourcePort", {1000}), {b1}), {ads}), direct),
                 Do(Always, "sniff"),
                 ResolveWith(OnPort(443), fakeip),
                 Route(Logical("and", <<TLS, Not(Sets(Domain({d2}), {geo}))>>), proxy),
                 [Route([Sets(OnPort(443), {geo}) EXCEPT !.matchSource = TRUE], direct)
                    EXCEPT !.fqdn = d1]>>,
     sets |-> (ads :> {Logical("or", <<With(Anything, "sourcePort", {1000}), TLS>>),
                       Not(Logical("and", <<Domain({d2}), OnPort(53)>>))}
               @@ geo :> {CIDR(Anything, {a2, b1, client}), CIDR(With(Anything, "destinationPort", {53}), {other})}),
     update |-> <<>>]

\* Logical rules in rule-sets, bypass, unknown outbounds and servers.
LogicalConfig ==
    [dns |-> <<DNS(Logical("or", <<CIDR(Domain({d2}), {a1}), Sets(Anything, {geo})>>), local)>>,
     route |-> <<Do(Domain({d2}), "bypass"), [Do(OnPort(53), "bypass") EXCEPT !.outbound = proxy],
                 Do(Always, "resolve"), Do(Always, "sniff"),
                 Do(Logical("and", <<Sets(Domain({d1}), {ads}), CIDR(Anything, {a1})>>), "reject"),
                 Route(Not(Logical("or", <<Domain({d2}), Sets(TLS, {ads})>>)), None),
                 ResolveWith(Domain({d2}), other),
                 Route(Sets(OnPort(443), {geo}), proxy)>>,
     sets |-> (ads :> {Logical("and", <<OnPort(443), Not(Domain({d2}))>>)}
               @@ geo :> {Logical("and", <<CIDR(Anything, {a1, b1}), Not(CIDR(Anything, {a2}))>>)}),
     update |-> <<>>]

SmallConfigs ==
    "fakeip" :> FakeIPConfig @@ "filter" :> FilterConfig
        @@ "merge" :> MergeConfig @@ "logical" :> LogicalConfig

Entry(ip, fqdn, port) ==
    [tun |-> FALSE, bypass |-> FALSE, ip |-> ip, fqdn |-> fqdn, port |-> port, hello |-> None]

\* To the DNS server, by address, by domain, to a fakeip address; from tun
\* and from other inbounds.
SmallEntries ==
    {[Entry(b1, None, 53) EXCEPT !.tun = TRUE],
     Entry(None, d1, 443), Entry(None, d2, 443), Entry(f1, None, 443),
     [Entry(None, d1, 443) EXCEPT !.tun = TRUE],
     [Entry(a2, None, 443) EXCEPT !.tun = TRUE, !.hello = d1],
     [Entry(a2, None, 443) EXCEPT !.hello = d2],
     [Entry(None, d2, 443) EXCEPT !.tun = TRUE, !.bypass = TRUE, !.hello = d2]}
=============================================================================
