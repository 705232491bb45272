------------------------------ MODULE MCDaemon ------------------------------
(***************************************************************************)
(* Configurations whose dependencies are out of order, go through an       *)
(* endpoint, are circular or missing.                                      *)
(***************************************************************************)
EXTENDS Daemon, TLC

NoItems == [m \in Managers |-> <<>>]
NoDefaults == [m \in {"outbound", "dnsTransport"} |-> None]
Fallbacks == "outbound" :> "direct" @@ "dnsTransport" :> "local"

One(components, outbounds, endpoints, servers, deps) ==
    [boxes |-> {1}, components |-> components, default |-> NoDefaults, deps |-> deps,
     items |-> [NoItems EXCEPT !["outbound"] = outbounds, !["endpoint"] = endpoints,
                    !["dnsTransport"] = servers, !["inbound"] = <<"mixed">>,
                    !["service"] = <<"resolved">>]]

\* A group before its members, one of which is an endpoint; a DNS server
\* before the one that resolves its name.
OutOfOrder == One({"outbound", "endpoint", "inbound", "router"},
               <<"group", "proxy">>, <<"tunnel">>, <<>>, "group" :> {"proxy", "tunnel"})

OrderedServers == One({"dnsTransport", "dnsRouter", "inbound", "internal"},
                      <<>>, <<>>, <<"tls", "udp">>, "tls" :> {"udp"})

Circular == One({"outbound", "inbound", "connection"}, <<"group", "proxy">>, <<>>, <<>>,
                "group" :> {"proxy"} @@ "proxy" :> {"group"})

Missing == One({"network", "outbound", "endpoint"}, <<>>, <<"tunnel">>, <<>>,
               "tunnel" :> {"proxy"})

\* An endpoint that depends on the outbound made when there is none.
OnFallback == One({"outbound", "endpoint"}, <<>>, <<"tunnel">>, <<>>, "tunnel" :> {"direct"})

\* The default outbound is an endpoint, the default server does not exist.
DefaultEndpoint ==
    [One({"outbound", "endpoint", "service"}, <<>>, <<"tunnel">>, <<>>, <<>>)
        EXCEPT !.default["outbound"] = "tunnel"]

NoSuchServer ==
    [One({"dnsTransport", "inbound"}, <<>>, <<>>, <<"udp">>, <<>>)
        EXCEPT !.default["dnsTransport"] = "tls"]

\* Two instances of as little as takes connections.
Reloads == [One({"inbound"}, <<>>, <<>>, <<>>, <<>>) EXCEPT !.boxes = {1, 2}]

SmallConfigs ==
    "ordered" :> OutOfOrder @@ "servers" :> OrderedServers @@ "circular" :> Circular
        @@ "missing" :> Missing @@ "endpoint" :> DefaultEndpoint @@ "default" :> NoSuchServer
        @@ "fallback" :> OnFallback @@ "reloads" :> Reloads
=============================================================================
