------------------------------ MODULE DNSClient ------------------------------
(***************************************************************************)
(* The DNS client (dns/client.go): every query for a question goes through *)
(* one cache, at most one query at a time looks a question up while the    *)
(* others wait for it, answers are checked against the address filter of   *)
(* the rule that chose the server, and rejections are remembered in the    *)
(* cache file (RDRC, experimental/cachefile/rdrc.go).                      *)
(*                                                                         *)
(* A query is a call of Client.Exchange, or of lookupToExchange when       *)
(* "lookup" holds.  A server that is named by a domain resolves its own    *)
(* name with another query, its child, while it dials.                     *)
(***************************************************************************)
EXTENDS Integers, FiniteSetsExt

CONSTANTS
    Queries,           \* the calls that may run at the same time
    Questions, Transports, Filters, Answers,
    Accepts,           \* <<f, a>>: the address filter f accepts the answer a
    Inputs,            \* the calls the rules of the configuration can make
    Resolver,          \* the domain_resolver of each transport, or NoTransport
    ServerName,        \* the question for a transport's server address
    UncachedResolvers, \* those used with disable_cache in domain_resolver
    Deadlineless,      \* transports whose exchange ignores its deadline (tcp.go)
    IndependentCache, DisableExpire, StoreRDRC,
    MaxTTL, RDRCTimeout,
    Lifetimes,         \* the sets of TTLs other than 0 that the records of a response have
    TTLModulus,        \* the TTL of a record is an uint32
    MaxTime,           \* bound: the clock stops here
    MaxSaving,         \* bound: SaveRDRCAsync goroutines per key
    Nobody, NoTransport, NoFilter, Nothing

\* context is the transport tag the call's context carries.
Calls == [question : Questions, transport : Transports, context : Transports \cup {NoTransport},
          checker : Filters \cup {NoFilter}, disableCache : BOOLEAN, lookup : BOOLEAN]

ASSUME ClientAssumption ==
    /\ Nobody \notin Queries /\ NoTransport \notin Transports
    /\ NoFilter \notin Filters /\ Nothing \notin Answers
    /\ Accepts \subseteq Filters \X Answers
    /\ Inputs \subseteq Calls
    /\ Resolver \in [Transports -> Transports \cup {NoTransport}]
    /\ ServerName \in [Transports -> Questions]
    /\ UncachedResolvers \subseteq Transports /\ Deadlineless \subseteq Transports
    /\ IndependentCache \in BOOLEAN /\ DisableExpire \in BOOLEAN /\ StoreRDRC \in BOOLEAN
    /\ MaxTTL \in Nat /\ RDRCTimeout \in Nat /\ MaxTime \in Nat /\ MaxSaving \in Nat
    /\ TTLModulus \in Nat /\ MaxTTL < TTLModulus
    /\ Lifetimes \subseteq SUBSET (1..MaxTTL)

VARIABLES
    pc,         \* where each query is
    call,       \* its arguments
    parent,     \* the query it resolves a server name for, or Nobody
    result,     \* what it is about to return
    cond,       \* the query whose channel it waits on; Nobody: it is closed
    cacheLock,  \* the query that looks each question up
    cache,      \* the answers by question and transport
    rdrc,       \* bucketRDRC: when each rejection expires
    saveRDRC,   \* rejections being saved
    saving,     \* goroutines of SaveRDRCAsync that have yet to write, and
    saved,      \* those that have written and not yet left saveRDRC
    blame,      \* history: the filters that rejected each server's answer
    now

queryVars == <<pc, call, parent, result, cond>>
rdrcVars == <<rdrc, saveRDRC, saving, saved, blame>>
vars == <<queryVars, cacheLock, cache, rdrcVars, now>>

-----------------------------------------------------------------------------
(* The state.                                                              *)

\* With a shared cache every transport has the same key.
CacheTransports == Transports \cup {NoTransport}
\* given and at are history: the TTLs of the response and when it was stored.
Entries == [server : Transports, answer : Answers, ttl : 1..MaxTTL,
            expireAt : 0..(MaxTime + MaxTTL), given : SUBSET (1..MaxTTL), at : 0..MaxTime]
RejectKeys == Transports \X Questions
Kinds == {"none", "answer", "refused", "rejected", "rejectedCached", "loopback", "error", "empty"}
Results == [kind : Kinds, server : Transports \cup {NoTransport},
            answer : Answers \cup {Nothing}, ttl : 0..MaxTTL]

\* Where a query can be while it has the lock of its question, if it took it.
Inside == {"load", "evict", "loopback", "loadRDRC", "deleteRDRC", "ask",
           "dialing", "connected", "return"}
Places == Inside \cup {"idle", "peek", "peekEvict", "exchange", "wait", "done"}

TypeOK ==
    /\ pc \in [Queries -> Places]
    /\ call \in [Queries -> Calls \cup {Nothing}]
    /\ parent \in [Queries -> Queries \cup {Nobody}]
    /\ result \in [Queries -> Results]
    /\ cond \in [Queries -> Queries \cup {Nobody}]
    /\ cacheLock \in [Questions -> Queries \cup {Nobody}]
    /\ cache \in [Questions \X CacheTransports -> Entries \cup {Nothing}]
    /\ rdrc \in [RejectKeys -> 0..(MaxTime + RDRCTimeout) \cup {Nothing}]
    /\ saveRDRC \subseteq RejectKeys
    /\ saving \in [RejectKeys -> 0..MaxSaving]
    /\ saved \in [RejectKeys -> 0..MaxSaving]
    /\ \A k \in RejectKeys : saving[k] + saved[k] <= MaxSaving
    /\ blame \in [RejectKeys -> SUBSET Filters]
    /\ now \in 0..MaxTime

NoResult == [kind |-> "none", server |-> NoTransport, answer |-> Nothing, ttl |-> 0]
Failed(kind) == [NoResult EXCEPT !.kind = kind]

Init ==
    /\ pc = [q \in Queries |-> "idle"]
    /\ call = [q \in Queries |-> Nothing]
    /\ parent = [q \in Queries |-> Nobody]
    /\ result = [q \in Queries |-> NoResult]
    /\ cond = [q \in Queries |-> Nobody]
    /\ cacheLock = [x \in Questions |-> Nobody]
    /\ cache = [k \in Questions \X CacheTransports |-> Nothing]
    /\ rdrc = [k \in RejectKeys |-> Nothing]
    /\ saveRDRC = {}
    /\ saving = [k \in RejectKeys |-> 0]
    /\ saved = [k \in RejectKeys |-> 0]
    /\ blame = [k \in RejectKeys |-> {}]
    /\ now = 0

Goto(q, place) == pc' = [pc EXCEPT ![q] = place]

Finish(q, r) ==
    /\ Goto(q, "return")
    /\ result' = [result EXCEPT ![q] = r]
    /\ UNCHANGED <<call, parent>>

-----------------------------------------------------------------------------
(* Calls.                                                                  *)

Begin(q, c, p) ==
    /\ call' = [call EXCEPT ![q] = c]
    /\ parent' = [parent EXCEPT ![q] = p]

FirstStep(c) == IF c.lookup /\ ~c.disableCache THEN "peek" ELSE "exchange"

\* A rule of the configuration sends a question to a server.
Exchange(q, c) ==
    /\ pc[q] = "idle"
    /\ Goto(q, FirstStep(c))
    /\ Begin(q, c, Nobody)
    /\ UNCHANGED <<result, cond, cacheLock, cache, rdrcVars, now>>

\* The record types the strategy excludes are answered without asking.
StrategyRejected(q) ==
    /\ pc[q] = "exchange"
    /\ Finish(q, Failed("empty"))
    /\ UNCHANGED <<cond, cacheLock, cache, rdrcVars, now>>

\* Mutant: one lock for all questions.
OneLock(q) == CHOOSE x \in Questions : TRUE

\* cacheLock and transportCacheLock are both keyed by the question alone.
LockKey(q) == call[q].question

Uncached(q) ==
    /\ pc[q] = "exchange"
    /\ call[q].disableCache
    /\ Goto(q, "loopback")
    /\ UNCHANGED <<call, parent, result, cond, cacheLock, cache, rdrcVars, now>>

\* LoadOrStore found no channel.
TakeLock(q) ==
    /\ pc[q] = "exchange"
    /\ ~call[q].disableCache
    /\ cacheLock[LockKey(q)] = Nobody
    /\ cacheLock' = [cacheLock EXCEPT ![LockKey(q)] = q]
    /\ Goto(q, "load")
    /\ UNCHANGED <<call, parent, result, cond, cache, rdrcVars, now>>

\* LoadOrStore found the channel of the query that has the lock.
Wait(q) ==
    /\ pc[q] = "exchange"
    /\ ~call[q].disableCache
    /\ cacheLock[LockKey(q)] # Nobody
    /\ cond' = [cond EXCEPT ![q] = cacheLock[LockKey(q)]]
    /\ Goto(q, "wait")
    /\ UNCHANGED <<call, parent, result, cacheLock, cache, rdrcVars, now>>

\* The channel is closed; the query goes on without taking the lock.
Wake(q) ==
    /\ pc[q] = "wait"
    /\ cond[q] = Nobody
    /\ Goto(q, "load")
    /\ UNCHANGED <<call, parent, result, cond, cacheLock, cache, rdrcVars, now>>

\* The context of a waiting query ends.
Cancel(q) ==
    /\ pc[q] = "wait"
    /\ Finish(q, Failed("error"))
    /\ cond' = [cond EXCEPT ![q] = Nobody]
    /\ UNCHANGED <<cacheLock, cache, rdrcVars, now>>

-----------------------------------------------------------------------------
(* The cache.                                                              *)

CacheKey(q) ==
    <<call[q].question, IF IndependentCache THEN call[q].transport ELSE NoTransport>>

Expired(e) == ~DisableExpire /\ now > e.expireAt

\* A record of a cached response loses the time since it was stored: both
\* differences are unsigned.
NowTTL(e) ==
    LET left == IF e.expireAt < now THEN 0 ELSE e.expireAt - now
        duration == (e.ttl - left) % TTLModulus
    IN IF DisableExpire THEN e.ttl ELSE (e.ttl - duration) % TTLModulus

\* loadResponse: questionCache runs it before Exchange and without the lock.
Load(q) ==
    LET e == cache[CacheKey(q)]
        peeking == pc[q] = "peek"
    IN /\ pc[q] \in {"peek", "load"}
       /\ \/ /\ e = Nothing
             /\ Goto(q, IF peeking THEN "exchange" ELSE "loopback")
             /\ UNCHANGED <<call, parent, result>>
          \/ /\ e # Nothing /\ Expired(e)
             /\ Goto(q, IF peeking THEN "peekEvict" ELSE "evict")
             /\ UNCHANGED <<call, parent, result>>
          \/ /\ e # Nothing /\ ~Expired(e)
             /\ Finish(q, [kind |-> "answer", server |-> e.server,
                           answer |-> e.answer, ttl |-> NowTTL(e)])
       /\ UNCHANGED <<cond, cacheLock, cache, rdrcVars, now>>

\* The expired entry is removed; by now it may be another one.
Evict(q) ==
    /\ pc[q] \in {"peekEvict", "evict"}
    /\ cache' = [cache EXCEPT ![CacheKey(q)] = Nothing]
    /\ Goto(q, IF pc[q] = "peekEvict" THEN "exchange" ELSE "loopback")
    /\ UNCHANGED <<call, parent, result, cond, cacheLock, rdrcVars, now>>

\* Mutant: the last to end decides.
LongestTTL(T) == IF T = {} THEN 0 ELSE Max(T)

\* The TTL of a whole response, which all its records get: the shortest of
\* the records' own that are not 0.
TimeToLive(T) == IF T = {} THEN 0 ELSE Min(T)

\* storeCache.
StoreCache(q, a, T) ==
    LET ttl == TimeToLive(T)
    IN IF call[q].disableCache \/ ttl = 0 THEN cache
       ELSE [cache EXCEPT ![CacheKey(q)] =
                [server |-> call[q].transport, answer |-> a, ttl |-> ttl,
                 expireAt |-> now + ttl, given |-> T, at |-> now]]

ClearCache ==
    /\ cache' = [k \in Questions \X CacheTransports |-> Nothing]
    /\ UNCHANGED <<queryVars, cacheLock, rdrcVars, now>>

\* The LRU cache drops an entry to make room for another.
DropEntry(k) ==
    /\ cache[k] # Nothing
    /\ cache' = [cache EXCEPT ![k] = Nothing]
    /\ UNCHANGED <<queryVars, cacheLock, rdrcVars, now>>

-----------------------------------------------------------------------------
(* Loopback and rejected answers.                                          *)

\* A server that would have to ask itself for its own address.
CheckLoopback(q) ==
    /\ pc[q] = "loopback"
    /\ IF call[q].context = call[q].transport
       THEN Finish(q, Failed("loopback"))
       ELSE Goto(q, "loadRDRC") /\ UNCHANGED <<call, parent, result>>
    /\ UNCHANGED <<cond, cacheLock, cache, rdrcVars, now>>

\* Mutant: the transport is left out of the key.
RejectKeyOfQuestion(q) == <<CHOOSE t \in Transports : TRUE, call[q].question>>

RejectKey(q) == <<call[q].transport, call[q].question>>

ChecksRDRC(q) == ~call[q].disableCache /\ call[q].checker # NoFilter /\ StoreRDRC

\* LoadRDRC: first the rejections being saved, then the file.
LoadRDRC(q) ==
    LET k == RejectKey(q)
        known == ChecksRDRC(q) /\ k \notin saveRDRC /\ rdrc[k] # Nothing
    IN /\ pc[q] = "loadRDRC"
       /\ CASE ChecksRDRC(q) /\ k \in saveRDRC -> Finish(q, Failed("rejectedCached"))
            [] known /\ now <= rdrc[k] -> Finish(q, Failed("rejectedCached"))
            [] known /\ now > rdrc[k] -> Goto(q, "deleteRDRC") /\ UNCHANGED <<call, parent, result>>
            [] OTHER -> Goto(q, "ask") /\ UNCHANGED <<call, parent, result>>
       /\ UNCHANGED <<cond, cacheLock, cache, rdrcVars, now>>

\* The expired rejection is deleted in a transaction of its own, whatever it
\* is by now.
DeleteRDRC(q) ==
    /\ pc[q] = "deleteRDRC"
    /\ rdrc' = [rdrc EXCEPT ![RejectKey(q)] = Nothing]
    /\ Goto(q, "ask")
    /\ UNCHANGED <<call, parent, result, cond, cacheLock, cache, saveRDRC, saving, saved, blame, now>>

\* The goroutine of SaveRDRCAsync writes, or fails to, and then leaves.
SaveRDRC(k) ==
    /\ saving[k] > 0
    /\ saving' = [saving EXCEPT ![k] = @ - 1]
    /\ saved' = [saved EXCEPT ![k] = @ + 1]
    /\ rdrc' \in {rdrc, [rdrc EXCEPT ![k] = now + RDRCTimeout]}
    /\ UNCHANGED <<queryVars, cacheLock, cache, saveRDRC, blame, now>>

LeaveSaveRDRC(k) ==
    /\ saved[k] > 0
    /\ saved' = [saved EXCEPT ![k] = @ - 1]
    /\ saveRDRC' = saveRDRC \ {k}
    /\ UNCHANGED <<queryVars, cacheLock, cache, rdrc, saving, blame, now>>

SaveRDRCAsync(q) ==
    LET k == RejectKey(q)
    IN /\ saving[k] + saved[k] < MaxSaving
       /\ saving' = [saving EXCEPT ![k] = @ + 1]
       /\ saveRDRC' = saveRDRC \cup {k}
       /\ blame' = [blame EXCEPT ![k] = @ \cup {call[q].checker}]
       /\ UNCHANGED <<rdrc, saved>>

-----------------------------------------------------------------------------
(* The exchange with the server.                                           *)

\* The query a transport makes for the address of its server: it has the
\* transport's tag in its context, no rule and so no filter.
ServerLookup(t) ==
    [question |-> ServerName[t], transport |-> Resolver[t], context |-> t,
     checker |-> NoFilter, disableCache |-> t \in UncachedResolvers, lookup |-> TRUE]

\* The transport has no connection and its server is named by a domain.
Dial(q, c) ==
    LET t == call[q].transport
    IN /\ pc[q] = "ask" /\ pc[c] = "idle"
       /\ Resolver[t] # NoTransport
       /\ pc' = [pc EXCEPT ![q] = "dialing", ![c] = FirstStep(ServerLookup(t))]
       /\ Begin(c, ServerLookup(t), q)
       /\ UNCHANGED <<result, cond, cacheLock, cache, rdrcVars, now>>

\* A slot that is free for another call.
Clear(f, S, value) == [q \in Queries |-> IF q \in S THEN value ELSE f[q]]

\* The lookup returned: the dial goes on or fails.
Dialed(q, c) ==
    /\ pc[q] = "dialing" /\ pc[c] = "done" /\ parent[c] = q
    /\ LET found == result[c].kind = "answer"
       IN /\ pc' = [pc EXCEPT ![q] = IF found THEN "connected" ELSE "return", ![c] = "idle"]
          /\ result' = [result EXCEPT ![q] = IF found THEN NoResult ELSE Failed("error"),
                                      ![c] = NoResult]
    /\ call' = Clear(call, {c}, Nothing)
    /\ parent' = Clear(parent, {c}, Nobody)
    /\ UNCHANGED <<cond, cacheLock, cache, rdrcVars, now>>

Asking == {"ask", "connected"}

\* Exchange of the transport fails, or its deadline (c.timeout) passes.
ExchangeFails(q) ==
    /\ pc[q] \in Asking \cup {"dialing"}
    /\ Finish(q, Failed("error"))
    /\ UNCHANGED <<cond, cacheLock, cache, rdrcVars, now>>

\* A response whose code is neither success nor NXDOMAIN is not cached, and
\* rejected when there is a filter.
Refused(q) ==
    /\ pc[q] \in Asking
    /\ Finish(q, Failed(IF call[q].checker = NoFilter THEN "refused" ELSE "rejected"))
    /\ UNCHANGED <<cond, cacheLock, cache, rdrcVars, now>>

\* Mutant: the answer is not checked.
AcceptsAny(f, a) == TRUE

Passes(f, a) == f = NoFilter \/ <<f, a>> \in Accepts

\* Success or NXDOMAIN, rejected by the filter.
Rejected(q, a) ==
    /\ pc[q] \in Asking
    /\ ~Passes(call[q].checker, a)
    /\ Finish(q, Failed("rejected"))
    /\ IF ~call[q].disableCache /\ StoreRDRC
       THEN SaveRDRCAsync(q)
       ELSE UNCHANGED rdrcVars
    /\ UNCHANGED <<cond, cacheLock, cache, now>>

\* Success or NXDOMAIN, returned and cached.  T has the TTLs of the records
\* other than 0, or the one of the SOA record or of rewrite_ttl in their place.
Answered(q, a, T) ==
    /\ pc[q] \in Asking
    /\ Passes(call[q].checker, a)
    /\ cache' = StoreCache(q, a, T)
    /\ Finish(q, [kind |-> "answer", server |-> call[q].transport, answer |-> a,
                  ttl |-> TimeToLive(T)])
    /\ UNCHANGED <<cond, cacheLock, rdrcVars, now>>

\* Mutant: the channel is not closed.
LeaveChannel(q) == cond

\* close(cond)
CloseChannel(q) == [w \in Queries |-> IF cond[w] = q THEN Nobody ELSE cond[w]]

\* Exchange returns: its deferred function deletes the lock and closes the
\* channel.  A lookup for a dial keeps its result until the dial reads it;
\* one whose dial is over has nobody to return to.
Return(q) ==
    LET gone == {c \in Queries : parent[c] = q /\ pc[c] = "done"}
        free == gone \cup {p \in {q} : parent[p] = Nobody}
    IN /\ pc[q] = "return"
       /\ pc' = [p \in Queries |-> CASE p \in free -> "idle" [] p = q /\ p \notin free -> "done" [] OTHER -> pc[p]]
       /\ call' = Clear(call, free, Nothing)
       /\ parent' = [p \in Queries |-> IF parent[p] = q THEN Nobody ELSE parent[p]]
       /\ result' = Clear(result, free, NoResult)
       /\ cacheLock' = [x \in Questions |-> IF cacheLock[x] = q THEN Nobody ELSE cacheLock[x]]
       /\ cond' = CloseChannel(q)
       /\ UNCHANGED <<cache, rdrcVars, now>>

Tick ==
    /\ now < MaxTime
    /\ now' = now + 1
    /\ UNCHANGED <<queryVars, cacheLock, cache, rdrcVars>>

-----------------------------------------------------------------------------
\* The steps a query takes without help from the network or its caller.
QueryStep(q) ==
    \/ Uncached(q) \/ TakeLock(q) \/ Wait(q) \/ Wake(q) \/ Load(q) \/ Evict(q)
    \/ CheckLoopback(q) \/ LoadRDRC(q) \/ DeleteRDRC(q)
    \/ \E c \in Queries : Dialed(q, c)
    \/ Return(q)

NetworkStep(q) ==
    \/ ExchangeFails(q) \/ Refused(q)
    \/ \E a \in Answers : Rejected(q, a) \/ \E T \in Lifetimes : Answered(q, a, T)

Next ==
    \/ \E q \in Queries :
        \/ \E c \in Inputs : Exchange(q, c)
        \/ StrategyRejected(q) \/ Cancel(q) \/ QueryStep(q) \/ NetworkStep(q)
        \/ \E c \in Queries : Dial(q, c)
    \/ \E k \in RejectKeys : SaveRDRC(k) \/ LeaveSaveRDRC(k)
    \/ \E k \in Questions \X CacheTransports : DropEntry(k)
    \/ ClearCache \/ Tick

Spec == Init /\ [][Next]_vars

\* A query that reads from a server without a deadline.
Unbounded(q) == pc[q] \in Asking \cup {"dialing"} /\ call[q].transport \in Deadlineless

\* Goroutines that can run do.  The deadline of an exchange ends it, except
\* where the transport ignores it; it also ends the wait of a lookup that is
\* part of a dial.  Nothing is assumed of servers or of other callers.
FairSpec ==
    /\ Spec
    /\ \A q \in Queries :
        /\ WF_vars(QueryStep(q))
        /\ WF_vars(~Unbounded(q) /\ NetworkStep(q))
        /\ WF_vars(parent[q] # Nobody /\ Cancel(q))

-----------------------------------------------------------------------------
(* Properties.                                                             *)

\* The lock of a question is held by a query for that question that is still
\* inside Exchange, and whoever waits, waits for the query that holds the
\* lock now: no channel is left open behind a waiter (client.go:143-172).
LockInv ==
    /\ \A x \in Questions :
        cacheLock[x] # Nobody =>
            /\ pc[cacheLock[x]] \in Inside
            /\ call[cacheLock[x]].question = x
    /\ \A q \in Queries :
        /\ pc[q] # "idle" => call[q] \in Calls
        /\ cond[q] # Nobody => pc[q] = "wait" /\ cacheLock[call[q].question] = cond[q]

\* An entry expires with the first record of its response, counted from when
\* it was stored, and under independent caches it is the answer of the server
\* it is kept for.
CacheInv ==
    \A k \in DOMAIN cache :
        cache[k] # Nothing =>
            /\ cache[k].at <= now
            /\ cache[k].expireAt = cache[k].at + cache[k].ttl
            /\ \A t \in cache[k].given : cache[k].ttl <= t
            /\ IndependentCache => cache[k].server = k[2]

\* Types, locks and cache entries: an inductive invariant.
ClientInv == TypeOK /\ LockInv /\ CacheInv

\* An answer a rule with an address filter returns passes the filter.
FilterHonoured ==
    \A q \in Queries :
        result[q].kind = "answer" /\ call[q].checker # NoFilter =>
            <<call[q].checker, result[q].answer>> \in Accepts

\* With independent caches a query is answered by the server it asked.
ServerIsolation ==
    IndependentCache =>
        \A q \in Queries : result[q].kind = "answer" => result[q].server = call[q].transport

\* No record of a cached response is shown to live beyond its own end: the
\* response was stored with several TTLs, is read any time later, and the TTL
\* the reader gets is a difference of unsigned numbers (client.go:281-296,
\* :486-513).
CacheHonoursTTL ==
    [][\A q \in Queries :
        LET e == cache[CacheKey(q)]
        IN pc[q] \in {"peek", "load"} /\ pc'[q] = "return" /\ ~DisableExpire =>
            \A t \in e.given : now + result'[q].ttl <= e.at + t]_vars

\* A query is turned away for a cached rejection only when its own filter
\* rejected an answer of that server to that question.
RejectionIsOwn ==
    \A q \in Queries :
        result[q].kind = "rejectedCached" =>
            call[q].checker \in blame[<<call[q].transport, call[q].question>>]

\* A query waits for the query that has the lock, a dial for its lookup.
WaitsFor(q, p) == cond[q] = p \/ (pc[q] = "dialing" /\ parent[p] = q /\ pc[p] # "done")

\* Everyone in S waits for someone in S and is waited for by someone in S.
WaitingCircle(S) ==
    S # {} /\ \A q \in S : (\E p \in S : WaitsFor(q, p)) /\ (\E p \in S : WaitsFor(p, q))

\* The names of the servers that queries of S are dialing.
ServerNames(S) == {ServerName[call[q].transport] : q \in {p \in S : pc[p] = "dialing"}}

\* Only the names of the servers being dialed can make queries wait for each
\* other in a circle, which their deadlines then end: a query for any other
\* name, whoever asks for whatever at the same time, is in no circle
\* (client.go:143-163, the loopback check at :181 comes after the wait).
CirclesAskServerNames ==
    \A S \in SUBSET Queries :
        WaitingCircle(S) => \A q \in S : call[q].question \in ServerNames(S)

\* Every query returns; only a query for the same question whose transport
\* ignores its deadline can hold it up.
AllReturn ==
    \A q \in Queries :
        pc[q] # "idle" ~>
            \/ pc[q] = "idle"
            \/ \E p \in Queries : Unbounded(p) /\ call[p].question = call[q].question
=============================================================================
