-------------------------- MODULE DNSClientProofs --------------------------
(***************************************************************************)
(* Proofs about the DNS client, for any queries, questions, transports,    *)
(* filters and bounds.                                                     *)
(***************************************************************************)
EXTENDS DNSClient, WellFoundedInduction, TLAPS

USE DEF Goto, Finish, Begin, queryVars, rdrcVars

\* A set of natural numbers has a least element.
LEMMA LeastElement ==
    ASSUME NEW S, S \subseteq Nat, S # {}
    PROVE  \E least \in S : \A m \in S : least <= m
  <1> DEFINE R == OpToRel(<, Nat)
  <1>1. \A x, y \in Nat : y < x => <<y, x>> \in R BY DEF OpToRel
  <1>2. IsWellFoundedOn(R, Nat) BY NatLessThanWellFounded
  <1> HIDE DEF R
  <1>3. PICK x \in S : \A y \in S : ~(<<y, x>> \in R) BY <1>2, WFMin
  <1>4. \A y \in S : ~(y < x) BY <1>1, <1>3
  <1>. QED BY <1>3, <1>4

\* The TTL of a response is the least of its records'; it has none without them.
LEMMA TimeToLiveIsLeast ==
    ASSUME NEW T \in Lifetimes
    PROVE  /\ T \in SUBSET (1..MaxTTL)
           /\ TimeToLive(T) \in 0..MaxTTL
           /\ TimeToLive(T) # 0 => TimeToLive(T) \in 1..MaxTTL /\ \A t \in T : TimeToLive(T) <= t
  <1>0. T \in SUBSET (1..MaxTTL) BY ClientAssumption
  <1>1. CASE T = {} BY <1>0, <1>1, ClientAssumption DEF TimeToLive
  <1>2. CASE T # {}
    <2>1. T \subseteq Nat BY <1>0
    <2>2. PICK least \in T : \A m \in T : least <= m BY <1>2, <2>1, LeastElement
    <2>3. Min(T) \in T /\ \A m \in T : Min(T) <= m BY <2>2 DEF Min
    <2>4. TimeToLive(T) = Min(T) BY <1>2 DEF TimeToLive
    <2> HIDE DEF Min
    <2>5. Min(T) \in 1..MaxTTL BY <1>0, <2>3
    <2>6. 1..MaxTTL \subseteq 0..MaxTTL OBVIOUS
    <2>. QED BY <1>0, <2>3, <2>4, <2>5, <2>6
  <1>. QED BY <1>1, <1>2

\* An unsigned number below the modulus is itself.
LEMMA NoWrap == ASSUME NEW n \in 0..MaxTTL PROVE n % TTLModulus = n
  BY ClientAssumption

\* What is stored has a TTL, and ends by it.
LEMMA StoreCacheIs ==
    ASSUME NEW q, NEW a, NEW T
    PROVE  \/ StoreCache(q, a, T) = cache
           \/ /\ TimeToLive(T) # 0
              /\ StoreCache(q, a, T) =
                    [cache EXCEPT ![CacheKey(q)] =
                        [server |-> call[q].transport, answer |-> a, ttl |-> TimeToLive(T),
                         expireAt |-> now + TimeToLive(T), given |-> T, at |-> now]]
  BY Zenon DEF StoreCache

\* Results without an answer are results.
LEMMA FailedTyped ==
    /\ NoResult \in Results
    /\ \A kind \in Kinds : Failed(kind) \in Results /\ Failed(kind).kind = kind
  BY ClientAssumption DEF Failed, NoResult, Results, Kinds

\* The client starts with empty caches and no lock taken.
LEMMA InitClientInv == Init => ClientInv
  <1> SUFFICES ASSUME Init PROVE ClientInv OBVIOUS
  <1> USE ClientAssumption DEF Init
  <1>2. TypeOK BY FailedTyped DEF TypeOK, Places, Inside
  <1>3. LockInv BY DEF LockInv
  <1>4. CacheInv BY DEF CacheInv
  <1>. QED BY <1>2, <1>3, <1>4 DEF ClientInv

\* The call a transport makes for the address of its server is well formed.
LEMMA LookupTyped ==
    ASSUME NEW t \in Transports, Resolver[t] # NoTransport
    PROVE ServerLookup(t) \in Calls
  BY ClientAssumption DEF ServerLookup, Calls

\* What the cache gives while it is valid is a result with the time left.
LEMMA CachedTyped ==
    ASSUME ClientInv, NEW q \in Queries, call[q] \in Calls,
           cache[CacheKey(q)] # Nothing, ~Expired(cache[CacheKey(q)])
    PROVE  LET e == cache[CacheKey(q)]
           IN /\ e \in Entries
              /\ [kind |-> "answer", server |-> e.server, answer |-> e.answer, ttl |-> NowTTL(e)] \in Results
              /\ ~DisableExpire => \A t \in e.given : now + NowTTL(e) <= e.at + t
  <1> DEFINE e == cache[CacheKey(q)]
  <1>1. CacheKey(q) \in Questions \X CacheTransports
    BY DEF CacheKey, Calls, CacheTransports
  <1>2. e \in Entries BY <1>1 DEF ClientInv, TypeOK
  <1>3. e.at <= now /\ e.expireAt = e.at + e.ttl /\ \A t \in e.given : e.ttl <= t
    BY <1>1 DEF ClientInv, CacheInv, TypeOK
  <1>4. /\ e.ttl \in Nat /\ e.ttl <= MaxTTL /\ e.at \in Nat /\ e.expireAt \in Nat
        /\ now \in Nat /\ MaxTTL \in Nat
        /\ e.server \in Transports /\ e.answer \in Answers
        /\ e.given \subseteq Nat
    BY <1>2, ClientAssumption DEF Entries, ClientInv, TypeOK
  <1> HIDE DEF e
  <1>5. /\ NowTTL(e) \in 0..MaxTTL
        /\ ~DisableExpire => now + NowTTL(e) = e.at + e.ttl
    <2>1. CASE DisableExpire BY <1>4, <2>1 DEF NowTTL
    <2>2. CASE ~DisableExpire
      <3>1. e.expireAt >= now BY <1>4, <2>2 DEF Expired, e
      <3>2. e.ttl - (e.expireAt - now) \in 0..MaxTTL /\ e.expireAt - now \in 0..MaxTTL
        BY <1>3, <1>4, <3>1
      <3>3. (e.ttl - (e.expireAt - now)) % TTLModulus = e.ttl - (e.expireAt - now) BY <3>2, NoWrap
      <3>4. (e.expireAt - now) % TTLModulus = e.expireAt - now BY <3>2, NoWrap
      <3>5. e.ttl - (e.ttl - (e.expireAt - now)) = e.expireAt - now BY <1>4
      <3>6. NowTTL(e) = e.expireAt - now
        BY <1>4, <2>2, <3>1, <3>3, <3>4, <3>5 DEF NowTTL
      <3>. QED BY <1>3, <1>4, <3>2, <3>6
    <2>. QED BY <2>1, <2>2
  <1>6. ~DisableExpire => \A t \in e.given : now + NowTTL(e) <= e.at + t
    BY <1>3, <1>4, <1>5
  <1>7. [kind |-> "answer", server |-> e.server, answer |-> e.answer, ttl |-> NowTTL(e)] \in Results
    BY <1>4, <1>5 DEF Results, Kinds
  <1>. QED BY <1>2, <1>6, <1>7 DEF e

\* Every action keeps the types; the calls of queries that run stay calls.
LEMMA TypePreserved == ClientInv /\ [Next]_vars => TypeOK'
  <1> SUFFICES ASSUME ClientInv, [Next]_vars PROVE TypeOK' OBVIOUS
  <1> USE ClientAssumption, FailedTyped
  <1>t. TypeOK /\ LockInv BY DEF ClientInv
  <1>c. \A q \in Queries : pc[q] # "idle" => call[q] \in Calls BY <1>t DEF LockInv
  <1>u. CASE UNCHANGED vars BY <1>u, <1>t DEF TypeOK, vars
  <1>1. ASSUME NEW q \in Queries, NEW c \in Inputs, Exchange(q, c) PROVE TypeOK'
    BY <1>1, <1>t DEF Exchange, TypeOK, FirstStep, Places
  <1>2. ASSUME NEW q \in Queries,
               StrategyRejected(q) \/ Uncached(q) \/ TakeLock(q) \/ Wait(q) \/ Wake(q) \/ Cancel(q)
        PROVE  TypeOK'
    <2>0. call[q] \in Calls
      BY <1>2, <1>c DEF StrategyRejected, Uncached, TakeLock, Wait, Wake, Cancel
    <2>1. LockKey(q) \in Questions BY <2>0 DEF LockKey, Calls
    <2>4. Failed("empty") \in Results /\ Failed("error") \in Results BY DEF Kinds
    <2>5. CASE StrategyRejected(q)
      BY <2>4, <2>5, <1>t, SMTT(30) DEF StrategyRejected, TypeOK, Places, Inside
    <2>6. CASE Cancel(q)
      BY <2>4, <2>6, <1>t, SMTT(30) DEF Cancel, TypeOK, Places, Inside
    <2>3. CASE Uncached(q) \/ TakeLock(q) \/ Wait(q) \/ Wake(q)
      BY <2>3, <2>1, <1>t DEF Uncached, TakeLock, Wait, Wake, TypeOK, Places, Inside
    <2>. QED BY <1>2, <2>3, <2>5, <2>6
  <1>3. ASSUME NEW q \in Queries, Load(q) PROVE TypeOK'
    <2>0. call[q] \in Calls BY <1>3, <1>c DEF Load
    <2>1. CASE UNCHANGED <<call, parent, result>>
      BY <2>1, <1>3, <1>t DEF Load, TypeOK, Places, Inside
    <2>2. CASE cache[CacheKey(q)] # Nothing /\ ~Expired(cache[CacheKey(q)])
      <3> DEFINE e == cache[CacheKey(q)]
                 r == [kind |-> "answer", server |-> e.server, answer |-> e.answer, ttl |-> NowTTL(e)]
      <3>1. r \in Results BY <2>0, <2>2, CachedTyped
      <3>2. result' = [result EXCEPT ![q] = r] /\ pc' = [pc EXCEPT ![q] = "return"]
        BY <2>2, <1>3 DEF Load
      <3>3. UNCHANGED <<call, parent, cond, cacheLock, cache, rdrcVars, now>>
        BY <2>2, <1>3 DEF Load
      <3> HIDE DEF r
      <3>. QED BY <3>1, <3>2, <3>3, <1>t DEF TypeOK, Places, Inside
    <2>. QED BY <1>3, <2>1, <2>2 DEF Load
  <1>4. ASSUME NEW q \in Queries, Evict(q) PROVE TypeOK'
    <2>0. call[q] \in Calls BY <1>4, <1>c DEF Evict
    <2>1. CacheKey(q) \in Questions \X CacheTransports
      BY <2>0 DEF CacheKey, Calls, CacheTransports
    <2>. QED BY <2>1, <1>4, <1>t DEF Evict, TypeOK, Places, Inside
  <1>5. ASSUME NEW q \in Queries, CheckLoopback(q) \/ LoadRDRC(q) \/ DeleteRDRC(q)
        PROVE  TypeOK'
    <2>0. call[q] \in Calls BY <1>5, <1>c DEF CheckLoopback, LoadRDRC, DeleteRDRC
    <2>1. RejectKey(q) \in RejectKeys BY <2>0 DEF RejectKey, RejectKeys, Calls
    <2>2. CASE CheckLoopback(q)
      BY <2>2, <1>t DEF CheckLoopback, TypeOK, Kinds, Places, Inside
    <2>3. CASE LoadRDRC(q)
      BY <2>3, <1>t DEF LoadRDRC, TypeOK, Kinds, Places, Inside
    <2>4. CASE DeleteRDRC(q)
      BY <2>4, <2>1, <1>t DEF DeleteRDRC, TypeOK, Places, Inside
    <2>. QED BY <1>5, <2>2, <2>3, <2>4
  <1>6. ASSUME NEW q \in Queries, NEW c \in Queries, Dial(q, c) PROVE TypeOK'
    <2>0. call[q] \in Calls BY <1>6, <1>c DEF Dial
    <2>1. ServerLookup(call[q].transport) \in Calls
      BY <2>0, <1>6, LookupTyped DEF Dial, Calls
    <2>. QED BY <2>1, <1>6, <1>t DEF Dial, TypeOK, FirstStep, Places, Inside
  <1>7. ASSUME NEW q \in Queries, NEW c \in Queries, Dialed(q, c) PROVE TypeOK'
    BY <1>7, <1>t DEF Dialed, Clear, TypeOK, Kinds, Places, Inside
  <1>8. ASSUME NEW q \in Queries, ExchangeFails(q) \/ Refused(q) PROVE TypeOK'
    <2>1. CASE ExchangeFails(q) BY <2>1, <1>t, SMTT(30) DEF ExchangeFails, TypeOK, Kinds, Places, Inside
    <2>2. CASE Refused(q) BY <2>2, <1>t, SMTT(30) DEF Refused, TypeOK, Kinds, Places, Inside
    <2>. QED BY <1>8, <2>1, <2>2
  <1>9. ASSUME NEW q \in Queries, NEW a \in Answers, Rejected(q, a) PROVE TypeOK'
    <2>0. call[q] \in Calls BY <1>9, <1>c DEF Rejected, Asking
    <2>1. RejectKey(q) \in RejectKeys BY <2>0 DEF RejectKey, RejectKeys, Calls
    <2>2. call[q].checker \in Filters
      BY <2>0, <1>9 DEF Rejected, Passes, Calls
    <2>3. CASE UNCHANGED rdrcVars
      BY <2>3, <1>9, <1>t DEF Rejected, TypeOK, Kinds, Places, Inside
    <2>4. CASE SaveRDRCAsync(q)
      BY <2>4, <2>1, <2>2, <1>9, <1>t DEF Rejected, SaveRDRCAsync, TypeOK, Kinds, Places, Inside
    <2>. QED BY <1>9, <2>3, <2>4 DEF Rejected
  <1>10. ASSUME NEW q \in Queries, NEW a \in Answers, NEW T \in Lifetimes, Answered(q, a, T)
         PROVE  TypeOK'
    <2>0. call[q] \in Calls BY <1>10, <1>c DEF Answered, Asking
    <2>1. call[q].transport \in Transports BY <2>0 DEF Calls
    <2> DEFINE ttl == TimeToLive(T)
               e == [server |-> call[q].transport, answer |-> a, ttl |-> ttl,
                  expireAt |-> now + ttl, given |-> T, at |-> now]
    <2>a. ttl \in 0..MaxTTL /\ (ttl # 0 => ttl \in 1..MaxTTL) BY TimeToLiveIsLeast
    <2>b. cache' = cache \/ (ttl # 0 /\ cache' = [cache EXCEPT ![CacheKey(q)] = e])
      <3>1. cache' = StoreCache(q, a, T) BY <1>10 DEF Answered
      <3>. QED BY ONLY <3>1, StoreCacheIs, Zenon DEF ttl, e
    <2>c. /\ Finish(q, [kind |-> "answer", server |-> call[q].transport, answer |-> a, ttl |-> ttl])
          /\ UNCHANGED <<cond, cacheLock, rdrcVars, now>>
      BY <1>10 DEF Answered
    <2> HIDE DEF ttl
    <2>2. [kind |-> "answer", server |-> call[q].transport, answer |-> a, ttl |-> ttl] \in Results
      BY <2>1, <2>a DEF Results, Kinds
    <2>3. ttl # 0 => e \in Entries
      BY <2>1, <2>a, <1>t DEF Entries, TypeOK
    <2>4. CacheKey(q) \in Questions \X CacheTransports
      BY <2>0 DEF CacheKey, Calls, CacheTransports
    <2> HIDE DEF e
    <2>5. cache' \in [Questions \X CacheTransports -> Entries \cup {Nothing}]
      BY <2>b, <2>3, <2>4, <1>t DEF TypeOK
    <2>. QED BY <2>2, <2>5, <2>c, <1>t DEF TypeOK, Places, Inside
  <1>11. ASSUME NEW q \in Queries, Return(q) PROVE TypeOK'
    BY <1>11, <1>t DEF Return, Clear, CloseChannel, TypeOK, Places, Inside
  <1>12. ASSUME NEW k \in RejectKeys, SaveRDRC(k) \/ LeaveSaveRDRC(k) PROVE TypeOK'
    <2>1. CASE SaveRDRC(k) BY <2>1, <1>t, SMTT(30) DEF SaveRDRC, TypeOK
    <2>2. CASE LeaveSaveRDRC(k) BY <2>2, <1>t, SMTT(30) DEF LeaveSaveRDRC, TypeOK
    <2>. QED BY <1>12, <2>1, <2>2
  <1>13. ASSUME NEW k \in Questions \X CacheTransports, DropEntry(k) PROVE TypeOK'
    BY <1>13, <1>t, SMTT(30) DEF DropEntry, TypeOK
  <1>14. CASE ClearCache \/ Tick
    BY <1>14, <1>t DEF ClearCache, Tick, TypeOK
  <1>. QED
    BY <1>u, <1>1, <1>2, <1>3, <1>4, <1>5, <1>6, <1>7, <1>8, <1>9, <1>10, <1>11, <1>12, <1>13, <1>14
       DEF Next, QueryStep, NetworkStep

\* A query that takes a step within Exchange keeps the lock it may have.
LEMMA LockKept ==
    ASSUME ClientInv, NEW q \in Queries, pc[q] \in Inside, NEW place \in Inside,
           pc' = [pc EXCEPT ![q] = place],
           UNCHANGED <<call, cond, cacheLock>>
    PROVE  LockInv'
  BY DEF ClientInv, LockInv, TypeOK, Inside

\* Locks stay with queries that run, and waiters with the locks.
LEMMA LockPreserved == ClientInv /\ [Next]_vars => LockInv'
  <1> SUFFICES ASSUME ClientInv, [Next]_vars PROVE LockInv' OBVIOUS
  <1> USE ClientAssumption
  <1>t. TypeOK /\ LockInv BY DEF ClientInv
  <1>u. CASE UNCHANGED <<pc, call, cond, cacheLock>> BY <1>u, <1>t DEF LockInv
  <1>1. ASSUME NEW q \in Queries, NEW c \in Inputs, Exchange(q, c) PROVE LockInv'
    BY <1>1, <1>t DEF Exchange, LockInv, TypeOK, FirstStep, Inside
  <1>2. ASSUME NEW q \in Queries, StrategyRejected(q) \/ Uncached(q) \/ Wake(q) \/ Cancel(q)
        PROVE  LockInv'
    <2>1. CASE StrategyRejected(q) BY <2>1, <1>t DEF StrategyRejected, LockInv, TypeOK, Inside
    <2>2. CASE Uncached(q) BY <2>2, <1>t DEF Uncached, LockInv, TypeOK, Inside
    <2>3. CASE Wake(q) BY <2>3, <1>t DEF Wake, LockInv, TypeOK, Inside
    <2>4. CASE Cancel(q) BY <2>4, <1>t DEF Cancel, LockInv, TypeOK, Inside
    <2>. QED BY <1>2, <2>1, <2>2, <2>3, <2>4
  <1>3. ASSUME NEW q \in Queries, TakeLock(q) PROVE LockInv'
    <2>0. call[q] \in Calls /\ pc[q] = "exchange" BY <1>3, <1>t DEF TakeLock, LockInv
    <2>1. call[q].question \in Questions BY <2>0 DEF Calls
    <2>. QED BY <2>0, <2>1, <1>3, <1>t DEF TakeLock, LockKey, LockInv, TypeOK, Inside
  <1>4. ASSUME NEW q \in Queries, Wait(q) PROVE LockInv'
    <2>0. call[q] \in Calls /\ pc[q] = "exchange" BY <1>4, <1>t DEF Wait, LockInv
    <2>1. call[q].question \in Questions BY <2>0 DEF Calls
    <2>. QED BY <2>0, <2>1, <1>4, <1>t DEF Wait, LockKey, LockInv, TypeOK, Inside
  <1>5. ASSUME NEW q \in Queries, Load(q) PROVE LockInv'
    <2>1. CASE pc[q] = "load" 
      <3>1. \E place \in Inside : pc' = [pc EXCEPT ![q] = place]
        BY <2>1, <1>5 DEF Load, Inside
      <3>2. UNCHANGED <<call, cond, cacheLock>> BY <1>5 DEF Load
      <3>. QED BY <2>1, <3>1, <3>2, LockKept DEF Inside
    <2>2. CASE pc[q] = "peek"
      <3>1. \E place \in {"exchange", "peekEvict", "return"} : pc' = [pc EXCEPT ![q] = place]
        BY <2>2, <1>5 DEF Load
      <3>2. UNCHANGED <<call, cond, cacheLock>> BY <1>5 DEF Load
      <3>. QED BY <2>2, <3>1, <3>2, <1>t DEF LockInv, TypeOK, Inside
    <2>. QED BY <1>5, <2>1, <2>2 DEF Load
  <1>6. ASSUME NEW q \in Queries, Evict(q) PROVE LockInv'
    <2>1. CASE pc[q] = "evict" BY <2>1, <1>6, <1>t DEF Evict, LockInv, TypeOK, Inside
    <2>2. CASE pc[q] = "peekEvict" BY <2>2, <1>6, <1>t DEF Evict, LockInv, TypeOK, Inside
    <2>. QED BY <1>6, <2>1, <2>2 DEF Evict
  <1>7. ASSUME NEW q \in Queries,
               \/ CheckLoopback(q) \/ LoadRDRC(q) \/ DeleteRDRC(q) \/ ExchangeFails(q) \/ Refused(q)
               \/ \E a \in Answers : Rejected(q, a) \/ \E T \in Lifetimes : Answered(q, a, T)
        PROVE  LockInv'
    <2>1. pc[q] \in Inside
      BY <1>7 DEF CheckLoopback, LoadRDRC, DeleteRDRC, ExchangeFails, Refused, Rejected, Answered, Asking, Inside
    <2>2. \E place \in Inside : pc' = [pc EXCEPT ![q] = place]
      BY <1>7 DEF CheckLoopback, LoadRDRC, DeleteRDRC, ExchangeFails, Refused, Rejected, Answered, Inside
    <2>3. UNCHANGED <<call, cond, cacheLock>>
      BY <1>7 DEF CheckLoopback, LoadRDRC, DeleteRDRC, ExchangeFails, Refused, Rejected, Answered
    <2>. QED BY <2>1, <2>2, <2>3, LockKept
  <1>8. ASSUME NEW q \in Queries, NEW c \in Queries, Dial(q, c) PROVE LockInv'
    <2>0. call[q] \in Calls BY <1>8, <1>t DEF Dial, LockInv
    <2>1. ServerLookup(call[q].transport) \in Calls
      BY <2>0, <1>8, LookupTyped DEF Dial, Calls
    <2>. QED BY <2>1, <1>8, <1>t DEF Dial, LockInv, TypeOK, FirstStep, Inside
  <1>9. ASSUME NEW q \in Queries, NEW c \in Queries, Dialed(q, c) PROVE LockInv'
    BY <1>9, <1>t DEF Dialed, Clear, LockInv, TypeOK, Inside
  <1>10. ASSUME NEW q \in Queries, Return(q) PROVE LockInv'
    <2> DEFINE gone == {c \in Queries : parent[c] = q /\ pc[c] = "done"}
               free == gone \cup {p \in {q} : parent[p] = Nobody}
    <2>1. pc[q] = "return" BY <1>10 DEF Return
    <2>2. \A p \in Queries : /\ p \notin free \cup {q} => pc'[p] = pc[p] /\ call'[p] = call[p]
                             /\ p \notin free => call'[p] = call[p]
                             /\ p \in free => pc'[p] = "idle"
                             /\ cond'[p] = IF cond[p] = q THEN Nobody ELSE cond[p]
      BY <1>10, <1>t DEF Return, Clear, CloseChannel, TypeOK
    <2>3. \A x \in Questions : cacheLock'[x] = IF cacheLock[x] = q THEN Nobody ELSE cacheLock[x]
      BY <1>10 DEF Return
    <2>4. \A p \in free : p = q \/ pc[p] = "done" OBVIOUS
    <2> HIDE DEF gone, free
    <2>5. ASSUME NEW x \in Questions, cacheLock'[x] # Nobody
          PROVE  pc'[cacheLock'[x]] \in Inside /\ call'[cacheLock'[x]].question = x
      <3>1. cacheLock[x] # q /\ cacheLock'[x] = cacheLock[x] /\ cacheLock[x] \in Queries
        BY <2>5, <2>3, <1>t DEF TypeOK
      <3>2. pc[cacheLock[x]] \in Inside /\ call[cacheLock[x]].question = x
        BY <3>1, <1>t DEF LockInv
      <3>3. cacheLock[x] \notin free BY <3>1, <3>2, <2>4 DEF Inside
      <3>. QED BY <3>1, <3>2, <3>3, <2>2
    <2>6. ASSUME NEW p \in Queries
          PROVE  /\ pc'[p] # "idle" => call'[p] \in Calls
                 /\ cond'[p] # Nobody => pc'[p] = "wait" /\ cacheLock'[call'[p].question] = cond'[p]
      <3>1. pc'[p] # "idle" => call'[p] \in Calls
        BY <2>1, <2>2, <1>t DEF LockInv
      <3>2. ASSUME cond'[p] # Nobody
            PROVE  pc'[p] = "wait" /\ cacheLock'[call'[p].question] = cond'[p]
        <4>1. cond[p] # q /\ cond'[p] = cond[p] BY <3>2, <2>2
        <4>2. pc[p] = "wait" /\ cacheLock[call[p].question] = cond[p]
          BY <3>2, <4>1, <1>t DEF LockInv
        <4>3. p \notin free \cup {q} BY <4>2, <2>1, <2>4
        <4>4. call[p].question \in Questions BY <4>2, <1>t DEF LockInv, Calls
        <4>. QED BY <4>1, <4>2, <4>3, <4>4, <2>2, <2>3
      <3>. QED BY <3>1, <3>2
    <2>. QED BY <2>5, <2>6 DEF LockInv
  <1>11. ASSUME NEW k \in RejectKeys, SaveRDRC(k) \/ LeaveSaveRDRC(k) PROVE LockInv'
    BY <1>11, <1>u DEF SaveRDRC, LeaveSaveRDRC
  <1>12. ASSUME NEW k \in Questions \X CacheTransports, DropEntry(k) PROVE LockInv'
    BY <1>12, <1>u DEF DropEntry
  <1>13. CASE ClearCache \/ Tick BY <1>13, <1>u DEF ClearCache, Tick
  <1>14. CASE UNCHANGED vars BY <1>14, <1>u DEF vars
  <1>. QED
    BY <1>1, <1>2, <1>3, <1>4, <1>5, <1>6, <1>7, <1>8, <1>9, <1>10, <1>11, <1>12, <1>13, <1>14
       DEF Next, QueryStep, NetworkStep

\* Entries are stored with their lifetime under their server, and time only
\* shortens what is left of it.
LEMMA CachePreserved == ClientInv /\ [Next]_vars => CacheInv'
  <1> SUFFICES ASSUME ClientInv, [Next]_vars PROVE CacheInv' OBVIOUS
  <1> USE ClientAssumption
  <1>t. TypeOK /\ LockInv /\ CacheInv BY DEF ClientInv
  <1>1. CASE UNCHANGED <<cache, now>> BY <1>1, <1>t DEF CacheInv
  <1>2. ASSUME NEW k \in Questions \X CacheTransports, cache' = [cache EXCEPT ![k] = Nothing], now' = now
        PROVE  CacheInv'
    BY <1>2, <1>t DEF CacheInv, TypeOK
  <1>3. CASE ClearCache BY <1>3 DEF ClearCache, CacheInv
  <1>4. CASE Tick
    <2>1. \A k \in DOMAIN cache : cache[k] # Nothing => cache[k].at \in Nat
      BY <1>t DEF TypeOK, Entries
    <2>. QED BY <2>1, <1>4, <1>t DEF Tick, CacheInv, TypeOK
  <1>5. ASSUME NEW q \in Queries, NEW a \in Answers, NEW T \in Lifetimes, Answered(q, a, T)
        PROVE  CacheInv'
    <2>0. call[q] \in Calls BY <1>5, <1>t DEF Answered, Asking, LockInv
    <2>1. CacheKey(q) \in Questions \X CacheTransports
      BY <2>0 DEF CacheKey, Calls, CacheTransports
    <2>2. IndependentCache => CacheKey(q)[2] = call[q].transport BY DEF CacheKey
    <2> DEFINE ttl == TimeToLive(T)
               e == [server |-> call[q].transport, answer |-> a, ttl |-> ttl,
                  expireAt |-> now + ttl, given |-> T, at |-> now]
    <2>3. cache' = cache \/ (ttl # 0 /\ cache' = [cache EXCEPT ![CacheKey(q)] = e])
      <3>1. cache' = StoreCache(q, a, T) BY <1>5 DEF Answered
      <3>. QED BY ONLY <3>1, StoreCacheIs, Zenon DEF ttl, e
    <2>4. now' = now BY <1>5 DEF Answered
    <2>a. ttl # 0 => \A t \in T : ttl <= t BY TimeToLiveIsLeast
    <2> HIDE DEF ttl
    <2>5. /\ e.at <= now /\ e.expireAt = e.at + e.ttl /\ e.server = call[q].transport
          /\ ttl # 0 => \A t \in e.given : e.ttl <= t
      BY <2>a, <1>t DEF TypeOK
    <2> HIDE DEF e
    <2>. QED BY <2>1, <2>2, <2>3, <2>4, <2>5, <1>t DEF CacheInv, TypeOK
  <1>6. ASSUME NEW q \in Queries, Evict(q) PROVE CacheInv'
    <2>0. call[q] \in Calls BY <1>6, <1>t DEF Evict, LockInv
    <2>1. CacheKey(q) \in Questions \X CacheTransports
      BY <2>0 DEF CacheKey, Calls, CacheTransports
    <2>. QED BY <2>1, <1>6, <1>2 DEF Evict
  <1>7. ASSUME NEW k \in Questions \X CacheTransports, DropEntry(k) PROVE CacheInv'
    BY <1>7, <1>2 DEF DropEntry
  <1>8. ASSUME NEW q \in Queries,
               \/ StrategyRejected(q) \/ Cancel(q) \/ Uncached(q) \/ TakeLock(q) \/ Wait(q) \/ Wake(q)
               \/ Load(q) \/ CheckLoopback(q) \/ LoadRDRC(q) \/ DeleteRDRC(q) \/ Return(q)
               \/ ExchangeFails(q) \/ Refused(q) \/ \E a \in Answers : Rejected(q, a)
               \/ \E c \in Inputs : Exchange(q, c)
               \/ \E c \in Queries : Dial(q, c) \/ Dialed(q, c)
        PROVE  UNCHANGED <<cache, now>>
    BY <1>8 DEF StrategyRejected, Cancel, Uncached, TakeLock, Wait, Wake, Load, CheckLoopback, LoadRDRC,
                DeleteRDRC, Return, ExchangeFails, Refused, Rejected, Exchange, Dial, Dialed
  <1>9. ASSUME NEW k \in RejectKeys, SaveRDRC(k) \/ LeaveSaveRDRC(k) PROVE UNCHANGED <<cache, now>>
    BY <1>9 DEF SaveRDRC, LeaveSaveRDRC
  <1>10. CASE UNCHANGED vars BY <1>10, <1>1 DEF vars
  <1>. QED
    BY <1>1, <1>3, <1>4, <1>5, <1>6, <1>7, <1>8, <1>9, <1>10 DEF Next, QueryStep, NetworkStep

\* In every reachable state the state is well typed, the lock of a question
\* belongs to a query that is looking it up, every waiter waits for the query
\* that has the lock, and no entry of the cache outlives its TTL.
THEOREM ClientInvariance == Spec => []ClientInv
  <1>1. ClientInv /\ [Next]_vars => ClientInv'
    BY TypePreserved, LockPreserved, CachePreserved DEF ClientInv
  <1>. QED BY <1>1, InitClientInv, PTL DEF Spec

-----------------------------------------------------------------------------
(* What the cache gives.                                                   *)

\* An answer is taken from the cache only by Load.
LEMMA AnsweredByLoad ==
    ASSUME ClientInv, Next, NEW q \in Queries, pc[q] \in {"peek", "load"}, pc'[q] = "return"
    PROVE  /\ cache[CacheKey(q)] # Nothing /\ ~Expired(cache[CacheKey(q)])
           /\ result'[q].ttl = NowTTL(cache[CacheKey(q)])
  <1>t. TypeOK BY DEF ClientInv
  <1>a. ASSUME NEW p \in Queries, NEW place, pc' = [pc EXCEPT ![p] = place], pc[p] \notin {"peek", "load"}
        PROVE  FALSE
    BY <1>a, <1>t DEF TypeOK
  <1>b. ASSUME NEW p \in Queries,
               \/ StrategyRejected(p) \/ Cancel(p) \/ Uncached(p) \/ TakeLock(p) \/ Wait(p) \/ Wake(p)
               \/ Evict(p) \/ CheckLoopback(p) \/ LoadRDRC(p) \/ DeleteRDRC(p)
               \/ ExchangeFails(p) \/ Refused(p) \/ \E c \in Inputs : Exchange(p, c)
               \/ \E a \in Answers : Rejected(p, a) \/ \E T \in Lifetimes : Answered(p, a, T)
        PROVE  FALSE
    <2>1. /\ pc[p] \notin {"peek", "load"}
          /\ \E place \in Places : pc' = [pc EXCEPT ![p] = place]
      BY <1>b DEF StrategyRejected, Cancel, Uncached, TakeLock, Wait, Wake, Evict, CheckLoopback, LoadRDRC,
                  DeleteRDRC, ExchangeFails, Refused, Rejected, Answered, Exchange, Asking, FirstStep, Places, Inside
    <2>. QED BY <2>1, <1>a
  <1>c. ASSUME NEW p \in Queries, NEW c \in Queries, Dial(p, c) \/ Dialed(p, c) PROVE FALSE
    BY <1>c, <1>t DEF Dial, Dialed, FirstStep, TypeOK
  <1>d. ASSUME NEW p \in Queries, Return(p) PROVE FALSE
    BY <1>d, <1>t DEF Return, TypeOK
  <1>e. pc' # pc BY <1>t DEF TypeOK
  <1>1. \E p \in Queries : Load(p)
    BY <1>b, <1>c, <1>d, <1>e DEF Next, QueryStep, NetworkStep, SaveRDRC, LeaveSaveRDRC, DropEntry, ClearCache, Tick
  <1>2. Load(q)
    <2>1. PICK p \in Queries : Load(p) BY <1>1
    <2>2. p = q BY <2>1, <1>t DEF Load, TypeOK
    <2>. QED BY <2>1, <2>2
  <1>. QED BY <1>2, <1>t DEF Load, TypeOK

\* Whatever TTLs a response came with and whenever it is read from the cache,
\* the TTL that is shown ends with, or before, that of each of its records.
THEOREM CachedAnswersAreLive == Spec => CacheHonoursTTL
  <1>1. ASSUME ClientInv, Next, NEW q \in Queries, pc[q] \in {"peek", "load"}, pc'[q] = "return", ~DisableExpire
        PROVE  \A t \in cache[CacheKey(q)].given : now + result'[q].ttl <= cache[CacheKey(q)].at + t
    <2>1. call[q] \in Calls BY <1>1 DEF ClientInv, LockInv
    <2>. QED BY <1>1, <2>1, AnsweredByLoad, CachedTyped
  <1>2. ClientInv /\ [Next]_vars =>
            [\A q \in Queries :
                LET e == cache[CacheKey(q)]
                IN pc[q] \in {"peek", "load"} /\ pc'[q] = "return" /\ ~DisableExpire =>
                    \A t \in e.given : now + result'[q].ttl <= e.at + t]_vars
    BY <1>1
  <1>. QED BY <1>2, ClientInvariance, PTL DEF Spec, CacheHonoursTTL

-----------------------------------------------------------------------------
(* Who answers, and which answers pass.                                    *)

\* The calls that are ever made: those of the rules and of the dials.
PlayedCalls == Inputs \cup {ServerLookup(t) : t \in {u \in Transports : Resolver[u] # NoTransport}}

\* The configuration asks each server the same question under one filter, or
\* under none.
SingleFilter ==
    \A c, d \in PlayedCalls :
        c.transport = d.transport /\ c.question = d.question => c.checker = d.checker

AnswersInv ==
    \A q \in Queries :
        /\ pc[q] # "idle" => call[q] \in PlayedCalls
        /\ result[q].kind = "answer" =>
            /\ pc[q] \in {"return", "done"}
            /\ IndependentCache => result[q].server = call[q].transport

\* Every answer that is cached or about to be returned passes the filter it
\* is used under.
FilterInv ==
    /\ \A k \in DOMAIN cache, c \in PlayedCalls :
        cache[k] # Nothing /\ c.question = k[1] /\ c.transport = k[2] =>
            Passes(c.checker, cache[k].answer)
    /\ \A q \in Queries :
        result[q].kind = "answer" => Passes(call[q].checker, result[q].answer)

\* A result belongs to the call it was made for, and is kept until it is read.
LEMMA AnswersPreserved == ClientInv /\ AnswersInv /\ [Next]_vars => AnswersInv'
  <1> SUFFICES ASSUME ClientInv, AnswersInv, [Next]_vars PROVE AnswersInv' OBVIOUS
  <1> USE ClientAssumption, FailedTyped
  <1>t. TypeOK /\ LockInv /\ CacheInv BY DEF ClientInv
  <1>u. CASE UNCHANGED <<pc, call, result>> BY <1>u DEF AnswersInv
  <1>1. ASSUME NEW q \in Queries, NEW c \in Inputs, Exchange(q, c) PROVE AnswersInv'
    BY <1>1, <1>t DEF Exchange, AnswersInv, PlayedCalls, TypeOK, FirstStep
  \* A query that goes on without a result.
  <1>2. ASSUME NEW q \in Queries, pc[q] \notin {"idle", "return", "done"}, NEW place,
               pc' = [pc EXCEPT ![q] = place], UNCHANGED <<call, result>>
        PROVE  AnswersInv'
    BY <1>2, <1>t DEF AnswersInv, TypeOK
  \* A query that ends with a result r.
  <1>3. ASSUME NEW q \in Queries, pc[q] # "idle", NEW r \in Results, Finish(q, r),
               r.kind = "answer" => (IndependentCache => r.server = call[q].transport)
        PROVE  AnswersInv'
    BY <1>3, <1>t DEF AnswersInv, TypeOK
  <1>4. ASSUME NEW q \in Queries,
               \/ StrategyRejected(q) \/ Cancel(q) \/ ExchangeFails(q) \/ Refused(q)
               \/ \E a \in Answers : Rejected(q, a)
        PROVE  AnswersInv'
    <2>1. pc[q] # "idle" BY <1>4 DEF StrategyRejected, Cancel, ExchangeFails, Refused, Rejected, Asking
    <2>2. \E kind \in Kinds \ {"answer"} : Finish(q, Failed(kind))
      BY <1>4 DEF StrategyRejected, Cancel, ExchangeFails, Refused, Rejected, Kinds
    <2>. QED BY <2>1, <2>2, <1>3
  <1>5. ASSUME NEW q \in Queries,
               \/ Uncached(q) \/ TakeLock(q) \/ Wait(q) \/ Wake(q) \/ Evict(q) \/ DeleteRDRC(q)
        PROVE  AnswersInv'
    <2>1. \E place \in Places : pc' = [pc EXCEPT ![q] = place]
      BY <1>5 DEF Uncached, TakeLock, Wait, Wake, Evict, DeleteRDRC, Places, Inside
    <2>. QED BY <2>1, <1>5, <1>2 DEF Uncached, TakeLock, Wait, Wake, Evict, DeleteRDRC
  <1>6. ASSUME NEW q \in Queries, CheckLoopback(q) \/ LoadRDRC(q) PROVE AnswersInv'
    <2>1. pc[q] \in {"loopback", "loadRDRC"} BY <1>6 DEF CheckLoopback, LoadRDRC
    <2>2. \/ \E kind \in Kinds \ {"answer"} : Finish(q, Failed(kind))
          \/ /\ \E place \in Places : pc' = [pc EXCEPT ![q] = place]
             /\ UNCHANGED <<call, result>>
      BY <1>6 DEF CheckLoopback, LoadRDRC, Kinds, Places, Inside
    <2>. QED BY <2>1, <2>2, <1>2, <1>3
  <1>7. ASSUME NEW q \in Queries, Load(q) PROVE AnswersInv'
    <2> DEFINE e == cache[CacheKey(q)]
               r == [kind |-> "answer", server |-> e.server, answer |-> e.answer, ttl |-> NowTTL(e)]
    <2>0. pc[q] \in {"peek", "load"} /\ call[q] \in Calls BY <1>7, <1>t DEF Load, LockInv
    <2>1. CASE UNCHANGED <<call, parent, result>>
      <3>1. \E place \in Places : pc' = [pc EXCEPT ![q] = place] BY <1>7, <2>1 DEF Load, Places, Inside
      <3>. QED BY <3>1, <2>0, <2>1, <1>2
    <2>2. CASE e # Nothing /\ ~Expired(e) /\ Finish(q, r)
      <3>1. CacheKey(q) \in Questions \X CacheTransports /\ (IndependentCache => CacheKey(q)[2] = call[q].transport)
        BY <2>0 DEF CacheKey, Calls, CacheTransports
      <3>2. IndependentCache => e.server = call[q].transport
        BY <3>1, <2>2, <1>t DEF CacheInv, TypeOK
      <3>3. r \in Results BY <2>0, <2>2, CachedTyped
      <3>4. r.server = e.server OBVIOUS
      <3>5. Finish(q, r) BY <2>2
      <3> HIDE DEF e, r
      <3>. QED BY <3>2, <3>3, <3>4, <3>5, <2>0, <1>3
    <2>. QED BY <1>7, <2>1, <2>2 DEF Load
  <1>8. ASSUME NEW q \in Queries, NEW a \in Answers, NEW T \in Lifetimes, Answered(q, a, T)
        PROVE  AnswersInv'
    <2> DEFINE r == [kind |-> "answer", server |-> call[q].transport, answer |-> a, ttl |-> TimeToLive(T)]
    <2>0. pc[q] # "idle" /\ call[q] \in Calls BY <1>8, <1>t DEF Answered, Asking, LockInv
    <2>1. r \in Results /\ r.server = call[q].transport
      BY <2>0, TimeToLiveIsLeast DEF Results, Kinds, Calls
    <2>2. Finish(q, r) BY <1>8 DEF Answered
    <2> HIDE DEF r
    <2>. QED BY <2>0, <2>1, <2>2, <1>3
  <1>9. ASSUME NEW q \in Queries, NEW c \in Queries, Dial(q, c) PROVE AnswersInv'
    <2>0. call[q].transport \in Transports BY <1>9, <1>t DEF Dial, LockInv, Calls
    <2>1. ServerLookup(call[q].transport) \in PlayedCalls BY <2>0, <1>9 DEF Dial, PlayedCalls
    <2>. QED BY <2>1, <1>9, <1>t DEF Dial, AnswersInv, TypeOK, FirstStep
  <1>10. ASSUME NEW q \in Queries, NEW c \in Queries, Dialed(q, c) PROVE AnswersInv'
    <2>1. NoResult.kind = "none" /\ Failed("error").kind = "error" BY DEF NoResult, Failed
    <2>. QED BY <2>1, <1>10, <1>t DEF Dialed, Clear, AnswersInv, TypeOK
  <1>11. ASSUME NEW q \in Queries, Return(q) PROVE AnswersInv'
    <2>1. NoResult.kind = "none" BY DEF NoResult
    <2>. QED BY <2>1, <1>11, <1>t DEF Return, Clear, AnswersInv, TypeOK
  <1>12. ASSUME NEW k \in RejectKeys, SaveRDRC(k) \/ LeaveSaveRDRC(k) PROVE AnswersInv'
    BY <1>12, <1>u DEF SaveRDRC, LeaveSaveRDRC
  <1>13. ASSUME NEW k \in Questions \X CacheTransports, DropEntry(k) PROVE AnswersInv'
    BY <1>13, <1>u DEF DropEntry
  <1>14. CASE ClearCache \/ Tick BY <1>14, <1>u DEF ClearCache, Tick
  <1>15. CASE UNCHANGED vars BY <1>15, <1>u DEF vars
  <1>. QED
    BY <1>1, <1>4, <1>5, <1>6, <1>7, <1>8, <1>9, <1>10, <1>11, <1>12, <1>13, <1>14, <1>15
       DEF Next, QueryStep, NetworkStep

\* Only calls of the configuration are made, and each answer in a result is,
\* under independent caches, the asked server's.
THEOREM AnswersInvariance == Spec => []AnswersInv
  <1>1. Init => AnswersInv BY DEF Init, AnswersInv, NoResult
  <1>. QED BY <1>1, AnswersPreserved, ClientInvariance, PTL DEF Spec

\* With independent caches every answer comes from the server that was asked.
THEOREM ServersAreIsolated == Spec => []ServerIsolation
  <1>1. AnswersInv => ServerIsolation BY DEF AnswersInv, ServerIsolation
  <1>. QED BY <1>1, AnswersInvariance, PTL

\* An answer that is cached under a server passes the one filter the server
\* is used under, so it passes the filter of whoever finds it there.
LEMMA FilterPreserved ==
    ASSUME IndependentCache, SingleFilter
    PROVE  ClientInv /\ AnswersInv /\ FilterInv /\ [Next]_vars => FilterInv'
  <1> SUFFICES ASSUME ClientInv, AnswersInv, FilterInv, [Next]_vars PROVE FilterInv' OBVIOUS
  <1> USE ClientAssumption, FailedTyped
  <1>t. TypeOK /\ LockInv BY DEF ClientInv
  <1>a. ASSUME NEW q \in Queries, call[q] \in Calls
        PROVE  /\ CacheKey(q) \in Questions \X CacheTransports
               /\ CacheKey(q)[1] = call[q].question /\ CacheKey(q)[2] = call[q].transport
    BY <1>a DEF CacheKey, Calls, CacheTransports
  <1>u. CASE UNCHANGED <<cache, call, result>> BY <1>u DEF FilterInv
  <1>1. ASSUME NEW q \in Queries, UNCHANGED <<cache, result>>, pc[q] = "idle", NEW c,
               call' = [call EXCEPT ![q] = c]
        PROVE  FilterInv'
    <2>1. result[q].kind # "answer" BY <1>1 DEF AnswersInv
    <2>. QED BY <2>1, <1>1, <1>t DEF FilterInv, TypeOK
  \* A query that ends with a result r.
  <1>2. ASSUME NEW q \in Queries, NEW r \in Results, Finish(q, r), UNCHANGED cache,
               r.kind = "answer" => Passes(call[q].checker, r.answer)
        PROVE  FilterInv'
    BY <1>2, <1>t DEF FilterInv, TypeOK
  <1>3. ASSUME NEW q \in Queries,
               \/ StrategyRejected(q) \/ Cancel(q) \/ ExchangeFails(q) \/ Refused(q)
               \/ \E a \in Answers : Rejected(q, a)
        PROVE  FilterInv'
    <2>1. \E kind \in Kinds \ {"answer"} : Finish(q, Failed(kind))
      BY <1>3 DEF StrategyRejected, Cancel, ExchangeFails, Refused, Rejected, Kinds
    <2>2. UNCHANGED cache BY <1>3 DEF StrategyRejected, Cancel, ExchangeFails, Refused, Rejected
    <2>. QED BY <2>1, <2>2, <1>2
  <1>4. ASSUME NEW q \in Queries, CheckLoopback(q) \/ LoadRDRC(q) PROVE FilterInv'
    <2>1. \/ \E kind \in Kinds \ {"answer"} : Finish(q, Failed(kind))
          \/ UNCHANGED <<call, result>>
      BY <1>4 DEF CheckLoopback, LoadRDRC, Kinds
    <2>2. UNCHANGED cache BY <1>4 DEF CheckLoopback, LoadRDRC
    <2>. QED BY <2>1, <2>2, <1>2, <1>u
  <1>5. ASSUME NEW q \in Queries, Load(q) PROVE FilterInv'
    <2> DEFINE e == cache[CacheKey(q)]
               r == [kind |-> "answer", server |-> e.server, answer |-> e.answer, ttl |-> NowTTL(e)]
    <2>0. pc[q] \in {"peek", "load"} /\ call[q] \in Calls /\ call[q] \in PlayedCalls
      BY <1>5, <1>t DEF Load, LockInv, AnswersInv
    <2>1. UNCHANGED cache BY <1>5 DEF Load
    <2>2. CASE UNCHANGED <<call, parent, result>> BY <2>1, <2>2, <1>u
    <2>3. CASE e # Nothing /\ ~Expired(e) /\ Finish(q, r)
      <3>1. Passes(call[q].checker, e.answer)
        BY <2>0, <2>3, <1>a, <1>t DEF FilterInv, TypeOK
      <3>2. r \in Results BY <2>0, <2>3, CachedTyped
      <3>3. r.answer = e.answer OBVIOUS
      <3>4. Finish(q, r) BY <2>3
      <3> HIDE DEF e, r
      <3>. QED BY <3>1, <3>2, <3>3, <3>4, <2>1, <1>2
    <2>. QED BY <1>5, <2>2, <2>3 DEF Load
  <1>6. ASSUME NEW q \in Queries, NEW a \in Answers, NEW T \in Lifetimes, Answered(q, a, T)
        PROVE  FilterInv'
    <2> DEFINE r == [kind |-> "answer", server |-> call[q].transport, answer |-> a, ttl |-> TimeToLive(T)]
               e == [server |-> call[q].transport, answer |-> a, ttl |-> TimeToLive(T),
                     expireAt |-> now + TimeToLive(T), given |-> T, at |-> now]
    <2>0. call[q] \in Calls /\ call[q] \in PlayedCalls
      BY <1>6, <1>t DEF Answered, Asking, LockInv, AnswersInv
    <2>1. Passes(call[q].checker, a) BY <1>6 DEF Answered
    <2>2. result' = [result EXCEPT ![q] = r] /\ call' = call BY <1>6 DEF Answered
    <2>3. cache' = cache \/ cache' = [cache EXCEPT ![CacheKey(q)] = e]
      BY <1>6 DEF Answered, StoreCache
    <2>4. r.answer = a /\ e.answer = a OBVIOUS
    <2>5. \A c \in PlayedCalls :
            c.transport = call[q].transport /\ c.question = call[q].question => Passes(c.checker, a)
      BY <2>0, <2>1 DEF SingleFilter
    <2> HIDE DEF r, e
    <2>6. \A k \in DOMAIN cache', c \in PlayedCalls :
            cache'[k] # Nothing /\ c.question = k[1] /\ c.transport = k[2] =>
                Passes(c.checker, cache'[k].answer)
      BY <2>0, <2>3, <2>4, <2>5, <1>a, <1>t DEF FilterInv, TypeOK
    <2>7. \A p \in Queries : result'[p].kind = "answer" => Passes(call'[p].checker, result'[p].answer)
      BY <2>1, <2>2, <2>4, <1>t DEF FilterInv, TypeOK
    <2>. QED BY <2>6, <2>7 DEF FilterInv
  <1>7. ASSUME NEW k \in Questions \X CacheTransports, cache' = [cache EXCEPT ![k] = Nothing],
               UNCHANGED <<call, result>>
        PROVE  FilterInv'
    BY <1>7, <1>t DEF FilterInv, TypeOK
  <1>8. ASSUME NEW q \in Queries, Evict(q) PROVE FilterInv'
    <2>1. call[q] \in Calls BY <1>8, <1>t DEF Evict, LockInv
    <2>. QED BY <2>1, <1>8, <1>7, <1>a DEF Evict
  <1>9. ASSUME NEW k \in Questions \X CacheTransports, DropEntry(k) PROVE FilterInv'
    BY <1>9, <1>7 DEF DropEntry
  <1>10. CASE ClearCache BY <1>10 DEF ClearCache, FilterInv
  <1>11. ASSUME NEW q \in Queries, NEW c \in Queries, Dialed(q, c) PROVE FilterInv'
    <2>1. NoResult.kind = "none" /\ Failed("error").kind = "error" BY DEF NoResult, Failed
    <2>. QED BY <2>1, <1>11, <1>t DEF Dialed, Clear, FilterInv, TypeOK
  <1>12. ASSUME NEW q \in Queries, Return(q) PROVE FilterInv'
    <2>1. NoResult.kind = "none" BY DEF NoResult
    <2>. QED BY <2>1, <1>12, <1>t DEF Return, Clear, FilterInv, TypeOK
  <1>13. ASSUME NEW q \in Queries,
                Uncached(q) \/ TakeLock(q) \/ Wait(q) \/ Wake(q) \/ DeleteRDRC(q)
         PROVE  FilterInv'
    BY <1>13, <1>u DEF Uncached, TakeLock, Wait, Wake, DeleteRDRC
  <1>14. ASSUME NEW q \in Queries, (\E c \in Inputs : Exchange(q, c)) \/ \E c \in Queries : Dial(q, c)
         PROVE  FilterInv'
    BY <1>14, <1>1 DEF Exchange, Dial
  <1>15. ASSUME NEW k \in RejectKeys, SaveRDRC(k) \/ LeaveSaveRDRC(k) PROVE FilterInv'
    BY <1>15, <1>u DEF SaveRDRC, LeaveSaveRDRC
  <1>16. CASE Tick \/ UNCHANGED vars BY <1>16, <1>u DEF Tick, vars
  <1>. QED
    BY <1>3, <1>4, <1>5, <1>6, <1>8, <1>9, <1>10, <1>11, <1>12, <1>13, <1>14, <1>15, <1>16
       DEF Next, QueryStep, NetworkStep

\* With independent caches, and when a server is asked a question under one filter,
\* the answers of a rule with an address filter pass its filter.
THEOREM FiltersAreHonoured ==
    ASSUME IndependentCache, SingleFilter PROVE Spec => []FilterHonoured
  <1>1. Init => FilterInv BY DEF Init, FilterInv, NoResult
  <1>2. FilterInv => FilterHonoured BY DEF FilterInv, FilterHonoured, Passes
  <1>3. ClientInv /\ AnswersInv /\ FilterInv /\ [Next]_vars => FilterInv' BY FilterPreserved
  <1>. QED BY <1>1, <1>2, <1>3, ClientInvariance, AnswersInvariance, PTL DEF Spec

-----------------------------------------------------------------------------
(* Rejections.                                                             *)

\* Whatever is left of a rejection, pending or in the file, has a filter to
\* blame; that filter is one the server is asked the question under; and a query
\* that was turned away has its own filter to blame.
RejectInv ==
    /\ \A k \in RejectKeys :
        k \in saveRDRC \/ rdrc[k] # Nothing \/ saving[k] > 0 => blame[k] # {}
    /\ \A k \in RejectKeys : \A f \in blame[k] :
        \E c \in PlayedCalls : c.transport = k[1] /\ c.question = k[2] /\ c.checker = f
    /\ \A q \in Queries :
        result[q].kind = "rejectedCached" =>
            pc[q] \in {"return", "done"} /\ call[q].checker \in blame[RejectKey(q)]

\* The keys of rejections are keys.
LEMMA RejectKeyTyped ==
    ASSUME NEW q \in Queries, call[q] \in Calls
    PROVE  /\ RejectKey(q) \in RejectKeys
           /\ RejectKey(q)[1] = call[q].transport /\ RejectKey(q)[2] = call[q].question
  BY DEF RejectKey, RejectKeys, Calls

\* Rejections are found under the filter that made them: LoadRDRC finds one in
\* the pending ones or in the file, whatever the goroutines of SaveRDRCAsync
\* have done in between (client.go, rdrc.go).
LEMMA RejectPreserved ==
    ASSUME SingleFilter
    PROVE  ClientInv /\ AnswersInv /\ RejectInv /\ [Next]_vars => RejectInv'
  <1> SUFFICES ASSUME ClientInv, AnswersInv, RejectInv, [Next]_vars PROVE RejectInv' OBVIOUS
  <1> USE ClientAssumption, FailedTyped
  <1>t. TypeOK /\ LockInv BY DEF ClientInv
  <1>k. NoResult.kind = "none" BY DEF NoResult
  <1>u. CASE UNCHANGED <<pc, call, result, rdrcVars>> BY <1>u DEF RejectInv, RejectKey
  \* A query that starts, or goes on without a result.
  <1>1. ASSUME NEW q \in Queries, pc[q] \notin {"return", "done"}, NEW place, NEW c,
               pc' = [pc EXCEPT ![q] = place], call' = [call EXCEPT ![q] = c] \/ call' = call,
               UNCHANGED <<result, rdrcVars>>
        PROVE  RejectInv'
    BY <1>1, <1>t, ZenonT(60) DEF RejectInv, RejectKey, TypeOK
  \* A query that ends with a result r.
  <1>2. ASSUME NEW q \in Queries, NEW r, Finish(q, r), UNCHANGED rdrcVars,
               r.kind = "rejectedCached" => call[q].checker \in blame[RejectKey(q)]
        PROVE  RejectInv'
    BY <1>2, <1>t, ZenonT(60) DEF RejectInv, RejectKey, TypeOK
  <1>3. ASSUME NEW q \in Queries, NEW c \in Inputs, Exchange(q, c) PROVE RejectInv'
    BY <1>3, <1>1 DEF Exchange
  <1>4. ASSUME NEW q \in Queries, StrategyRejected(q) \/ Cancel(q) \/ ExchangeFails(q) \/ Refused(q)
        PROVE  RejectInv'
    <2>1. \E kind \in Kinds \ {"rejectedCached"} : Finish(q, Failed(kind))
      BY <1>4 DEF StrategyRejected, Cancel, ExchangeFails, Refused, Kinds
    <2>2. UNCHANGED rdrcVars BY <1>4 DEF StrategyRejected, Cancel, ExchangeFails, Refused
    <2>. QED BY <2>1, <2>2, <1>2
  <1>5. ASSUME NEW q \in Queries, Uncached(q) \/ TakeLock(q) \/ Wait(q) \/ Wake(q) \/ Evict(q)
        PROVE  RejectInv'
    <2>1. \E place \in Places : pc' = [pc EXCEPT ![q] = place]
      BY <1>5 DEF Uncached, TakeLock, Wait, Wake, Evict, Places, Inside
    <2>. QED BY <2>1, <1>5, <1>1 DEF Uncached, TakeLock, Wait, Wake, Evict
  <1>6. ASSUME NEW q \in Queries, Load(q) \/ CheckLoopback(q) PROVE RejectInv'
    <2>1. pc[q] \notin {"return", "done"} /\ UNCHANGED rdrcVars
      BY <1>6 DEF Load, CheckLoopback
    <2>2. \/ \E r : Finish(q, r) /\ r.kind # "rejectedCached"
          \/ /\ \E place \in Places : pc' = [pc EXCEPT ![q] = place]
             /\ UNCHANGED <<call, result>>
      BY <1>6 DEF Load, CheckLoopback, Kinds, Places, Inside
    <2>. QED BY <2>1, <2>2, <1>1, <1>2
  <1>7. ASSUME NEW q \in Queries, LoadRDRC(q) PROVE RejectInv'
    <2> DEFINE k == RejectKey(q)
    <2>0. pc[q] = "loadRDRC" /\ UNCHANGED rdrcVars BY <1>7 DEF LoadRDRC
    <2>1. call[q] \in Calls /\ call[q] \in PlayedCalls BY <2>0, <1>t DEF LockInv, AnswersInv
    <2>2. k \in RejectKeys /\ k[1] = call[q].transport /\ k[2] = call[q].question
      BY <2>1, RejectKeyTyped
    <2>3. CASE Finish(q, Failed("rejectedCached")) /\ (k \in saveRDRC \/ rdrc[k] # Nothing)
      <3>1. PICK f \in blame[k] : TRUE BY <2>2, <2>3 DEF RejectInv
      <3>2. PICK c \in PlayedCalls : c.transport = k[1] /\ c.question = k[2] /\ c.checker = f
        BY <2>2 DEF RejectInv
      <3>3. call[q].checker = f BY <2>1, <2>2, <3>2 DEF SingleFilter
      <3>. QED BY <2>0, <2>3, <3>3, <1>2
    <2>4. CASE /\ \E place \in Places : pc' = [pc EXCEPT ![q] = place]
               /\ UNCHANGED <<call, result>>
      BY <2>0, <2>4, <1>1
    <2>5. \/ Finish(q, Failed("rejectedCached")) /\ (k \in saveRDRC \/ rdrc[k] # Nothing)
          \/ /\ \E place \in Places : pc' = [pc EXCEPT ![q] = place]
             /\ UNCHANGED <<call, result>>
      <3> HIDE DEF k
      <3>. QED BY <1>7 DEF LoadRDRC, Places, Inside, k
    <2>. QED BY <2>3, <2>4, <2>5
  <1>8. ASSUME NEW q \in Queries, DeleteRDRC(q) PROVE RejectInv'
    <2>0. call[q] \in Calls /\ pc[q] = "deleteRDRC" BY <1>8, <1>t DEF DeleteRDRC, LockInv
    <2>1. RejectKey(q) \in RejectKeys BY <2>0, RejectKeyTyped
    <2>2. /\ rdrc' = [rdrc EXCEPT ![RejectKey(q)] = Nothing]
          /\ pc' = [pc EXCEPT ![q] = "ask"]
          /\ UNCHANGED <<call, result, saveRDRC, saving, saved, blame>>
      BY <1>8 DEF DeleteRDRC
    <2>3. \A k \in RejectKeys : rdrc'[k] # Nothing => rdrc[k] # Nothing
      BY <2>1, <2>2, <1>t DEF TypeOK
    <2>4. \A p \in Queries : RejectKey(p)' = RejectKey(p) BY <2>2 DEF RejectKey
    <2>. QED BY <2>0, <2>2, <2>3, <2>4, <1>t DEF RejectInv, TypeOK
  <1>9. ASSUME NEW q \in Queries, NEW a \in Answers, Rejected(q, a) PROVE RejectInv'
    <2>0. call[q] \in Calls /\ call[q] \in PlayedCalls
      BY <1>9, <1>t DEF Rejected, Asking, LockInv, AnswersInv
    <2>1. Finish(q, Failed("rejected")) /\ Failed("rejected").kind = "rejected"
      BY <1>9 DEF Rejected, Kinds
    <2>2. CASE UNCHANGED rdrcVars BY <2>1, <2>2, <1>2
    <2>3. CASE SaveRDRCAsync(q)
      <3>0. PICK k \in RejectKeys : /\ k = RejectKey(q)
                                    /\ k[1] = call[q].transport /\ k[2] = call[q].question
        BY <2>0, RejectKeyTyped
      <3>1. /\ saving' = [saving EXCEPT ![k] = @ + 1]
            /\ saveRDRC' = saveRDRC \cup {k}
            /\ blame' = [blame EXCEPT ![k] = @ \cup {call[q].checker}]
            /\ UNCHANGED <<rdrc, saved>>
        BY <2>3, <3>0 DEF SaveRDRCAsync
      <3>2. \A j \in RejectKeys : /\ blame[j] \subseteq blame'[j]
                                  /\ j # k => blame'[j] = blame[j] /\ saving'[j] = saving[j]
                                  /\ blame'[k] = blame[k] \cup {call[q].checker}
        BY <3>1, <1>t DEF TypeOK
      <3>3. \A j \in RejectKeys :
                j \in saveRDRC' \/ rdrc'[j] # Nothing \/ saving'[j] > 0 => blame'[j] # {}
        BY <3>1, <3>2 DEF RejectInv
      <3>4. \A j \in RejectKeys : \A f \in blame'[j] :
                \E c \in PlayedCalls : c.transport = j[1] /\ c.question = j[2] /\ c.checker = f
        BY <2>0, <3>0, <3>2 DEF RejectInv
      <3>5. ASSUME NEW p \in Queries, result'[p].kind = "rejectedCached"
            PROVE  pc'[p] \in {"return", "done"} /\ call'[p].checker \in blame'[RejectKey(p)']
        <4>1. p # q /\ result'[p] = result[p] /\ pc'[p] = pc[p] /\ call'[p] = call[p]
          BY <2>1, <3>5, <1>t DEF TypeOK
        <4>2. pc[p] \in {"return", "done"} /\ call[p].checker \in blame[RejectKey(p)]
          BY <3>5, <4>1 DEF RejectInv
        <4>3. RejectKey(p) \in RejectKeys /\ RejectKey(p)' = RejectKey(p)
          BY <4>1, <4>2, <1>t, RejectKeyTyped DEF LockInv, RejectKey
        <4>. QED BY <4>1, <4>2, <4>3, <3>2
      <3>. QED BY <3>3, <3>4, <3>5 DEF RejectInv
    <2>. QED BY <1>9, <2>2, <2>3 DEF Rejected
  <1>10. ASSUME NEW q \in Queries, NEW a \in Answers, NEW T \in Lifetimes, Answered(q, a, T)
         PROVE  RejectInv'
    <2> DEFINE r == [kind |-> "answer", server |-> call[q].transport, answer |-> a, ttl |-> TimeToLive(T)]
    <2>1. Finish(q, r) /\ r.kind = "answer" BY <1>10 DEF Answered
    <2>2. UNCHANGED rdrcVars BY <1>10 DEF Answered
    <2> HIDE DEF r
    <2>. QED BY <2>1, <2>2, <1>2
  <1>11. ASSUME NEW q \in Queries, NEW c \in Queries, Dial(q, c) PROVE RejectInv'
    <2>1. pc[q] = "ask" /\ pc[c] = "idle" /\ UNCHANGED <<result, rdrcVars>> BY <1>11 DEF Dial
    <2>2. \A p \in Queries : p \notin {q, c} => pc'[p] = pc[p] /\ call'[p] = call[p]
      BY <1>11, <1>t DEF Dial, TypeOK
    <2>. QED BY <2>1, <2>2 DEF RejectInv, RejectKey
  <1>12. ASSUME NEW q \in Queries, NEW c \in Queries, Dialed(q, c) PROVE RejectInv'
    <2>1. UNCHANGED rdrcVars /\ pc[q] = "dialing" BY <1>12 DEF Dialed
    <2>2. \A p \in Queries : /\ p \notin {q, c} => pc'[p] = pc[p] /\ call'[p] = call[p] /\ result'[p] = result[p]
                             /\ p \in {q, c} => result'[p].kind # "rejectedCached"
      BY <1>12, <1>k, <1>t DEF Dialed, Clear, TypeOK, Kinds
    <2>. QED BY <2>1, <2>2 DEF RejectInv, RejectKey
  <1>13. ASSUME NEW q \in Queries, Return(q) PROVE RejectInv'
    <2> DEFINE free == {c \in Queries : parent[c] = q /\ pc[c] = "done"} \cup {p \in {q} : parent[p] = Nobody}
    <2>1. /\ UNCHANGED rdrcVars
          /\ pc' = [p \in Queries |-> CASE p \in free -> "idle" [] p = q /\ p \notin free -> "done" [] OTHER -> pc[p]]
          /\ call' = Clear(call, free, Nothing) /\ result' = Clear(result, free, NoResult)
      BY <1>13 DEF Return
    <2> HIDE DEF free
    <2>2. \A p \in Queries : /\ p \in free => result'[p].kind # "rejectedCached"
                             /\ p \notin free => /\ call'[p] = call[p] /\ result'[p] = result[p]
                                                 /\ pc'[p] = pc[p] \/ pc'[p] = "done"
      BY <2>1, <1>k DEF Clear
    <2>. QED BY <2>1, <2>2 DEF RejectInv, RejectKey
  <1>14. ASSUME NEW k \in RejectKeys, SaveRDRC(k) PROVE RejectInv'
    <2>1. /\ saving[k] > 0 /\ saving' = [saving EXCEPT ![k] = @ - 1]
          /\ rdrc' = rdrc \/ rdrc' = [rdrc EXCEPT ![k] = now + RDRCTimeout]
          /\ UNCHANGED <<pc, call, result, saveRDRC, blame>>
      BY <1>14 DEF SaveRDRC
    <2>2. \A j \in RejectKeys : j # k => saving'[j] = saving[j] /\ rdrc'[j] = rdrc[j]
      BY <2>1, <1>t DEF TypeOK
    <2>3. blame[k] # {} BY <2>1 DEF RejectInv
    <2>4. \A p \in Queries : RejectKey(p)' = RejectKey(p) BY <2>1 DEF RejectKey
    <2>. QED BY <2>1, <2>2, <2>3, <2>4 DEF RejectInv
  <1>15. ASSUME NEW k \in RejectKeys, LeaveSaveRDRC(k) PROVE RejectInv'
    BY <1>15 DEF LeaveSaveRDRC, RejectInv, RejectKey
  <1>16. ASSUME NEW k \in Questions \X CacheTransports, DropEntry(k) PROVE RejectInv'
    BY <1>16, <1>u DEF DropEntry
  <1>17. CASE ClearCache \/ Tick \/ UNCHANGED vars BY <1>17, <1>u DEF ClearCache, Tick, vars
  <1>. QED
    BY <1>3, <1>4, <1>5, <1>6, <1>7, <1>8, <1>9, <1>10, <1>11, <1>12, <1>13, <1>14, <1>15, <1>16, <1>17
       DEF Next, QueryStep, NetworkStep

\* When a server is asked a question under one filter, a query is turned away
\* for a cached rejection only if its own filter rejected an answer of that
\* server to that question, however many goroutines save rejections at a time.
THEOREM RejectionsAreOwn ==
    ASSUME SingleFilter PROVE Spec => []RejectionIsOwn
  <1>1. Init => RejectInv
    BY DEF Init, RejectInv, NoResult
  <1>2. RejectInv => RejectionIsOwn BY DEF RejectInv, RejectionIsOwn, RejectKey
  <1>3. ClientInv /\ AnswersInv /\ RejectInv /\ [Next]_vars => RejectInv' BY RejectPreserved
  <1>. QED BY <1>1, <1>2, <1>3, ClientInvariance, AnswersInvariance, PTL DEF Spec

-----------------------------------------------------------------------------
(* Waiting.                                                                *)

\* A lookup belongs to the dial of the query it was made for, which has at most
\* one and either waits for it or is over.
WaitInv ==
    /\ \A q \in Queries : pc[q] = "idle" => parent[q] = Nobody
    /\ \A c \in Queries : parent[c] # Nobody =>
        /\ pc[parent[c]] \in {"dialing", "return"}
        /\ pc[parent[c]] = "dialing" => call[c] = ServerLookup(call[parent[c]].transport)
    /\ \A c, d \in Queries : parent[c] = parent[d] /\ parent[c] # Nobody => c = d

\* A query that goes on, neither from a dial nor to one.
LEMMA WaitKept ==
    ASSUME TypeOK, WaitInv, NEW q \in Queries, NEW place, pc[q] \notin {"idle", "dialing", "return"},
           place \notin {"idle", "dialing"}, pc' = [pc EXCEPT ![q] = place],
           UNCHANGED <<call, parent>>
    PROVE  WaitInv'
  <1>1. \A c \in Queries : parent[c] # q BY ClientAssumption DEF WaitInv, TypeOK
  <1>2. \A p \in Queries : pc'[p] = IF p = q THEN place ELSE pc[p] BY DEF TypeOK
  <1>3. \A c \in Queries : parent[c] \in Queries \cup {Nobody} BY DEF TypeOK
  <1>5. \A p \in Queries : pc'[p] = "idle" => parent'[p] = Nobody BY <1>2 DEF WaitInv
  <1>7. ASSUME NEW c \in Queries, parent'[c] # Nobody
        PROVE  /\ pc'[parent'[c]] \in {"dialing", "return"}
               /\ pc'[parent'[c]] = "dialing" => call'[c] = ServerLookup(call'[parent'[c]].transport)
    <2>1. parent'[c] = parent[c] /\ parent[c] \in Queries /\ parent[c] # q BY <1>1, <1>3, <1>7
    <2>2. pc'[parent[c]] = pc[parent[c]] BY <1>2, <2>1
    <2>. QED BY <1>7, <2>1, <2>2 DEF WaitInv
  <1>8. \A c, d \in Queries : parent'[c] = parent'[d] /\ parent'[c] # Nobody => c = d BY DEF WaitInv
  <1>. QED BY <1>5, <1>7, <1>8 DEF WaitInv

\* Dials and their lookups stay together.
LEMMA WaitPreserved == ClientInv /\ WaitInv /\ [Next]_vars => WaitInv'
  <1> SUFFICES ASSUME ClientInv, WaitInv, [Next]_vars PROVE WaitInv' OBVIOUS
  <1> USE ClientAssumption
  <1>t. TypeOK /\ LockInv BY DEF ClientInv
  <1>u. CASE UNCHANGED <<pc, call, parent>> BY <1>u DEF WaitInv
  <1>p. \A c \in Queries : parent[c] \in Queries \cup {Nobody} BY <1>t DEF TypeOK
  <1>1. ASSUME NEW q \in Queries, NEW c \in Inputs, Exchange(q, c) PROVE WaitInv'
    <2>0. pc[q] = "idle" BY <1>1 DEF Exchange
    <2>1. \A p \in Queries : /\ pc'[p] = IF p = q THEN FirstStep(c) ELSE pc[p]
                             /\ call'[p] = IF p = q THEN c ELSE call[p]
                             /\ parent'[p] = IF p = q THEN Nobody ELSE parent[p]
      BY <1>1, <1>t DEF Exchange, TypeOK
    <2>2. \A p \in Queries : parent[p] # q BY <2>0 DEF WaitInv
    <2>3. FirstStep(c) \in {"peek", "exchange"} BY DEF FirstStep
    <2>. QED BY <2>1, <2>2, <2>3, <1>p, SMTT(30) DEF WaitInv
  <1>2. ASSUME NEW q \in Queries,
               \/ StrategyRejected(q) \/ Uncached(q) \/ TakeLock(q) \/ Wait(q) \/ Wake(q) \/ Cancel(q)
               \/ Load(q) \/ Evict(q)
        PROVE  WaitInv'
    <2>1. /\ pc[q] \in {"exchange", "wait", "peek", "load", "peekEvict", "evict"}
          /\ UNCHANGED <<call, parent>>
      BY <1>2 DEF StrategyRejected, Uncached, TakeLock, Wait, Wake, Cancel, Load, Evict
    <2>2. \E place \in {"return", "loopback", "load", "wait", "exchange", "peekEvict", "evict"} :
            pc' = [pc EXCEPT ![q] = place]
      BY <1>2 DEF StrategyRejected, Uncached, TakeLock, Wait, Wake, Cancel, Load, Evict
    <2>. QED BY <2>1, <2>2, <1>t, WaitKept
  <1>3. ASSUME NEW q \in Queries, CheckLoopback(q) PROVE WaitInv'
    <2>1. pc[q] = "loopback" /\ UNCHANGED <<call, parent>> BY <1>3 DEF CheckLoopback
    <2>2. \/ pc' = [pc EXCEPT ![q] = "return"]
          \/ pc' = [pc EXCEPT ![q] = "loadRDRC"] /\ call[q].context # call[q].transport
      BY <1>3 DEF CheckLoopback
    <2>. QED BY <2>1, <2>2, <1>t, WaitKept
  <1>4. ASSUME NEW q \in Queries,
               \/ LoadRDRC(q) \/ DeleteRDRC(q) \/ Refused(q)
               \/ \E a \in Answers : Rejected(q, a) \/ \E T \in Lifetimes : Answered(q, a, T)
        PROVE  WaitInv'
    <2>1. pc[q] \in {"loadRDRC", "deleteRDRC", "ask", "connected"} /\ UNCHANGED <<call, parent>>
      BY <1>4 DEF LoadRDRC, DeleteRDRC, Refused, Rejected, Answered, Asking
    <2>2. \E place \in {"return", "deleteRDRC", "ask"} : pc' = [pc EXCEPT ![q] = place]
      BY <1>4 DEF LoadRDRC, DeleteRDRC, Refused, Rejected, Answered
    <2>. QED BY <2>1, <2>2, <1>t, WaitKept
  <1>5. ASSUME NEW q \in Queries, ExchangeFails(q) PROVE WaitInv'
    <2>1. /\ pc[q] \in {"ask", "connected", "dialing"} /\ UNCHANGED <<call, parent>>
          /\ pc' = [pc EXCEPT ![q] = "return"]
      BY <1>5 DEF ExchangeFails, Asking
    <2>2. \A p \in Queries : pc'[p] = IF p = q THEN "return" ELSE pc[p] BY <2>1, <1>t DEF TypeOK
    <2>. QED BY <2>1, <2>2, <1>p DEF WaitInv
  <1>6. ASSUME NEW q \in Queries, NEW c \in Queries, Dial(q, c) PROVE WaitInv'
    <2> DEFINE l == ServerLookup(call[q].transport)
    <2>0. /\ pc[q] = "ask" /\ pc[c] = "idle" /\ Resolver[call[q].transport] # NoTransport
          /\ pc' = [pc EXCEPT ![q] = "dialing", ![c] = FirstStep(l)]
          /\ call' = [call EXCEPT ![c] = l] /\ parent' = [parent EXCEPT ![c] = q]
      BY <1>6 DEF Dial
    <2>1. FirstStep(l) \in {"peek", "exchange"} BY DEF FirstStep
    <2>2. \A p \in Queries : parent[p] # q /\ parent[p] # c BY <2>0, <1>p DEF WaitInv
    <2>3. \A p \in Queries : /\ pc'[p] = IF p = c THEN FirstStep(l) ELSE IF p = q THEN "dialing" ELSE pc[p]
                             /\ call'[p] = IF p = c THEN l ELSE call[p]
                             /\ parent'[p] = IF p = c THEN q ELSE parent[p]
      BY <2>0, <1>t DEF TypeOK
    <2> HIDE DEF l
      <2>5. \A p \in Queries : pc'[p] = "idle" => parent'[p] = Nobody
      BY <2>1, <2>3 DEF WaitInv
    <2>7. ASSUME NEW p \in Queries, parent'[p] # Nobody
          PROVE  /\ pc'[parent'[p]] \in {"dialing", "return"}
                 /\ pc'[parent'[p]] = "dialing" => call'[p] = ServerLookup(call'[parent'[p]].transport)
      <3>0. q # c BY <2>0
      <3>1. CASE p = c
        <4>1. parent'[p] = q /\ call'[p] = l BY <2>3, <3>1
        <4>2. pc'[q] = "dialing" /\ call'[q] = call[q] BY <2>3, <3>0
        <4>. QED BY <4>1, <4>2 DEF l
      <3>2. CASE p # c
        <4>1. parent'[p] = parent[p] /\ call'[p] = call[p] BY <2>3, <3>2
        <4>2. parent[p] \in Queries /\ parent[p] # q /\ parent[p] # c BY <4>1, <2>7, <2>2, <1>p
        <4>3. pc'[parent[p]] = pc[parent[p]] /\ call'[parent[p]] = call[parent[p]] BY <4>2, <2>3
        <4>. QED BY <4>1, <4>2, <4>3, <2>7 DEF WaitInv
      <3>. QED BY <3>1, <3>2
    <2>8. \A p, d \in Queries : parent'[p] = parent'[d] /\ parent'[p] # Nobody => p = d
      BY <2>2, <2>3 DEF WaitInv
    <2>. QED BY <2>5, <2>7, <2>8 DEF WaitInv
  <1>7. ASSUME NEW q \in Queries, NEW c \in Queries, Dialed(q, c) PROVE WaitInv'
    <2>0. pc[q] = "dialing" /\ pc[c] = "done" /\ parent[c] = q BY <1>7 DEF Dialed
    <2>1. PICK place \in {"connected", "return"} :
            pc' = [pc EXCEPT ![q] = place, ![c] = "idle"]
      BY <1>7 DEF Dialed
    <2>2. \A p \in Queries : /\ pc'[p] = IF p = c THEN "idle" ELSE IF p = q THEN place ELSE pc[p]
                             /\ call'[p] = IF p = c THEN Nothing ELSE call[p]
                             /\ parent'[p] = IF p = c THEN Nobody ELSE parent[p]
      BY <2>1, <1>7, <1>t DEF Dialed, Clear, TypeOK
    <2>3. \A p \in Queries : p # c => parent[p] # q /\ parent[p] # c
      BY <2>0 DEF WaitInv
      <2>5. \A p \in Queries : parent'[p] # Nobody =>
            /\ pc'[parent'[p]] \in {"dialing", "return"}
            /\ pc'[parent'[p]] = "dialing" => call'[p] = ServerLookup(call'[parent'[p]].transport)
      BY <2>2, <2>3, <1>p DEF WaitInv
    <2>6. /\ \A p \in Queries : pc'[p] = "idle" => parent'[p] = Nobody
          /\ \A p, d \in Queries : parent'[p] = parent'[d] /\ parent'[p] # Nobody => p = d
      BY <2>2 DEF WaitInv
    <2>. QED BY <2>5, <2>6 DEF WaitInv
  <1>8. ASSUME NEW q \in Queries, Return(q) PROVE WaitInv'
    <2> DEFINE free == {c \in Queries : parent[c] = q /\ pc[c] = "done"} \cup {p \in {q} : parent[p] = Nobody}
    <2>1. /\ pc[q] = "return"
          /\ pc' = [p \in Queries |-> CASE p \in free -> "idle" [] p = q /\ p \notin free -> "done" [] OTHER -> pc[p]]
          /\ call' = Clear(call, free, Nothing)
          /\ parent' = [p \in Queries |-> IF parent[p] = q THEN Nobody ELSE parent[p]]
      BY <1>8 DEF Return
    <2>2. \A p \in free : (p = q \/ pc[p] = "done") /\ (parent[p] = q \/ parent[p] = Nobody) OBVIOUS
    <2> HIDE DEF free
    <2>3. \A p \in Queries :
            /\ pc'[p] = IF p \in free THEN "idle" ELSE IF p = q THEN "done" ELSE pc[p]
            /\ call'[p] = IF p \in free THEN Nothing ELSE call[p]
            /\ parent'[p] = IF parent[p] = q THEN Nobody ELSE parent[p]
      BY <2>1 DEF Clear
    <2>4. ASSUME NEW c \in Queries, parent'[c] # Nobody
          PROVE  /\ pc'[parent'[c]] \in {"dialing", "return"}
                 /\ pc'[parent'[c]] = "dialing" => call'[c] = ServerLookup(call'[parent'[c]].transport)
      <3>1. parent'[c] = parent[c] /\ parent[c] # q /\ parent[c] # Nobody /\ parent[c] \in Queries
        BY <2>3, <2>4, <1>p
      <3>2. pc[parent[c]] \in {"dialing", "return"} BY <3>1 DEF WaitInv
      <3>3. parent[c] \notin free /\ c \notin free BY <2>2, <3>1, <3>2
      <3>4. pc'[parent[c]] = pc[parent[c]] /\ call'[parent[c]] = call[parent[c]] /\ call'[c] = call[c]
        BY <2>3, <3>1, <3>3
      <3>. QED BY <3>1, <3>2, <3>4 DEF WaitInv
      <2>6. /\ \A p \in Queries : pc'[p] = "idle" => parent'[p] = Nobody
          /\ \A p, d \in Queries : parent'[p] = parent'[d] /\ parent'[p] # Nobody => p = d
      BY <2>2, <2>3 DEF WaitInv
    <2>. QED BY <2>4, <2>6 DEF WaitInv
  <1>9. ASSUME NEW k \in RejectKeys, SaveRDRC(k) \/ LeaveSaveRDRC(k) PROVE WaitInv'
    BY <1>9, <1>u DEF SaveRDRC, LeaveSaveRDRC
  <1>10. ASSUME NEW k \in Questions \X CacheTransports, DropEntry(k) PROVE WaitInv'
    BY <1>10, <1>u DEF DropEntry
  <1>11. CASE ClearCache \/ Tick \/ UNCHANGED vars BY <1>11, <1>u DEF ClearCache, Tick, vars
  <1>. QED
    BY <1>1, <1>2, <1>3, <1>4, <1>5, <1>6, <1>7, <1>8, <1>9, <1>10, <1>11
       DEF Next, QueryStep, NetworkStep

\* Take a query of a circle, and one that waits for it.  If that one dials, the
\* query is the lookup of its server's name.  If it waits for the lock, it asks
\* the same question, has no lock itself, and so is the lookup of a dial.
THEOREM CirclesAreOfServerNames == Spec => []CirclesAskServerNames
  <1>1. Init => WaitInv BY DEF Init, WaitInv
  <1>2. ClientInv /\ WaitInv => CirclesAskServerNames
    <2> SUFFICES ASSUME ClientInv, WaitInv, NEW S \in SUBSET Queries, WaitingCircle(S), NEW q \in S
                 PROVE  call[q].question \in ServerNames(S)
      BY DEF CirclesAskServerNames
    <2>t. TypeOK /\ LockInv BY DEF ClientInv
    \* A query that a dial of the circle waits for.
    <2>1. ASSUME NEW d \in S, NEW p \in S, WaitsFor(d, p), pc[d] # "wait"
          PROVE  call[p].question \in ServerNames(S)
      <3>1. cond[d] # p BY <2>1, <2>t, ClientAssumption DEF LockInv
      <3>2. pc[d] = "dialing" /\ parent[p] = d BY <2>1, <3>1 DEF WaitsFor
      <3>3. call[p] = ServerLookup(call[d].transport) BY <3>2, ClientAssumption DEF WaitInv
      <3>. QED BY <3>2, <3>3 DEF ServerLookup, ServerNames
    <2>2. PICK r \in S : WaitsFor(r, q) BY DEF WaitingCircle
    <2>3. CASE pc[r] = "wait"
      <3>1. cond[r] = q /\ q # Nobody BY <2>2, <2>3, ClientAssumption DEF WaitsFor
      <3>2. cacheLock[call[r].question] = q /\ call[r] \in Calls BY <2>3, <3>1, <2>t DEF LockInv
      <3>3. call[q].question = call[r].question BY <3>1, <3>2, <2>t DEF LockInv, Calls
      <3>4. PICK o \in S : WaitsFor(o, r) BY DEF WaitingCircle
      <3>5. pc[o] # "wait"
        <4> SUFFICES ASSUME pc[o] = "wait" PROVE FALSE OBVIOUS
        <4>1. cond[o] = r /\ r # Nobody BY <3>4, ClientAssumption DEF WaitsFor
        <4>2. cacheLock[call[o].question] = r /\ call[o].question \in Questions
          BY <4>1, <2>t DEF LockInv, Calls
        <4>3. pc[r] \in Inside BY <4>1, <4>2, <2>t DEF LockInv
        <4>. QED BY <2>3, <4>3 DEF Inside
      <3>. QED BY <2>1, <3>3, <3>4, <3>5
    <2>. QED BY <2>1, <2>2, <2>3
  <1>. QED BY <1>1, <1>2, WaitPreserved, ClientInvariance, PTL DEF Spec
=============================================================================
