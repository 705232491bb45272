-------------------------- MODULE FakeIPStoreProofs --------------------------
(***************************************************************************)
(* Proofs about FakeIPStore, for any clients, domains, families, ranges    *)
(* and either storage.                                                     *)
(***************************************************************************)
EXTENDS FakeIPStore, SequenceTheorems, TLAPS

\* Create's arithmetic (store.go, nextAddress): from a counter inside its
\* range the next address is inside it too, past the second address of the
\* range and before the broadcast address.
LEMMA NextAddressInRange ==
  ASSUME NEW range, Proper(range), NEW a \in Addresses, range.addr < a, a < range.last
  PROVE  LET next == NextAddress(range, a)
         IN /\ next \in Addresses
            /\ range.addr < next /\ next < range.last
            /\ Contains(range, next)
  BY FakeIPAssumption DEF NextAddress, AtEndOfRange, Contains, Proper, Ranges, Addresses

\* The counters Start sets (store.go) are good ones.
LEMMA InitialCounterGood ==
  ASSUME NEW cfg \in Configs
  PROVE  /\ InitialCurrent(cfg) \in [Families -> Addresses \cup {None}]
         /\ GoodCounter(cfg, InitialCurrent(cfg))
  BY FakeIPAssumption DEF InitialCurrent, GoodCounter, Proper, Ranges, Addresses

\* The history of addresses keeps its type.
LEMMA LatestType ==
  ASSUME NEW range, Proper(range), NEW seq \in Seq(Addresses), NEW a \in Addresses
  PROVE  Latest(range, Append(seq, a)) \in Seq(Addresses)
  <1> DEFINE long == Append(seq, a)
             n == Len(long)
             m == IF n > Capacity(range) THEN n - Capacity(range) + 1 ELSE 1
  <1>1. long \in Seq(Addresses) /\ n \in Nat /\ \A i \in 1..n : long[i] \in Addresses
    OBVIOUS
  <1>2. Capacity(range) \in Nat /\ Capacity(range) > 0
    BY FakeIPAssumption DEF Capacity, Proper, Ranges, Addresses
  <1>3. m \in Int /\ m >= 1
    BY <1>1, <1>2
  <1>4. \A i \in m..n : long[i] \in Addresses
    BY <1>1, <1>3
  <1>5. SubSeq(long, m, n) \in Seq(Addresses)
    BY <1>1, <1>3, <1>4, SubSeqProperties
  <1> QED
    BY <1>5 DEF Latest

\* An empty storage satisfies the part of the invariant that is about it.
LEMMA EmptyStorage ==
  /\ NoDomains \in [Families -> [Addresses -> Domains \cup {None}]]
  /\ NoAddresses \in [Families -> [Domains -> Addresses \cup {None}]]
  /\ \A f \in Families, a \in Addresses, d \in Domains :
        NoDomains[f][a] # d /\ NoAddresses[f][d] = None /\ NoAddresses[f][d] # a
  BY FakeIPAssumption DEF NoDomains, NoAddresses

\* The first state of a program that has never run.
LEMMA InitEstablishesIInv == Init => IInv
  <1> SUFFICES ASSUME Init PROVE IInv
    OBVIOUS
  <1>1. TypeOK
    <2>1. current \in [Families -> Addresses \cup {None}]
      BY DEF Init
    <2>2. /\ addressCache \in [Families -> [Addresses -> Domains \cup {None}]]
          /\ domainCache \in [Families -> [Domains -> Addresses \cup {None}]]
      BY EmptyStorage DEF Init
    <2>3. recent \in [Families -> Seq(Addresses)]
      BY DEF Init
    <2>4. /\ pc \in [Clients -> {"idle", "lock", "done"}]
          /\ request \in [Clients -> (Families \X Domains) \cup {None}]
          /\ answer \in [Clients -> Addresses \cup {None}]
          /\ \A c \in Clients : pc[c] = "idle"
      BY DEF Init
    <2> QED
      BY <2>1, <2>2, <2>3, <2>4, FakeIPAssumption DEF Init, TypeOK
  <1>2. InverseMaps
    BY EmptyStorage DEF Init, InverseMaps
  <1>3. CountersInRange
    BY DEF Init, CountersInRange
  <1>4. MemoryInRange
    BY EmptyStorage DEF Init, MemoryInRange, AnswersInRange
  <1> QED
    BY <1>1, <1>2, <1>3, <1>4 DEF IInv

\* FakeIPReset empties the storage or leaves it as it was.
LEMMA ResetEffect ==
  ASSUME IInv, NEW kept \in Metadata \cup {None}, FakeIPReset(kept)
  PROVE  /\ \/ /\ addressCache' = NoDomains /\ domainCache' = NoAddresses
               /\ buckets' = {} /\ metadata' = None
            \/ /\ storeFakeIP
               /\ UNCHANGED <<addressCache, domainCache, buckets>> /\ metadata' = kept
         /\ addressCache' \in [Families -> [Addresses -> Domains \cup {None}]]
         /\ domainCache' \in [Families -> [Domains -> Addresses \cup {None}]]
         /\ buckets' \in SUBSET AllBuckets
         /\ metadata' \in Metadata \cup {None}
         /\ InverseMaps'
  <1>1. \/ /\ addressCache' = NoDomains /\ domainCache' = NoAddresses
           /\ buckets' = {} /\ metadata' = None
        \/ /\ storeFakeIP
           /\ UNCHANGED <<addressCache, domainCache, buckets>> /\ metadata' = kept
    BY DEF FakeIPReset, ResetSucceeds
  <1>2. CASE /\ addressCache' = NoDomains /\ domainCache' = NoAddresses
             /\ buckets' = {} /\ metadata' = None
    BY <1>1, <1>2, EmptyStorage DEF InverseMaps
  <1>3. CASE /\ storeFakeIP
             /\ UNCHANGED <<addressCache, domainCache, buckets>> /\ metadata' = kept
    BY <1>1, <1>3 DEF IInv, TypeOK, InverseMaps
  <1> QED
    BY <1>1, <1>2, <1>3

\* Start (store.go) preserves the invariant, whether it restores the saved
\* counter or begins again with a reset that may fail.
LEMMA StartPreservesIInv ==
  ASSUME NEW cfg \in Configs, IInv, Start(cfg)
  PROVE  IInv'
  <1> USE DEF IInv
  <1>1. CASE /\ metadata # None /\ metadata.range = cfg
             /\ current' = metadata.current /\ metadata' = None
             /\ UNCHANGED <<addressCache, domainCache, buckets>>
    <2>1. metadata \in Metadata
      BY <1>1 DEF TypeOK
    <2>2. TypeOK'
      BY <1>1, <2>1 DEF TypeOK, Start, timer, calls, Metadata
    <2>3. InverseMaps'
      BY <1>1 DEF InverseMaps
    <2>4. CountersInRange'
      BY <1>1 DEF CountersInRange, Start, timer
    <2>5. ~storeFakeIP => \A f \in Families, d \in Domains : domainCache'[f][d] = None
      BY <1>1 DEF MemoryInRange, Start
    <2>6. AnswersInRange'
      BY DEF AnswersInRange, TypeOK, Start, calls
    <2> QED
      BY <2>2, <2>3, <2>4, <2>5, <2>6 DEF MemoryInRange, Start
  <1>2. CASE current' = InitialCurrent(cfg) /\ FakeIPReset(None)
    <2>1. TypeOK' /\ InverseMaps'
      BY <1>2, ResetEffect, InitialCounterGood DEF TypeOK, Start, timer, calls
    <2>2. CountersInRange'
      BY <1>2, ResetEffect, InitialCounterGood DEF CountersInRange, Start, timer
    <2>3. MemoryInRange'
      <3>1. AnswersInRange'
        BY DEF AnswersInRange, TypeOK, Start, calls
      <3>2. ~storeFakeIP => domainCache' = NoAddresses
        BY <1>2, ResetEffect
      <3> QED
        BY <3>1, <3>2, EmptyStorage DEF MemoryInRange, Start
    <2> QED
      BY <2>1, <2>2, <2>3
  <1> QED
    BY <1>1, <1>2 DEF Start

\* Binding a fresh address to an unbound domain (FakeIPStore) keeps the two
\* maps inverse to each other.
LEMMA StoreKeepsInverse ==
  ASSUME TypeOK, InverseMaps, NEW f \in Families, NEW a \in Addresses, NEW d \in Domains,
         domainCache[f][d] = None, FakeIPStore(f, a, d)
  PROVE  /\ addressCache' \in [Families -> [Addresses -> Domains \cup {None}]]
         /\ domainCache' \in [Families -> [Domains -> Addresses \cup {None}]]
         /\ InverseMaps'
  <1>1. addressCache' \in [Families -> [Addresses -> Domains \cup {None}]]
    BY DEF TypeOK, FakeIPStore
  <1>2. domainCache' \in [Families -> [Domains -> Addresses \cup {None}]]
    BY DEF TypeOK, FakeIPStore
  <1>3. SUFFICES ASSUME NEW g \in Families, NEW b \in Addresses, NEW e \in Domains
                 PROVE  addressCache'[g][b] = e <=> domainCache'[g][e] = b
    BY <1>1, <1>2 DEF InverseMaps
  <1>4. CASE g # f
    BY <1>4 DEF TypeOK, InverseMaps, FakeIPStore
  <1>5. CASE g = f
    <2>1. addressCache'[f][b] = IF b = a THEN d ELSE addressCache[f][b]
      BY DEF TypeOK, FakeIPStore
    <2>2. domainCache'[f][e] = IF e = d THEN a
                               ELSE IF e = addressCache[f][a] THEN None ELSE domainCache[f][e]
      BY DEF TypeOK, FakeIPStore
    <2> QED
      BY <1>5, <2>1, <2>2, FakeIPAssumption DEF InverseMaps
  <1> QED
    BY <1>4, <1>5

\* The section of Create under addressAccess (store.go) that hands out a new
\* address preserves the invariant, also when the storage fails.
LEMMA AllocatePreservesIInv ==
  ASSUME NEW c \in Clients, IInv, CreateAllocates(c)
  PROVE  IInv'
  <1> DEFINE f == Family(c)
             d == Domain(c)
             address == NextAddress(inetRange[f], current[f])
  <1> USE DEF IInv
  <1>1. f \in Families /\ d \in Domains /\ running # "down" /\ domainCache[f][d] = None
    BY DEF CreateAllocates, TypeOK, Family, Domain, AlreadyBound, FakeIPLoadDomain
  <1>2. inetRange[f] # None /\ Proper(inetRange[f])
    BY <1>1, FakeIPAssumption DEF CreateAllocates, CountersInRange, GoodCounter, TypeOK
  <1>3. /\ current[f] \in Addresses
        /\ inetRange[f].addr < current[f] /\ current[f] < inetRange[f].last
    BY <1>1, <1>2 DEF CountersInRange, GoodCounter
  <1>4. /\ address \in Addresses
        /\ inetRange[f].addr < address /\ address < inetRange[f].last
        /\ Contains(inetRange[f], address)
    BY <1>2, <1>3, NextAddressInRange
  <1>5. /\ current' = [current EXCEPT ![f] = address]
        /\ recent' = [recent EXCEPT ![f] = Latest(inetRange[f], Append(@, address))]
        /\ FakeIPStore(f, address, d) \/ (storeFakeIP /\ UNCHANGED storage)
        /\ Answer(c, address)
        /\ FakeIPSaveMetadataAsync([range |-> inetRange, current |-> current'])
        /\ UNCHANGED <<running, storeFakeIP, inetRange>>
    BY DEF CreateAllocates
  <1> HIDE DEF f, d, address
  <1>6. current' \in [Families -> Addresses \cup {None}] /\ GoodCounter(inetRange, current')
    BY <1>1, <1>2, <1>4, <1>5 DEF TypeOK, CountersInRange, GoodCounter
  <1>7. /\ addressCache' \in [Families -> [Addresses -> Domains \cup {None}]]
        /\ domainCache' \in [Families -> [Domains -> Addresses \cup {None}]]
        /\ InverseMaps'
        /\ buckets' \in SUBSET AllBuckets
        /\ metadata' = metadata
    <2>1. CASE FakeIPStore(f, address, d)
      <3>1. buckets' \in SUBSET AllBuckets /\ metadata' = metadata
        BY <1>1, <2>1 DEF FakeIPStore, TypeOK, AllBuckets
      <3> QED
        BY <1>1, <1>4, <2>1, <3>1, StoreKeepsInverse
    <2>2. CASE UNCHANGED storage
      BY <2>2 DEF storage, TypeOK, InverseMaps
    <2> QED
      BY <1>5, <2>1, <2>2
  <1> DEFINE saved == [range |-> inetRange, current |-> current']
  <1>8. saved \in Metadata /\ saved.range = inetRange /\ saved.current = current'
    BY <1>6 DEF TypeOK, Metadata
  <1>8a. FakeIPSaveMetadataAsync(saved)
    BY <1>5
  <1> HIDE DEF saved
  <1>8b. /\ timerSaves' \in Metadata \cup {None}
         /\ timerArmed' \in BOOLEAN
         /\ timerSaves' = timerSaves \/ timerSaves' = saved
    BY <1>8, <1>8a DEF FakeIPSaveMetadataAsync, timer, TypeOK
  <1>9. recent' \in [Families -> Seq(Addresses)]
    <2>1. recent[f] \in Seq(Addresses)
      BY <1>1 DEF TypeOK
    <2>2. Latest(inetRange[f], Append(recent[f], address)) \in Seq(Addresses)
      BY <1>2, <1>4, <2>1, LatestType
    <2> QED
      BY <1>1, <1>5, <2>2 DEF TypeOK
  <1>10. TypeOK'
    <2>1. /\ pc' \in [Clients -> {"idle", "lock", "done"}]
          /\ request' \in [Clients -> (Families \X Domains) \cup {None}]
          /\ answer' \in [Clients -> Addresses \cup {None}]
          /\ \A e \in Clients : pc'[e] # "idle" =>
                running' # "down" /\ request'[e] \in Families \X Domains
      BY <1>1, <1>4, <1>5 DEF TypeOK, Answer, CreateAllocates
    <2> QED
      BY <1>5, <1>6, <1>7, <1>8b, <1>9, <2>1 DEF TypeOK
  <1>11. CountersInRange'
    BY <1>5, <1>6, <1>7, <1>8, <1>8b DEF CountersInRange
  <1>12. MemoryInRange'
    <2>1. SUFFICES ASSUME ~storeFakeIP PROVE MemoryInRange'
      BY <1>5 DEF MemoryInRange
    <2>2. AnswersInRange'
      BY <1>4, <1>5, <2>1 DEF AnswersInRange, MemoryInRange, Answer, TypeOK, Family, f
    <2>3. \A g \in Families, e \in Domains :
            domainCache'[g][e] \in {domainCache[g][e], None} \/ (g = f /\ domainCache'[g][e] = address)
      BY <1>5, <2>1 DEF FakeIPStore, TypeOK
    <2> QED
      BY <1>1, <1>2, <1>4, <1>5, <2>1, <2>2, <2>3 DEF MemoryInRange
  <1> QED
    BY <1>7, <1>10, <1>11, <1>12

\* Every step preserves the invariant.
LEMMA NextPreservesIInv == IInv /\ [Next]_vars => IInv'
  <1> SUFFICES ASSUME IInv, [Next]_vars PROVE IInv'
    OBVIOUS
  <1> USE DEF IInv
  <1>1. ASSUME NEW cfg \in Configs, Start(cfg) PROVE IInv'
    BY <1>1, StartPreservesIInv
  <1>2. ASSUME NEW c \in Clients, NEW f \in Families, NEW d \in Domains, CallCreate(c, f, d)
        PROVE  IInv'
    <2>1. TypeOK'
      <3>1. /\ request' = [request EXCEPT ![c] = <<f, d>>]
            /\ \A e \in Clients : request'[e] = IF e = c THEN <<f, d>> ELSE request[e]
            /\ <<f, d>> \in Families \X Domains
        BY <1>2 DEF CallCreate, TypeOK
      <3>2. request' \in [Clients -> (Families \X Domains) \cup {None}]
        BY <3>1 DEF TypeOK
      <3>3. /\ pc' \in [Clients -> {"idle", "lock", "done"}]
            /\ answer' \in [Clients -> Addresses \cup {None}]
            /\ \A e \in Clients : e # c => pc'[e] = pc[e]
        <4>1. domainCache[f][d] \in Addresses \cup {None}
          BY DEF TypeOK
        <4>2. answer' = answer \/ answer' = [answer EXCEPT ![c] = domainCache[f][d]]
          BY <1>2 DEF CallCreate, FakeIPLoadDomain
        <4>3. pc' = [pc EXCEPT ![c] = "done"] \/ pc' = [pc EXCEPT ![c] = "lock"]
          BY <1>2 DEF CallCreate
        <4> QED
          BY <4>1, <4>2, <4>3 DEF TypeOK
      <3>4. \A e \in Clients : pc'[e] # "idle" =>
              running' # "down" /\ request'[e] \in Families \X Domains
        BY <1>2, <3>1, <3>3 DEF CallCreate, TypeOK
      <3> QED
        BY <1>2, <3>2, <3>3, <3>4 DEF CallCreate, TypeOK, storage, timer
    <2>2. InverseMaps' /\ CountersInRange'
      BY <1>2 DEF CallCreate, InverseMaps, CountersInRange, storage, timer
    <2>3. MemoryInRange'
      BY <1>2 DEF CallCreate, MemoryInRange, AnswersInRange, storage, timer, TypeOK,
                  FakeIPLoadDomain, Family
    <2> QED
      BY <2>1, <2>2, <2>3
  <1>3. ASSUME NEW c \in Clients, CreateFound(c) PROVE IInv'
    <2>0. Family(c) \in Families /\ Domain(c) \in Domains
      BY <1>3 DEF CreateFound, TypeOK, Family, Domain
    <2>1. TypeOK'
      BY <1>3, <2>0 DEF CreateFound, Answer, TypeOK, storage, timer, FakeIPLoadDomain
    <2>2. InverseMaps' /\ CountersInRange'
      BY <1>3 DEF CreateFound, InverseMaps, CountersInRange, storage, timer
    <2>3. MemoryInRange'
      BY <1>3, <2>0 DEF CreateFound, Answer, MemoryInRange, AnswersInRange, storage, timer, TypeOK,
                  FakeIPLoadDomain, AlreadyBound, Family, Domain
    <2> QED
      BY <2>1, <2>2, <2>3
  <1>4. ASSUME NEW c \in Clients, CreateNoRange(c) PROVE IInv'
    <2>1. TypeOK'
      BY <1>4 DEF CreateNoRange, Answer, TypeOK, storage, timer
    <2>2. InverseMaps' /\ CountersInRange'
      BY <1>4 DEF CreateNoRange, InverseMaps, CountersInRange, storage, timer
    <2>3. MemoryInRange'
      BY <1>4 DEF CreateNoRange, Answer, MemoryInRange, AnswersInRange, storage, timer, TypeOK, Family
    <2> QED
      BY <2>1, <2>2, <2>3
  <1>5. ASSUME NEW c \in Clients, CreateAllocates(c) PROVE IInv'
    BY <1>5, AllocatePreservesIInv
  <1>6. ASSUME NEW c \in Clients, CallerProceeds(c) PROVE IInv'
    <2>1. TypeOK'
      BY <1>6 DEF CallerProceeds, TypeOK, storage, timer
    <2>2. InverseMaps' /\ CountersInRange'
      BY <1>6 DEF CallerProceeds, InverseMaps, CountersInRange, storage, timer
    <2>3. MemoryInRange'
      BY <1>6 DEF CallerProceeds, MemoryInRange, AnswersInRange, storage, timer, TypeOK, Family
    <2> QED
      BY <2>1, <2>2, <2>3
  <1>7. CASE Reset
    <2>0. FakeIPReset(metadata) /\ metadata \in Metadata \cup {None}
      BY <1>7 DEF Reset, TypeOK
    <2>1. TypeOK' /\ InverseMaps'
      BY <1>7, <2>0, ResetEffect DEF Reset, TypeOK, timer, calls
    <2>2. CountersInRange'
      BY <1>7, <2>0, ResetEffect DEF Reset, CountersInRange, timer
    <2>3. MemoryInRange'
      <3>1. ~storeFakeIP => domainCache' = NoAddresses
        BY <2>0, ResetEffect
      <3>2. ~storeFakeIP => AnswersInRange'
        BY <1>7 DEF Reset, MemoryInRange, AnswersInRange, calls, Family
      <3> QED
        BY <1>7, <3>1, <3>2, EmptyStorage DEF Reset, MemoryInRange
    <2> QED
      BY <2>1, <2>2, <2>3
  <1>8. CASE SaveTimerFires
    <2>1. TypeOK'
      BY <1>8 DEF SaveTimerFires, FakeIPSaveMetadata, TypeOK, calls, AllBuckets
    <2>2. InverseMaps' /\ CountersInRange'
      BY <1>8 DEF SaveTimerFires, FakeIPSaveMetadata, InverseMaps, CountersInRange
    <2>3. MemoryInRange'
      BY <1>8 DEF SaveTimerFires, FakeIPSaveMetadata, MemoryInRange, AnswersInRange, calls, Family
    <2> QED
      BY <2>1, <2>2, <2>3
  <1>9. CASE Close
    <2>0. [range |-> inetRange, current |-> current] \in Metadata
      BY DEF TypeOK, Metadata
    <2>1. TypeOK'
      BY <1>9, <2>0 DEF Close, FakeIPSaveMetadata, TypeOK, timer, calls, AllBuckets
    <2>2. InverseMaps' /\ CountersInRange'
      BY <1>9, <2>0 DEF Close, FakeIPSaveMetadata, InverseMaps, CountersInRange, timer
    <2>3. MemoryInRange'
      BY <1>9 DEF Close, FakeIPSaveMetadata, MemoryInRange, AnswersInRange, calls, Family
    <2> QED
      BY <2>1, <2>2, <2>3
  <1>10. CASE Stop
    <2>1. TypeOK'
      BY <1>10, EmptyStorage, ZenonT(60) DEF Stop, TypeOK, storage
    <2>2. InverseMaps' /\ CountersInRange'
      BY <1>10, EmptyStorage DEF Stop, InverseMaps, CountersInRange, storage
    <2>3. MemoryInRange'
      BY <1>10, EmptyStorage DEF Stop, MemoryInRange, AnswersInRange, storage
    <2> QED
      BY <2>1, <2>2, <2>3
  <1>11. CASE ResetDB
    <2>1. TypeOK'
      BY <1>11, EmptyStorage DEF ResetDB, TypeOK, timer, calls
    <2>2. InverseMaps' /\ CountersInRange'
      BY <1>11, EmptyStorage DEF ResetDB, InverseMaps, CountersInRange, timer
    <2>3. MemoryInRange'
      BY <1>11 DEF ResetDB, MemoryInRange
    <2> QED
      BY <2>1, <2>2, <2>3
  <1>12. CASE UNCHANGED vars
    BY <1>12 DEF vars, storage, timer, calls, TypeOK, InverseMaps, CountersInRange,
                 MemoryInRange, AnswersInRange, Family
  <1> QED
    BY <1>1, <1>2, <1>3, <1>4, <1>5, <1>6, <1>7, <1>8, <1>9, <1>10, <1>11, <1>12 DEF Next, Create

\* The inductive invariant holds in every reachable state of the store, for
\* every set of clients, domains and proper ranges and for both storages.
THEOREM InductiveInvariance == Spec => []IInv
  BY InitEstablishesIInv, NextPreservesIInv, PTL DEF Spec

\* The address map and the domain map of the storage stay inverse to each
\* other through concurrent calls of Create, resets, crashes and restarts.
THEOREM MapsStayInverse == Spec => []InverseMaps
  <1>1. IInv => InverseMaps
    BY DEF IInv
  <1> QED
    BY <1>1, InductiveInvariance, PTL

\* The counters of Create, saved or running, never leave their range.
THEOREM CountersStayInRange == Spec => []CountersInRange
  <1>1. IInv => CountersInRange
    BY DEF IInv
  <1> QED
    BY <1>1, InductiveInvariance, PTL

\* Without a cache file every address Create answers is in the configured
\* range.
THEOREM MemoryAnswers == Spec => []MemoryAnswersInRange
  <1>1. IInv => MemoryAnswersInRange
    BY DEF IInv, MemoryInRange, MemoryAnswersInRange
  <1> QED
    BY <1>1, InductiveInvariance, PTL

-----------------------------------------------------------------------------
(* Addresses are handed out in turn.                                       *)

\* The address handed out k calls before a, as long as the range does not come
\* round: below the third address of the range it goes on at the end.
Back(range, a, k) ==
    IF a - k >= range.addr + 2 THEN a - k ELSE a - k + Capacity(range)

\* The history of a family is one lap of its range that ends at the counter.
Lap(range, counter, handed) ==
    /\ range # None /\ Len(handed) <= Capacity(range)
    /\ counter \in Addresses /\ range.addr + 2 <= counter /\ counter < range.last
    /\ \A i \in 1 .. Len(handed) : handed[i] = Back(range, counter, Len(handed) - i)

LapInv == \A f \in Families : recent[f] = <<>> \/ Lap(inetRange[f], current[f], recent[f])

\* Within a lap no address comes twice.
LEMMA TurnsDiffer ==
  ASSUME NEW range, range.addr \in Nat, range.last \in Nat, range.addr + 2 < range.last, NEW a \in Nat,
         range.addr + 2 <= a, a < range.last, NEW n \in Nat, n <= Capacity(range),
         NEW i \in 1 .. n, NEW j \in 1 .. n, Back(range, a, n - i) = Back(range, a, n - j)
  PROVE  i = j
  <1>1. PICK b \in Nat, l \in Nat : b = range.addr /\ l = range.last OBVIOUS
  <1>2. n <= l - b - 2 /\ b + 2 <= a /\ a < l BY <1>1 DEF Capacity
  <1>3. PICK g, h \in 0 .. n - 1 : g = n - i /\ h = n - j OBVIOUS
  <1>4. (IF a - g >= b + 2 THEN a - g ELSE a - g + (l - b - 2))
            = IF a - h >= b + 2 THEN a - h ELSE a - h + (l - b - 2)
    BY <1>1, <1>3 DEF Back, Capacity
  <1>5. g = h BY <1>2, <1>4
  <1>. QED BY <1>3, <1>5

\* One address further, one call further back.
LEMMA BackOne ==
  ASSUME NEW range, range.addr \in Nat, range.last \in Nat, range.addr + 2 < range.last, NEW a \in Nat,
         range.addr + 2 <= a, a < range.last, NEW k \in Nat, k < Capacity(range) - 1,
         NEW next, next = IF a + 1 = range.last THEN range.addr + 2 ELSE a + 1
  PROVE  Back(range, next, k + 1) = Back(range, a, k)
  <1>1. PICK b \in Nat, l \in Nat : b = range.addr /\ l = range.last OBVIOUS
  <1>2. /\ Capacity(range) = l - b - 2
        /\ \A c \in Nat, h \in Nat : Back(range, c, h) = IF c - h >= b + 2 THEN c - h ELSE c - h + (l - b - 2)
    BY <1>1 DEF Back, Capacity
  <1>3. CASE a + 1 = l
    <2>1. next = b + 2 /\ b + 2 \in Nat BY <1>1, <1>3
    <2>2. Back(range, b + 2, k + 1) = b + 2 - (k + 1) + (l - b - 2) BY <1>2, <2>1
    <2>3. Back(range, a, k) = a - k BY <1>1, <1>2, <1>3
    <2>. QED BY <1>3, <2>1, <2>2, <2>3
  <1>4. CASE a + 1 # l
    <2>1. next = a + 1 /\ a + 1 \in Nat /\ (a + 1) - (k + 1) = a - k BY <1>1, <1>4
    <2>2. Back(range, a + 1, k + 1) =
            IF (a + 1) - (k + 1) >= b + 2 THEN (a + 1) - (k + 1) ELSE (a + 1) - (k + 1) + (l - b - 2)
      BY <1>2, <2>1
    <2>3. Back(range, a, k) = IF a - k >= b + 2 THEN a - k ELSE a - k + (l - b - 2) BY <1>2
    <2>. QED BY <2>1, <2>2, <2>3
  <1>. QED BY <1>3, <1>4

\* The last elements of a sequence.
LEMMA LatestElements ==
  ASSUME NEW range, Proper(range), NEW seq \in Seq(Addresses), Len(seq) <= Capacity(range) + 1
  PROVE  \E drop \in {0, 1} :
            /\ drop = 1 <=> Len(seq) > Capacity(range)
            /\ Len(Latest(range, seq)) = Len(seq) - drop
            /\ \A i \in 1 .. Len(Latest(range, seq)) : Latest(range, seq)[i] = seq[i + drop]
  <1>0. Len(seq) \in Nat /\ Capacity(range) \in Nat /\ Capacity(range) > 0
    BY FakeIPAssumption DEF Proper, Ranges, Addresses, Capacity
  <1>1. CASE Len(seq) > Capacity(range)
    <2>1. Len(seq) = Capacity(range) + 1 BY <1>0, <1>1
    <2>2. Latest(range, seq) = SubSeq(seq, 2, Len(seq)) BY <1>0, <1>1, <2>1 DEF Latest
    <2>. QED BY <1>0, <1>1, <2>1, <2>2, SubSeqProperties
  <1>2. CASE ~(Len(seq) > Capacity(range))
    <2>1. Latest(range, seq) = SubSeq(seq, 1, Len(seq)) BY <1>2 DEF Latest
    <2>. QED BY <1>0, <1>2, <2>1, SubSeqProperties
  <1>. QED BY <1>1, <1>2

\* The next address continues the lap.
LEMMA LapGoesOn ==
  ASSUME NEW range, Proper(range), NEW a \in Addresses, range.addr < a, a < range.last,
         NEW handed \in Seq(Addresses), handed = <<>> \/ Lap(range, a, handed)
  PROVE  Lap(range, NextAddress(range, a), Latest(range, Append(handed, NextAddress(range, a))))
  <1> DEFINE next == NextAddress(range, a)
             long == Append(handed, next)
             cap == Capacity(range)
             n == Len(handed)
  <1>0. /\ range.addr \in Nat /\ range.last \in Nat /\ a \in Nat /\ n \in Nat /\ range # None
        /\ cap = range.last - range.addr - 2 /\ range.addr + 2 < range.last
    BY FakeIPAssumption DEF Proper, Ranges, Addresses, Capacity
  <1>1. /\ next = IF a + 1 = range.last THEN range.addr + 2 ELSE a + 1
        /\ next \in Addresses
    BY FakeIPAssumption, NextAddressInRange DEF NextAddress, AtEndOfRange, Contains, Proper, Ranges, Addresses
  <1>2. n <= cap /\ (n > 0 => range.addr + 2 <= a) BY <1>0 DEF Lap
  <1>3. /\ long \in Seq(Addresses) /\ Len(long) = n + 1 /\ long[n + 1] = next
        /\ \A i \in 1 .. n : long[i] = handed[i]
    BY <1>1
  <1>4. \A i \in 1 .. n : handed[i] = Back(range, a, n - i) BY <1>0 DEF Lap
  <1>5. next \in Nat /\ range.addr + 2 <= next /\ next < range.last BY <1>0, <1>1
  <1> HIDE DEF next, long, n
  <1>6. \A i \in 1 .. (n + 1) : i > n + 1 - cap => long[i] = Back(range, next, n + 1 - i)
    <2> SUFFICES ASSUME NEW i \in 1 .. (n + 1), i > n + 1 - cap PROVE long[i] = Back(range, next, n + 1 - i)
      OBVIOUS
    <2>1. CASE i = n + 1
      <3>1. Back(range, next, 0) = next BY <1>5 DEF Back
      <3>. QED BY <1>0, <1>3, <2>1, <3>1
    <2>2. CASE i <= n
      <3>1. i \in 1 .. n BY <1>0, <2>2
      <3>2. Back(range, next, n + 1 - i) = Back(range, a, n - i)
        <4>1. n - i \in Nat /\ n - i < cap - 1 /\ n + 1 - i = (n - i) + 1 /\ range.addr + 2 <= a
          BY <1>0, <1>2, <3>1
        <4>. QED BY <1>0, <1>1, <4>1, BackOne
      <3>. QED BY <1>3, <1>4, <3>1, <3>2
    <2>. QED BY <1>0, <2>1, <2>2
  <1> DEFINE latest == Latest(range, long)
  <1>l. Len(long) <= Capacity(range) + 1 BY <1>0, <1>2, <1>3
  <1>7. PICK drop \in {0, 1} :
        /\ drop = 1 <=> Len(long) > Capacity(range)
        /\ Len(latest) = Len(long) - drop
        /\ \A i \in 1 .. Len(latest) : latest[i] = long[i + drop]
    BY <1>3, <1>l, LatestElements
  <1>8. Len(latest) = n + 1 - drop /\ drop = IF n = cap THEN 1 ELSE 0 BY <1>0, <1>2, <1>3, <1>7
  <1> HIDE DEF latest, cap
  <1>9. Len(latest) <= cap BY <1>0, <1>2, <1>8
  <1>10. \A i \in 1 .. Len(latest) : latest[i] = Back(range, next, Len(latest) - i)
    <2> SUFFICES ASSUME NEW i \in 1 .. Len(latest) PROVE latest[i] = Back(range, next, Len(latest) - i)
      OBVIOUS
    <2>1. /\ i + drop \in 1 .. (n + 1) /\ i + drop > n + 1 - cap
          /\ n + 1 - (i + drop) = Len(latest) - i
      BY <1>0, <1>2, <1>8
    <2>. QED BY <1>6, <1>7, <2>1
  <1>11. next \in Addresses BY <1>1
  <1>12. Lap(range, next, latest) BY <1>0, <1>5, <1>9, <1>10, <1>11 DEF Lap, cap
  <1>. QED BY <1>12 DEF latest, long, next

\* Only Create changes the counter and the history, except for a start, which
\* begins a new one.
LEMMA LapInvKept == IInv /\ LapInv /\ [Next]_vars => LapInv'
  <1> SUFFICES ASSUME IInv, LapInv, [Next]_vars PROVE LapInv' OBVIOUS
  <1>1. CASE UNCHANGED <<inetRange, current, recent>> BY <1>1 DEF LapInv
  <1>2. CASE \E cfg \in Configs : Start(cfg) BY <1>2 DEF Start, LapInv
  <1>3. ASSUME NEW c \in Clients, CreateAllocates(c) PROVE LapInv'
    <2> DEFINE f == Family(c)
               range == inetRange[f]
               a == current[f]
               next == NextAddress(range, a)
    <2>1. /\ f \in Families /\ running # "down" /\ inetRange \in Configs /\ inetRange' = inetRange
          /\ current \in [Families -> Addresses \cup {None}] /\ recent \in [Families -> Seq(Addresses)]
          /\ a # None
      BY <1>3 DEF IInv, TypeOK, CreateAllocates, Family
    <2>2. GoodCounter(inetRange, current) BY <2>1 DEF IInv, CountersInRange
    <2>3. Proper(range) /\ a \in Addresses /\ range.addr < a /\ a < range.last
      BY <2>1, <2>2, FakeIPAssumption DEF GoodCounter
    <2>4. /\ current' = [current EXCEPT ![f] = next]
          /\ recent' = [recent EXCEPT ![f] = Latest(range, Append(recent[f], next))]
      BY <1>3 DEF CreateAllocates
    <2>5. recent[f] = <<>> \/ Lap(range, a, recent[f]) BY <2>1 DEF LapInv
    <2>6. recent[f] \in Seq(Addresses) BY <2>1
    <2> HIDE DEF f, range, a
    <2>7. Lap(range, next, Latest(range, Append(recent[f], next)))
      BY <2>3, <2>5, <2>6, LapGoesOn
    <2>8. Lap(inetRange'[f], current'[f], recent'[f])
      <3> HIDE DEF next
      <3>. QED BY <2>1, <2>4, <2>7 DEF range
    <2>9. \A g \in Families : g # f => current'[g] = current[g] /\ recent'[g] = recent[g]
      BY <2>1, <2>4
    <2>. QED BY <2>1, <2>8, <2>9 DEF LapInv
  <1>. QED
    BY <1>1, <1>2, <1>3 DEF Next, Create, CallCreate, CreateFound, CreateNoRange, CallerProceeds, Reset,
        SaveTimerFires, Close, Stop, ResetDB, vars

\* An address is handed out again only after all others of its range, whichever
\* client asks and whatever is bound, reset or lost in between.
THEOREM AddressesTakeTurns == Spec => []RoundRobin
  <1>1. Init => LapInv BY DEF Init, LapInv
  <1>2. IInv /\ LapInv => RoundRobin
    <2> SUFFICES ASSUME IInv, LapInv, NEW f \in Families, NEW i \in 1 .. Len(recent[f]),
                        NEW j \in 1 .. Len(recent[f]), recent[f][i] = recent[f][j]
                 PROVE  i = j
      BY DEF RoundRobin
    <2> DEFINE range == inetRange[f]
               a == current[f]
               n == Len(recent[f])
    <2>1. recent[f] \in Seq(Addresses) /\ inetRange \in Configs /\ a \in Addresses \cup {None} BY DEF IInv, TypeOK
    <2>2. Lap(range, a, recent[f]) BY <2>1 DEF LapInv
    <2>3. Proper(range) BY <2>1, <2>2, FakeIPAssumption DEF Lap
    <2>4. range.addr \in Nat /\ range.last \in Nat /\ range.addr + 2 < range.last
      BY <2>3, FakeIPAssumption DEF Proper, Ranges, Addresses
    <2>5. /\ n <= Capacity(range) /\ range.addr + 2 <= a /\ a < range.last
          /\ Back(range, a, n - i) = Back(range, a, n - j)
      BY <2>2 DEF Lap
    <2>6. n \in Nat BY <2>1
    <2>7. a \in Nat BY <2>2, FakeIPAssumption DEF Lap, Addresses
    <2>8. i \in 1 .. n /\ j \in 1 .. n OBVIOUS
    <2> HIDE DEF range, a, n
    <2>. QED BY <2>4, <2>5, <2>6, <2>7, <2>8, TurnsDiffer
  <1>. QED BY <1>1, <1>2, InitEstablishesIInv, NextPreservesIInv, LapInvKept, PTL DEF Spec
=============================================================================
