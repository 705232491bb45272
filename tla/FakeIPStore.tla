----------------------------- MODULE FakeIPStore -----------------------------
(***************************************************************************)
(* The FakeIP address store (dns/transport/fakeip/store.go) over either of *)
(* its storages: the in-memory one (memory.go) or the cache file           *)
(* (experimental/cachefile/fakeip.go), through starts, clean closes,       *)
(* crashes and changes of the configured ranges.                           *)
(*                                                                         *)
(* Each family (IPv4, IPv6) has its own range, counter and maps; addresses *)
(* are numbers within a family.  A transaction of the cache file is one    *)
(* step.  The section of Create under addressAccess is one step too: its   *)
(* only interplay with what runs beside it is through one transaction.     *)
(***************************************************************************)
EXTENDS Naturals, Sequences

CONSTANTS
    Clients,      \* the goroutines that call Create
    Domains,
    Families,     \* one per address family
    MaxAddress,   \* bound: the largest address of a family
    Configs,      \* the configured ranges, one per start of the program
    Storages,     \* which storages to consider: TRUE for the cache file
    None

Addresses == 0..MaxAddress

\* A prefix: its first address, the address it was written with (host bits
\* are kept) and its broadcast address.
Ranges == [net : Addresses, addr : Addresses, last : Addresses]

\* Every range has room for an address past its second one.
Proper(range) ==
    /\ range \in Ranges
    /\ range.net <= range.addr
    /\ range.addr + 2 < range.last

ASSUME FakeIPAssumption ==
    /\ MaxAddress \in Nat
    /\ Storages \subseteq BOOLEAN
    /\ None \notin Domains \cup Addresses
    /\ \A cfg \in Configs : /\ DOMAIN cfg = Families
                            /\ cfg = [f \in Families |-> cfg[f]]
                            /\ \A f \in Families : cfg[f] = None \/ Proper(cfg[f])
    /\ None \notin Ranges

VARIABLES
    running,       \* "down", "up", or "closing": the store is closed, the file is not
    storeFakeIP,   \* the cache file stores FakeIP; otherwise memory does
    inetRange,     \* s.inet4Range, s.inet6Range
    current,       \* s.inet4Current, s.inet6Current
    addressCache,  \* address -> domain
    domainCache,   \* domain -> address
    buckets,       \* the buckets that exist in the cache file
    metadata,      \* the metadata key of the cache file
    timerSaves,    \* the metadata saveMetadataTimer's closure captured, None: no timer
    timerArmed,    \* saveMetadataTimer is running
    pc,            \* where each call of Create is
    request,       \* its family and domain
    answer,        \* the address it returned
    recent         \* history: the latest addresses handed out in this run

storage == <<addressCache, domainCache, buckets, metadata>>
calls == <<pc, request, answer>>
timer == <<timerSaves, timerArmed>>
vars == <<running, storeFakeIP, inetRange, current, storage, timer, calls, recent>>

NoDomains == [f \in Families |-> [a \in Addresses |-> None]]
NoAddresses == [f \in Families |-> [d \in Domains |-> None]]

\* The buckets: one for all addresses, one for the domains of each family.
AddressBucket == "address"
AllBuckets == {AddressBucket} \cup Families

Metadata == [range : Configs, current : [Families -> Addresses \cup {None}]]

TypeOK ==
    /\ running \in {"down", "up", "closing"}
    /\ storeFakeIP \in BOOLEAN
    /\ inetRange \in Configs
    /\ current \in [Families -> Addresses \cup {None}]
    /\ addressCache \in [Families -> [Addresses -> Domains \cup {None}]]
    /\ domainCache \in [Families -> [Domains -> Addresses \cup {None}]]
    /\ buckets \in SUBSET AllBuckets
    /\ metadata \in Metadata \cup {None}
    /\ timerSaves \in Metadata \cup {None}
    /\ timerArmed \in BOOLEAN
    /\ pc \in [Clients -> {"idle", "lock", "done"}]
    /\ request \in [Clients -> (Families \X Domains) \cup {None}]
    /\ \A c \in Clients : pc[c] # "idle" =>
            running # "down" /\ request[c] \in Families \X Domains
    /\ answer \in [Clients -> Addresses \cup {None}]
    /\ recent \in [Families -> Seq(Addresses)]

-----------------------------------------------------------------------------
(* Addresses.                                                              *)

Contains(range, address) == range.net <= address /\ address <= range.last

\* Mutant: the counter turns early.
AtEndOfRangeEarly(range, next) == next + 1 >= range.last \/ ~Contains(range, next)

\* The next address is the broadcast address or outside the range.
AtEndOfRange(range, next) == next = range.last \/ ~Contains(range, next)

\* Mutant: the counter never turns.
NextAddressUnbounded(range, a) == a + 1

\* The address handed out after address a.
NextAddress(range, a) ==
    IF AtEndOfRange(range, a + 1) THEN range.addr + 2 ELSE a + 1

\* The addresses a range can hand out.
Capacity(range) == range.last - range.addr - 2

InitialCurrent(cfg) ==
    [f \in Families |-> IF cfg[f] = None THEN None ELSE cfg[f].addr + 1]

-----------------------------------------------------------------------------
(* The storage.                                                            *)

FakeIPLoad(f, a) == addressCache[f][a]
FakeIPLoadDomain(f, d) == domainCache[f][d]

\* Bind the address to the domain and forget the one it was bound to.
FakeIPStore(f, a, d) ==
    /\ addressCache' = [addressCache EXCEPT ![f][a] = d]
    /\ domainCache' = [domainCache EXCEPT ![f] =
            [e \in Domains |-> IF e = d THEN a
                               ELSE IF e = addressCache[f][a] THEN None ELSE @[e]]]
    /\ buckets' = IF storeFakeIP THEN buckets \cup {AddressBucket, f} ELSE buckets
    /\ UNCHANGED metadata

\* The transaction that deletes the three buckets fails as a whole when one
\* of them does not exist; a map in memory is always replaced.
ResetSucceeds == ~storeFakeIP \/ buckets = AllBuckets

\* The storage after FakeIPReset; keptMetadata is what is left of the
\* metadata when the transaction fails.
FakeIPReset(keptMetadata) ==
    IF ResetSucceeds
    THEN /\ addressCache' = NoDomains
         /\ domainCache' = NoAddresses
         /\ buckets' = {}
         /\ metadata' = None
    ELSE metadata' = keptMetadata /\ UNCHANGED <<addressCache, domainCache, buckets>>

FakeIPSaveMetadata(saved) ==
    /\ metadata' = IF storeFakeIP THEN saved ELSE None
    /\ buckets' = IF storeFakeIP THEN buckets \cup {AddressBucket} ELSE buckets
    /\ UNCHANGED <<addressCache, domainCache>>

\* The first call makes the timer, with this metadata in its closure; later
\* calls only restart it.
FakeIPSaveMetadataAsync(saved) ==
    IF storeFakeIP
    THEN /\ timerSaves' = IF timerSaves = None THEN saved ELSE timerSaves
         /\ timerArmed' = TRUE
    ELSE UNCHANGED timer

-----------------------------------------------------------------------------
Init ==
    /\ running = "down"
    /\ storeFakeIP \in Storages
    /\ inetRange \in Configs
    /\ current = [f \in Families |-> None]
    /\ addressCache = NoDomains
    /\ domainCache = NoAddresses
    /\ buckets = {}
    /\ metadata = None
    /\ timerSaves = None
    /\ timerArmed = FALSE
    /\ pc = [c \in Clients |-> "idle"]
    /\ request = [c \in Clients |-> None]
    /\ answer = [c \in Clients |-> None]
    /\ recent = [f \in Families |-> <<>>]

\* Start with a configuration.  The metadata is taken out of the file; if it
\* was saved under other ranges, or not at all, the counters begin again and
\* the storage is reset, whatever that returns.
Start(cfg) ==
    /\ running = "down"
    /\ running' = "up"
    /\ inetRange' = cfg
    /\ \/ /\ metadata # None /\ metadata.range = cfg
          /\ current' = metadata.current
          /\ metadata' = None
          /\ UNCHANGED <<addressCache, domainCache, buckets>>
       \/ /\ ~(metadata # None /\ metadata.range = cfg)
          /\ current' = InitialCurrent(cfg)
          /\ FakeIPReset(None)
    /\ recent' = [f \in Families |-> <<>>]
    /\ UNCHANGED <<storeFakeIP, timer, calls>>

\* A DNS query: the load outside the lock finds the domain, or does not.
CallCreate(c, f, d) ==
    /\ running # "down"
    /\ pc[c] = "idle"
    /\ request' = [request EXCEPT ![c] = <<f, d>>]
    /\ \/ /\ FakeIPLoadDomain(f, d) # None
          /\ answer' = [answer EXCEPT ![c] = FakeIPLoadDomain(f, d)]
          /\ pc' = [pc EXCEPT ![c] = "done"]
       \/ /\ FakeIPLoadDomain(f, d) = None
          /\ pc' = [pc EXCEPT ![c] = "lock"]
          /\ UNCHANGED answer
    /\ UNCHANGED <<running, storeFakeIP, inetRange, current, storage, timer, recent>>

Family(c) == request[c][1]
Domain(c) == request[c][2]

Answer(c, a) ==
    /\ answer' = [answer EXCEPT ![c] = a]
    /\ pc' = [pc EXCEPT ![c] = "done"]
    /\ UNCHANGED request

\* Mutant: the domain is not looked for again under the lock.
NeverBound(c) == FALSE

\* The double check under addressAccess.
AlreadyBound(c) == FakeIPLoadDomain(Family(c), Domain(c)) # None

CreateFound(c) ==
    /\ pc[c] = "lock"
    /\ AlreadyBound(c)
    /\ Answer(c, FakeIPLoadDomain(Family(c), Domain(c)))
    /\ UNCHANGED <<running, storeFakeIP, inetRange, current, storage, timer, recent>>

\* The family has no range: an error, and no answer.
CreateNoRange(c) ==
    /\ pc[c] = "lock"
    /\ ~AlreadyBound(c)
    /\ current[Family(c)] = None
    /\ Answer(c, None)
    /\ UNCHANGED <<running, storeFakeIP, inetRange, current, storage, timer, recent>>

\* The newest addresses, at most as many as the range can hand out.
Latest(range, seq) ==
    SubSeq(seq, IF Len(seq) > Capacity(range) THEN Len(seq) - Capacity(range) + 1 ELSE 1, Len(seq))

\* Take the next address, store the binding (an error of the storage is only
\* logged) and schedule the metadata to be saved.
CreateAllocates(c) ==
    /\ pc[c] = "lock"
    /\ ~AlreadyBound(c)
    /\ current[Family(c)] # None
    /\ LET f == Family(c)
           address == NextAddress(inetRange[f], current[f])
       IN /\ current' = [current EXCEPT ![f] = address]
          /\ recent' = [recent EXCEPT ![f] = Latest(inetRange[f], Append(@, address))]
          /\ \/ FakeIPStore(f, address, Domain(c))
             \/ storeFakeIP /\ UNCHANGED storage
          /\ Answer(c, address)
    /\ FakeIPSaveMetadataAsync([range |-> inetRange, current |-> current'])
    /\ UNCHANGED <<running, storeFakeIP, inetRange>>

\* The caller goes on with its answer and may ask again.
CallerProceeds(c) ==
    /\ pc[c] = "done"
    /\ pc' = [pc EXCEPT ![c] = "idle"]
    /\ request' = [request EXCEPT ![c] = None]
    /\ answer' = [answer EXCEPT ![c] = None]
    /\ UNCHANGED <<running, storeFakeIP, inetRange, current, storage, timer, recent>>

\* Store.Reset, and over the cache file the flush request of the Clash API.
Reset ==
    /\ running # "down"
    /\ FakeIPReset(metadata)
    /\ UNCHANGED <<running, storeFakeIP, inetRange, current, timer, calls, recent>>

SaveTimerFires ==
    /\ running # "down"
    /\ timerArmed
    /\ timerArmed' = FALSE
    /\ FakeIPSaveMetadata(timerSaves)
    /\ UNCHANGED <<running, storeFakeIP, inetRange, current, timerSaves, calls, recent>>

\* Close saves the metadata; the cache file is closed later.
Close ==
    /\ running = "up"
    /\ running' = "closing"
    /\ FakeIPSaveMetadata([range |-> inetRange, current |-> current])
    /\ UNCHANGED <<storeFakeIP, inetRange, current, timer, calls, recent>>

\* The program ends: cleanly once the store is closed, or at any moment by a
\* crash.  Calls and timers end with it, and so does what was in memory.
Stop ==
    /\ running # "down"
    /\ running' = "down"
    /\ timerSaves' = None
    /\ timerArmed' = FALSE
    /\ pc' = [c \in Clients |-> "idle"]
    /\ request' = [c \in Clients |-> None]
    /\ answer' = [c \in Clients |-> None]
    /\ IF storeFakeIP THEN UNCHANGED storage
       ELSE /\ addressCache' = NoDomains
            /\ domainCache' = NoAddresses
            /\ UNCHANGED <<buckets, metadata>>
    /\ UNCHANGED <<storeFakeIP, inetRange, current, recent>>

\* A corrupted file is removed and opened again, empty.
ResetDB ==
    /\ running # "down"
    /\ storeFakeIP
    /\ addressCache' = NoDomains
    /\ domainCache' = NoAddresses
    /\ buckets' = {}
    /\ metadata' = None
    /\ UNCHANGED <<running, storeFakeIP, inetRange, current, timer, calls, recent>>

Create(c) ==
    \/ \E f \in Families, d \in Domains : CallCreate(c, f, d)
    \/ CreateFound(c) \/ CreateNoRange(c) \/ CreateAllocates(c) \/ CallerProceeds(c)

Next ==
    \/ \E cfg \in Configs : Start(cfg)
    \/ \E c \in Clients : Create(c)
    \/ Reset \/ SaveTimerFires \/ Close \/ Stop \/ ResetDB

Spec == Init /\ [][Next]_vars

-----------------------------------------------------------------------------
(* Properties.                                                             *)

\* The two maps are inverse to each other: a domain is answered with an
\* address exactly if connections to that address are routed to that domain.
\* It is what the double check in Create and the deletion of the old domain
\* in FakeIPStore are for, and it must survive crashes and failed resets.
InverseMaps ==
    \A f \in Families, a \in Addresses, d \in Domains :
        addressCache[f][a] = d <=> domainCache[f][d] = a

\* The counter stands on the second address of its range or on one that can
\* be handed out, also when it was restored from saved metadata ...
GoodCounter(cfg, counter) ==
    \A f \in Families :
        IF cfg[f] = None THEN counter[f] = None
        ELSE counter[f] \in Addresses /\ cfg[f].addr < counter[f] /\ counter[f] < cfg[f].last

\* ... so no network or broadcast address and none out of the configured
\* range is ever handed out anew.
CountersInRange ==
    /\ running # "down" => GoodCounter(inetRange, current)
    /\ metadata # None => GoodCounter(metadata.range, metadata.current)
    /\ timerSaves # None => GoodCounter(timerSaves.range, timerSaves.current)

\* The latest addresses handed out in one run, as many as the range holds,
\* are pairwise different: an address changes hands only after all others.
RoundRobin ==
    \A f \in Families : \A i, j \in 1..Len(recent[f]) :
        recent[f][i] = recent[f][j] => i = j

\* Every address answered is in the range configured for its family.
AnswersInRange ==
    \A c \in Clients : pc[c] = "done" /\ answer[c] # None /\ inetRange[Family(c)] # None =>
        Contains(inetRange[Family(c)], answer[c])

\* Over the in-memory storage they all are.
MemoryAnswersInRange == ~storeFakeIP => AnswersInRange

\* Without a cache file no binding outlives the run, hence the range, that
\* made it.
MemoryInRange ==
    ~storeFakeIP =>
        /\ AnswersInRange
        /\ \A f \in Families, d \in Domains : domainCache[f][d] # None =>
            /\ running # "down"
            /\ inetRange[f] # None
            /\ Contains(inetRange[f], domainCache[f][d])

\* The inductive invariant: types, the bijection, the counters (the running
\* one, the saved one and the one a timer is about to save) and, without a
\* cache file, the range of every binding.
IInv == TypeOK /\ InverseMaps /\ CountersInRange /\ MemoryInRange
=============================================================================
