---------------------------- MODULE MCDNSClient ----------------------------
(***************************************************************************)
(* Small configurations of the DNS client: the server t1 is named by the   *)
(* domain of question b and resolves it with t2.                           *)
(***************************************************************************)
EXTENDS DNSClient, TLC

CONSTANTS a, b, t1, t2, f1, f2, good, bad

Query(x, t, f, lookup) ==
    [question |-> x, transport |-> t, context |-> NoTransport,
     checker |-> f, disableCache |-> FALSE, lookup |-> lookup]

\* f1 and f2 accept different answers.
TwoFilters == {<<f1, good>>, <<f2, bad>>}
GoodOnly == {<<f1, good>>}

T1ByName == [t \in {t1, t2} |-> IF t = t1 THEN t2 ELSE NoTransport]
\* t2 goes through an outbound whose server name is looked up with t2 again.
T2Loops == [t \in {t1, t2} |-> t2]
NameIsB == [t \in {t1, t2} |-> b]

\* One record that outlives another, or all alike.
Unequal == {{}, {2}, {1, 2}}
Alike == {{}, {1}}

\* A filtered rule for t1 and the default server t2.
FilterThenDefault == {Query(a, t1, f1, FALSE), Query(a, t2, NoFilter, TRUE)}
\* Each server has a rule with a filter of its own.
FilteredServers == {Query(a, t1, f1, FALSE), Query(a, t2, f2, TRUE)}
\* A client asks t1 for the domain t1 is named by.
OwnName == {Query(b, t1, NoFilter, FALSE)}
\* The same, beside a query for another question.
OwnNameAndOther == OwnName \cup {Query(a, t2, NoFilter, TRUE)}

\* Queries differ only in what they are called with.
QuerySymmetry == Permutations(Queries)
=============================================================================
