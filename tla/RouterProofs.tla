---------------------------- MODULE RouterProofs ----------------------------
(***************************************************************************)
(* Proofs about the router, the DNS router and rule matching.              *)
(***************************************************************************)
EXTENDS Router, WellFoundedInduction, TLAPS

\* A set of natural numbers has a least element.
LEMMA LeastElement ==
    ASSUME NEW S, S \subseteq Nat, S # {}
    PROVE  \E least \in S : \A m \in S : least <= m
  <1> DEFINE R == OpToRel(<, Nat)
  <1>1. \A x, y \in Nat : y < x => <<y, x>> \in R BY DEF OpToRel
  <1>2. IsWellFoundedOn(R, Nat) BY NatLessThanWellFounded
  <1> HIDE DEF R
  <1>3. PICK x \in S : \A y \in S : ~(<<y, x>> \in R) BY <1>2, WFMin
  <1>4. \A y \in S : ~(y < x) BY <1>1, <1>3
  <1>. QED BY <1>3, <1>4

-----------------------------------------------------------------------------
(* Rules match as documented.                                              *)

\* An inverted rule with nothing but addresses, none of which are looked at yet,
\* is not decided.
Deferred(r, m) == m.ignore /\ r.invert /\ ~DidMatch(r) /\ r.cidr # {}

\* What the states of a rule say: the documented formula, in which a rule that is
\* not decided passes.
LeafAccepts(l, outer, m) == Deferred(l, m) \/ LeafHolds(l, outer, m)

BranchAccepts(h, outer, need, m) ==
    LET parts == Parts(h)
        any == \E p \in parts : /\ LeafAccepts(p, outer, m)
                                /\ need \subseteq outer \cup Contributes(p, m)
        all == /\ \A p \in parts : LeafAccepts(p, outer, m)
               /\ need \subseteq outer \cup UNION {Contributes(p, m) : p \in parts}
        alone == IF h.mode = "and" THEN \A p \in parts : LeafAccepts(p, {}, m)
                 ELSE \E p \in parts : LeafAccepts(p, {}, m)
    IN  IF ~h.logical THEN any
        ELSE IF h.invert THEN ~alone /\ need \subseteq outer
        ELSE IF h.mode = "and" THEN all ELSE any

DefaultAccepts(r, m) ==
    LET nested == [m EXCEPT !.matchSource = r.matchSource, !.acceptEmpty = r.acceptEmpty]
    IN  \/ Deferred(r, m)
        \/ r.invert # (/\ ItemsMatch(r, m)
                       /\ IF r.sets = {} THEN Required(r, m) \subseteq Matched(r, m)
                          ELSE \E t \in r.sets : \E h \in sets[t] :
                                BranchAccepts(h, Matched(r, m), Required(r, m), nested))

Accepts(r, m) ==
    IF ~r.logical THEN DefaultAccepts(r, m)
    ELSE r.invert # IF r.mode = "and" THEN \A p \in Parts(r) : DefaultAccepts(p, m)
                    ELSE \E p \in Parts(r) : DefaultAccepts(p, m)

\* Nothing is needed of a rule that is not decided, and nothing has matched.
LEMMA DeferredIsOpen ==
    ASSUME NEW r, NEW m, Deferred(r, m)
    PROVE  ItemsMatch(r, m) /\ Required(r, m) = {} /\ Matched(r, m) = {} /\ r.sets = {}
  <1>1. CIDRGroup(r, m) = {} BY DEF Deferred, CIDRGroup
  <1>2. r.items = {} /\ r.sets = {} /\ \A g \in Groups : r.on[g] = {} BY DEF Deferred, DidMatch
  <1>. QED BY <1>1, <1>2 DEF ItemsMatch, Required, Matched

\* A rule of a rule-set returns one state or none.
LEMMA LeafReturns ==
    ASSUME NEW l, NEW m, NEW base, m.ignore \in BOOLEAN, l.invert \in BOOLEAN
    PROVE  LeafStates(l, m, base) =
             IF LeafAccepts(l, base, m) THEN {base \cup Contributes(l, m)} ELSE {}
  <1>1. CASE l.invert
    <2>1. SetBase(l, m, base) = Matched(l, m) BY <1>1 DEF SetBase, EvaluationBase
    <2>2. InvertedFailure(l, base) = {base} BY <1>1 DEF InvertedFailure
    <2>3. base \cup Contributes(l, m) = base BY <1>1 DEF Contributes
    <2>4. CASE Deferred(l, m)
      <3>1. Matched(l, m) = {} BY <2>4, DeferredIsOpen
      <3>. QED BY <1>1, <2>1, <2>2, <2>3, <2>4, <3>1, DeferredIsOpen DEF LeafStates, DefaultStates, LeafAccepts, Deferred
    <2>5. CASE ~Deferred(l, m)
      <3>1. ~(m.ignore /\ ~DidMatch(l) /\ l.cidr # {}) BY <1>1, <2>5 DEF Deferred
      <3>. QED BY <1>1, <2>1, <2>2, <2>3, <2>5, <3>1 DEF LeafStates, DefaultStates, LeafAccepts, LeafHolds
    <2>. QED BY <2>4, <2>5
  <1>2. CASE ~l.invert
    <2>1. SetBase(l, m, base) = base \cup Matched(l, m) BY <1>2 DEF SetBase, EvaluationBase
    <2>2. InvertedFailure(l, base) = {} BY <1>2 DEF InvertedFailure
    <2>3. Contributes(l, m) = Matched(l, m) BY <1>2 DEF Contributes
    <2>4. base \cup Matched(l, m) = Matched(l, m) \cup base OBVIOUS
    <2>5. LeafAccepts(l, base, m) <=> LeafHolds(l, base, m) BY <1>2 DEF LeafAccepts, Deferred
    <2>. QED BY <1>2, <2>1, <2>2, <2>3, <2>4, <2>5 DEF LeafStates, DefaultStates, LeafHolds
  <1>. QED BY <1>1, <1>2

\* f holds the states after 0, 1, ..., n rules.
Loop(f, n, base, states) ==
    f = [k \in 0 .. n |-> IF k = 0 THEN {base} ELSE Combine(f[k - 1], states[k])]

\* AllOf computes them: one more rule extends what was computed for the ones
\* before it.
LEMMA AllOfComputes ==
    ASSUME NEW n \in Nat, NEW base, NEW states
    PROVE  Loop(AllOf(n, base, states), n, base, states)
  <1> DEFINE Open == {k \in 0 .. n : ~\E f : Loop(f, k, base, states)}
  <1>1. Open = {}
    <2> SUFFICES ASSUME Open # {} PROVE FALSE OBVIOUS
    <2>0. Open \subseteq Nat OBVIOUS
    <2>1. PICK k \in Open : \A j \in Open : k <= j
      <3> HIDE DEF Open
      <3>. QED BY <2>0, LeastElement
    <2>2. k # 0
      <3> DEFINE f == [i \in 0 .. 0 |-> {base}]
      <3>1. Loop(f, 0, base, states) BY DEF Loop
      <3>. QED BY <2>1, <3>1
    <2>3. k \in Nat \ {0} /\ k - 1 \in 0 .. n /\ ~(k <= k - 1) BY <2>1, <2>2
    <2>4. PICK g : Loop(g, k - 1, base, states) BY <2>1, <2>3
    <2> DEFINE h == [i \in 0 .. k |-> IF i < k THEN g[i] ELSE Combine(g[k - 1], states[k])]
    <2>5. Loop(h, k, base, states)
      <3> SUFFICES ASSUME NEW i \in 0 .. k
                   PROVE  h[i] = IF i = 0 THEN {base} ELSE Combine(h[i - 1], states[i])
        BY DEF Loop
      <3>1. CASE i < k
        <4>1. i \in 0 .. (k - 1) BY <2>3, <3>1
        <4>2. g[i] = IF i = 0 THEN {base} ELSE Combine(g[i - 1], states[i]) BY <2>4, <4>1 DEF Loop
        <4>3. h[i] = g[i] /\ (i # 0 => h[i - 1] = g[i - 1]) BY <2>3, <3>1, <4>1
        <4>. QED BY <4>2, <4>3
      <3>2. CASE i = k
        <4>1. h[i - 1] = g[k - 1] /\ i # 0 BY <2>3, <3>2
        <4>2. h[i] = Combine(g[k - 1], states[k]) BY <2>3, <3>2
        <4>. QED BY <3>2, <4>1, <4>2
      <3>. QED BY <2>3, <3>1, <3>2
    <2> HIDE DEF h
    <2>. QED BY <2>1, <2>5
  <1>2. \E f : Loop(f, n, base, states) BY <1>1
  <1>3. AllOf(n, base, states) = CHOOSE f : Loop(f, n, base, states) BY DEF AllOf, Loop
  <1>. QED BY <1>2, <1>3, Zenon

\* Single states are combined to one.
LEMMA CombineSingles == \A s, t : Combine({s}, {t}) = {s \cup t}
  BY DEF Combine

\* Where there is a state on both sides they are combined to some.
LEMMA CombineSome == \A left, right : Combine(left, right) # {} <=> left # {} /\ right # {}
  <1> SUFFICES ASSUME NEW left, NEW right PROVE Combine(left, right) # {} <=> left # {} /\ right # {}
    OBVIOUS
  <1>1. ASSUME NEW s \in left, NEW t \in right PROVE s \cup t \in Combine(left, right) BY DEF Combine
  <1>2. Combine(left, right) # {} => left # {} /\ right # {} BY DEF Combine
  <1>. QED BY <1>1, <1>2

\* The states of rules all of which are needed: one, with what all of them add,
\* or none.
LEMMA AllOfReturns ==
    ASSUME NEW n \in Nat, NEW base, NEW holds \in [1 .. n -> BOOLEAN], NEW adds,
           NEW states, \A i \in 1 .. n : states[i] = IF holds[i] THEN {base \cup adds[i]} ELSE {}
    PROVE  AllOf(n, base, states)[n] =
             IF \A i \in 1 .. n : holds[i] THEN {base \cup UNION {adds[i] : i \in 1 .. n}} ELSE {}
  <1> DEFINE Added(k) == UNION {adds[i] : i \in 1 .. k}
             Ends(k) == IF \A i \in 1 .. k : holds[i]
                         THEN {base \cup Added(k)} ELSE {}
             f == AllOf(n, base, states)
  <1>0. Ends(0) = {base} OBVIOUS
  <1>1. \A k \in 1 .. n : Ends(k) = Combine(Ends(k - 1), states[k])
    <2> SUFFICES ASSUME NEW k \in 1 .. n PROVE Ends(k) = Combine(Ends(k - 1), states[k]) OBVIOUS
    <2>1. 1 .. k = (1 .. (k - 1)) \cup {k} OBVIOUS
    <2>2. Added(k) = Added(k - 1) \cup adds[k]
      <3>1. \A j, x : x \in Added(j) <=> \E i \in 1 .. j : x \in adds[i] OBVIOUS
      <3>2. \A x : (\E i \in 1 .. k : x \in adds[i])
                     <=> (\E i \in 1 .. (k - 1) : x \in adds[i]) \/ x \in adds[k]
        BY <2>1
      <3> HIDE DEF Added
      <3>. QED BY <3>1, <3>2
    <2>3. (\A i \in 1 .. k : holds[i]) <=> (\A i \in 1 .. (k - 1) : holds[i]) /\ holds[k] BY <2>1
    <2>4. states[k] = IF holds[k] THEN {base \cup adds[k]} ELSE {} OBVIOUS
    <2> DEFINE A == Added(k - 1)
    <2>5. (base \cup A) \cup (base \cup adds[k]) = base \cup (A \cup adds[k]) OBVIOUS
    <2>6. CASE \A i \in 1 .. k : holds[i]
      <3>1. Ends(k - 1) = {base \cup A} /\ states[k] = {base \cup adds[k]} BY <2>3, <2>4, <2>6
      <3>2. Ends(k) = {base \cup (A \cup adds[k])} BY <2>2, <2>6
      <3> HIDE DEF A, Ends, Added
      <3>3. Combine({base \cup A}, {base \cup adds[k]}) = {(base \cup A) \cup (base \cup adds[k])}
        BY CombineSingles
      <3>. QED BY <2>5, <3>1, <3>2, <3>3
    <2>7. CASE ~\A i \in 1 .. k : holds[i]
      <3>1. Ends(k - 1) = {} \/ states[k] = {} BY <2>3, <2>4, <2>7
      <3>2. Ends(k) = {} BY <2>7
      <3> HIDE DEF Ends
      <3>. QED BY <3>1, <3>2 DEF Combine
    <2>. QED BY <2>6, <2>7
  <1> HIDE DEF Ends
  <1>2. Loop(f, n, base, states) BY AllOfComputes
  <1> HIDE DEF f
  <1>5. \A k \in 0 .. n : f[k] = IF k = 0 THEN {base} ELSE Combine(f[k - 1], states[k])
    BY <1>2 DEF Loop
  <1> DEFINE Bad == {k \in 0 .. n : f[k] # Ends(k)}
  <1>6. Bad = {}
    <2> SUFFICES ASSUME Bad # {} PROVE FALSE OBVIOUS
    <2>0. Bad \subseteq Nat OBVIOUS
    <2>1. PICK k \in Bad : \A j \in Bad : k <= j
      <3> HIDE DEF Bad
      <3>. QED BY <2>0, LeastElement
    <2>2. k # 0 BY <1>0, <1>5, <2>1
    <2>3. k \in 1 .. n /\ k - 1 \in 0 .. n /\ ~(k <= k - 1) BY <2>1, <2>2
    <2>4. f[k - 1] = Ends(k - 1) BY <2>1, <2>3
    <2>. QED BY <1>1, <1>5, <2>1, <2>2, <2>3, <2>4
  <1>7. f[n] = Ends(n) BY <1>6
  <1>. QED BY <1>7 DEF f, Ends, Added

\* Metadata, of a connection or of a query.
Metas ==
    [source : {Source}, sourcePort : {SourcePort}, domain : Domains \cup {None},
     fqdn : Domains \cup {None}, ip : Addresses \cup {None}, port : Ports \cup {0},
     protocol : {None, "tls"}, addresses : SUBSET Addresses, ignore : BOOLEAN,
     matchSource : BOOLEAN, acceptEmpty : BOOLEAN]

\* What the flags of a rule_set item leave alone.
Alike(m, k) ==
    /\ m.source = k.source /\ m.sourcePort = k.sourcePort /\ m.domain = k.domain /\ m.fqdn = k.fqdn
    /\ m.ip = k.ip /\ m.port = k.port /\ m.protocol = k.protocol /\ m.addresses = k.addresses
    /\ m.ignore = k.ignore

\* Resetting or setting the flags changes nothing else.
LEMMA FlagsOnly ==
    ASSUME NEW m \in Metas
    PROVE  /\ ResetRuleCache(m) \in Metas /\ Alike(ResetRuleCache(m), m)
           /\ ResetRuleCache(m).matchSource = FALSE /\ ResetRuleCache(m).acceptEmpty = FALSE
           /\ (m.matchSource = FALSE /\ m.acceptEmpty = FALSE) => ResetRuleCache(m) = m
           /\ \A s, e \in BOOLEAN :
                LET k == [m EXCEPT !.matchSource = s, !.acceptEmpty = e]
                IN  k \in Metas /\ Alike(k, m) /\ k.matchSource = s /\ k.acceptEmpty = e
  <1>1. \A s, e \in BOOLEAN :
            LET k == [m EXCEPT !.matchSource = s, !.acceptEmpty = e]
            IN  k \in Metas /\ Alike(k, m) /\ k.matchSource = s /\ k.acceptEmpty = e
    <2> SUFFICES ASSUME NEW s \in BOOLEAN, NEW e \in BOOLEAN
                 PROVE  LET k == [m EXCEPT !.matchSource = s, !.acceptEmpty = e]
                        IN  k \in Metas /\ Alike(k, m) /\ k.matchSource = s /\ k.acceptEmpty = e
      OBVIOUS
    <2> DEFINE k == [m EXCEPT !.matchSource = s, !.acceptEmpty = e]
    <2>1. k \in Metas BY DEF Metas
    <2>2. Alike(k, m) BY DEF Metas, Alike
    <2>3. k.matchSource = s /\ k.acceptEmpty = e BY DEF Metas
    <2>. QED BY <2>1, <2>2, <2>3
  <1>2. m.matchSource = FALSE /\ m.acceptEmpty = FALSE => ResetRuleCache(m) = m
    BY DEF ResetRuleCache, Metas
  <1>. QED BY <1>1, <1>2 DEF ResetRuleCache

\* A rule without addresses does not see the flags.
LEMMA FlagsUnseen ==
    ASSUME NEW l, NEW m, NEW k, Alike(m, k), l.cidr = {}
    PROVE  /\ Matched(l, m) = Matched(l, k) /\ Required(l, m) = Required(l, k)
           /\ ItemsMatch(l, m) <=> ItemsMatch(l, k)
           /\ \A outer : LeafAccepts(l, outer, m) <=> LeafAccepts(l, outer, k)
           /\ Contributes(l, m) = Contributes(l, k)
  <1>1. CIDRGroup(l, m) = {} /\ CIDRGroup(l, k) = {} BY DEF CIDRGroup
  <1>2. \A g \in Groups : Value(m, g) = Value(k, g) BY DEF Value, Host, Alike
  <1>. QED BY <1>1, <1>2 DEF Matched, Required, ItemsMatch, LeafAccepts, LeafHolds, Deferred, Contributes, Alike

\* The rules of a logical rule, seen with reset flags and with the flags of the
\* rule_set item.
LEMMA ResetUnseen ==
    ASSUME NEW m \in Metas, NEW l, (m.matchSource \/ m.acceptEmpty) => l.cidr = {}
    PROVE  /\ \A outer : LeafAccepts(l, outer, ResetRuleCache(m)) <=> LeafAccepts(l, outer, m)
           /\ Contributes(l, ResetRuleCache(m)) = Contributes(l, m)
  <1>1. CASE m.matchSource \/ m.acceptEmpty
    <2> DEFINE k == ResetRuleCache(m)
    <2>1. Alike(k, m) BY FlagsOnly
    <2> HIDE DEF k
    <2>2. /\ \A outer : LeafAccepts(l, outer, k) <=> LeafAccepts(l, outer, m)
          /\ Contributes(l, k) = Contributes(l, m)
      BY <1>1, <2>1, FlagsUnseen
    <2>. QED BY <2>2 DEF k
  <1>2. CASE ~(m.matchSource \/ m.acceptEmpty)
    <2>1. m.matchSource = FALSE /\ m.acceptEmpty = FALSE BY <1>2 DEF Metas
    <2>. QED BY <2>1, FlagsOnly
  <1>. QED BY <1>1, <1>2

\* What the rules of a logical rule of a rule-set return.
LEMMA PartsReturn ==
    ASSUME NEW h, IsHeadlessRule(h), h.logical, NEW m \in Metas, NEW base, NEW i \in 1 .. Len(h.rules),
           (m.matchSource \/ m.acceptEmpty) => h.rules[i].cidr = {}
    PROVE  LeafStates(h.rules[i], ResetRuleCache(m), base) =
             IF LeafAccepts(h.rules[i], base, m) THEN {base \cup Contributes(h.rules[i], m)} ELSE {}
  <1>1. ResetRuleCache(m).ignore \in BOOLEAN BY FlagsOnly DEF Metas
  <1>2. h.rules[i].invert \in BOOLEAN BY DEF IsHeadlessRule, Parts
  <1>3. LeafStates(h.rules[i], ResetRuleCache(m), base) =
             IF LeafAccepts(h.rules[i], base, ResetRuleCache(m))
             THEN {base \cup Contributes(h.rules[i], ResetRuleCache(m))} ELSE {}
    <2> DEFINE k == ResetRuleCache(m)
               l == h.rules[i]
    <2>1. k.ignore \in BOOLEAN /\ l.invert \in BOOLEAN BY <1>1, <1>2
    <2> HIDE DEF k, l
    <2>2. LeafStates(l, k, base) = IF LeafAccepts(l, base, k) THEN {base \cup Contributes(l, k)} ELSE {}
      BY <2>1, LeafReturns
    <2>. QED BY <2>2 DEF k, l
  <1>. QED BY <1>3, ResetUnseen

\* A rule of a rule-set, merged into the rule that includes it, ends in a state
\* with all groups the latter needs exactly when the documented formula holds.
LEMMA BranchesMatch ==
    ASSUME NEW h, IsHeadlessRule(h), NEW m \in Metas, NEW base, NEW need,
           h.logical /\ (m.matchSource \/ m.acceptEmpty) => \A l \in Parts(h) : l.cidr = {}
    PROVE  (\E s \in HeadlessStates(h, m, base) : need \subseteq s) <=> BranchAccepts(h, base, need, m)
  <1>1. CASE ~h.logical
    <2>1. HeadlessStates(h, m, base) =
            IF LeafAccepts(h, base, m) THEN {base \cup Contributes(h, m)} ELSE {}
      BY <1>1, LeafReturns DEF HeadlessStates, IsHeadlessRule, Metas
    <2>2. Parts(h) = {h} BY <1>1 DEF Parts
    <2>. QED BY <1>1, <2>1, <2>2 DEF BranchAccepts
  <1>2. CASE h.logical
    <2> DEFINE n == Len(h.rules)
               b == EvaluationBase(h, base)
               states == [i \in 1 .. n |-> LeafStates(h.rules[i], ResetRuleCache(m), b)]
               holds == [i \in 1 .. n |-> LeafAccepts(h.rules[i], b, m)]
               adds == [i \in 1 .. n |-> Contributes(h.rules[i], m)]
    <2>0. n \in Nat BY DEF IsHeadlessRule
    <2>1. HeadlessStates(h, m, base) = LogicalStates(h, base, states) BY <1>2 DEF HeadlessStates
    <2>2. Parts(h) = {h.rules[i] : i \in 1 .. n} BY <1>2 DEF Parts
    <2>3. \A i \in 1 .. n : states[i] = IF LeafAccepts(h.rules[i], b, m)
                                        THEN {b \cup Contributes(h.rules[i], m)} ELSE {}
      <3> SUFFICES ASSUME NEW i \in 1 .. n
                   PROVE  states[i] = IF LeafAccepts(h.rules[i], b, m)
                                      THEN {b \cup Contributes(h.rules[i], m)} ELSE {}
        OBVIOUS
      <3>1. (m.matchSource \/ m.acceptEmpty) => h.rules[i].cidr = {} BY <1>2, <2>2
      <3> HIDE DEF b
      <3>. QED BY <1>2, <3>1, PartsReturn DEF n
    <2>4. /\ holds \in [1 .. n -> BOOLEAN]
          /\ \A i \in 1 .. n : holds[i] <=> LeafAccepts(h.rules[i], b, m)
          /\ \A i \in 1 .. n : adds[i] = Contributes(h.rules[i], m)
      BY DEF LeafAccepts, LeafHolds, ItemsMatch, Deferred
    <2>5. \A i \in 1 .. n : states[i] = IF holds[i] THEN {b \cup adds[i]} ELSE {} BY <2>3, <2>4
    <2> HIDE DEF n, states, holds, adds, b
    <2>6. AllOf(n, b, states)[n] =
            IF \A i \in 1 .. n : holds[i] THEN {b \cup UNION {adds[i] : i \in 1 .. n}} ELSE {}
      <3>1. holds \in [1 .. n -> BOOLEAN] BY <2>4
      <3>. QED BY <2>0, <2>5, <3>1, AllOfReturns
    <2>7. UNION {adds[i] : i \in 1 .. n} = UNION {Contributes(p, m) : p \in Parts(h)}
      BY <2>2, <2>4
    <2>8. (\A i \in 1 .. n : holds[i]) <=> \A p \in Parts(h) : LeafAccepts(p, b, m) BY <2>2, <2>4
    <2>9. CASE h.mode = "and"
      <3> DEFINE A == UNION {Contributes(p, m) : p \in Parts(h)}
                 H == \A p \in Parts(h) : LeafAccepts(p, b, m)
      <3>1. AllOf(n, b, states)[n] = IF H THEN {b \cup A} ELSE {} BY <2>6, <2>7, <2>8
      <3>2. CASE h.invert
        <4>1. b = {} BY <3>2 DEF b, EvaluationBase
        <4>2. LogicalStates(h, base, states) = IF H THEN {} ELSE {base}
          <5> HIDE DEF A, H
          <5>. QED BY <2>9, <3>1, <3>2 DEF LogicalStates, InvertedFailure, n, b
        <4>. QED BY <1>2, <2>1, <2>9, <3>2, <4>1, <4>2 DEF BranchAccepts
      <3>3. CASE ~h.invert
        <4>1. b = base BY <3>3 DEF b, EvaluationBase
        <4>2. LogicalStates(h, base, states) = IF H THEN {base \cup A} ELSE {}
          <5> HIDE DEF A, H
          <5>. QED BY <2>9, <3>1, <3>3, <4>1 DEF LogicalStates, InvertedFailure, n, b
        <4>. QED BY <1>2, <2>1, <2>9, <3>3, <4>1, <4>2 DEF BranchAccepts
      <3>. QED BY <3>2, <3>3
    <2>10. CASE h.mode # "and"
      <3> DEFINE any == UNION {states[i] : i \in 1 .. n}
      <3>1. \A s : s \in any <=> \E p \in Parts(h) : LeafAccepts(p, b, m) /\ s = b \cup Contributes(p, m)
        <4>1. \A s : s \in any <=> \E i \in 1 .. n : s \in states[i] OBVIOUS
        <4>2. \A s : \A i \in 1 .. n :
                s \in states[i] <=> LeafAccepts(h.rules[i], b, m) /\ s = b \cup Contributes(h.rules[i], m)
          BY <2>3
        <4> HIDE DEF any
        <4>. QED BY <2>2, <4>1, <4>2
      <3>2. CASE h.invert
        <4>1. b = {} BY <3>2 DEF b, EvaluationBase
        <4>2. LogicalStates(h, base, states) = IF any = {} THEN {base} ELSE {}
          BY <2>10, <3>2 DEF LogicalStates, InvertedFailure, n
        <4>3. any = {} <=> ~\E p \in Parts(h) : LeafAccepts(p, {}, m)
          <5> HIDE DEF any
          <5>. QED BY <3>1, <4>1
        <4> HIDE DEF any
        <4>. QED BY <1>2, <2>1, <2>10, <3>2, <4>2, <4>3 DEF BranchAccepts
      <3>3. CASE ~h.invert
        <4>1. b = base BY <3>3 DEF b, EvaluationBase
        <4>2. LogicalStates(h, base, states) = any
          BY <2>10, <3>3 DEF LogicalStates, InvertedFailure, n
        <4> HIDE DEF any
        <4>3. (\E s \in any : need \subseteq s)
                <=> \E p \in Parts(h) : LeafAccepts(p, base, m) /\ need \subseteq base \cup Contributes(p, m)
          <5>1. ASSUME NEW s \in any, need \subseteq s
                PROVE  \E p \in Parts(h) : LeafAccepts(p, base, m) /\ need \subseteq base \cup Contributes(p, m)
            <6>1. PICK p \in Parts(h) : LeafAccepts(p, base, m) /\ s = base \cup Contributes(p, m)
              BY <3>1, <4>1
            <6>. QED BY <5>1, <6>1
          <5>2. ASSUME NEW p \in Parts(h), LeafAccepts(p, base, m), need \subseteq base \cup Contributes(p, m)
                PROVE  \E s \in any : need \subseteq s
            <6>1. base \cup Contributes(p, m) \in any BY <3>1, <4>1, <5>2
            <6>. QED BY <5>2, <6>1
          <5>. QED BY <5>1, <5>2
        <4>. QED BY <1>2, <2>1, <2>10, <3>3, <4>2, <4>3 DEF BranchAccepts
      <3>. QED BY <3>2, <3>3
    <2>. QED BY <2>9, <2>10
  <1>. QED BY <1>1, <1>2

\* Rules all of which are needed end in a state when each of them does.
LEMMA AllOfMatches ==
    ASSUME NEW n \in Nat, NEW base, NEW states
    PROVE  AllOf(n, base, states)[n] # {} <=> \A i \in 1 .. n : states[i] # {}
  <1> DEFINE f == AllOf(n, base, states)
             Bad == {k \in 0 .. n : ~(f[k] # {} <=> \A i \in 1 .. k : states[i] # {})}
  <1>0. Loop(f, n, base, states) BY AllOfComputes
  <1> HIDE DEF f
  <1>1. \A k \in 0 .. n : f[k] = IF k = 0 THEN {base} ELSE Combine(f[k - 1], states[k])
    BY <1>0 DEF Loop
  <1>2. Bad = {}
    <2> SUFFICES ASSUME Bad # {} PROVE FALSE OBVIOUS
    <2>0. Bad \subseteq Nat OBVIOUS
    <2>1. PICK k \in Bad : \A j \in Bad : k <= j
      <3> HIDE DEF Bad
      <3>. QED BY <2>0, LeastElement
    <2>2. k # 0 BY <1>1, <2>1
    <2>3. k \in 1 .. n /\ k - 1 \in 0 .. n /\ ~(k <= k - 1) BY <2>1, <2>2
    <2>4. f[k - 1] # {} <=> \A i \in 1 .. (k - 1) : states[i] # {} BY <2>1, <2>3
    <2>5. f[k] = Combine(f[k - 1], states[k]) BY <1>1, <2>1, <2>2
    <2>6. Combine(f[k - 1], states[k]) # {} <=> f[k - 1] # {} /\ states[k] # {} BY CombineSome
    <2>7. 1 .. k = (1 .. (k - 1)) \cup {k} BY <2>3
    <2>8. f[k] # {} <=> \A i \in 1 .. k : states[i] # {} BY <2>4, <2>5, <2>6, <2>7
    <2>. QED BY <2>1, <2>8
  <1>3. f[n] # {} <=> \A i \in 1 .. n : states[i] # {} BY <1>2
  <1>. QED BY <1>3 DEF f

\* The rules of the sets a rule includes have their shape, and the flags of its
\* rule_set item reach them.
IncludesRules(r) ==
    /\ r.invert \in BOOLEAN /\ r.matchSource \in BOOLEAN /\ r.acceptEmpty \in BOOLEAN
    /\ \A t \in r.sets : \A h \in sets[t] :
        /\ IsHeadlessRule(h)
        /\ h.logical /\ (r.matchSource \/ r.acceptEmpty) => \A l \in Parts(h) : l.cidr = {}

\* No rule_set item is being matched.
Unflagged(m) == m.matchSource = FALSE /\ m.acceptEmpty = FALSE

\* ... and the addresses are looked at.
Plain(m) == m.ignore = FALSE /\ m.matchSource = FALSE /\ m.acceptEmpty = FALSE

\* A default rule, by itself or in a logical one.
LEMMA DefaultMatches ==
    ASSUME NEW r, IncludesRules(r), NEW m \in Metas, Unflagged(m)
    PROVE  TopStates(r, m, {}) # {} <=> DefaultAccepts(r, m)
  <1> DEFINE outer == Matched(r, m)
             need == Required(r, m)
             nested == [m EXCEPT !.matchSource = r.matchSource, !.acceptEmpty = r.acceptEmpty]
             states == IF r.sets = {} THEN {outer} ELSE RuleSetStates(r, m, outer)
             passed == {s \in states : need \subseteq s}
             branch == IF r.sets = {} THEN need \subseteq outer
                       ELSE \E t \in r.sets : \E h \in sets[t] : BranchAccepts(h, outer, need, nested)
  <1>1. SetBase(r, m, {}) = outer BY DEF SetBase, EvaluationBase
  <1>2. TopStates(r, m, {}) = DefaultStates(r, m, {}, states) BY <1>1 DEF TopStates
  <1>3. /\ nested \in Metas
        /\ nested.matchSource = r.matchSource /\ nested.acceptEmpty = r.acceptEmpty
    <2>1. r.matchSource \in BOOLEAN /\ r.acceptEmpty \in BOOLEAN BY DEF IncludesRules
    <2>2. /\ nested \in Metas /\ Alike(nested, m)
          /\ nested.matchSource = r.matchSource /\ nested.acceptEmpty = r.acceptEmpty
      BY <2>1, FlagsOnly
    <2>. QED BY <2>2
  <1>4. passed # {} <=> branch
    <2>1. CASE r.sets = {} BY <2>1
    <2>2. CASE r.sets # {}
      <3>1. \A t \in r.sets : \A h \in sets[t] :
              (\E s \in HeadlessStates(h, nested, outer) : need \subseteq s)
                  <=> BranchAccepts(h, outer, need, nested)
        <4> HIDE DEF nested, outer, need
        <4>. QED BY <1>3, BranchesMatch DEF IncludesRules
      <3>2. \A s : s \in states <=> \E t \in r.sets : \E h \in sets[t] : s \in HeadlessStates(h, nested, outer)
        BY <2>2 DEF RuleSetStates
      <3> HIDE DEF nested, outer, need, states
      <3>. QED BY <2>2, <3>1, <3>2
    <2>. QED BY <2>1, <2>2
  <1>5. DefaultAccepts(r, m) <=> Deferred(r, m) \/ (r.invert # (ItemsMatch(r, m) /\ branch))
    BY DEF DefaultAccepts
  <1>6. r.invert \in BOOLEAN /\ m.ignore \in BOOLEAN BY DEF IncludesRules, Metas
  <1>7. CASE Deferred(r, m)
    <2>1. passed = {{}} /\ ItemsMatch(r, m) BY <1>7, DeferredIsOpen
    <2>2. DefaultStates(r, m, {}, states) = {{}} BY <1>7, <2>1 DEF DefaultStates, Deferred
    <2>. QED BY <1>2, <1>5, <1>7, <2>2
  <1>8. CASE ~Deferred(r, m)
    <2>1. r.invert => ~(m.ignore /\ ~DidMatch(r) /\ r.cidr # {}) BY <1>8 DEF Deferred
    <2>2. DefaultStates(r, m, {}, states) =
            IF ~ItemsMatch(r, m) \/ passed = {} THEN InvertedFailure(r, {})
            ELSE IF ~r.invert THEN passed ELSE {}
      BY <1>6, <2>1 DEF DefaultStates
    <2> HIDE DEF passed, branch, states
    <2>. QED BY <1>2, <1>4, <1>5, <1>6, <1>8, <2>2 DEF InvertedFailure
  <1>. QED BY <1>7, <1>8

\* A rule matches exactly when it accepts, whatever fields, rule-sets and branches
\* it has.
LEMMA MatchAccepts ==
    ASSUME NEW r, IsHeadlessRule(r), \A p \in Parts(r) : IncludesRules(p), NEW m \in Metas, Unflagged(m)
    PROVE  Match(r, m) <=> Accepts(r, m)
  <1>0. ResetRuleCache(m) = m BY FlagsOnly DEF Unflagged
  <1>1. CASE ~r.logical
    <2>1. IncludesRules(r) BY <1>1 DEF Parts
    <2>. QED BY <1>0, <1>1, <2>1, DefaultMatches DEF Match, MatchStates, Accepts
  <1>2. CASE r.logical
    <2> DEFINE n == Len(r.rules)
               states == [i \in 1 .. n |-> TopStates(r.rules[i], m, {})]
    <2>0. n \in Nat BY DEF IsHeadlessRule
    <2>1. EvaluationBase(r, {}) = {} BY DEF EvaluationBase
    <2>2. MatchStates(r, m) = LogicalStates(r, {}, states) BY <1>0, <1>2, <2>1 DEF MatchStates
    <2>3. Parts(r) = {r.rules[i] : i \in 1 .. n} BY <1>2 DEF Parts
    <2>4. \A i \in 1 .. n : states[i] # {} <=> DefaultAccepts(r.rules[i], m)
      BY <2>3, DefaultMatches
    <2> HIDE DEF n, states
    <2>5. r.invert \in BOOLEAN BY DEF IsHeadlessRule
    <2>6. CASE r.mode = "and"
      <3> DEFINE all == AllOf(n, {}, states)[n]
      <3>1. all # {} <=> \A i \in 1 .. n : states[i] # {} BY <2>0, AllOfMatches
      <3>2. all # {} <=> \A p \in Parts(r) : DefaultAccepts(p, m) BY <2>3, <2>4, <3>1
      <3>3. LogicalStates(r, {}, states) = IF all = {} THEN InvertedFailure(r, {})
                                           ELSE IF r.invert THEN {} ELSE all
        BY <2>1, <2>6 DEF LogicalStates, n
      <3> HIDE DEF all
      <3>4. Match(r, m) <=> IF all = {} THEN r.invert ELSE ~r.invert
        BY <1>0, <2>2, <2>5, <3>3 DEF Match, InvertedFailure
      <3>. QED BY <1>2, <2>5, <2>6, <3>2, <3>4 DEF Accepts
    <2>7. CASE r.mode # "and"
      <3> DEFINE any == UNION {states[i] : i \in 1 .. n}
      <3>1. any # {} <=> \E i \in 1 .. n : states[i] # {} OBVIOUS
      <3>2. any # {} <=> \E p \in Parts(r) : DefaultAccepts(p, m) BY <2>3, <2>4, <3>1
      <3>3. LogicalStates(r, {}, states) = IF any = {} THEN InvertedFailure(r, {})
                                           ELSE IF r.invert THEN {} ELSE any
        BY <2>7 DEF LogicalStates, n
      <3> HIDE DEF any
      <3>4. Match(r, m) <=> IF any = {} THEN r.invert ELSE ~r.invert
        BY <1>0, <2>2, <2>5, <3>3 DEF Match, InvertedFailure
      <3>. QED BY <1>2, <2>5, <2>7, <3>2, <3>4 DEF Accepts
    <2>. QED BY <2>6, <2>7
  <1>. QED BY <1>1, <1>2

\* When addresses are looked at, a rule accepts exactly when the documented
\* formula holds.
LEMMA AcceptsAsDocumented ==
    ASSUME NEW r, NEW m \in Metas, Plain(m), \A p \in Parts(r) : IncludesRules(p)
    PROVE  Accepts(r, m) <=> Documented(r, m)
  <1>1. ASSUME NEW k, k.ignore = FALSE, NEW h, NEW outer, NEW need
        PROVE  BranchAccepts(h, outer, need, k) <=> BranchHolds(h, outer, need, k)
    <2>1. \A l, o : LeafAccepts(l, o, k) <=> LeafHolds(l, o, k) BY <1>1 DEF LeafAccepts, Deferred
    <2>. QED BY <2>1 DEF BranchAccepts, BranchHolds
  <1>2. ASSUME NEW p, IncludesRules(p) PROVE DefaultAccepts(p, m) <=> DefaultHolds(p, m)
    <2> DEFINE nested == [m EXCEPT !.matchSource = p.matchSource, !.acceptEmpty = p.acceptEmpty]
    <2>1. nested.ignore = FALSE BY DEF Metas, Plain
    <2>2. ~Deferred(p, m) BY DEF Deferred, Plain
    <2>3. \A h, outer, need : BranchAccepts(h, outer, need, nested) <=> BranchHolds(h, outer, need, nested)
      <3> HIDE DEF nested
      <3>. QED BY <1>1, <2>1
    <2>. QED BY <2>2, <2>3 DEF DefaultAccepts, DefaultHolds
  <1>3. ~r.logical => Parts(r) = {r} BY DEF Parts
  <1>. QED BY <1>2, <1>3 DEF Accepts, Documented

\* A rule matches exactly when the documented formula holds.
LEMMA RuleMatchesAsDocumented ==
    ASSUME NEW r, IsHeadlessRule(r), \A p \in Parts(r) : IncludesRules(p), NEW m \in Metas, Plain(m)
    PROVE  Match(r, m) <=> Documented(r, m)
  BY MatchAccepts, AcceptsAsDocumented DEF Plain, Unflagged

-----------------------------------------------------------------------------
(* The two phases of a DNS rule: first without addresses, then with the    *)
(* answer.                                                                 *)

\* k is m before the answer.
Before(k, m) ==
    /\ m.source = k.source /\ m.sourcePort = k.sourcePort /\ m.domain = k.domain /\ m.fqdn = k.fqdn
    /\ m.ip = k.ip /\ m.port = k.port /\ m.protocol = k.protocol
    /\ m.matchSource = k.matchSource /\ m.acceptEmpty = k.acceptEmpty
    /\ k.ignore = TRUE /\ m.ignore = FALSE

\* A set of groups before the answer: the destination may be missing.
Less(s, t) == s \subseteq t /\ t \subseteq s \cup {"destinationAddress"}

\* A rule without addresses is the same before the answer.
LEMMA SameBefore ==
    ASSUME NEW k, NEW m, Before(k, m), NEW l, l.cidr = {}
    PROVE  /\ Matched(l, k) = Matched(l, m) /\ Required(l, k) = Required(l, m)
           /\ ItemsMatch(l, k) <=> ItemsMatch(l, m)
           /\ \A outer : LeafAccepts(l, outer, k) <=> LeafAccepts(l, outer, m)
           /\ Contributes(l, k) = Contributes(l, m)
           /\ ~Deferred(l, k) /\ ~Deferred(l, m)
  <1>1. CIDRGroup(l, m) = {} /\ CIDRGroup(l, k) = {} BY DEF CIDRGroup
  <1>2. \A g \in Groups : Value(m, g) = Value(k, g) BY DEF Value, Host, Before
  <1>3. ~Deferred(l, k) /\ ~Deferred(l, m) BY DEF Deferred
  <1>4. Matched(l, k) = Matched(l, m) /\ Required(l, k) = Required(l, m) BY <1>1, <1>2 DEF Matched, Required
  <1>5. ItemsMatch(l, k) <=> ItemsMatch(l, m) BY DEF ItemsMatch, Before
  <1>. QED BY <1>3, <1>4, <1>5 DEF LeafAccepts, LeafHolds, Contributes

\* A rule with addresses, and no names beside them: the destination is missing.
LEMMA LessBefore ==
    ASSUME NEW k, NEW m, Before(k, m), NEW l, l.cidr # {} => ~Names(l) /\ m.matchSource = FALSE
    PROVE  /\ Less(Matched(l, k), Matched(l, m)) /\ Required(l, k) \subseteq Required(l, m)
           /\ ItemsMatch(l, k) <=> ItemsMatch(l, m)
           /\ "destinationAddress" \in Required(l, k) => Names(l)
  <1>1. CIDRGroup(l, k) = {} /\ CIDRGroup(l, m) \subseteq {"destinationAddress"}
    BY DEF CIDRGroup, Before
  <1>2. \A g \in Groups : Value(m, g) = Value(k, g) BY DEF Value, Host, Before
  <1>3. Less(Matched(l, k), Matched(l, m)) BY <1>1, <1>2 DEF Matched, Less
  <1>4. Required(l, k) \subseteq Required(l, m) BY <1>1 DEF Required
  <1>5. "destinationAddress" \in Required(l, k) => Names(l) BY <1>1 DEF Required, Names
  <1>. QED BY <1>3, <1>4, <1>5 DEF ItemsMatch, Before

\* Where the rules of a rule-set, if they look at addresses, filter the answer.
LeafFilters(l, m) ==
    l.cidr # {} => ~Names(l) /\ m.matchSource = FALSE /\ (l.invert => ~DidMatch(l))

\* A rule of a rule-set that accepts the answer has accepted before it.
LEMMA LeafBefore ==
    ASSUME NEW k, NEW m, Before(k, m), NEW l, l.invert \in BOOLEAN,
           LeafFilters(l, m), NEW s, NEW t, Less(s, t), Names(l) => s = t,
           LeafAccepts(l, t, m)
    PROVE  LeafAccepts(l, s, k) /\ Less(Contributes(l, k), Contributes(l, m))
  <1>1. CASE l.cidr = {}
    <2>1. /\ Matched(l, k) = Matched(l, m) /\ Required(l, k) = Required(l, m)
          /\ ItemsMatch(l, k) <=> ItemsMatch(l, m)
          /\ Contributes(l, k) = Contributes(l, m) /\ LeafAccepts(l, t, k) /\ ~Deferred(l, k)
      BY <1>1, SameBefore
    <2>2. "destinationAddress" \in Required(l, k) => s = t BY <1>1, LessBefore
    <2>l. Less(Contributes(l, k), Contributes(l, m)) BY <2>1 DEF Less
    <2>3. CASE l.invert
      <3>1. LeafHolds(l, t, k) BY <2>1 DEF LeafAccepts
      <3>2. LeafHolds(l, s, k) BY <2>3, <3>1 DEF LeafHolds
      <3>. QED BY <2>l, <3>2 DEF LeafAccepts
    <2>4. CASE ~l.invert
      <3>1. ItemsMatch(l, k) /\ Required(l, k) \subseteq Matched(l, k) \cup t BY <2>1, <2>4 DEF LeafAccepts, LeafHolds
      <3>2. Required(l, k) \subseteq Matched(l, k) \cup s BY <2>2, <3>1 DEF Less
      <3>. QED BY <2>l, <2>4, <3>1, <3>2 DEF LeafAccepts, LeafHolds
    <2>. QED BY <2>3, <2>4
  <1>2. CASE l.cidr # {}
    <2>1. /\ Less(Matched(l, k), Matched(l, m)) /\ Required(l, k) \subseteq Required(l, m)
          /\ ItemsMatch(l, k) <=> ItemsMatch(l, m)
          /\ "destinationAddress" \notin Required(l, k)
      BY <1>2, LessBefore DEF LeafFilters
    <2>2. CASE l.invert
      <3>1. Deferred(l, k) BY <1>2, <2>2 DEF Deferred, Before, LeafFilters
      <3>. QED BY <2>2, <3>1 DEF LeafAccepts, Contributes, Less
    <2>3. CASE ~l.invert
      <3>1. ItemsMatch(l, m) /\ Required(l, m) \subseteq Matched(l, m) \cup t
        BY <2>3 DEF LeafAccepts, LeafHolds, Deferred
      <3>2. Required(l, k) \subseteq Matched(l, k) \cup s BY <2>1, <3>1 DEF Less
      <3>3. Contributes(l, k) = Matched(l, k) /\ Contributes(l, m) = Matched(l, m) BY <2>3 DEF Contributes
      <3>. QED BY <2>1, <2>3, <3>1, <3>2, <3>3 DEF LeafAccepts, LeafHolds
    <2>. QED BY <2>2, <2>3
  <1>. QED BY <1>1, <1>2

\* ... so has one that is merged into the rule which includes it.
LEMMA BranchBefore ==
    ASSUME NEW k, NEW m, Before(k, m), NEW h, IsHeadlessRule(h), NEW s, NEW t, Less(s, t),
           NEW need, NEW more, need \subseteq more,
           "destinationAddress" \in need => s = t /\ \A l \in Parts(h) : l.cidr = {},
           \A l \in Parts(h) :
                /\ Names(l) => s = t
                /\ LeafFilters(l, m) /\ (l.cidr # {} => ~(h.logical /\ h.invert)),
           BranchAccepts(h, t, more, m)
    PROVE  BranchAccepts(h, s, need, k)
  <1>1. \A l \in Parts(h) : l.invert \in BOOLEAN BY DEF IsHeadlessRule
  <1>2. \A l \in Parts(h) : LeafAccepts(l, t, m) =>
            LeafAccepts(l, s, k) /\ Less(Contributes(l, k), Contributes(l, m))
    <2> SUFFICES ASSUME NEW l \in Parts(h), LeafAccepts(l, t, m)
                 PROVE  LeafAccepts(l, s, k) /\ Less(Contributes(l, k), Contributes(l, m))
      OBVIOUS
    <2>1. LeafFilters(l, m) /\ l.invert \in BOOLEAN BY <1>1
    <2>2. Names(l) => s = t OBVIOUS
    <2>. QED BY <2>1, <2>2, LeafBefore
  <1>3. "destinationAddress" \in need => s = t /\ \A l \in Parts(h) : Contributes(l, k) = Contributes(l, m)
    BY SameBefore
  <1>4. ASSUME NEW l \in Parts(h), LeafAccepts(l, t, m), more \subseteq t \cup Contributes(l, m)
        PROVE  LeafAccepts(l, s, k) /\ need \subseteq s \cup Contributes(l, k)
    BY <1>2, <1>3, <1>4 DEF Less
  <1>5. CASE ~h.logical \/ (~h.invert /\ h.mode # "and")
    BY <1>4, <1>5 DEF BranchAccepts
  <1>6. CASE h.logical /\ ~h.invert /\ h.mode = "and"
    <2>1. /\ \A l \in Parts(h) : LeafAccepts(l, t, m)
          /\ more \subseteq t \cup UNION {Contributes(l, m) : l \in Parts(h)}
      BY <1>6 DEF BranchAccepts
    <2>2. need \subseteq s \cup UNION {Contributes(l, k) : l \in Parts(h)}
      <3> SUFFICES ASSUME NEW g \in need, g \notin s PROVE \E l \in Parts(h) : g \in Contributes(l, k) OBVIOUS
      <3>1. CASE g = "destinationAddress" BY <1>3, <2>1, <3>1
      <3>2. CASE g # "destinationAddress" BY <1>2, <2>1, <3>2 DEF Less
      <3>. QED BY <3>1, <3>2
    <2>. QED BY <1>2, <1>6, <2>1, <2>2 DEF BranchAccepts
  <1>7. CASE h.logical /\ h.invert
    <2>1. \A l \in Parts(h) : LeafAccepts(l, {}, k) <=> LeafAccepts(l, {}, m) BY <1>7, SameBefore
    <2>2. need \subseteq s
      <3>1. more \subseteq t BY <1>7 DEF BranchAccepts
      <3>. QED BY <3>1 DEF Less
    <2>. QED BY <1>7, <2>1, <2>2 DEF BranchAccepts
  <1>. QED BY <1>5, <1>6, <1>7 DEF IsHeadlessRule

\* A rule that looks at no addresses.
NoAddresses(p) == p.cidr = {} /\ \A h \in SetRules(p) : \A l \in Parts(h) : l.cidr = {}

\* The metadata a rule hands to its rule-sets.
LEMMA NestedBefore ==
    ASSUME NEW k \in Metas, NEW m \in Metas, Before(k, m), NEW s \in BOOLEAN, NEW e \in BOOLEAN
    PROVE  LET nk == [k EXCEPT !.matchSource = s, !.acceptEmpty = e]
               nm == [m EXCEPT !.matchSource = s, !.acceptEmpty = e]
           IN  Before(nk, nm) /\ nm.matchSource = s
  <1> DEFINE nk == [k EXCEPT !.matchSource = s, !.acceptEmpty = e]
             nm == [m EXCEPT !.matchSource = s, !.acceptEmpty = e]
  <1>1. Alike(nk, k) /\ nk.matchSource = s /\ nk.acceptEmpty = e BY DEF Metas, Alike
  <1>2. Alike(nm, m) /\ nm.matchSource = s /\ nm.acceptEmpty = e BY DEF Metas, Alike
  <1> HIDE DEF nk, nm
  <1>3. Before(nk, nm) /\ nm.matchSource = s BY <1>1, <1>2 DEF Before, Alike
  <1>. QED BY <1>3 DEF nk, nm

\* It accepts before the answer when it does with it.
LEMMA DefaultSame ==
    ASSUME NEW k \in Metas, NEW m \in Metas, Before(k, m), NEW p, IncludesRules(p), NoAddresses(p)
    PROVE  DefaultAccepts(p, k) <=> DefaultAccepts(p, m)
  <1> DEFINE nk == [k EXCEPT !.matchSource = p.matchSource, !.acceptEmpty = p.acceptEmpty]
             nm == [m EXCEPT !.matchSource = p.matchSource, !.acceptEmpty = p.acceptEmpty]
  <1>1. Before(nk, nm) BY NestedBefore DEF IncludesRules
  <1>2. /\ Matched(p, k) = Matched(p, m) /\ Required(p, k) = Required(p, m)
        /\ ItemsMatch(p, k) <=> ItemsMatch(p, m)
        /\ ~Deferred(p, k) /\ ~Deferred(p, m)
    BY SameBefore DEF NoAddresses
  <1> HIDE DEF nk, nm
  <1>3. ASSUME NEW t \in p.sets, NEW h \in sets[t], NEW outer, NEW need
        PROVE  BranchAccepts(h, outer, need, nk) <=> BranchAccepts(h, outer, need, nm)
    <2>1. \A l \in Parts(h) : l.cidr = {} BY <1>3 DEF NoAddresses, SetRules
    <2>2. \A l \in Parts(h) : /\ \A o : LeafAccepts(l, o, nk) <=> LeafAccepts(l, o, nm)
                              /\ Contributes(l, nk) = Contributes(l, nm)
      BY <1>1, <2>1, SameBefore
    <2>3. UNION {Contributes(l, nk) : l \in Parts(h)} = UNION {Contributes(l, nm) : l \in Parts(h)}
      BY <2>2
    <2>. QED BY <2>2, <2>3 DEF BranchAccepts
  <1>. QED BY <1>2, <1>3 DEF DefaultAccepts, nk, nm

\* A rule that filters the answer, and accepts it, has accepted before it.
LEMMA DefaultBefore ==
    ASSUME NEW k \in Metas, NEW m \in Metas, Before(k, m), Unflagged(m), NEW p, IncludesRules(p),
           PartFilters(p), DefaultAccepts(p, m)
    PROVE  DefaultAccepts(p, k)
  <1> DEFINE nk == [k EXCEPT !.matchSource = p.matchSource, !.acceptEmpty = p.acceptEmpty]
             nm == [m EXCEPT !.matchSource = p.matchSource, !.acceptEmpty = p.acceptEmpty]
             s == Matched(p, k)
             t == Matched(p, m)
             need == Required(p, k)
             more == Required(p, m)
  <1>0. p.invert \in BOOLEAN BY DEF IncludesRules
  <1>1. Before(nk, nm) /\ nm.matchSource = p.matchSource BY NestedBefore DEF IncludesRules
  <1>2. CASE p.invert /\ p.cidr # {}
    <2>1. Deferred(p, k) BY <1>2 DEF Deferred, Before, PartFilters
    <2>. QED BY <2>1 DEF DefaultAccepts
  <1>3. CASE p.invert /\ p.cidr = {}
    <2>1. NoAddresses(p) BY <1>3 DEF NoAddresses, PartFilters
    <2>. QED BY <2>1, DefaultSame
  <1>4. CASE ~p.invert
    <2>1. /\ Less(s, t) /\ need \subseteq more
          /\ ItemsMatch(p, k) <=> ItemsMatch(p, m)
          /\ "destinationAddress" \in need => Names(p)
      BY LessBefore DEF Unflagged, PartFilters
    <2>2. p.cidr = {} => s = t BY SameBefore
    <2>3. Names(p) => p.cidr = {} BY DEF PartFilters
    <2>4. ItemsMatch(p, m) /\ IF p.sets = {} THEN more \subseteq t
                              ELSE \E tag \in p.sets : \E h \in sets[tag] : BranchAccepts(h, t, more, nm)
      <3> DEFINE X == ItemsMatch(p, m) /\ IF p.sets = {} THEN more \subseteq t
                          ELSE \E tag \in p.sets : \E h \in sets[tag] : BranchAccepts(h, t, more, nm)
      <3>1. Deferred(p, m) \/ (p.invert # X) BY DEF DefaultAccepts
      <3>2. X \in BOOLEAN /\ ~Deferred(p, m) /\ p.invert = FALSE
        BY <1>0, <1>4 DEF Deferred, ItemsMatch
      <3> HIDE DEF X
      <3>3. X BY <3>1, <3>2
      <3>. QED BY <3>3 DEF X
    <2>5. SUFFICES IF p.sets = {} THEN need \subseteq s
                   ELSE \E tag \in p.sets : \E h \in sets[tag] : BranchAccepts(h, s, need, nk)
      BY <1>0, <1>4, <2>1, <2>4 DEF DefaultAccepts
    <2> HIDE DEF nk, nm, s, t, need, more
    <2>6. CASE p.sets = {} BY <2>1, <2>2, <2>3, <2>4, <2>6 DEF Less
    <2>7. CASE p.sets # {}
      <3>0. PICK tag \in p.sets : \E h \in sets[tag] : BranchAccepts(h, t, more, nm) BY <2>4, <2>7
      <3>1. PICK h \in sets[tag] : BranchAccepts(h, t, more, nm) BY <3>0
      <3>2. h \in SetRules(p) /\ IsHeadlessRule(h) BY <3>1 DEF SetRules, IncludesRules
      <3>3. \A l \in Parts(h) : l.cidr # {} => ~Names(p) /\ ~Names(l) /\ ~(h.logical /\ h.invert)
        BY <3>2 DEF PartFilters
      <3>4. \A l \in Parts(h) : Names(l) => s = t BY <2>2, <3>2 DEF PartFilters
      <3>5. \A l \in Parts(h) : LeafFilters(l, nm)
        BY <1>1, <3>2 DEF LeafFilters, PartFilters, IncludesRules
      <3>6. "destinationAddress" \in need => s = t /\ \A l \in Parts(h) : l.cidr = {}
        BY <2>1, <2>2, <2>3, <3>3
      <3>7. BranchAccepts(h, s, need, nk)
        BY <1>1, <2>1, <3>1, <3>2, <3>3, <3>4, <3>5, <3>6, BranchBefore
      <3>. QED BY <2>7, <3>7
    <2>. QED BY <2>6, <2>7
  <1>. QED BY <1>0, <1>2, <1>3, <1>4

\* The rule that uses an answer, if it matches, has matched before it came: and one
\* that looks at no answer matches the same.
LEMMA MatchesBefore ==
    ASSUME NEW k \in Metas, NEW m \in Metas, Before(k, m), Unflagged(k), Unflagged(m),
           NEW r, IsHeadlessRule(r), \A p \in Parts(r) : IncludesRules(p), FiltersAnswer(r)
    PROVE  /\ Match(r, m) => Match(r, k)
           /\ ~WithAddressLimit(r) => (Match(r, k) <=> Match(r, m))
  <1>1. (Match(r, k) <=> Accepts(r, k)) /\ (Match(r, m) <=> Accepts(r, m)) BY MatchAccepts
  <1>2. \A p \in Parts(r) : DefaultAccepts(p, m) => DefaultAccepts(p, k)
    BY DefaultBefore DEF FiltersAnswer
  <1>3. ASSUME ~WithAddressLimit(r), NEW p \in Parts(r) PROVE DefaultAccepts(p, m) <=> DefaultAccepts(p, k)
    <2>1. PartFilters(p) /\ p.cidr = {} BY <1>3 DEF FiltersAnswer, WithAddressLimit
    <2>2. ASSUME NEW h \in SetRules(p), NEW l \in Parts(h), l.cidr # {} PROVE FALSE
      <3>1. PICK t \in p.sets : h \in sets[t] BY <2>2 DEF SetRules
      <3>2. ContainsIPCIDRRule(t) BY <2>2, <3>1 DEF ContainsIPCIDRRule
      <3>3. ~p.matchSource BY <2>1, <2>2 DEF PartFilters
      <3>. QED BY <1>3, <3>1, <3>2, <3>3 DEF WithAddressLimit
    <2>3. NoAddresses(p) BY <2>1, <2>2 DEF NoAddresses
    <2>. QED BY <2>3, DefaultSame
  <1>4. ~WithAddressLimit(r) => (Accepts(r, k) <=> Accepts(r, m))
    <2>1. ~r.logical => r \in Parts(r) BY DEF Parts
    <2>. QED BY <1>3, <2>1 DEF Accepts
  <1>5. Accepts(r, m) => Accepts(r, k)
    <2>1. CASE ~r.logical
      <3>1. r \in Parts(r) BY <2>1 DEF Parts
      <3>. QED BY <1>2, <2>1, <3>1 DEF Accepts
    <2>2. CASE r.logical /\ r.invert BY <1>4, <2>2 DEF FiltersAnswer
    <2>3. CASE r.logical /\ ~r.invert BY <1>2, <2>3 DEF Accepts, IsHeadlessRule
    <2>. QED BY <2>1, <2>2, <2>3
  <1>. QED BY <1>1, <1>4, <1>5

-----------------------------------------------------------------------------
(* Connections and their queries.                                          *)

Walks ==
    [at : {"match", "matched", "resolve", "dns", "over"}, entry : Entries, pre : BOOLEAN,
     meta : Metas, start : Metas, index : Nat, given : Domains \cup {None}, failed : BOOLEAN,
     verdict : Outbounds \cup {None, "error", "bypassed", "rejected", "default", "hijacked"}]

DNSQueries ==
    [at : {"match", "check", "asked", "done"}, kind : {"exchange", "lookup", "direct"}, address : BOOLEAN,
     meta : Metas, index : Nat, server : Servers \cup {None}, check : BOOLEAN,
     failed : SUBSET Nat,
     result : {None, "answer", "error", "reject", "predefined"}]

\* The addresses, given for d, are those of the destination.
OwnAddresses(m, d) == m.addresses # {} => d = m.fqdn /\ Finds(m.fqdn, m.addresses)

GoodWalk(w) ==
    /\ w \in Walks /\ w.index \in 0 .. Len(routeRules)
    /\ Plain(w.meta) /\ OwnAddresses(w.meta, w.given)

GoodQuery(q) ==
    /\ q \in DNSQueries /\ Plain(q.meta) /\ q.meta.domain \in Domains
    /\ q.at \in {"check", "asked"} \/ q.result = "answer" => q.server \in Servers
    /\ q.kind = "lookup" => q.server # FakeServer
    /\ q.kind = "direct" =>
        /\ ~q.check /\ q.failed = {}
        /\ q.at = "asked" \/ (q.at = "done" /\ q.result \in {"answer", "error"})
    /\ q.at # "done" => q.result = None
    /\ q.result = "predefined" =>
        q.index \in 1 .. Len(dnsRules) /\ dnsRules[q.index].action = "predefined"

\* What a query for d sees of the connection.
QueryMeta(m, d) == [m EXCEPT !.ip = None, !.fqdn = None, !.port = 0, !.domain = d]

\* A connection that resolves its destination has a lookup for it, with the
\* server of its rule if that names one.
Awaits(w, q) ==
    w.at = "resolve" =>
        /\ w.index \in 1 .. Len(routeRules) /\ routeRules[w.index].action = "resolve"
        /\ q.at # "none" /\ q.address = TRUE
        /\ q.kind = IF routeRules[w.index].server = None THEN "lookup" ELSE "direct"
        /\ q.kind = "direct" => q.server = routeRules[w.index].server
        /\ q.meta = QueryMeta(w.meta, w.meta.fqdn) /\ q.meta.domain = w.meta.fqdn

RouterInv ==
    /\ config \in DOMAIN Configs
    /\ DOMAIN sets = Tags /\ \A t \in Tags : \A h \in sets[t] : IsHeadlessRule(h)
    /\ reverse \in [Addresses -> Domains \cup {None}]
    /\ DOMAIN conn = Conns /\ DOMAIN query = Conns
    /\ \A c \in Conns : conn[c] = NotCome \/ GoodWalk(conn[c])
    /\ \A c \in Conns : query[c] = NoQuery \/ GoodQuery(query[c])
    /\ \A c \in Conns : Awaits(conn[c], query[c])

\* The rules are rules.
LEMMA RulesAreRules ==
    ASSUME RouterInv
    PROVE  /\ Len(routeRules) \in Nat /\ Len(dnsRules) \in Nat
           /\ \A i \in 1 .. Len(dnsRules) :
                IsRule(dnsRules[i].match) /\ dnsRules[i].answer \in SUBSET Addresses
           /\ \A i \in 1 .. Len(routeRules) :
                /\ IsRule(routeRules[i].match)
                /\ routeRules[i].ip \in Addresses \cup {None}
                /\ routeRules[i].fqdn \in Domains \cup {None}
                /\ routeRules[i].port \in Ports \cup {0}
  BY RouterAssumption DEF RouterInv, routeRules, dnsRules

\* What holds initially.
LEMMA RouterInvInit == Init => RouterInv
  <1> SUFFICES ASSUME Init PROVE RouterInv OBVIOUS
  <1>1. /\ config \in DOMAIN Configs /\ sets = Configs[config].sets
        /\ conn = [c \in Conns |-> NotCome] /\ query = [c \in Conns |-> NoQuery]
        /\ reverse = [a \in Addresses |-> None]
    BY DEF Init
  <1>2. DOMAIN sets = Tags /\ \A t \in Tags : \A h \in sets[t] : IsHeadlessRule(h)
    BY <1>1, RouterAssumption
  <1>3. \A c \in Conns : conn[c].at = "none" BY <1>1 DEF NotCome
  <1>. QED BY <1>1, <1>2, <1>3 DEF RouterInv, Awaits

\* While the configuration stays the same, walks and queries are as good.
LEMMA SameConfig ==
    ASSUME UNCHANGED config
    PROVE  /\ \A w : GoodWalk(w)' <=> GoodWalk(w)
           /\ \A q : GoodQuery(q)' <=> GoodQuery(q)
           /\ \A w, q : Awaits(w, q)' <=> Awaits(w, q)
  <1>1. dnsRules' = dnsRules /\ routeRules' = routeRules BY DEF dnsRules, routeRules
  <1>2. Resolvers' = Resolvers BY <1>1 DEF Resolvers
  <1>3. \A d, a : Finds(d, a)' <=> Finds(d, a) BY <1>1, <1>2 DEF Finds
  <1>4. \A w : GoodWalk(w)' <=> GoodWalk(w) BY <1>1, <1>3 DEF GoodWalk, OwnAddresses
  <1>5. \A q : GoodQuery(q)' <=> GoodQuery(q) BY <1>1 DEF GoodQuery
  <1>6. \A w, q : Awaits(w, q)' <=> Awaits(w, q) BY <1>1 DEF Awaits
  <1>. QED BY <1>4, <1>5, <1>6

\* A step of one connection, or of its query.
LEMMA StepKeeps ==
    ASSUME RouterInv, NEW c \in Conns, UNCHANGED <<config, sets>>,
           reverse' \in [Addresses -> Domains \cup {None}],
           DOMAIN conn' = Conns, DOMAIN query' = Conns,
           \A d \in Conns : d # c => conn'[d] = conn[d] /\ query'[d] = query[d],
           conn'[c] = NotCome \/ GoodWalk(conn'[c]), query'[c] = NoQuery \/ GoodQuery(query'[c]),
           Awaits(conn'[c], query'[c])
    PROVE  RouterInv'
  <1>1. \A d \in Conns : conn'[d] = NotCome \/ GoodWalk(conn'[d]) BY DEF RouterInv
  <1>2. \A d \in Conns : query'[d] = NoQuery \/ GoodQuery(query'[d]) BY DEF RouterInv
  <1>3. \A d \in Conns : Awaits(conn'[d], query'[d]) BY DEF RouterInv
  <1>. QED BY <1>1, <1>2, <1>3, SameConfig DEF RouterInv

\* Metadata a connection comes with.
LEMMA MetadataIsGood ==
    ASSUME NEW e \in Entries
    PROVE  Metadata(e) \in Metas /\ Plain(Metadata(e)) /\ Metadata(e).addresses = {}
  <1>1. /\ e.ip \in Addresses \cup {None} /\ e.fqdn \in Domains \cup {None} /\ e.port \in Ports
    BY RouterAssumption
  <1>. QED BY <1>1 DEF Metadata, Metas, Plain

\* ... and what it is taken for.
LEMMA IdentifiedIsGood ==
    ASSUME RouterInv, NEW m \in Metas, Plain(m), m.addresses = {}, NEW k \in Identified(m)
    PROVE  k \in Metas /\ Plain(k) /\ k.addresses = {}
  <1>1. \/ \E d \in Domains : k = [m EXCEPT !.ip = None, !.fqdn = d]
        \/ \E d \in Domains \cup {None} : k = [m EXCEPT !.domain = d]
    <2> DEFINE fake == {d \in Domains : FakeAddress[d] = m.ip}
               known == {None} \cup {reverse[a] : a \in {m.ip} \cap Addresses}
    <2>1. CASE fake # {}
      <3>1. k \in {[m EXCEPT !.ip = None, !.fqdn = d] : d \in fake \cap mapped}
        BY <2>1 DEF Identified
      <3>. QED BY <3>1
    <2>2. CASE fake = {}
      <3>1. k \in {[m EXCEPT !.domain = d] : d \in known} BY <2>2 DEF Identified
      <3>2. known \subseteq Domains \cup {None} BY DEF RouterInv
      <3> HIDE DEF known
      <3>. QED BY <3>1, <3>2
    <2>. QED BY <2>1, <2>2
  <1>. QED BY <1>1 DEF Metas, Plain

\* The walk begins.
LEMMA EnterIsGood ==
    ASSUME RouterInv, NEW c \in Conns, NEW e \in Entries, NEW pre \in BOOLEAN, Enter(c, e, pre)
    PROVE  /\ DOMAIN conn' = Conns /\ \A d \in Conns : d # c => conn'[d] = conn[d]
           /\ GoodWalk(conn'[c]) /\ conn'[c].at # "resolve"
  <1>0. DOMAIN conn = Conns /\ 0 \in 0 .. Len(routeRules) BY RulesAreRules DEF RouterInv
  <1>1. /\ Metadata(e) \in Metas /\ Plain(Metadata(e)) /\ Metadata(e).addresses = {}
    BY MetadataIsGood
  <1>2. CASE \E m \in Identified(Metadata(e)) : conn' = [conn EXCEPT ![c] = Walk(e, pre, m)]
    <2>1. PICK m \in Identified(Metadata(e)) : conn' = [conn EXCEPT ![c] = Walk(e, pre, m)] BY <1>2
    <2>2. m \in Metas /\ Plain(m) /\ m.addresses = {} BY <1>1, IdentifiedIsGood
    <2>3. GoodWalk(Walk(e, pre, m)) /\ Walk(e, pre, m).at # "resolve"
      BY <1>0, <2>2 DEF GoodWalk, Walks, Walk, OwnAddresses
    <2>. QED BY <1>0, <2>1, <2>3
  <1>3. CASE conn' = [conn EXCEPT ![c] =
                [Walk(e, pre, Metadata(e)) EXCEPT !.at = "over", !.verdict = "error"]]
    <2> DEFINE w == [Walk(e, pre, Metadata(e)) EXCEPT !.at = "over", !.verdict = "error"]
    <2>1. GoodWalk(w) /\ w.at # "resolve"
      BY <1>0, <1>1 DEF GoodWalk, Walks, Walk, OwnAddresses
    <2>. QED BY <1>0, <1>3, <2>1
  <1>. QED BY <1>2, <1>3 DEF Enter

\* The options of a rule: the addresses of another destination are dropped.
LEMMA OverriddenIsGood ==
    ASSUME NEW m \in Metas, Plain(m), NEW d, OwnAddresses(m, d), NEW r, r.ip \in Addresses \cup {None},
           r.fqdn \in Domains \cup {None}, r.port \in Ports \cup {0}
    PROVE  Overridden(r, m) \in Metas /\ Plain(Overridden(r, m)) /\ OwnAddresses(Overridden(r, m), d)
  <1>1. Overridden(r, m) \in Metas BY SMTT(30), ZenonT(60) DEF Overridden, Metas
  <1>2. Plain(Overridden(r, m)) BY DEF Overridden, Metas, Plain
  <1>3. CASE r.ip # None \/ r.fqdn # None
    <2>1. Overridden(r, m).addresses = {} BY <1>3 DEF Overridden, Metas
    <2>. QED BY <1>1, <1>2, <2>1 DEF OwnAddresses
  <1>4. CASE ~(r.ip # None \/ r.fqdn # None)
    <2>1. Overridden(r, m).addresses = m.addresses /\ Overridden(r, m).fqdn = m.fqdn
      BY <1>4 DEF Overridden, Metas
    <2>. QED BY <1>1, <1>2, <2>1 DEF OwnAddresses
  <1>. QED BY <1>3, <1>4

\* The smallest of some numbers is one of them.
LEMMA MinIsLeast ==
    ASSUME NEW S \in SUBSET Nat, S # {}
    PROVE  Min(S) \in S /\ \A i \in S : Min(S) <= i
  <1>1. \E least \in S : \A m \in S : least <= m BY LeastElement
  <1>. QED BY <1>1 DEF Min

\* The rule the DNS walk comes to is one that matches and decides.
LEMMA RuleFoundDecides ==
    ASSUME RouterInv, NEW q \in DNSQueries
    PROVE  /\ RuleFound(q) \in Nat
           /\ RuleFound(q) # 0 => /\ RuleFound(q) \in 1 .. Len(dnsRules) /\ RuleFound(q) > q.index
                                  /\ RuleMatches(RuleFound(q), q) /\ Decides(RuleFound(q), q)
           /\ \A i \in 1 .. Len(dnsRules) :
                i > q.index /\ (RuleFound(q) = 0 \/ i < RuleFound(q)) => ~(RuleMatches(i, q) /\ Decides(i, q))
  <1> DEFINE found == {i \in FirstRule(q) .. Len(dnsRules) : RuleMatches(i, q) /\ Decides(i, q)}
  <1>0. Len(dnsRules) \in Nat /\ q.index \in Nat BY RulesAreRules DEF DNSQueries
  <1>1. \A i \in 1 .. Len(dnsRules) :
            i \in found <=> i > q.index /\ RuleMatches(i, q) /\ Decides(i, q)
    BY <1>0 DEF FirstRule
  <1>2. found \subseteq 1 .. Len(dnsRules) BY <1>0 DEF FirstRule
  <1>3. RuleFound(q) = IF found = {} THEN 0 ELSE Min(found) BY DEF RuleFound
  <1> HIDE DEF found
  <1>4. CASE found = {} BY <1>0, <1>1, <1>3, <1>4
  <1>5. CASE found # {}
    <2>1. found \in SUBSET Nat BY <1>0, <1>2
    <2>2. Min(found) \in found /\ \A i \in found : Min(found) <= i BY <1>5, <2>1, MinIsLeast
    <2>3. Min(found) \in 1 .. Len(dnsRules) BY <1>2, <2>2
    <2>4. RuleFound(q) = Min(found) BY <1>3, <1>5
    <2>5. \A i \in 1 .. Len(dnsRules) : i < Min(found) => i \notin found BY <1>0, <2>2, <2>3
    <2>6. Min(found) > q.index /\ RuleMatches(Min(found), q) /\ Decides(Min(found), q)
      BY <1>1, <2>2, <2>3
    <2> HIDE DEF RuleFound
    <2>. QED BY <1>0, <1>1, <2>3, <2>4, <2>5, <2>6
  <1>. QED BY <1>4, <1>5

\* Begin asks for a domain.
LEMMA BeginIsGood ==
    ASSUME RouterInv, NEW c \in Conns, NEW kind \in {"exchange", "lookup", "direct"}, NEW address \in BOOLEAN,
           NEW d \in Domains, NEW m \in Metas, Plain(m), NEW s, s \in (IF kind = "direct" THEN Servers ELSE {None}),
           Begin(c, kind, address, d, m, s)
    PROVE  /\ DOMAIN query' = Conns /\ \A b \in Conns : b # c => query'[b] = query[b]
           /\ GoodQuery(query'[c]) /\ query'[c].kind = kind /\ query'[c].server = s
           /\ kind # "direct" => query'[c].at = "match"
           /\ query'[c].address = address /\ query'[c].index = 0 /\ query'[c].failed = {}
           /\ query'[c].meta = QueryMeta(m, d) /\ query'[c].meta.domain = d /\ query'[c].at # "none"
  <1> DEFINE k == QueryMeta(m, d)
             a == IF kind = "direct" THEN "asked" ELSE "match"
             q == [at |-> a, kind |-> kind, address |-> address, meta |-> k,
                   index |-> 0, server |-> s, check |-> FALSE,
                   failed |-> {}, result |-> None]
  <1>0. DOMAIN query = Conns BY DEF RouterInv
  <1>1. k \in Metas /\ Plain(k) /\ k.domain = d BY DEF QueryMeta, Metas, Plain
  <1>2. query' = [query EXCEPT ![c] = q] BY DEF Begin, QueryMeta
  <1>a. a \in {"match", "asked"} /\ (a = "asked" <=> kind = "direct") OBVIOUS
  <1> HIDE DEF k, a
  <1>3. q \in DNSQueries BY <1>1, <1>a DEF DNSQueries
  <1>4. None # FakeServer /\ None # "answer" /\ None # "predefined"
    BY RouterAssumption, DNSRouterAssumption
  <1>5. GoodQuery(q) BY <1>1, <1>3, <1>4, <1>a DEF GoodQuery
  <1>. QED BY <1>0, <1>1, <1>2, <1>5, <1>a DEF k

\* A step of a query keeps it good, and what a connection waits for.
LEMMA QueryStepKeeps == \A c \in Conns : RouterInv /\ QueryStep(c) => RouterInv'
  <1> SUFFICES ASSUME NEW c \in Conns, RouterInv, QueryStep(c) PROVE RouterInv' OBVIOUS
  <1> DEFINE q == query[c]
  <1>0. /\ DOMAIN query = Conns /\ DOMAIN conn = Conns /\ reverse \in [Addresses -> Domains \cup {None}]
        /\ UNCHANGED <<config, sets, conn>>
    BY DEF RouterInv, QueryStep, configVars
  <1>1. q.at # "none" /\ GoodQuery(q)
    <2>1. q.at \in {"match", "check", "asked"} BY DEF QueryStep, DNSStep, MatchDNS, Ask, Answered, Fails
    <2>. QED BY <2>1 DEF RouterInv, NoQuery
  <1>2. conn[c] = NotCome \/ GoodWalk(conn[c]) BY DEF RouterInv
  <1>3. Awaits(conn[c], q) BY DEF RouterInv
  <1>4. ASSUME NEW p, query' = [query EXCEPT ![c] = p], GoodQuery(p), p.kind = q.kind, p.address = q.address,
               p.meta = q.meta, q.kind = "direct" => p.server = q.server, reverse' \in [Addresses -> Domains \cup {None}]
        PROVE  RouterInv'
    <2>1. /\ DOMAIN query' = Conns /\ query'[c] = p /\ \A d \in Conns : d # c => query'[d] = query[d]
      BY <1>0, <1>4
    <2>2. p.at # "none" BY <1>4 DEF GoodQuery, DNSQueries
    <2>3. Awaits(conn'[c], query'[c]) BY <1>0, <1>3, <1>4, <2>1, <2>2 DEF Awaits
    <2>. QED BY <1>0, <1>2, <1>4, <2>1, <2>3, StepKeeps
  <1>5. ASSUME MatchDNS(c) PROVE RouterInv'
    <2> DEFINE rule == RuleFound(q)
    <2>1. rule \in Nat BY <1>1, RuleFoundDecides DEF GoodQuery
    <2>d. q.kind # "direct" /\ q.at = "match" /\ q.result = None /\ None # "predefined"
      BY <1>1, <1>5, RouterAssumption DEF GoodQuery, MatchDNS
    <2>2. CASE rule # 0 /\ dnsRules[rule].action # "route"
      <3> DEFINE p == [q EXCEPT !.index = rule, !.at = "done", !.result = dnsRules[rule].action]
      <3>1. query' = [query EXCEPT ![c] = p] /\ reverse' = reverse BY <1>5, <2>2 DEF MatchDNS
      <3>2. dnsRules[rule].action \in {"reject", "predefined"} /\ rule \in 1 .. Len(dnsRules)
        BY <1>1, <2>2, RuleFoundDecides DEF Decides, GoodQuery
      <3>3. GoodQuery(p) /\ p.kind = q.kind /\ p.address = q.address /\ p.meta = q.meta
        <4> HIDE DEF rule, q
        <4>. QED BY <1>1, <2>1, <2>d, <3>2 DEF GoodQuery, DNSQueries
      <3> HIDE DEF p
      <3>. QED BY <1>0, <1>4, <2>d, <3>1, <3>3
    <2>3. CASE ~(rule # 0 /\ dnsRules[rule].action # "route")
      <3> DEFINE s == IF rule = 0 THEN DefaultServer ELSE dnsRules[rule].server
                 p == [q EXCEPT !.index = rule, !.at = "check", !.server = s]
      <3>1. query' = [query EXCEPT ![c] = p] /\ reverse' = reverse BY <1>5, <2>3 DEF MatchDNS
      <3>2. s \in Servers /\ (q.kind = "lookup" => s # FakeServer)
        <4>1. CASE rule = 0 BY <4>1, DNSRouterAssumption
        <4>2. CASE rule # 0
          <5>1. Decides(rule, q) /\ dnsRules[rule].action = "route"
            BY <1>1, <2>3, <4>2, RuleFoundDecides DEF GoodQuery
          <5>. QED BY <4>2, <5>1 DEF Decides, ServerUsable
        <4>. QED BY <4>1, <4>2
      <3>3. GoodQuery(p) /\ p.kind = q.kind /\ p.address = q.address /\ p.meta = q.meta
        <4> HIDE DEF rule, q, s
        <4>. QED BY <1>1, <2>1, <2>d, <3>2 DEF GoodQuery, DNSQueries
      <3> HIDE DEF p
      <3>. QED BY <1>0, <1>4, <2>d, <3>1, <3>3
    <2>. QED BY <2>2, <2>3
  <1>6. ASSUME Ask(c) PROVE RouterInv'
    <2> DEFINE x == q.index # 0 /\ WithAddressLimit(dnsRules[q.index].match)
               p == [q EXCEPT !.at = "asked", !.check = x]
    <2>1. query' = [query EXCEPT ![c] = p] /\ reverse' = reverse /\ q.at = "check" BY <1>6 DEF Ask
    <2>2. x \in BOOLEAN OBVIOUS
    <2>3. /\ GoodQuery(p) /\ p.kind = q.kind /\ p.address = q.address /\ p.meta = q.meta
          /\ p.server = q.server
      <3> HIDE DEF q, x
      <3>. QED BY <1>1, <2>1, <2>2 DEF GoodQuery, DNSQueries
    <2> HIDE DEF p
    <2>. QED BY <1>0, <1>4, <2>1, <2>3
  <1>7. ASSUME NEW result \in {"answer", "error"}, Finish(c, result), q.at = "asked",
               reverse' \in [Addresses -> Domains \cup {None}]
        PROVE  RouterInv'
    <2> DEFINE p == [q EXCEPT !.at = "done", !.result = result]
    <2>1. query' = [query EXCEPT ![c] = p] BY <1>7 DEF Finish
    <2>2. /\ GoodQuery(p) /\ p.kind = q.kind /\ p.address = q.address /\ p.meta = q.meta
          /\ p.server = q.server
      <3> HIDE DEF q
      <3>. QED BY <1>1, <1>7 DEF GoodQuery, DNSQueries
    <2> HIDE DEF p
    <2>. QED BY <1>4, <1>7, <2>1, <2>2
  <1>8. ASSUME Answered(c) PROVE RouterInv'
    <2>1. CASE Finish(c, "answer") /\ reverse' = Remember(q)
      <3>1. Remember(q) \in [Addresses -> Domains \cup {None}]
        BY <1>0, <1>1 DEF Remember, GoodQuery
      <3>. QED BY <1>7, <1>8, <2>1, <3>1 DEF Answered
    <2>2. CASE ~Accepted(q) /\ query' = [query EXCEPT ![c].at = "match"] /\ UNCHANGED reverse
      <3> DEFINE p == [q EXCEPT !.at = "match"]
      <3>1. query' = [query EXCEPT ![c] = p] BY <2>2
      <3>d. q.check /\ q.at = "asked" BY <1>8, <2>2 DEF Accepted, Answered
      <3>2. /\ GoodQuery(p) /\ p.kind = q.kind /\ p.address = q.address /\ p.meta = q.meta
            /\ p.server = q.server
        <4> HIDE DEF q
        <4>. QED BY <1>1, <3>d DEF GoodQuery, DNSQueries
      <3> HIDE DEF p
      <3>. QED BY <1>0, <1>4, <2>2, <3>1, <3>2
    <2>. QED BY <1>8, <2>1, <2>2 DEF Answered
  <1>9. ASSUME Fails(c) PROVE RouterInv'
    <2>1. CASE Finish(c, "error") BY <1>0, <1>7, <1>9, <2>1 DEF Fails
    <2>2. CASE q.kind = "lookup" /\ query' = [query EXCEPT ![c].at = "match", ![c].failed = @ \cup {q.index}]
      <3> DEFINE p == [q EXCEPT !.at = "match", !.failed = @ \cup {q.index}]
      <3>1. query' = [query EXCEPT ![c] = p] /\ reverse' = reverse /\ q.at = "asked" BY <1>9, <2>2 DEF Fails
      <3>2. /\ GoodQuery(p) /\ p.kind = q.kind /\ p.address = q.address /\ p.meta = q.meta
            /\ p.server = q.server
        <4> HIDE DEF q
        <4>. QED BY <1>1, <2>2, <3>1 DEF GoodQuery, DNSQueries
      <3> HIDE DEF p
      <3>. QED BY <1>0, <1>4, <3>1, <3>2
    <2>. QED BY <1>9, <2>1, <2>2 DEF Fails
  <1>. QED BY <1>5, <1>6, <1>8, <1>9 DEF QueryStep, DNSStep

\* The rule a walk comes to is the first behind it that matches.
LEMMA NextRuleIsNext ==
    ASSUME RouterInv, NEW c \in Conns, GoodWalk(conn[c])
    PROVE  /\ NextRule(c) \in 0 .. Len(routeRules)
           /\ NextRule(c) # 0 => /\ NextRule(c) > conn[c].index
                                 /\ Match(routeRules[NextRule(c)].match, conn[c].meta)
           /\ \A i \in 1 .. Len(routeRules) :
                i > conn[c].index /\ (NextRule(c) = 0 \/ i < NextRule(c))
                    => ~Match(routeRules[i].match, conn[c].meta)
  <1> DEFINE found == {i \in conn[c].index + 1 .. Len(routeRules) :
                         Match(routeRules[i].match, conn[c].meta)}
  <1>0. Len(routeRules) \in Nat /\ conn[c].index \in Nat BY RulesAreRules DEF GoodWalk, Walks
  <1>1. \A i \in 1 .. Len(routeRules) :
            i \in found <=> i > conn[c].index /\ Match(routeRules[i].match, conn[c].meta)
    BY <1>0
  <1>2. found \subseteq 1 .. Len(routeRules) BY <1>0
  <1>3. NextRule(c) = IF found = {} THEN 0 ELSE Min(found) BY DEF NextRule
  <1> HIDE DEF found
  <1>4. CASE found = {} BY <1>0, <1>1, <1>3, <1>4
  <1>5. CASE found # {}
    <2>1. found \in SUBSET Nat BY <1>0, <1>2
    <2>2. Min(found) \in found /\ \A i \in found : Min(found) <= i BY <1>5, <2>1, MinIsLeast
    <2>3. Min(found) \in 1 .. Len(routeRules) BY <1>2, <2>2
    <2>4. NextRule(c) = Min(found) BY <1>3, <1>5
    <2>5. \A i \in 1 .. Len(routeRules) : i < Min(found) => i \notin found BY <1>0, <2>2, <2>3
    <2>6. Min(found) > conn[c].index /\ Match(routeRules[Min(found)].match, conn[c].meta)
      BY <1>1, <2>2, <2>3
    <2>. QED BY <1>0, <1>1, <2>3, <2>4, <2>5, <2>6
  <1>. QED BY <1>4, <1>5

\* A step of a connection.
LEMMA ConnStepKeeps ==
    \A c \in Conns : RouterInv /\ (Comes(c) \/ ConnStep(c) \/ Asks(c) \/ ClientCloses(c)) => RouterInv'
  <1> SUFFICES ASSUME NEW c \in Conns, RouterInv, Comes(c) \/ ConnStep(c) \/ Asks(c) \/ ClientCloses(c)
               PROVE  RouterInv'
    OBVIOUS
  <1> DEFINE w == conn[c]
  <1>0. /\ DOMAIN query = Conns /\ DOMAIN conn = Conns /\ reverse \in [Addresses -> Domains \cup {None}]
        /\ query[c] = NoQuery \/ GoodQuery(query[c])
        /\ \A i \in 1 .. Len(routeRules) :
                /\ routeRules[i].ip \in Addresses \cup {None}
                /\ routeRules[i].fqdn \in Domains \cup {None}
                /\ routeRules[i].port \in Ports \cup {0}
    BY RulesAreRules DEF RouterInv
  <1>n. w = NotCome \/ GoodWalk(w) BY DEF RouterInv
  <1>e. \A v : GoodWalk(v) => v.entry \in Entries /\ v.meta \in Metas /\ Plain(v.meta) /\ OwnAddresses(v.meta, v.given)
    BY DEF GoodWalk, Walks
  <1>1. ASSUME NEW v, conn' = [conn EXCEPT ![c] = v], GoodWalk(v), v.at # "resolve",
               UNCHANGED <<config, sets, query, reverse>>
        PROVE  RouterInv'
    <2>1. /\ DOMAIN conn' = Conns /\ conn'[c] = v /\ \A d \in Conns : d # c => conn'[d] = conn[d]
          /\ query' = query /\ reverse' = reverse
      BY <1>0, <1>1
    <2>2. Awaits(conn'[c], query'[c]) BY <1>1, <2>1 DEF Awaits
    <2>. QED BY <1>0, <1>1, <2>1, <2>2, StepKeeps
  <1>2. ASSUME NEW e \in Entries, NEW pre \in BOOLEAN, Enter(c, e, pre),
               UNCHANGED <<config, sets, query, reverse>>
        PROVE  RouterInv'
    <2>1. /\ DOMAIN conn' = Conns /\ \A d \in Conns : d # c => conn'[d] = conn[d]
          /\ GoodWalk(conn'[c]) /\ conn'[c].at # "resolve" /\ query' = query /\ reverse' = reverse
      BY <1>2, EnterIsGood
    <2>2. Awaits(conn'[c], query'[c]) BY <2>1 DEF Awaits
    <2>. QED BY <1>0, <1>2, <2>1, <2>2, StepKeeps
  <1>3. ASSUME NEW a \in {"match", "dns"}, conn' = [conn EXCEPT ![c].at = a], GoodWalk(w),
               UNCHANGED <<config, sets, query, reverse>>
        PROVE  RouterInv'
    <2> DEFINE v == [w EXCEPT !.at = a]
    <2>1. GoodWalk(v) /\ v.at # "resolve"
      <3> HIDE DEF w
      <3>. QED BY <1>3 DEF GoodWalk, Walks
    <2>2. conn' = [conn EXCEPT ![c] = v] BY <1>3
    <2> HIDE DEF v
    <2>. QED BY <1>1, <1>3, <2>1, <2>2
  <1>4. ASSUME NEW a \in {"error", "bypassed", "rejected", "default", "hijacked"}, Over(c, a), GoodWalk(w),
               UNCHANGED <<config, sets, query, reverse>>
        PROVE  RouterInv'
    <2> DEFINE v == [w EXCEPT !.at = "over", !.verdict = a]
    <2>1. GoodWalk(v) /\ v.at # "resolve"
      <3> HIDE DEF w
      <3>. QED BY <1>4 DEF GoodWalk, Walks
    <2>2. conn' = [conn EXCEPT ![c] = v] BY <1>4 DEF Over
    <2> HIDE DEF v
    <2>. QED BY <1>1, <1>4, <2>1, <2>2
  <1>5. ASSUME NEW m \in Metas, Plain(m), OwnAddresses(m, w.given), conn' = [conn EXCEPT ![c].at = "match", ![c].meta = m],
               GoodWalk(w), UNCHANGED <<config, sets, query, reverse>>
        PROVE  RouterInv'
    <2> DEFINE v == [w EXCEPT !.at = "match", !.meta = m]
    <2>1. GoodWalk(v) /\ v.at # "resolve"
      <3> HIDE DEF w
      <3>. QED BY <1>5 DEF GoodWalk, Walks
    <2>2. conn' = [conn EXCEPT ![c] = v] BY <1>5
    <2> HIDE DEF v
    <2>. QED BY <1>1, <1>5, <2>1, <2>2
  <1>6. ASSUME LetThrough(c), GoodWalk(w), UNCHANGED <<config, sets, query, reverse>> PROVE RouterInv'
    BY <1>2, <1>6, <1>e DEF LetThrough
  <1>7. CASE Comes(c)
    <2>1. PICK e \in Entries : Enter(c, e, e.tun) BY <1>7 DEF Comes
    <2>2. e.tun \in BOOLEAN BY RouterAssumption
    <2>3. UNCHANGED <<config, sets, query, reverse>> BY <1>7 DEF Comes, configVars, dnsVars
    <2>. QED BY <1>2, <2>1, <2>2, <2>3
  <1>8. CASE MatchRule(c)
    <2> DEFINE v == [w EXCEPT !.index = NextRule(c), !.at = "matched"]
    <2>0. GoodWalk(w) BY <1>8, <1>n DEF MatchRule, NotCome
    <2>1. conn' = [conn EXCEPT ![c] = v] /\ UNCHANGED <<config, sets, query, reverse>>
      BY <1>8 DEF MatchRule, configVars, dnsVars
    <2>2. NextRule(c) \in 0 .. Len(routeRules) BY <2>0, NextRuleIsNext
    <2>3. GoodWalk(v) /\ v.at # "resolve"
      <3> DEFINE i == NextRule(c)
      <3> HIDE DEF w, i
      <3>1. i \in 0 .. Len(routeRules) /\ i \in Nat BY <2>2, RulesAreRules DEF i
      <3>2. GoodWalk([w EXCEPT !.index = i, !.at = "matched"]) BY <2>0, <3>1 DEF GoodWalk, Walks
      <3>3. [w EXCEPT !.index = i, !.at = "matched"].at = "matched" BY <2>0 DEF GoodWalk, Walks
      <3>. QED BY <3>2, <3>3 DEF i
    <2> HIDE DEF v
    <2>. QED BY <1>1, <2>1, <2>3
  <1>9. ASSUME NEW actions, AtRule(c, actions)
        PROVE  /\ GoodWalk(w) /\ Rule(c).ip \in Addresses \cup {None} /\ Rule(c).fqdn \in Domains \cup {None}
               /\ Rule(c).port \in Ports \cup {0} /\ UNCHANGED <<config, sets, reverse>>
    <2>1. GoodWalk(w) BY <1>9, <1>n DEF AtRule, NotCome
    <2>2. w.index \in 1 .. Len(routeRules) BY <1>9, <2>1, RulesAreRules DEF GoodWalk, AtRule
    <2>. QED BY <1>0, <1>9, <2>1, <2>2 DEF AtRule, Rule, configVars
  <1>10. CASE Routes(c)
    <2>1. /\ GoodWalk(w) /\ UNCHANGED <<config, sets, query, reverse>>
          /\ Rule(c).ip \in Addresses \cup {None} /\ Rule(c).fqdn \in Domains \cup {None}
          /\ Rule(c).port \in Ports \cup {0}
      BY <1>9, <1>10 DEF Routes
    <2> DEFINE m == IF Rule(c).action = "route" THEN Overridden(Rule(c), w.meta) ELSE w.meta
    <2>2. \/ Over(c, "bypassed") \/ Over(c, "error") \/ GoOn(c) \/ LetThrough(c)
          \/ /\ Rule(c).outbound \in Outbounds
             /\ conn' = [conn EXCEPT ![c].at = "over", ![c].verdict = Rule(c).outbound, ![c].meta = m]
      BY <1>10 DEF Routes
    <2>3. CASE conn' = [conn EXCEPT ![c].at = "over", ![c].verdict = Rule(c).outbound, ![c].meta = m]
               /\ Rule(c).outbound \in Outbounds
      <3> DEFINE o == Rule(c).outbound
                 v == [w EXCEPT !.at = "over", !.verdict = o, !.meta = m]
      <3>1. m \in Metas /\ Plain(m) /\ OwnAddresses(m, w.given) BY <2>1, <1>e, OverriddenIsGood
      <3>2. conn' = [conn EXCEPT ![c] = v] BY <2>3
      <3> HIDE DEF m, w, o
      <3>3. GoodWalk(v) /\ v.at # "resolve" BY <2>1, <2>3, <3>1 DEF GoodWalk, Walks, o
      <3> HIDE DEF v
      <3>. QED BY <1>1, <2>1, <3>2, <3>3
    <2> HIDE DEF w, m
    <2>4. CASE GoOn(c) BY <1>3, <2>1, <2>4 DEF GoOn
    <2>. QED BY <1>4, <1>6, <2>1, <2>2, <2>3, <2>4
  <1>11. CASE RouteOptions(c)
    <2>1. /\ GoodWalk(w) /\ UNCHANGED <<config, sets, query, reverse>>
          /\ Rule(c).ip \in Addresses \cup {None} /\ Rule(c).fqdn \in Domains \cup {None}
          /\ Rule(c).port \in Ports \cup {0}
      BY <1>9, <1>11 DEF RouteOptions
    <2> DEFINE m == Overridden(Rule(c), w.meta)
    <2>2. m \in Metas /\ Plain(m) /\ OwnAddresses(m, w.given) BY <2>1, <1>e, OverriddenIsGood
    <2>3. conn' = [conn EXCEPT ![c].at = "match", ![c].meta = m] BY <1>11 DEF RouteOptions
    <2> HIDE DEF m, w
    <2>. QED BY <1>5, <2>1, <2>2, <2>3
  <1>12. CASE Rejects(c)
    <2>1. GoodWalk(w) /\ UNCHANGED <<config, sets, query, reverse>> /\ Over(c, "rejected")
      BY <1>9, <1>12 DEF Rejects
    <2>. QED BY <1>4, <2>1
  <1>13. CASE HijacksDNS(c)
    <2>1. GoodWalk(w) /\ UNCHANGED <<config, sets, query, reverse>> BY <1>9, <1>13 DEF HijacksDNS
    <2>2. LetThrough(c) \/ conn' = [conn EXCEPT ![c].at = "dns"] BY <1>13 DEF HijacksDNS
    <2> HIDE DEF w
    <2>. QED BY <1>3, <1>6, <2>1, <2>2
  <1>14. CASE Sniffs(c)
    <2>1. GoodWalk(w) /\ UNCHANGED <<config, sets, query, reverse>> BY <1>9, <1>14 DEF Sniffs
    <2> DEFINE k == w.meta
               s == [k EXCEPT !.protocol = "tls", !.domain = w.entry.hello]
               m == IF k.protocol # None \/ w.entry.hello = None THEN k ELSE s
    <2>2. LetThrough(c) \/ conn' = [conn EXCEPT ![c].at = "match", ![c].meta = m]
      BY <1>14 DEF Sniffs, PreMatchSniff
    <2>3. w.entry.hello \in Domains \cup {None} BY <2>1, <1>e, RouterAssumption
    <2>4. k \in Metas /\ Plain(k) /\ OwnAddresses(k, w.given) BY <2>1, <1>e
    <2> HIDE DEF w, k
    <2>5. s \in Metas /\ Plain(s) /\ s.addresses = k.addresses /\ s.fqdn = k.fqdn
      BY <2>3, <2>4 DEF Metas, Plain
    <2> HIDE DEF s
    <2>6. m \in Metas /\ Plain(m) /\ OwnAddresses(m, w.given) BY <2>4, <2>5 DEF OwnAddresses
    <2> HIDE DEF m
    <2>. QED BY <1>5, <1>6, <2>1, <2>2, <2>6
  <1>15. CASE SniffFails(c)
    <2>1. GoodWalk(w) /\ UNCHANGED <<config, sets, query, reverse>> /\ Over(c, "error")
      BY <1>9, <1>15 DEF SniffFails
    <2>. QED BY <1>4, <2>1
  <1>16. CASE Resolves(c)
    <2>1. GoodWalk(w) /\ UNCHANGED <<config, sets, reverse>> BY <1>9, <1>16 DEF Resolves
    <2>2. CASE GoOn(c) /\ UNCHANGED query
      <3> HIDE DEF w
      <3>. QED BY <1>3, <2>1, <2>2 DEF GoOn
    <2> DEFINE s == Rule(c).server
               k == IF s = None THEN "lookup" ELSE "direct"
    <2>4. CASE Over(c, "error") /\ UNCHANGED query BY <1>4, <2>1, <2>4
    <2>3. CASE /\ w.meta.fqdn # None /\ conn' = [conn EXCEPT ![c].at = "resolve"]
               /\ s \in Servers \cup {None} /\ Begin(c, k, TRUE, w.meta.fqdn, w.meta, s)
      <3> DEFINE v == [w EXCEPT !.at = "resolve"]
      <3>s. k \in {"exchange", "lookup", "direct"} /\ s \in (IF k = "direct" THEN Servers ELSE {None})
        BY <2>3
      <3>r. /\ w.index \in 1 .. Len(routeRules) /\ routeRules[w.index].action = "resolve"
            /\ s = routeRules[w.index].server /\ k = IF s = None THEN "lookup" ELSE "direct"
        BY <1>16, <2>1, RulesAreRules DEF Resolves, AtRule, Rule, GoodWalk
      <3> HIDE DEF s, k
      <3>1. w.meta \in Metas /\ Plain(w.meta) /\ w.meta.fqdn \in Domains BY <2>1, <1>e, <2>3 DEF Metas
      <3>2. /\ DOMAIN query' = Conns /\ \A b \in Conns : b # c => query'[b] = query[b]
            /\ GoodQuery(query'[c]) /\ query'[c].at # "none" /\ query'[c].kind = k /\ query'[c].server = s
            /\ query'[c].address = TRUE /\ query'[c].meta.domain = w.meta.fqdn
            /\ query'[c].meta = QueryMeta(w.meta, w.meta.fqdn)
        <4> DEFINE m == w.meta
                   n == m.fqdn
                   yes == TRUE
        <4>1. n \in Domains /\ m \in Metas /\ Plain(m) /\ yes \in BOOLEAN /\ Begin(c, k, yes, n, m, s)
          BY <2>3, <3>1
        <4> HIDE DEF m, n, w, yes
        <4>2. /\ DOMAIN query' = Conns /\ \A b \in Conns : b # c => query'[b] = query[b]
              /\ GoodQuery(query'[c]) /\ query'[c].kind = k /\ query'[c].server = s
              /\ query'[c].address = yes /\ query'[c].at # "none"
              /\ query'[c].meta = QueryMeta(m, n) /\ query'[c].meta.domain = n
          BY <3>s, <4>1, BeginIsGood
        <4>. QED BY <4>2 DEF m, n, yes
      <3>3. conn' = [conn EXCEPT ![c] = v] BY <2>3
      <3>4. GoodWalk(v) /\ v.meta = w.meta /\ v.index = w.index
        <4> HIDE DEF w
        <4>. QED BY <2>1 DEF GoodWalk, Walks
      <3> HIDE DEF v
      <3>5. DOMAIN conn' = Conns /\ conn'[c] = v /\ \A d \in Conns : d # c => conn'[d] = conn[d]
        BY <1>0, <3>3
      <3>6. Awaits(conn'[c], query'[c]) BY <3>2, <3>4, <3>5, <3>r DEF Awaits
      <3>. QED BY <1>0, <2>1, <3>2, <3>4, <3>5, <3>6, StepKeeps
    <2>. QED BY <1>16, <2>2, <2>3, <2>4 DEF Resolves
  <1>17. CASE Resolved(c)
    <2> DEFINE q == query[c]
               found == LookupResult(q)
               m == [w.meta EXCEPT !.addresses = found]
               f == w.failed \/ q.failed # {} \/ q.result = "error"
               g == q.meta.domain
               x == [w EXCEPT !.at = "over", !.verdict = "error", !.failed = f]
               y == [w EXCEPT !.at = "match", !.failed = f, !.meta = m, !.given = g]
               v == IF found = {} THEN x ELSE y
    <2>1. /\ UNCHANGED <<config, sets, reverse>> /\ w.at = "resolve" /\ q.at = "done"
          /\ query' = [query EXCEPT ![c] = NoQuery]
      BY <1>17 DEF Resolved, configVars
    <2>2. GoodWalk(w) BY <2>1, <1>n DEF NotCome
    <2>3. /\ GoodQuery(q) /\ q.address = TRUE /\ q.meta.domain = w.meta.fqdn
          /\ q.kind = "lookup" \/ q.server \in {routeRules[i].server : i \in
                {j \in 1 .. Len(routeRules) : routeRules[j].action = "resolve"}}
      BY <1>0, <2>1 DEF RouterInv, Awaits, NoQuery
    <2>4. conn' = [conn EXCEPT ![c] = v] BY <1>17 DEF Resolved
    <2>5. /\ found \subseteq Addresses
          /\ found # {} => Finds(w.meta.fqdn, found)
      <3>1. CASE q.result = "answer"
        <4>1. q.server \in Resolvers /\ q.server \in Servers /\ w.meta.fqdn \in Domains
          BY <2>3, <3>1 DEF GoodQuery, Resolvers
        <4>2. found = Zone[q.server][w.meta.fqdn] BY <2>3, <3>1 DEF LookupResult, Answer
        <4>3. Zone[q.server][w.meta.fqdn] \subseteq Addresses BY <4>1, DNSRouterAssumption
        <4> HIDE DEF q, found, w
        <4>. QED BY <4>1, <4>2, <4>3 DEF Finds
      <3>2. CASE q.result = "predefined"
        <4>1. q.index \in 1 .. Len(dnsRules) /\ dnsRules[q.index].action = "predefined"
          BY <2>3, <3>2 DEF GoodQuery
        <4>2. found = dnsRules[q.index].answer BY <3>2 DEF LookupResult
        <4> HIDE DEF q, found, w
        <4>. QED BY <4>1, <4>2, RulesAreRules DEF Finds
      <3>3. CASE q.result # "answer" /\ q.result # "predefined" BY <3>3 DEF LookupResult
      <3>. QED BY <3>1, <3>2, <3>3
    <2>6. w.meta \in Metas /\ Plain(w.meta) BY <2>2, <1>e
    <2> HIDE DEF found, w, q
    <2>7. m \in Metas /\ Plain(m) /\ m.addresses = found /\ m.fqdn = w.meta.fqdn
      BY <2>5, <2>6 DEF Metas, Plain
    <2>8. OwnAddresses(m, g) /\ g \in Domains BY <2>3, <2>5, <2>7 DEF OwnAddresses, GoodQuery
    <2>9. f \in BOOLEAN OBVIOUS
    <2> HIDE DEF m, f, g
    <2>a. x.at = "over" /\ GoodWalk(x) BY <2>2, <2>9 DEF GoodWalk, Walks
    <2>b. y.at = "match" /\ GoodWalk(y) BY <2>2, <2>7, <2>8, <2>9 DEF GoodWalk, Walks
    <2> HIDE DEF x, y
    <2>10. v.at # "resolve" /\ GoodWalk(v) BY <2>a, <2>b
    <2> HIDE DEF v
    <2>11. /\ DOMAIN conn' = Conns /\ conn'[c] = v /\ \A d \in Conns : d # c => conn'[d] = conn[d]
           /\ DOMAIN query' = Conns /\ query'[c] = NoQuery /\ \A d \in Conns : d # c => query'[d] = query[d]
      BY <1>0, <2>1, <2>4
    <2>12. Awaits(conn'[c], query'[c]) BY <2>10, <2>11 DEF Awaits
    <2>. QED BY <1>0, <2>1, <2>10, <2>11, <2>12, StepKeeps
  <1>18. CASE EndOfRules(c)
    <2>1. GoodWalk(w) /\ UNCHANGED <<config, sets, query, reverse>>
      BY <1>18, <1>n DEF EndOfRules, NotCome, configVars, dnsVars
    <2>2. LetThrough(c) \/ Over(c, "default") BY <1>18 DEF EndOfRules
    <2>. QED BY <1>4, <1>6, <2>1, <2>2
  <1>19. CASE Asks(c)
    <2>1. GoodWalk(w) /\ UNCHANGED <<config, sets, reverse, conn>> /\ w.at = "dns"
      BY <1>19, <1>n DEF Asks, NotCome, configVars
    <2>2. PICK d \in Domains, address \in BOOLEAN : Begin(c, "exchange", address, d, w.meta, None)
      BY <1>19 DEF Asks
    <2>k. "exchange" \in {"exchange", "lookup", "direct"}
          /\ None \in (IF "exchange" = "direct" THEN Servers ELSE {None})
      OBVIOUS
    <2>3. /\ DOMAIN query' = Conns /\ \A b \in Conns : b # c => query'[b] = query[b]
          /\ GoodQuery(query'[c])
      BY <2>1, <2>2, <2>k, <1>e, BeginIsGood
    <2>4. Awaits(conn'[c], query'[c]) BY <2>1 DEF Awaits
    <2>. QED BY <1>0, <1>n, <2>1, <2>3, <2>4, StepKeeps
  <1>20. CASE ClientCloses(c)
    <2>1. GoodWalk(w) /\ UNCHANGED <<config, sets, query, reverse>> /\ Over(c, "hijacked")
      BY <1>20, <1>n DEF ClientCloses, NotCome, configVars, dnsVars
    <2>. QED BY <1>4, <2>1
  <1>. QED
    BY <1>7, <1>8, <1>10, <1>11, <1>12, <1>13, <1>14, <1>15, <1>16, <1>17, <1>18, <1>19, <1>20
       DEF ConnStep

\* Whatever connections come, whatever servers answer, and a rule-set may be
\* reloaded at any time.
LEMMA RouterInvKept == RouterInv /\ [Next]_vars => RouterInv'
  <1> SUFFICES ASSUME RouterInv, [Next]_vars PROVE RouterInv' OBVIOUS
  <1>1. ASSUME NEW c \in Conns, Comes(c) \/ ConnStep(c) \/ Asks(c) \/ ClientCloses(c) PROVE RouterInv'
    BY <1>1, ConnStepKeeps
  <1>2. ASSUME NEW c \in Conns, QueryStep(c) PROVE RouterInv' BY <1>2, QueryStepKeeps
  <1>3. CASE Reload
    <2>1. PICK tag \in DOMAIN Configs[config].update :
            sets' = [sets EXCEPT ![tag] = Configs[config].update[tag]]
      BY <1>3 DEF Reload, ReloadRules
    <2>2. UNCHANGED <<config, query, reverse, conn>> BY <1>3 DEF Reload, dnsVars
    <2>3. config \in DOMAIN Configs BY DEF RouterInv
    <2>4. tag \in Tags /\ \A h \in Configs[config].update[tag] : IsHeadlessRule(h)
      BY <2>3, RouterAssumption
    <2>5. DOMAIN sets' = Tags /\ \A t \in Tags : \A h \in sets'[t] : IsHeadlessRule(h)
      BY <2>1, <2>4 DEF RouterInv
    <2>. QED BY <2>2, <2>5, SameConfig DEF RouterInv
  <1>4. CASE UNCHANGED vars
    <2>1. UNCHANGED <<config, sets, query, reverse, conn>> BY <1>4 DEF vars, configVars, dnsVars
    <2>. QED BY <2>1, SameConfig DEF RouterInv
  <1>. QED BY <1>1, <1>2, <1>3, <1>4 DEF Next, Done

\* Connections and queries are what the router makes of them.
THEOREM RouterInvariance == Spec => []RouterInv
  BY RouterInvInit, RouterInvKept, PTL DEF Spec

\* A connection is dialed with addresses that were given for the domain it goes
\* to, by a server the rules have the router ask or by a predefined rule.
THEOREM AddressesAreOwn == Spec => []DialsOwnAddresses
  <1>1. RouterInv => DialsOwnAddresses
    BY DEF RouterInv, DialsOwnAddresses, Come, NotCome, GoodWalk, OwnAddresses
  <1>. QED BY <1>1, RouterInvariance, PTL

\* A route rule whose flags reach the rules of its sets matches exactly when the
\* documented formula holds: for every rule of every configuration, whatever
\* rule-sets are reloaded, for every connection that walks.
THEOREM RulesMatchAsDocumented == Spec => []MatchesAsDocumented
  <1>1. ASSUME RouterInv, NEW r, IsRule(r), FlagsReach(r), NEW m \in Metas, Plain(m)
        PROVE  Match(r, m) <=> Documented(r, m)
    <2>1. \A p \in Parts(r) : IncludesRules(p)
      BY <1>1 DEF IsRule, IsHeadlessRule, FlagsReach, IncludesRules, RouterInv
    <2>. QED BY <1>1, <2>1, RuleMatchesAsDocumented DEF IsRule
  <1>2. RouterInv => MatchesAsDocumented
    <2> SUFFICES ASSUME RouterInv PROVE MatchesAsDocumented OBVIOUS
    <2>1. \A c \in Conns : conn[c].at = "match" => conn[c].meta \in Metas /\ Plain(conn[c].meta)
      BY DEF RouterInv, NotCome, GoodWalk, Walks
    <2>2. \A i \in 1 .. Len(routeRules) : IsRule(routeRules[i].match) BY RulesAreRules
    <2>. QED BY <1>1, <2>1, <2>2 DEF MatchesAsDocumented
  <1>. QED BY <1>2, RouterInvariance, PTL

-----------------------------------------------------------------------------
(* As long as no rule-set is reloaded, rules match as they did.            *)

\* While the rule-sets stay the same, a rule matches the same.
LEMMA SameSets ==
    ASSUME UNCHANGED sets, NEW r, NEW m
    PROVE  /\ Match(r, m)' <=> Match(r, m)
           /\ WithAddressLimit(r)' <=> WithAddressLimit(r)
  <1>1. ASSUME NEW p, NEW k, NEW base PROVE RuleSetStates(p, k, base)' = RuleSetStates(p, k, base)
    BY DEF RuleSetStates
  <1>2. ASSUME NEW p, NEW k, NEW base PROVE TopStates(p, k, base)' = TopStates(p, k, base)
    BY <1>1 DEF TopStates
  <1>3. ASSUME NEW k PROVE MatchStates(r, k)' = MatchStates(r, k)
    <2> DEFINE now == [i \in 1 .. Len(r.rules) |-> TopStates(r.rules[i], ResetRuleCache(k), EvaluationBase(r, {}))]
               then == [i \in 1 .. Len(r.rules) |-> TopStates(r.rules[i], ResetRuleCache(k), EvaluationBase(r, {}))']
    <2>1. now = then BY <1>2
    <2>2. TopStates(r, k, {})' = TopStates(r, k, {}) BY <1>2
    <2>3. MatchStates(r, k) = IF r.logical THEN LogicalStates(r, {}, now) ELSE TopStates(r, k, {})
      BY DEF MatchStates
    <2>4. MatchStates(r, k)' = IF r.logical THEN LogicalStates(r, {}, then) ELSE TopStates(r, k, {})'
      BY DEF MatchStates
    <2> HIDE DEF now, then
    <2>. QED BY <2>1, <2>2, <2>3, <2>4
  <1>4. Match(r, m)' <=> Match(r, m) BY <1>3 DEF Match
  <1>5. WithAddressLimit(r)' <=> WithAddressLimit(r) BY DEF WithAddressLimit, ContainsIPCIDRRule
  <1>. QED BY <1>4, <1>5

-----------------------------------------------------------------------------
(* What a query has walked past.                                           *)

\* Rule i, with the answer of its own server, is the one for q.
Settles(i, q) ==
    /\ RuleMatches(i, q) /\ Decides(i, q)
    /\ dnsRules[i].action = "route" /\ WithAddressLimit(dnsRules[i].match) =>
        Match(dnsRules[i].match,
              [q.meta EXCEPT !.addresses = Zone[dnsRules[i].server][q.meta.domain]])

RuleServer(i) == IF i = 0 THEN DefaultServer ELSE dnsRules[i].server

\* The walk of q is behind rule i.
Behind(q, i) ==
    IF q.at = "match" THEN i <= q.index ELSE i < q.index \/ q.index = 0

\* The walk has passed over no rule that would have settled the query, other than
\* those whose server has failed, and has come to one that may, or does.
Walked(q) ==
    /\ \A i \in 1 .. Len(dnsRules) : Behind(q, i) /\ Settles(i, q) => i \in q.failed
    /\ q.index # 0 => q.index \in 1 .. Len(dnsRules)
    /\ q.at \in {"check", "asked"} =>
        /\ q.server = RuleServer(q.index)
        /\ q.index # 0 => /\ RuleMatches(q.index, q) /\ Decides(q.index, q)
                          /\ dnsRules[q.index].action = "route"
    /\ q.at = "asked" =>
        (q.check <=> q.index # 0 /\ WithAddressLimit(dnsRules[q.index].match))
    /\ q.at = "done" /\ q.result # "error" =>
        /\ q.index # 0 => Settles(q.index, q)
        /\ q.result = "answer" <=> q.index = 0 \/ dnsRules[q.index].action = "route"
        /\ q.result # "answer" => q.result = dnsRules[q.index].action
        /\ q.result = "answer" => q.server = RuleServer(q.index)

\* A query that takes a step, from q to p.
Steps(q, p) ==
    /\ p.kind = q.kind /\ p.address = q.address /\ p.meta = q.meta
    /\ \/ /\ q.at = "match" /\ p.index = RuleFound(q) /\ p.failed = q.failed
          /\ \/ /\ p.at = "done" /\ p.index # 0 /\ dnsRules[p.index].action # "route"
                /\ p.result = dnsRules[p.index].action
             \/ /\ p.at = "check" /\ (p.index # 0 => dnsRules[p.index].action = "route")
                /\ p.server = RuleServer(p.index)
       \/ /\ q.at = "check" /\ p.at = "asked" /\ p.index = q.index
          /\ p.failed = q.failed /\ p.server = q.server
          /\ p.check <=> q.index # 0 /\ WithAddressLimit(dnsRules[q.index].match)
       \/ /\ q.at = "asked" /\ p.index = q.index /\ p.server = q.server
          /\ \/ p.at = "done" /\ p.result = "answer" /\ p.failed = q.failed /\ Accepted(q)
             \/ p.at = "match" /\ p.failed = q.failed /\ ~Accepted(q)
             \/ p.at = "match" /\ p.failed = q.failed \cup {q.index} /\ q.check
             \/ p.at = "done" /\ p.result = "error" /\ p.failed = q.failed

\* These are all the steps of a query.
LEMMA QuerySteps ==
    ASSUME RouterInv, NEW c \in Conns, QueryStep(c)
    PROVE  GoodQuery(query[c]) /\ Steps(query[c], query'[c])
  <1> DEFINE q == query[c]
             p == query'[c]
  <1>0. DOMAIN query = Conns BY DEF RouterInv
  <1>1. q.at # "none" /\ GoodQuery(q)
    <2>1. q.at \in {"match", "check", "asked"} BY DEF QueryStep, DNSStep, MatchDNS, Ask, Answered, Fails
    <2>. QED BY <2>1 DEF RouterInv, NoQuery
  <1>2. q \in DNSQueries BY <1>1 DEF GoodQuery
  <1>3. CASE MatchDNS(c)
    <2> DEFINE rule == RuleFound(q)
    <2>1. CASE rule # 0 /\ dnsRules[rule].action # "route"
      <3>1. p = [q EXCEPT !.index = rule, !.at = "done", !.result = dnsRules[rule].action] /\ q.at = "match"
        BY <1>0, <1>3, <2>1 DEF MatchDNS
      <3> HIDE DEF rule, q, p
      <3>. QED BY <1>1, <1>2, <2>1, <3>1 DEF DNSQueries, Steps, q, p, rule
    <2>2. CASE ~(rule # 0 /\ dnsRules[rule].action # "route")
      <3> DEFINE s == RuleServer(rule)
      <3>1. p = [q EXCEPT !.index = rule, !.at = "check", !.server = s] /\ q.at = "match"
        BY <1>0, <1>3, <2>2 DEF MatchDNS, RuleServer
      <3> HIDE DEF rule, q, p, s
      <3>2. /\ p.kind = q.kind /\ p.address = q.address /\ p.meta = q.meta /\ p.index = rule
            /\ p.at = "check" /\ p.server = s /\ p.failed = q.failed
        BY <1>2, <3>1 DEF DNSQueries
      <3>. QED BY <1>1, <2>2, <3>1, <3>2 DEF Steps, q, p, rule, s
    <2>. QED BY <2>1, <2>2
  <1>4. CASE Ask(c)
    <2> DEFINE x == q.index # 0 /\ WithAddressLimit(dnsRules[q.index].match)
    <2>1. p = [q EXCEPT !.at = "asked", !.check = x] /\ q.at = "check" BY <1>0, <1>4 DEF Ask
    <2> HIDE DEF q, p, x
    <2>2. /\ p.kind = q.kind /\ p.address = q.address /\ p.meta = q.meta /\ p.index = q.index
          /\ p.at = "asked" /\ p.server = q.server /\ p.failed = q.failed /\ (p.check <=> x)
      BY <1>2, <2>1 DEF DNSQueries
    <2>. QED BY <1>1, <2>1, <2>2 DEF Steps, q, p, x
  <1>5. ASSUME NEW result, Finish(c, result)
        PROVE  /\ p.kind = q.kind /\ p.address = q.address /\ p.meta = q.meta /\ p.index = q.index
               /\ p.at = "done" /\ p.result = result /\ p.server = q.server /\ p.failed = q.failed
    <2>1. p = [q EXCEPT !.at = "done", !.result = result] BY <1>0, <1>5 DEF Finish
    <2> HIDE DEF q, p
    <2>. QED BY <1>2, <2>1 DEF DNSQueries
  <1>6. CASE Answered(c)
    <2>1. q.at = "asked" BY <1>6 DEF Answered
    <2>2. CASE Accepted(q) /\ Finish(c, "answer") BY <1>1, <1>5, <2>1, <2>2 DEF Steps
    <2>3. CASE ~Accepted(q) /\ query' = [query EXCEPT ![c].at = "match"]
      <3>1. p = [q EXCEPT !.at = "match"] BY <1>0, <2>3
      <3> HIDE DEF q, p
      <3>2. /\ p.kind = q.kind /\ p.address = q.address /\ p.meta = q.meta /\ p.index = q.index
            /\ p.at = "match" /\ p.server = q.server /\ p.failed = q.failed
        BY <1>2, <3>1 DEF DNSQueries
      <3>. QED BY <1>1, <2>1, <2>3, <3>2 DEF Steps, q, p
    <2>. QED BY <1>6, <2>2, <2>3 DEF Answered
  <1>7. CASE Fails(c)
    <2>1. q.at = "asked" BY <1>7 DEF Fails
    <2>2. CASE Finish(c, "error") BY <1>1, <1>5, <2>1, <2>2 DEF Steps
    <2>3. CASE q.check /\ query' = [query EXCEPT ![c].at = "match", ![c].failed = @ \cup {q.index}]
      <3>1. p = [q EXCEPT !.at = "match", !.failed = q.failed \cup {q.index}] BY <1>0, <2>3
      <3> HIDE DEF q, p
      <3>2. /\ p.kind = q.kind /\ p.address = q.address /\ p.meta = q.meta /\ p.index = q.index
            /\ p.at = "match" /\ p.server = q.server /\ p.failed = q.failed \cup {q.index}
        BY <1>2, <3>1 DEF DNSQueries
      <3>. QED BY <1>1, <2>1, <2>3, <3>2 DEF Steps, q, p
    <2>. QED BY <1>7, <2>2, <2>3 DEF Fails
  <1>. QED BY <1>3, <1>4, <1>6, <1>7 DEF QueryStep, DNSStep

\* What settles a query does not depend on where it is.
LEMMA SettlesAlike ==
    ASSUME NEW q, NEW p, p.kind = q.kind, p.address = q.address, p.meta = q.meta, NEW i
    PROVE  /\ RuleMatches(i, p) <=> RuleMatches(i, q)
           /\ Decides(i, p) <=> Decides(i, q)
           /\ Settles(i, p) <=> Settles(i, q)
  <1>1. RuleMatches(i, p) <=> RuleMatches(i, q) BY DEF RuleMatches
  <1>2. Decides(i, p) <=> Decides(i, q) BY DEF Decides, ServerUsable
  <1>. QED BY <1>1, <1>2 DEF Settles

\* The answer to a query whose rule checks it is accepted when the rule settles it.
LEMMA AcceptedSettles ==
    ASSUME NEW q, Walked(q), q.at = "asked", q.index # 0
    PROVE  Accepted(q) <=> Settles(q.index, q)
  <1>1. /\ q.server = dnsRules[q.index].server /\ RuleMatches(q.index, q) /\ Decides(q.index, q)
        /\ dnsRules[q.index].action = "route"
        /\ q.check <=> WithAddressLimit(dnsRules[q.index].match)
    BY DEF Walked, RuleServer
  <1>2. CASE q.check
    <2>1. q.address BY <1>1, <1>2 DEF RuleMatches
    <2>2. AddressLimit(q) = [q.meta EXCEPT !.addresses = Zone[dnsRules[q.index].server][q.meta.domain]]
      BY <1>1, <2>1 DEF AddressLimit, Answer
    <2>. QED BY <1>1, <1>2, <2>2 DEF Accepted, Settles
  <1>3. CASE ~q.check BY <1>1, <1>3 DEF Accepted, Settles
  <1>. QED BY <1>2, <1>3

\* The walk goes on.
LEMMA WalkedKept ==
    ASSUME RouterInv, NEW q, GoodQuery(q), Walked(q), NEW p, GoodQuery(p), Steps(q, p)
    PROVE  Walked(p)
  <1>0. /\ q.index \in Nat /\ p.index \in Nat /\ Len(dnsRules) \in Nat /\ q \in DNSQueries
        /\ q.failed \subseteq Nat
    BY RulesAreRules DEF GoodQuery, DNSQueries
  <1>1. \A i : /\ RuleMatches(i, p) <=> RuleMatches(i, q)
               /\ Decides(i, p) <=> Decides(i, q)
               /\ Settles(i, p) <=> Settles(i, q)
    BY SettlesAlike DEF Steps
  <1>2. CASE q.at = "match" /\ p.index = RuleFound(q) /\ p.failed = q.failed /\ p.at # "match"
             /\ p.at # "asked"
             /\ (p.at = "check" => /\ p.index # 0 => dnsRules[p.index].action = "route"
                                   /\ p.server = RuleServer(p.index))
             /\ (p.at = "done" => /\ p.index # 0 /\ dnsRules[p.index].action # "route"
                                  /\ p.result = dnsRules[p.index].action)
    <2>1. /\ p.index # 0 => /\ p.index \in 1 .. Len(dnsRules) /\ p.index > q.index
                            /\ RuleMatches(p.index, q) /\ Decides(p.index, q)
          /\ \A i \in 1 .. Len(dnsRules) :
                i > q.index /\ (p.index = 0 \/ i < p.index) => ~(RuleMatches(i, q) /\ Decides(i, q))
      BY <1>0, <1>2, RuleFoundDecides
    <2>2. \A i \in 1 .. Len(dnsRules) : Behind(p, i) /\ Settles(i, p) => i \in p.failed
      <3> SUFFICES ASSUME NEW i \in 1 .. Len(dnsRules), Behind(p, i), Settles(i, p) PROVE i \in p.failed
        OBVIOUS
      <3>1. i < p.index \/ p.index = 0 BY <1>2 DEF Behind
      <3>2. RuleMatches(i, q) /\ Decides(i, q) /\ Settles(i, q) BY <1>1 DEF Settles
      <3>3. ~(i > q.index) BY <2>1, <3>1, <3>2
      <3>4. Behind(q, i) BY <1>0, <1>2, <3>3 DEF Behind
      <3>. QED BY <1>2, <3>2, <3>4 DEF Walked
    <2>3. p.at = "done" => Settles(p.index, p) /\ p.result # "answer"
      <3> SUFFICES ASSUME p.at = "done" PROVE Settles(p.index, p) /\ p.result # "answer" OBVIOUS
      <3>1. Settles(p.index, p) BY <1>1, <1>2, <2>1 DEF Settles
      <3>2. dnsRules[p.index].action \in {"reject", "predefined"} BY <1>2, <2>1 DEF Decides
      <3>. QED BY <1>2, <3>1, <3>2
    <2>. QED BY <1>1, <1>2, <2>1, <2>2, <2>3 DEF Walked
  <1>3. CASE /\ q.at = "check" /\ p.at = "asked" /\ p.index = q.index
             /\ p.failed = q.failed /\ p.server = q.server
             /\ p.check <=> q.index # 0 /\ WithAddressLimit(dnsRules[q.index].match)
    <2>1. \A i : Behind(p, i) <=> Behind(q, i) BY <1>3 DEF Behind
    <2>. QED BY <1>1, <1>3, <2>1 DEF Walked
  <1>4. CASE /\ q.at = "asked" /\ p.index = q.index /\ p.server = q.server
             /\ p.at = "done" /\ p.failed = q.failed
             /\ \/ p.result = "answer" /\ Accepted(q)
                \/ p.result = "error"
    <2>1. \A i : Behind(p, i) <=> Behind(q, i) BY <1>4 DEF Behind
    <2>2. p.result # "error" /\ p.index # 0 => Settles(p.index, p) BY <1>1, <1>4, AcceptedSettles
    <2>3. p.index # 0 => dnsRules[p.index].action = "route" BY <1>4 DEF Walked
    <2>. QED BY <1>1, <1>4, <2>1, <2>2, <2>3 DEF Walked
  <1>5. CASE /\ q.at = "asked" /\ p.index = q.index /\ p.at = "match"
             /\ \/ p.failed = q.failed /\ ~Accepted(q)
                \/ p.failed = q.failed \cup {q.index} /\ q.check
    <2>1. q.index # 0 BY <1>5 DEF Walked, Accepted
    <2>2. \A i \in 1 .. Len(dnsRules) : Behind(p, i) => Behind(q, i) \/ i = q.index
      BY <1>0, <1>5 DEF Behind
    <2>3. Settles(q.index, q) => q.index \in p.failed BY <1>5, <2>1, AcceptedSettles
    <2>4. \A i \in 1 .. Len(dnsRules) : Behind(p, i) /\ Settles(i, p) => i \in p.failed
      BY <1>1, <1>5, <2>2, <2>3 DEF Walked
    <2>. QED BY <1>5, <2>4 DEF Walked
  <1>. QED BY <1>2, <1>3, <1>4, <1>5 DEF Steps

\* As long as no rule-set is reloaded, the same rules settle a query.
LEMMA SameRules ==
    ASSUME UNCHANGED <<config, sets>>, NEW q, NEW i
    PROVE  /\ RuleMatches(i, q)' <=> RuleMatches(i, q)
           /\ Decides(i, q)' <=> Decides(i, q)
           /\ Settles(i, q)' <=> Settles(i, q)
           /\ WithAddressLimit(dnsRules[i].match)' <=> WithAddressLimit(dnsRules[i].match)
  <1>0. dnsRules' = dnsRules BY DEF dnsRules
  <1>1. \A r, m : /\ Match(r, m)' <=> Match(r, m)
                  /\ WithAddressLimit(r)' <=> WithAddressLimit(r)
    BY SameSets
  <1>2. RuleMatches(i, q)' <=> RuleMatches(i, q) BY <1>0, <1>1 DEF RuleMatches
  <1>3. Decides(i, q)' <=> Decides(i, q) BY <1>0 DEF Decides, ServerUsable
  <1>. QED BY <1>0, <1>1, <1>2, <1>3 DEF Settles

\* ... and it has walked as far.
LEMMA SameWalk ==
    ASSUME UNCHANGED <<config, sets>>, NEW q
    PROVE  Walked(q)' <=> Walked(q)
  <1>0. dnsRules' = dnsRules BY DEF dnsRules
  <1>1. \A i : /\ RuleMatches(i, q)' <=> RuleMatches(i, q)
               /\ Decides(i, q)' <=> Decides(i, q)
               /\ Settles(i, q)' <=> Settles(i, q)
               /\ WithAddressLimit(dnsRules[i].match)' <=> WithAddressLimit(dnsRules[i].match)
    BY SameRules
  <1>2. \A i : RuleServer(i)' = RuleServer(i) BY <1>0 DEF RuleServer
  <1>. QED BY <1>0, <1>1, <1>2 DEF Walked

\* Every query has walked past nothing that would have settled it, as long as no
\* rule-set is reloaded.
QueriesWalked ==
    ~reloaded => \A c \in Conns :
        query[c].at # "none" /\ query[c].kind # "direct" => Walked(query[c])

\* Every step keeps what the queries have walked.
LEMMA QueriesWalkedKept == RouterInv /\ RouterInv' /\ QueriesWalked /\ [Next]_vars => QueriesWalked'
  <1> SUFFICES ASSUME RouterInv, RouterInv', QueriesWalked, [Next]_vars, ~reloaded', NEW c \in Conns,
                      query'[c].at # "none", query'[c].kind # "direct"
               PROVE  Walked(query[c])'
    BY DEF QueriesWalked
  <1>0. DOMAIN query = Conns BY DEF RouterInv
  <1>r. CASE ~UNCHANGED <<config, sets>> \/ reloaded' # reloaded
    BY <1>r DEF Next, Comes, ConnStep, MatchRule, Routes, RouteOptions, Rejects, HijacksDNS, Sniffs, SniffFails,
             Resolves, Resolved, EndOfRules, AtRule, QueryStep, Asks, ClientCloses, Reload, Done, vars, configVars
  <1> SUFFICES ASSUME UNCHANGED <<config, sets, reloaded>> PROVE Walked(query[c])'
    BY <1>r
  <1>1. PICK p : p = query'[c] OBVIOUS
  <1>2. SUFFICES Walked(p) BY <1>1, SameWalk
  <1>3. CASE query'[c] = query[c] BY <1>1, <1>3 DEF QueriesWalked
  <1>4. CASE QueryStep(c)
    <2>1. GoodQuery(query[c]) /\ Steps(query[c], p) BY <1>1, <1>4, QuerySteps
    <2>2. Walked(query[c]) BY <1>1, <2>1 DEF QueriesWalked, GoodQuery, DNSQueries, Steps
    <2>3. GoodQuery(p) BY <1>1, SameConfig DEF RouterInv, NoQuery
    <2>. QED BY <2>1, <2>2, <2>3, WalkedKept
  <1>5. ASSUME NEW kind \in {"exchange", "lookup"}, NEW address \in BOOLEAN, NEW d \in Domains, GoodWalk(conn[c]),
               Begin(c, kind, address, d, conn[c].meta, None)
        PROVE  Walked(p)
    <2>1. conn[c].meta \in Metas /\ Plain(conn[c].meta) BY <1>5 DEF GoodWalk, Walks
    <2>k. kind \in {"exchange", "lookup", "direct"} /\ kind # "direct"
          /\ None \in (IF kind = "direct" THEN Servers ELSE {None})
      BY <1>5
    <2>2. p.at = "match" /\ p.index = 0 BY <1>1, <1>5, <2>1, <2>k, BeginIsGood
    <2>3. \A i \in 1 .. Len(dnsRules) : ~Behind(p, i) BY <2>2 DEF Behind
    <2>. QED BY <2>2, <2>3 DEF Walked
  <1>6. CASE Asks(c) \/ Resolves(c)
    <2>0. conn[c].at \in {"dns", "matched"} BY <1>6 DEF Asks, Resolves, AtRule
    <2>1. GoodWalk(conn[c]) BY <2>0 DEF RouterInv, NotCome
    <2>2. CASE Asks(c)
      <3>1. PICK d \in Domains, address \in BOOLEAN : Begin(c, "exchange", address, d, conn[c].meta, None)
        BY <2>2 DEF Asks
      <3>. QED BY <1>5, <2>1, <3>1
    <2>3. CASE Resolves(c)
      <3>1. conn[c].meta.fqdn \in Domains \cup {None} BY <2>1 DEF GoodWalk, Walks, Metas
      <3>2. \/ query' = query
            \/ conn[c].meta.fqdn # None /\ Begin(c, "lookup", TRUE, conn[c].meta.fqdn, conn[c].meta, None)
            \/ Begin(c, "direct", TRUE, conn[c].meta.fqdn, conn[c].meta, Rule(c).server)
        BY <2>3 DEF Resolves
      <3>3. ~Begin(c, "direct", TRUE, conn[c].meta.fqdn, conn[c].meta, Rule(c).server)
        BY <1>0 DEF Begin
      <3>. QED BY <1>3, <1>5, <2>1, <3>1, <3>2, <3>3
    <2>. QED BY <1>6, <2>2, <2>3
  <1>7. CASE Resolved(c) BY <1>0, <1>1, <1>7 DEF Resolved, NoQuery
  <1>8. ASSUME NEW d \in Conns, d # c, Comes(d) \/ ConnStep(d) \/ QueryStep(d) \/ Asks(d) \/ ClientCloses(d)
        PROVE  query'[c] = query[c]
    BY <1>0, <1>8 DEF Comes, ConnStep, MatchRule, Routes, RouteOptions, Rejects, HijacksDNS, Sniffs, SniffFails,
        Resolves, Resolved, EndOfRules, QueryStep, Asks, ClientCloses, Begin, dnsVars, DNSStep, MatchDNS, Ask,
        Answered, Fails, Finish
  <1>9. CASE Comes(c) \/ MatchRule(c) \/ Routes(c) \/ RouteOptions(c) \/ Rejects(c) \/ HijacksDNS(c) \/ Sniffs(c)
             \/ SniffFails(c) \/ EndOfRules(c) \/ ClientCloses(c) \/ Reload \/ Done \/ UNCHANGED vars
    <2>1. query' = query
      BY <1>9 DEF Comes, MatchRule, Routes, RouteOptions, Rejects, HijacksDNS, Sniffs, SniffFails,
           EndOfRules, ClientCloses, Reload, Done, vars, dnsVars
    <2>. QED BY <1>3, <2>1
  <1>. QED BY <1>3, <1>4, <1>6, <1>7, <1>8, <1>9 DEF Next, ConnStep

\* No query has walked anywhere at first.
LEMMA QueriesWalkedInit == Init => QueriesWalked
  BY DEF Init, QueriesWalked, NoQuery

\* A rule that filters answers settles a query, in two phases, exactly when it
\* applies to the query in the documented sense.
LEMMA SettlesApplies ==
    ASSUME RouterInv, NEW q, GoodQuery(q), NEW i \in 1 .. Len(dnsRules), FiltersAnswer(dnsRules[i].match),
           WithAddressLimit(dnsRules[i].match) => dnsRules[i].action = "route",
           NEW a, a = IF dnsRules[i].action = "route" /\ WithAddressLimit(dnsRules[i].match)
                      THEN Zone[dnsRules[i].server][q.meta.domain] ELSE {}
    PROVE  Settles(i, q) <=> Applies(i, q, a)
  <1> DEFINE r == dnsRules[i].match
             limit == WithAddressLimit(r)
             b == q.meta
             k == PreLookup(b)
             m == [b EXCEPT !.addresses = a]
  <1> SUFFICES ASSUME Decides(i, q) PROVE Settles(i, q) <=> Applies(i, q, a) BY DEF Settles, Applies
  <1>1. a \subseteq Addresses
    <2>1. CASE dnsRules[i].action = "route" /\ limit
      <3>1. dnsRules[i].server \in Servers BY <2>1 DEF Decides, ServerUsable
      <3>2. q.meta.domain \in Domains BY DEF GoodQuery
      <3>. QED BY <2>1, <3>1, <3>2, DNSRouterAssumption
    <2>2. CASE ~(dnsRules[i].action = "route" /\ limit) BY <2>2
    <2>. QED BY <2>1, <2>2
  <1>2. b \in Metas /\ Plain(b) BY DEF GoodQuery, DNSQueries
  <1>3. /\ k \in Metas /\ m \in Metas /\ Before(k, m) /\ Unflagged(k) /\ Unflagged(m) /\ Plain(m)
    <2> HIDE DEF b
    <2>1. k \in Metas /\ Unflagged(k) BY <1>2 DEF Metas, Plain, Unflagged, PreLookup
    <2>2. m \in Metas /\ Unflagged(m) /\ Plain(m) BY <1>1, <1>2 DEF Metas, Plain, Unflagged
    <2>3. Before(k, m) BY <1>2 DEF Metas, Plain, PreLookup, Before
    <2>. QED BY <2>1, <2>2, <2>3
  <1>4. IsRule(r) BY RulesAreRules
  <1>5. \A p \in Parts(r) : IncludesRules(p)
    <2> SUFFICES ASSUME NEW p \in Parts(r) PROVE IncludesRules(p) OBVIOUS
    <2>1. p.invert \in BOOLEAN /\ p.matchSource \in BOOLEAN /\ p.acceptEmpty \in BOOLEAN /\ p.sets \subseteq Tags
      BY <1>4 DEF IsRule, IsHeadlessRule
    <2>2. PartFilters(p) BY DEF FiltersAnswer
    <2>3. ASSUME NEW t \in p.sets, NEW h \in sets[t]
          PROVE  /\ IsHeadlessRule(h)
                 /\ h.logical /\ (p.matchSource \/ p.acceptEmpty) => \A l \in Parts(h) : l.cidr = {}
      <3>1. IsHeadlessRule(h) BY <2>1, <2>3 DEF RouterInv
      <3>2. h \in SetRules(p) BY <2>3 DEF SetRules
      <3>. QED BY <2>2, <3>1, <3>2 DEF PartFilters
    <2>. QED BY <2>1, <2>3 DEF IncludesRules
  <1> HIDE DEF r, limit, k, m
  <1>6. Match(r, m) <=> Documented(r, m) BY <1>3, <1>4, <1>5, RuleMatchesAsDocumented DEF IsRule
  <1>7. /\ Match(r, m) => Match(r, k)
        /\ ~limit => (Match(r, k) <=> Match(r, m))
    BY <1>3, <1>4, <1>5, MatchesBefore DEF IsRule, r, limit
  <1>8. Applies(i, q, a) <=> (limit => q.address) /\ Match(r, m) BY <1>6 DEF Applies, r, limit, m, b
  <1>9. Settles(i, q) <=> (limit => q.address) /\ Match(r, k) /\ (limit => Match(r, m))
    <2>1. limit => m = [q.meta EXCEPT !.addresses = Zone[dnsRules[i].server][q.meta.domain]]
      BY DEF m, b, limit, r
    <2>2. RuleMatches(i, q) <=> (limit => q.address) /\ Match(r, k) BY DEF RuleMatches, limit, r, k, b
    <2>. QED BY <2>1, <2>2 DEF Settles, limit, r
  <1>. QED BY <1>7, <1>8, <1>9

\* Whatever rules there are, whatever servers answer or fail, and whoever else is
\* asking, a query is answered by the first rule that applies to it.
THEOREM FirstRuleDecides == Spec => []DNSFirstRuleWins
  <1>1. RouterInv /\ QueriesWalked => DNSFirstRuleWins
    <2> SUFFICES ASSUME RouterInv, QueriesWalked, ~reloaded, NEW c \in Conns, Asking(c),
                        query[c].kind # "direct"
                 PROVE  FirstRuleWins(query[c])
      BY DEF DNSFirstRuleWins, FirstRuleWins
    <2>q. PICK q : q = query[c] OBVIOUS
    <2>1. GoodQuery(q) /\ Walked(q) BY <2>q DEF RouterInv, QueriesWalked, Asking, NoQuery
    <2> DEFINE filters(i) == WithAddressLimit(dnsRules[i].match)
               answer(i) == IF dnsRules[i].action = "route" /\ filters(i)
                            THEN Zone[dnsRules[i].server][q.meta.domain] ELSE {}
               rules == {i \in 1 .. Len(dnsRules) :
                           /\ dnsRules[i].action # "route-options"
                           /\ filters(i) => dnsRules[i].action = "route"
                           /\ FiltersAnswer(dnsRules[i].match)}
    <2>2. \A i \in rules : i \in 1 .. Len(dnsRules) /\ (Settles(i, q) <=> Applies(i, q, answer(i)))
      BY <2>1, SettlesApplies
    <2>3. 0 \notin rules BY RulesAreRules
    <2>4. SUFFICES q.at = "done" =>
            /\ \A i \in rules : (i < q.index \/ q.index = 0) /\ Applies(i, q, answer(i)) => i \in q.failed
            /\ q.index \in rules /\ q.result # "error" => Applies(q.index, q, answer(q.index))
      BY <2>q DEF FirstRuleWins
    <2> HIDE DEF rules, answer
    <2> SUFFICES ASSUME q.at = "done"
                 PROVE  /\ \A i \in rules : (i < q.index \/ q.index = 0) /\ Applies(i, q, answer(i)) => i \in q.failed
                        /\ q.index \in rules /\ q.result # "error" => Applies(q.index, q, answer(q.index))
      OBVIOUS
    <2>5. \A i \in rules : (i < q.index \/ q.index = 0) /\ Applies(i, q, answer(i)) => i \in q.failed
      BY <2>1, <2>2 DEF Walked, Behind
    <2>6. q.index \in rules /\ q.result # "error" => Applies(q.index, q, answer(q.index))
      BY <2>1, <2>2, <2>3 DEF Walked
    <2>. QED BY <2>5, <2>6
  <1>. QED BY <1>1, RouterInvInit, RouterInvKept, QueriesWalkedInit, QueriesWalkedKept, PTL DEF Spec

-----------------------------------------------------------------------------
(* Where a walk leads that meets no failure and needs no payload.          *)

\* What a lookup of the destination of m gets when no server fails: the answer of
\* the first rule that settles it.
RuleAnswer(i, d) ==
    IF i = 0 \/ dnsRules[i].action = "route" THEN Zone[RuleServer(i)][d]
    ELSE IF dnsRules[i].action = "predefined" THEN dnsRules[i].answer ELSE {}

LookupFor(m) == [kind |-> "lookup", address |-> TRUE, meta |-> QueryMeta(m, m.fqdn)]

Gets(m, a) ==
    \E rule \in 0 .. Len(dnsRules) :
        /\ \A i \in 1 .. Len(dnsRules) : i < rule \/ rule = 0 => ~Settles(i, LookupFor(m))
        /\ rule # 0 => Settles(rule, LookupFor(m))
        /\ a = RuleAnswer(rule, m.fqdn)

\* A lookup of which no server has failed gets it.
LEMMA LookupGets ==
    ASSUME RouterInv, NEW q, GoodQuery(q), Walked(q), q.at = "done", q.failed = {}, q.result # "error",
           q.kind = "lookup", q.address = TRUE, NEW m, q.meta = QueryMeta(m, m.fqdn), q.meta.domain = m.fqdn
    PROVE  Gets(m, LookupResult(q))
  <1>0. q.index \in Nat /\ Len(dnsRules) \in Nat BY RulesAreRules DEF GoodQuery, DNSQueries
  <1>1. \A i : Settles(i, q) <=> Settles(i, LookupFor(m))
    <2>1. LookupFor(m).kind = q.kind /\ LookupFor(m).address = q.address /\ LookupFor(m).meta = q.meta
      BY DEF LookupFor
    <2>. QED BY <2>1, SettlesAlike
  <1>2. \A i \in 1 .. Len(dnsRules) : i < q.index \/ q.index = 0 => ~Settles(i, q)
    BY DEF Walked, Behind
  <1>3. q.index # 0 => q.index \in 1 .. Len(dnsRules) /\ Settles(q.index, q) BY DEF Walked
  <1>4. /\ q.result = "answer" <=> q.index = 0 \/ dnsRules[q.index].action = "route"
        /\ q.result # "answer" => q.result = dnsRules[q.index].action
        /\ q.result = "answer" => q.server = RuleServer(q.index)
    BY DEF Walked
  <1>5. LookupResult(q) = RuleAnswer(q.index, m.fqdn)
    BY <1>4 DEF LookupResult, Answer, RuleAnswer
  <1>6. q.index \in 0 .. Len(dnsRules) BY <1>0, <1>3
  <1>. QED BY <1>1, <1>2, <1>3, <1>5, <1>6 DEF Gets

\* That is one answer.
LEMMA GetsOnce ==
    ASSUME RouterInv, NEW m, NEW a, Gets(m, a), NEW b, Gets(m, b)
    PROVE  a = b
  <1>0. Len(dnsRules) \in Nat BY RulesAreRules
  <1>1. PICK r \in 0 .. Len(dnsRules) :
            /\ \A i \in 1 .. Len(dnsRules) : i < r \/ r = 0 => ~Settles(i, LookupFor(m))
            /\ r # 0 => Settles(r, LookupFor(m))
            /\ a = RuleAnswer(r, m.fqdn)
    BY DEF Gets
  <1>2. PICK s \in 0 .. Len(dnsRules) :
            /\ \A i \in 1 .. Len(dnsRules) : i < s \/ s = 0 => ~Settles(i, LookupFor(m))
            /\ s # 0 => Settles(s, LookupFor(m))
            /\ b = RuleAnswer(s, m.fqdn)
    BY DEF Gets
  <1>3. r = s BY <1>0, <1>1, <1>2
  <1>. QED BY <1>1, <1>2, <1>3

\* A resolve rule gets it, or what its own server has.
ResolveGets(r, m, a) ==
    IF r.server = None THEN Gets(m, a) ELSE r.server \in Servers /\ a = Zone[r.server][m.fqdn]

\* The rule lets the walk go on, and m becomes n.
Passes(r, m) ==
    \/ r.action = "route-options"
    \/ r.action = "bypass" /\ r.outbound = None
    \/ r.action = "resolve" /\ (m.fqdn = None \/ \E a : ResolveGets(r, m, a) /\ a # {})

Becomes(r, m, n) ==
    IF r.action = "route-options" THEN n = Overridden(r, m)
    ELSE IF r.action = "resolve" /\ m.fqdn # None
    THEN \E a : ResolveGets(r, m, a) /\ n = [m EXCEPT !.addresses = a]
    ELSE n = m

\* A rule makes one metadata of another.
LEMMA BecomesOnce ==
    ASSUME RouterInv, NEW r, NEW m, NEW n, Becomes(r, m, n), NEW o, Becomes(r, m, o)
    PROVE  n = o
  BY GetsOnce DEF Becomes, ResolveGets

\* f is the metadata behind rules 0, 1, ..., k.
IsPath(f, s, k) ==
    /\ f[0] = s
    /\ \A i \in 1 .. k :
        IF Match(routeRules[i].match, f[i - 1])
        THEN Passes(routeRules[i], f[i - 1]) /\ Becomes(routeRules[i], f[i - 1], f[i])
        ELSE f[i] = f[i - 1]

\* From s the walk comes to be behind rule k, with m.
Reaches(s, m, k) == \E f : IsPath(f, s, k) /\ f[k] = m

\* It comes to rule j, which does not let it go on.
StopsAt(s, j) ==
    /\ j \in 1 .. Len(routeRules)
    /\ \E m : Reaches(s, m, j - 1) /\ Match(routeRules[j].match, m) /\ ~Passes(routeRules[j], m)

\* There is one such walk.
LEMMA PathsAgree ==
    ASSUME RouterInv, NEW f, NEW g, NEW s, NEW k \in Nat, NEW n \in Nat, IsPath(f, s, k), IsPath(g, s, n),
           NEW j \in 0 .. k, j <= n
    PROVE  f[j] = g[j]
  <1> DEFINE Bad == {i \in 0 .. k : i <= n /\ f[i] # g[i]}
  <1>1. Bad = {}
    <2> SUFFICES ASSUME Bad # {} PROVE FALSE OBVIOUS
    <2>0. Bad \subseteq Nat OBVIOUS
    <2>1. PICK i \in Bad : \A h \in Bad : i <= h
      <3> HIDE DEF Bad
      <3>. QED BY <2>0, LeastElement
    <2>2. i # 0 BY <2>1 DEF IsPath
    <2>3. i \in 1 .. k /\ i \in 1 .. n /\ i - 1 \in 0 .. k /\ i - 1 <= n /\ ~(i <= i - 1) BY <2>1, <2>2
    <2>4. f[i - 1] = g[i - 1] BY <2>1, <2>3
    <2>5. f[i] = g[i] BY <2>3, <2>4, BecomesOnce DEF IsPath
    <2>. QED BY <2>1, <2>5
  <1>. QED BY <1>1

\* A walk that stops comes no further.
LEMMA StopsForGood ==
    ASSUME RouterInv, NEW s, NEW j, StopsAt(s, j), NEW m, NEW k \in Nat, Reaches(s, m, k), k >= j
    PROVE  FALSE
  <1>1. PICK f : IsPath(f, s, k) BY DEF Reaches
  <1>2. PICK g, o : /\ IsPath(g, s, j - 1) /\ g[j - 1] = o /\ Match(routeRules[j].match, o)
                    /\ ~Passes(routeRules[j], o)
    BY DEF StopsAt, Reaches
  <1>3. j \in 1 .. k /\ j - 1 \in 0 .. k /\ j - 1 \in Nat BY RulesAreRules DEF StopsAt
  <1>4. f[j - 1] = o BY <1>1, <1>2, <1>3, PathsAgree
  <1>. QED BY <1>1, <1>2, <1>3, <1>4 DEF IsPath

\* Two walks with the same start that stop, stop at the same rule.
LEMMA StopsOnce ==
    ASSUME RouterInv, NEW s, NEW j, StopsAt(s, j), NEW k, StopsAt(s, k)
    PROVE  j = k
  <1>0. j \in Nat \ {0} /\ k \in Nat \ {0} BY RulesAreRules DEF StopsAt
  <1>1. PICK m, n : Reaches(s, m, j - 1) /\ Reaches(s, n, k - 1) BY DEF StopsAt
  <1>2. j - 1 \in Nat /\ k - 1 \in Nat BY <1>0
  <1>3. ~(k - 1 >= j) BY <1>1, <1>2, StopsForGood
  <1>4. ~(j - 1 >= k) BY <1>1, <1>2, StopsForGood
  <1>. QED BY <1>0, <1>3, <1>4

\* A walk goes on over rules that do not match ...
LEMMA ReachesOn ==
    ASSUME NEW s, NEW m, NEW k \in Nat, Reaches(s, m, k), NEW n \in Nat, k <= n,
           \A i \in (k + 1) .. n : ~Match(routeRules[i].match, m)
    PROVE  Reaches(s, m, n)
  <1>1. PICK f : IsPath(f, s, k) /\ f[k] = m BY DEF Reaches
  <1> DEFINE g == [i \in 0 .. n |-> IF i <= k THEN f[i] ELSE m]
  <1>2. g[0] = s /\ g[n] = m BY <1>1 DEF IsPath
  <1>3. ASSUME NEW i \in 1 .. n
        PROVE  IF Match(routeRules[i].match, g[i - 1])
               THEN Passes(routeRules[i], g[i - 1]) /\ Becomes(routeRules[i], g[i - 1], g[i])
               ELSE g[i] = g[i - 1]
    <2>1. CASE i <= k
      <3>1. g[i - 1] = f[i - 1] /\ g[i] = f[i] /\ i \in 1 .. k BY <2>1
      <3> HIDE DEF g
      <3>. QED BY <1>1, <3>1 DEF IsPath
    <2>2. CASE i > k
      <3>1. g[i - 1] = m /\ g[i] = m /\ i \in (k + 1) .. n BY <1>1, <2>2
      <3> HIDE DEF g
      <3>. QED BY <3>1
    <2>. QED BY <2>1, <2>2
  <1> HIDE DEF g
  <1>4. IsPath(g, s, n) BY <1>2, <1>3 DEF IsPath
  <1>. QED BY <1>2, <1>4 DEF Reaches

\* ... and over one that matches and lets it go on.
LEMMA ReachesPast ==
    ASSUME NEW s, NEW m, NEW k \in Nat \ {0}, Reaches(s, m, k - 1), Match(routeRules[k].match, m),
           Passes(routeRules[k], m), NEW n, Becomes(routeRules[k], m, n)
    PROVE  Reaches(s, n, k)
  <1>1. PICK f : IsPath(f, s, k - 1) /\ f[k - 1] = m BY DEF Reaches
  <1> DEFINE g == [i \in 0 .. k |-> IF i < k THEN f[i] ELSE n]
  <1>2. g[0] = s /\ g[k] = n BY <1>1 DEF IsPath
  <1>3. ASSUME NEW i \in 1 .. k
        PROVE  IF Match(routeRules[i].match, g[i - 1])
               THEN Passes(routeRules[i], g[i - 1]) /\ Becomes(routeRules[i], g[i - 1], g[i])
               ELSE g[i] = g[i - 1]
    <2>1. CASE i < k
      <3>1. g[i - 1] = f[i - 1] /\ g[i] = f[i] /\ i \in 1 .. (k - 1) BY <2>1
      <3> HIDE DEF g
      <3>. QED BY <1>1, <3>1 DEF IsPath
    <2>2. CASE i = k
      <3>1. g[i - 1] = m /\ g[i] = n BY <1>1, <2>2
      <3> HIDE DEF g
      <3>. QED BY <2>2, <3>1
    <2>. QED BY <2>1, <2>2
  <1> HIDE DEF g
  <1>4. IsPath(g, s, k) BY <1>2, <1>3 DEF IsPath
  <1>. QED BY <1>2, <1>4 DEF Reaches

\* A fakeip address that stands for no domain ends a connection at once.
IsFake(m) == \E d \in Domains : FakeAddress[d] = m.ip

\* The walk has left the path for the payload.
Sniffed(w) == ~w.pre /\ \E j : StopsAt(w.start, j) /\ routeRules[j].action = "sniff"

\* A walk that has met no failure is where the path leads, up to the rule at which
\* the path stops; a pre-match rejects only there.
WalkOK(w) ==
    ~w.failed =>
        /\ IsFake(w.start) => w.at = "over" /\ w.verdict = "error"
        /\ w.at # "over" => w.verdict # "rejected"
        /\ w.at = "match" => Sniffed(w) \/ Reaches(w.start, w.meta, w.index)
        /\ w.at \in {"matched", "resolve"} =>
            \/ Sniffed(w)
            \/ w.index = 0 /\ Reaches(w.start, w.meta, Len(routeRules))
            \/ /\ w.index # 0 /\ Reaches(w.start, w.meta, w.index - 1)
               /\ Match(routeRules[w.index].match, w.meta)
        /\ w.at = "resolve" =>
            w.index # 0 /\ routeRules[w.index].action = "resolve" /\ w.meta.fqdn # None
        /\ w.at = "dns" =>
            ~w.pre /\ \E j : StopsAt(w.start, j) /\ routeRules[j].action # "reject"
        /\ w.at = "over" /\ w.pre /\ w.verdict = "rejected" =>
            \E j : StopsAt(w.start, j) /\ routeRules[j].action = "reject"
        /\ w.at = "over" /\ ~w.pre /\ ~IsFake(w.start) =>
            \/ \E j : StopsAt(w.start, j) /\ (routeRules[j].action = "reject" => w.verdict = "rejected")
            \/ \E m : Reaches(w.start, m, Len(routeRules))

WalksOK == ~reloaded => \A c \in Conns : conn[c].at # "none" => WalkOK(conn[c])

\* As long as no rule-set is reloaded, paths lead where they did.
LEMMA SamePaths ==
    ASSUME UNCHANGED <<config, sets>>
    PROVE  /\ \A s, m, k : Reaches(s, m, k)' <=> Reaches(s, m, k)
           /\ \A s, j : StopsAt(s, j)' <=> StopsAt(s, j)
           /\ \A r, m : Match(r, m)' <=> Match(r, m)
  <1>0. dnsRules' = dnsRules /\ routeRules' = routeRules BY DEF dnsRules, routeRules
  <1>1. ASSUME NEW m, NEW a PROVE Gets(m, a)' <=> Gets(m, a)
    <2>1. PICK q : q = LookupFor(m) OBVIOUS
    <2>2. \A i : Settles(i, q)' <=> Settles(i, q) BY SameRules
    <2>3. LookupFor(m)' = q BY <2>1 DEF LookupFor
    <2>4. \A i : RuleServer(i)' = RuleServer(i) BY <1>0 DEF RuleServer
    <2>5. \A i, d : RuleAnswer(i, d)' = RuleAnswer(i, d) BY <1>0, <2>4 DEF RuleAnswer
    <2>. QED BY <1>0, <2>1, <2>2, <2>3, <2>5 DEF Gets
  <1>2. \A r, m : Match(r, m)' <=> Match(r, m) BY SameSets
  <1>g. \A r, m, a : ResolveGets(r, m, a)' <=> ResolveGets(r, m, a) BY <1>1 DEF ResolveGets
  <1>3. \A r, m, n : (Passes(r, m)' <=> Passes(r, m)) /\ (Becomes(r, m, n)' <=> Becomes(r, m, n))
    BY <1>g DEF Passes, Becomes
  <1>4. \A f, s, k : IsPath(f, s, k)' <=> IsPath(f, s, k) BY <1>0, <1>2, <1>3 DEF IsPath
  <1>5. \A s, m, k : Reaches(s, m, k)' <=> Reaches(s, m, k) BY <1>4 DEF Reaches
  <1>6. \A s, j : StopsAt(s, j)' <=> StopsAt(s, j) BY <1>0, <1>2, <1>3, <1>5 DEF StopsAt
  <1>. QED BY <1>2, <1>5, <1>6

\* As long as no rule-set is reloaded, a walk that was right is right.
LEMMA SameWalkOK ==
    ASSUME UNCHANGED <<config, sets>>, NEW w
    PROVE  WalkOK(w)' <=> WalkOK(w)
  <1>1. routeRules' = routeRules BY DEF routeRules
  <1>2. Sniffed(w)' <=> Sniffed(w) BY <1>1, SamePaths DEF Sniffed
  <1>. QED BY <1>1, <1>2, SamePaths DEF WalkOK

\* A walk that has come to a rule which does not let it go on stops there.
LEMMA StopsHere ==
    ASSUME RouterInv, NEW w, GoodWalk(w), WalkOK(w), w.at = "matched", w.index # 0, ~w.failed, ~Sniffed(w)
    PROVE  /\ w.index \in 1 .. Len(routeRules) /\ ~IsFake(w.start) /\ w.verdict # "rejected"
           /\ Reaches(w.start, w.meta, w.index - 1) /\ Match(routeRules[w.index].match, w.meta)
           /\ ~Passes(routeRules[w.index], w.meta) => StopsAt(w.start, w.index)
  <1>1. w.index \in 1 .. Len(routeRules) BY RulesAreRules DEF GoodWalk
  <1>2. /\ ~IsFake(w.start) /\ w.verdict # "rejected"
        /\ Reaches(w.start, w.meta, w.index - 1) /\ Match(routeRules[w.index].match, w.meta)
    BY DEF WalkOK
  <1>. QED BY <1>1, <1>2 DEF StopsAt

\* It goes on behind a rule that lets it, or with its payload.
LEMMA GoesOn ==
    ASSUME RouterInv, NEW w, GoodWalk(w), WalkOK(w), w.at = "matched", w.index # 0,
           NEW v, v.at = "match", v.index = w.index, v.start = w.start, v.pre = w.pre, v.failed = w.failed,
           v.verdict = w.verdict,
           \/ ~w.pre /\ routeRules[w.index].action = "sniff"
           \/ Passes(routeRules[w.index], w.meta) /\ Becomes(routeRules[w.index], w.meta, v.meta)
    PROVE  WalkOK(v)
  <1> SUFFICES ASSUME ~w.failed PROVE WalkOK(v) BY DEF WalkOK
  <1>1. ~IsFake(v.start) /\ v.verdict # "rejected" BY DEF WalkOK
  <1>2. Sniffed(w) => Sniffed(v) BY DEF Sniffed
  <1>3. CASE ~Sniffed(w)
    <2>1. w.index \in Nat \ {0} BY <1>3, StopsHere, RulesAreRules
    <2>2. CASE ~w.pre /\ routeRules[w.index].action = "sniff"
      <3>1. ~Passes(routeRules[w.index], w.meta) BY <2>2 DEF Passes
      <3>2. StopsAt(w.start, w.index) BY <1>3, <3>1, StopsHere
      <3>3. Sniffed(v) BY <2>2, <3>2 DEF Sniffed
      <3>. QED BY <1>1, <3>3 DEF WalkOK
    <2>3. CASE Passes(routeRules[w.index], w.meta) /\ Becomes(routeRules[w.index], w.meta, v.meta)
      <3>1. Reaches(w.start, w.meta, w.index - 1) /\ Match(routeRules[w.index].match, w.meta)
        BY <1>3, StopsHere
      <3>2. Reaches(w.start, v.meta, w.index) BY <2>1, <2>3, <3>1, ReachesPast
      <3>. QED BY <1>1, <3>2 DEF WalkOK
    <2>4. CASE Sniffed(v) BY <1>1, <2>4 DEF WalkOK
    <2>. QED BY <1>1, <2>2, <2>3, <2>4 DEF WalkOK
  <1>. QED BY <1>1, <1>2, <1>3 DEF WalkOK

\* It ends at a rule that does not.
LEMMA EndsHere ==
    ASSUME RouterInv, NEW w, GoodWalk(w), WalkOK(w), w.at = "matched", w.index # 0,
           NEW v, v.at \in {"over", "dns"}, v.start = w.start, v.pre = w.pre, v.failed = w.failed,
           v.verdict = "rejected" => v.at = "over" /\ (w.pre => routeRules[w.index].action = "reject"),
           v.at = "dns" => ~w.pre,
           ~w.pre => ~Passes(routeRules[w.index], w.meta)
                     /\ (routeRules[w.index].action = "reject" => v.at = "over" /\ v.verdict = "rejected")
    PROVE  WalkOK(v)
  <1> SUFFICES ASSUME ~w.failed PROVE WalkOK(v) BY DEF WalkOK
  <1>1. ~IsFake(v.start) BY DEF WalkOK
  <1>2. CASE Sniffed(w)
    <2>1. ~v.pre /\ \E j : StopsAt(v.start, j) /\ routeRules[j].action # "reject" BY <1>2 DEF Sniffed
    <2>. QED BY <1>1, <2>1 DEF WalkOK
  <1>3. CASE ~Sniffed(w)
    <2>1. routeRules[w.index].action = "reject" => ~Passes(routeRules[w.index], w.meta) BY DEF Passes
    <2>2. w.pre /\ v.verdict = "rejected" => StopsAt(v.start, w.index) /\ routeRules[w.index].action = "reject"
      BY <1>3, <2>1, StopsHere
    <2>3. ~w.pre => StopsAt(v.start, w.index) BY <1>3, StopsHere
    <2>. QED BY <1>1, <2>2, <2>3 DEF WalkOK
  <1>. QED BY <1>2, <1>3

\* The walk begins.
LEMMA EnterOK ==
    ASSUME RouterInv, NEW c \in Conns, NEW e \in Entries, NEW pre \in BOOLEAN, Enter(c, e, pre),
           NEW v, v = conn'[c]
    PROVE  WalkOK(v)
  <1>0. DOMAIN conn = Conns BY DEF RouterInv
  <1>1. Metadata(e) \in Metas BY MetadataIsGood
  <1>m. PICK k : k = Metadata(e) OBVIOUS
  <1> DEFINE fake == {d \in Domains : FakeAddress[d] = k.ip}
             known == {None} \cup {reverse[a] : a \in {k.ip} \cap Addresses}
  <1>i. Identified(k) = IF fake # {} THEN {[k EXCEPT !.ip = None, !.fqdn = d] : d \in fake \cap mapped}
                        ELSE {[k EXCEPT !.domain = d] : d \in known}
    BY DEF Identified
  <1>f. IsFake(k) <=> fake # {} BY DEF IsFake
  <1>n. None \in known OBVIOUS
  <1> HIDE DEF fake, known
  <1>2. CASE \E m \in Identified(Metadata(e)) : conn' = [conn EXCEPT ![c] = Walk(e, pre, m)]
    <2>1. PICK m \in Identified(k) : conn' = [conn EXCEPT ![c] = Walk(e, pre, m)] BY <1>2, <1>m
    <2>2. v = Walk(e, pre, m) BY <1>0, <2>1
    <2>3. ~IsFake(m)
      <3>1. CASE fake # {}
        <4>0. m \in {[k EXCEPT !.ip = None, !.fqdn = d] : d \in fake \cap mapped} BY <1>i, <2>1, <3>1
        <4>1. m.ip = None BY <1>1, <1>m, <4>0 DEF Metas
        <4>2. \A d \in Domains : FakeAddress[d] # None BY DNSRouterAssumption, RouterAssumption
        <4>. QED BY <4>1, <4>2 DEF IsFake
      <3>2. CASE fake = {}
        <4>0. m \in {[k EXCEPT !.domain = d] : d \in known} BY <1>i, <2>1, <3>2
        <4>1. m.ip = k.ip BY <1>1, <1>m, <4>0 DEF Metas
        <4>. QED BY <1>f, <3>2, <4>1 DEF IsFake
      <3>. QED BY <3>1, <3>2
    <2>4. v.at = "match" /\ v.start = m /\ v.meta = m /\ v.index = 0 /\ v.verdict = None
      BY <2>2 DEF Walk
    <2>5. Reaches(m, m, 0)
      <3>1. IsPath([i \in {0} |-> m], m, 0) BY DEF IsPath
      <3>. QED BY <3>1 DEF Reaches
    <2>6. v.verdict # "rejected" BY <2>4, RouterAssumption
    <2>. QED BY <2>3, <2>4, <2>5, <2>6 DEF WalkOK
  <1>3. CASE /\ Identified(Metadata(e)) = {}
             /\ conn' = [conn EXCEPT ![c] =
                    [Walk(e, pre, Metadata(e)) EXCEPT !.at = "over", !.verdict = "error"]]
    <2>1. IsFake(k) BY <1>3, <1>i, <1>f, <1>m, <1>n
    <2>2. v = [Walk(e, pre, k) EXCEPT !.at = "over", !.verdict = "error"] BY <1>0, <1>3, <1>m
    <2>3. v.at = "over" /\ v.verdict = "error" /\ v.start = k BY <2>2 DEF Walk
    <2>. QED BY <2>1, <2>3 DEF WalkOK
  <1>. QED BY <1>2, <1>3 DEF Enter

\* A connection comes to a rule, stops at it or goes on.
LEMMA WalksOKKept ==
    RouterInv /\ RouterInv' /\ QueriesWalked /\ WalksOK /\ [Next]_vars => WalksOK'
  <1> SUFFICES ASSUME RouterInv, RouterInv', QueriesWalked, WalksOK, [Next]_vars, ~reloaded', NEW c \in Conns,
                      conn'[c].at # "none"
               PROVE  WalkOK(conn[c])'
    BY DEF WalksOK
  <1>0. DOMAIN conn = Conns BY DEF RouterInv
  <1>r. CASE ~UNCHANGED <<config, sets>> \/ reloaded' # reloaded
    BY <1>r, ZenonT(60) DEF Next, Comes, ConnStep, MatchRule, Routes, RouteOptions, Rejects, HijacksDNS, Sniffs, SniffFails,
             Resolves, Resolved, EndOfRules, AtRule, QueryStep, Asks, ClientCloses, Reload, Done, vars, configVars
  <1> SUFFICES ASSUME UNCHANGED <<config, sets, reloaded>> PROVE WalkOK(conn[c])'
    BY <1>r
  <1>v. PICK v : v = conn'[c] OBVIOUS
  <1>w. PICK w : w = conn[c] OBVIOUS
  <1>1. SUFFICES WalkOK(v) BY <1>v, SameWalkOK
  <1>2. w.at # "none" => GoodWalk(w) /\ w \in Walks /\ WalkOK(w) BY <1>w DEF RouterInv, WalksOK, NotCome, GoodWalk
  <1>3. CASE v = w BY <1>2, <1>3, <1>v
  <1>4. ASSUME NEW a \in {"match", "dns", "resolve"}, conn' = [conn EXCEPT ![c].at = a], w \in Walks
        PROVE  /\ v.at = a /\ v.index = w.index /\ v.start = w.start /\ v.pre = w.pre /\ v.failed = w.failed
               /\ v.verdict = w.verdict /\ v.meta = w.meta
    <2>1. v = [w EXCEPT !.at = a] BY <1>0, <1>4, <1>v, <1>w
    <2>. QED BY <1>4, <2>1 DEF Walks
  <1>5. ASSUME NEW a, Over(c, a), w \in Walks
        PROVE  v.at = "over" /\ v.start = w.start /\ v.pre = w.pre /\ v.failed = w.failed /\ v.verdict = a
    <2>1. v = [w EXCEPT !.at = "over", !.verdict = a] BY <1>0, <1>5, <1>v, <1>w DEF Over
    <2>. QED BY <1>5, <2>1 DEF Walks
  <1>6. ASSUME NEW m, conn' = [conn EXCEPT ![c].at = "match", ![c].meta = m], w \in Walks
        PROVE  /\ v.at = "match" /\ v.index = w.index /\ v.start = w.start /\ v.pre = w.pre
               /\ v.failed = w.failed /\ v.verdict = w.verdict /\ v.meta = m
    <2>1. v = [w EXCEPT !.at = "match", !.meta = m] BY <1>0, <1>6, <1>v, <1>w
    <2>. QED BY <1>6, <2>1 DEF Walks
  <1>7. ASSUME LetThrough(c), w \in Walks PROVE WalkOK(v)
    BY <1>7, <1>v, <1>w, EnterOK DEF LetThrough, Walks
  <1>8. ASSUME NEW actions, AtRule(c, actions)
        PROVE  /\ GoodWalk(w) /\ w \in Walks /\ WalkOK(w) /\ w.at = "matched" /\ w.index # 0
               /\ Rule(c) = routeRules[w.index] /\ routeRules[w.index].action \in actions
    BY <1>2, <1>8, <1>w DEF AtRule, Rule
  <1>9. CASE Comes(c)
    <2>1. PICK e \in Entries : Enter(c, e, e.tun) BY <1>9 DEF Comes
    <2>2. e.tun \in BOOLEAN BY RouterAssumption
    <2>. QED BY <1>v, <2>1, <2>2, EnterOK
  <1>10. CASE MatchRule(c)
    <2>0. w.at = "match" /\ GoodWalk(w) /\ w \in Walks /\ WalkOK(w) BY <1>2, <1>10, <1>w DEF MatchRule
    <2>i. PICK i : i = NextRule(c) OBVIOUS
    <2>1. v = [w EXCEPT !.index = i, !.at = "matched"] BY <1>0, <1>10, <1>v, <1>w, <2>i DEF MatchRule
    <2>2. /\ v.at = "matched" /\ v.index = i /\ v.start = w.start /\ v.pre = w.pre /\ v.failed = w.failed
          /\ v.verdict = w.verdict /\ v.meta = w.meta
      BY <2>0, <2>1 DEF Walks
    <2> SUFFICES ASSUME ~w.failed PROVE WalkOK(v) BY <2>2 DEF WalkOK
    <2>3. ~IsFake(v.start) /\ v.verdict # "rejected" BY <2>0, <2>2 DEF WalkOK
    <2>4. CASE Sniffed(w)
      <3>1. Sniffed(v) BY <2>2, <2>4 DEF Sniffed
      <3>. QED BY <2>2, <2>3, <3>1 DEF WalkOK
    <2>5. CASE ~Sniffed(w)
      <3>1. Reaches(w.start, w.meta, w.index) BY <2>0, <2>5 DEF WalkOK
      <3>2. /\ i \in 0 .. Len(routeRules)
            /\ i # 0 => i > w.index /\ Match(routeRules[i].match, w.meta)
            /\ \A j \in 1 .. Len(routeRules) :
                    j > w.index /\ (i = 0 \/ j < i) => ~Match(routeRules[j].match, w.meta)
        BY <1>w, <2>0, <2>i, NextRuleIsNext
      <3>3. w.index \in 0 .. Len(routeRules) /\ w.index \in Nat /\ Len(routeRules) \in Nat
        BY <2>0, RulesAreRules DEF GoodWalk, Walks
      <3>4. CASE i = 0
        <4>1. \A j \in (w.index + 1) .. Len(routeRules) : ~Match(routeRules[j].match, w.meta)
          BY <3>2, <3>3, <3>4
        <4>2. Reaches(w.start, w.meta, Len(routeRules)) BY <3>1, <3>3, <4>1, ReachesOn
        <4>. QED BY <2>2, <2>3, <3>4, <4>2 DEF WalkOK
      <3>5. CASE i # 0
        <4>0. i - 1 \in Nat /\ w.index <= i - 1 BY <3>2, <3>3, <3>5
        <4>1. \A j \in (w.index + 1) .. (i - 1) : ~Match(routeRules[j].match, w.meta)
          BY <3>2, <3>3, <3>5
        <4>2. Reaches(w.start, w.meta, i - 1) BY <3>1, <3>3, <4>0, <4>1, ReachesOn
        <4>. QED BY <2>2, <2>3, <3>2, <3>5, <4>2 DEF WalkOK
      <3>. QED BY <3>4, <3>5
    <2>. QED BY <2>4, <2>5
  <1>11. CASE Routes(c)
    <2>0. /\ GoodWalk(w) /\ w \in Walks /\ WalkOK(w) /\ w.at = "matched" /\ w.index # 0
          /\ Rule(c) = routeRules[w.index] /\ routeRules[w.index].action \in {"route", "bypass"}
      BY <1>8, <1>11 DEF Routes
    <2> DEFINE r == routeRules[w.index]
    <2>1. \/ w.pre /\ Over(c, "bypassed")
          \/ r.action = "bypass" /\ r.outbound = None /\ GoOn(c)
          \/ LetThrough(c)
          \/ /\ ~w.pre /\ (r.action = "route" \/ r.outbound # None)
             /\ \/ Over(c, "error")
                \/ \E m : conn' = [conn EXCEPT ![c].at = "over", ![c].verdict = r.outbound, ![c].meta = m]
      <3>1. CASE r.action = "route" BY <1>11, <1>w, <2>0, <3>1 DEF Routes
      <3>2. CASE r.action = "bypass" BY <1>11, <1>w, <2>0, <3>2 DEF Routes
      <3>. QED BY <2>0, <3>1, <3>2
    <2>2. CASE w.pre /\ Over(c, "bypassed")
      <3>1. /\ v.at = "over" /\ v.start = w.start /\ v.pre = w.pre /\ v.failed = w.failed
            /\ v.verdict = "bypassed"
        BY <1>5, <2>0, <2>2
      <3>2. v.verdict # "rejected" BY <3>1
      <3>3. ~w.failed => ~IsFake(v.start) BY <2>0, <3>1 DEF WalkOK
      <3>. QED BY <2>2, <3>1, <3>2, <3>3 DEF WalkOK
    <2>3. CASE r.action = "bypass" /\ r.outbound = None /\ GoOn(c)
      <3>1. Passes(r, w.meta) /\ Becomes(r, w.meta, w.meta) BY <2>3 DEF Passes, Becomes
      <3>2. /\ v.at = "match" /\ v.index = w.index /\ v.start = w.start /\ v.pre = w.pre /\ v.failed = w.failed
            /\ v.verdict = w.verdict /\ v.meta = w.meta
        BY <1>4, <2>0, <2>3 DEF GoOn
      <3> HIDE DEF r
      <3>. QED BY <2>0, <3>1, <3>2, GoesOn DEF r
    <2>4. CASE ~w.pre /\ (r.action = "route" \/ r.outbound # None)
      <3>1. ~Passes(r, w.meta) BY <2>0, <2>4 DEF Passes
      <3>2. CASE Over(c, "error") BY <1>5, <2>0, <2>4, <3>1, <3>2, EndsHere
      <3>3. CASE \E m : conn' = [conn EXCEPT ![c].at = "over", ![c].verdict = r.outbound, ![c].meta = m]
        <4>1. PICK m : conn' = [conn EXCEPT ![c].at = "over", ![c].verdict = r.outbound, ![c].meta = m] BY <3>3
        <4>2. v = [w EXCEPT !.at = "over", !.verdict = r.outbound, !.meta = m] BY <1>0, <1>v, <1>w, <4>1
        <4>3. v.at = "over" /\ v.start = w.start /\ v.pre = w.pre /\ v.failed = w.failed
          BY <2>0, <4>2 DEF Walks
        <4>. QED BY <2>0, <2>4, <3>1, <4>3, EndsHere
      <3>. QED BY <1>7, <2>0, <2>1, <2>4, <3>2, <3>3, <2>3
    <2>. QED BY <1>7, <2>0, <2>1, <2>2, <2>3, <2>4
  <1>12. CASE RouteOptions(c)
    <2>0. /\ GoodWalk(w) /\ w \in Walks /\ WalkOK(w) /\ w.at = "matched" /\ w.index # 0
          /\ Rule(c) = routeRules[w.index] /\ routeRules[w.index].action = "route-options"
      BY <1>8, <1>12 DEF RouteOptions
    <2>1. PICK m : m = Overridden(routeRules[w.index], w.meta) OBVIOUS
    <2>2. conn' = [conn EXCEPT ![c].at = "match", ![c].meta = m] BY <1>12, <1>w, <2>0, <2>1 DEF RouteOptions
    <2>3. Passes(routeRules[w.index], w.meta) /\ Becomes(routeRules[w.index], w.meta, m)
      BY <2>0, <2>1 DEF Passes, Becomes
    <2>. QED BY <1>6, <2>0, <2>2, <2>3, GoesOn, ZenonT(60)
  <1>13. CASE Rejects(c)
    <2>0. /\ GoodWalk(w) /\ w \in Walks /\ WalkOK(w) /\ w.at = "matched" /\ w.index # 0
          /\ routeRules[w.index].action = "reject" /\ Over(c, "rejected")
      BY <1>8, <1>13 DEF Rejects
    <2>1. ~Passes(routeRules[w.index], w.meta) BY <2>0 DEF Passes
    <2>. QED BY <1>5, <2>0, <2>1, EndsHere
  <1>14. CASE HijacksDNS(c)
    <2>0. /\ GoodWalk(w) /\ w \in Walks /\ WalkOK(w) /\ w.at = "matched" /\ w.index # 0
          /\ routeRules[w.index].action = "hijack-dns"
          /\ LetThrough(c) \/ (~w.pre /\ conn' = [conn EXCEPT ![c].at = "dns"])
      BY <1>8, <1>14, <1>w DEF HijacksDNS
    <2>1. ~Passes(routeRules[w.index], w.meta) BY <2>0 DEF Passes
    <2>2. CASE ~w.pre /\ conn' = [conn EXCEPT ![c].at = "dns"]
      <3>1. /\ v.at = "dns" /\ v.start = w.start /\ v.pre = w.pre /\ v.failed = w.failed
            /\ v.verdict = w.verdict
        BY <1>4, <2>0, <2>2
      <3>2. CASE w.failed BY <3>1, <3>2 DEF WalkOK
      <3>3. CASE ~w.failed
        <4>1. v.verdict # "rejected" BY <2>0, <3>1, <3>3 DEF WalkOK
        <4>. QED BY <2>0, <2>1, <2>2, <3>1, <4>1, EndsHere
      <3>. QED BY <3>2, <3>3
    <2>. QED BY <1>7, <2>0, <2>2
  <1>15. CASE Sniffs(c)
    <2>0. /\ GoodWalk(w) /\ w \in Walks /\ WalkOK(w) /\ w.at = "matched" /\ w.index # 0
          /\ routeRules[w.index].action = "sniff"
          /\ LetThrough(c)
             \/ (~w.pre /\ \E m : conn' = [conn EXCEPT ![c].at = "match", ![c].meta = m])
      BY <1>8, <1>15, <1>w DEF Sniffs, PreMatchSniff
    <2>. QED BY <1>6, <1>7, <2>0, GoesOn
  <1>16. CASE SniffFails(c)
    <2>0. /\ GoodWalk(w) /\ w \in Walks /\ WalkOK(w) /\ w.at = "matched" /\ w.index # 0
          /\ routeRules[w.index].action = "sniff" /\ ~w.pre /\ Over(c, "error")
      BY <1>8, <1>16, <1>w DEF SniffFails
    <2>1. ~Passes(routeRules[w.index], w.meta) BY <2>0 DEF Passes
    <2>. QED BY <1>5, <2>0, <2>1, EndsHere
  <1>17. CASE Resolves(c)
    <2>0. /\ GoodWalk(w) /\ w \in Walks /\ WalkOK(w) /\ w.at = "matched" /\ w.index # 0
          /\ routeRules[w.index].action = "resolve"
      BY <1>8, <1>17 DEF Resolves
    <2>d. \/ w.meta.fqdn = None /\ GoOn(c)
          \/ w.meta.fqdn # None /\ conn' = [conn EXCEPT ![c].at = "resolve"]
          \/ /\ w.meta.fqdn # None /\ Over(c, "error")
             /\ routeRules[w.index].server \notin Servers \cup {None}
      BY <1>17, <1>w DEF Resolves, Rule
    <2>1. CASE w.meta.fqdn = None /\ GoOn(c)
      <3>1. Passes(routeRules[w.index], w.meta) /\ Becomes(routeRules[w.index], w.meta, w.meta)
        BY <2>0, <2>1 DEF Passes, Becomes
      <3>2. /\ v.at = "match" /\ v.index = w.index /\ v.start = w.start /\ v.pre = w.pre /\ v.failed = w.failed
            /\ v.verdict = w.verdict /\ v.meta = w.meta
        BY <1>4, <2>0, <2>1 DEF GoOn
      <3>. QED BY <2>0, <3>1, <3>2, GoesOn
    <2>2. CASE w.meta.fqdn # None /\ conn' = [conn EXCEPT ![c].at = "resolve"]
      <3>1. /\ v.at = "resolve" /\ v.index = w.index /\ v.start = w.start /\ v.pre = w.pre
            /\ v.failed = w.failed /\ v.verdict = w.verdict /\ v.meta = w.meta
        BY <1>4, <2>0, <2>2
      <3>2. Sniffed(w) => Sniffed(v) BY <3>1 DEF Sniffed
      <3>. QED BY <2>0, <2>2, <3>1, <3>2 DEF WalkOK
    <2>3. CASE /\ w.meta.fqdn # None /\ Over(c, "error")
               /\ routeRules[w.index].server \notin Servers \cup {None}
      <3>1. ~Passes(routeRules[w.index], w.meta) BY <2>0, <2>3 DEF Passes, ResolveGets
      <3>. QED BY <1>5, <2>0, <2>3, <3>1, EndsHere
    <2>. QED BY <2>d, <2>1, <2>2, <2>3
  <1>18. CASE Resolved(c)
    <2>q. PICK q : q = query[c] OBVIOUS
    <2>0. /\ GoodWalk(w) /\ w \in Walks /\ WalkOK(w) /\ w.at = "resolve" /\ q.at = "done"
      BY <1>2, <1>18, <1>w, <2>q DEF Resolved
    <2>1. /\ GoodQuery(q) /\ (q.kind # "direct" => Walked(q)) /\ q.address = TRUE
          /\ q.kind = IF routeRules[w.index].server = None THEN "lookup" ELSE "direct"
          /\ q.kind = "direct" => q.server = routeRules[w.index].server
          /\ q.meta = QueryMeta(w.meta, w.meta.fqdn) /\ q.meta.domain = w.meta.fqdn
      BY <1>w, <2>0, <2>q DEF RouterInv, QueriesWalked, Awaits, NoQuery
    <2> DEFINE found == LookupResult(q)
               f == w.failed \/ q.failed # {} \/ q.result = "error"
               m == [w.meta EXCEPT !.addresses = found]
               g == q.meta.domain
    <2>2. v = IF found = {} THEN [w EXCEPT !.at = "over", !.verdict = "error", !.failed = f]
              ELSE [w EXCEPT !.at = "match", !.failed = f, !.meta = m, !.given = g]
      BY <1>0, <1>18, <1>v, <1>w, <2>q DEF Resolved
    <2>4. (f = FALSE) <=> (~w.failed /\ q.failed = {} /\ q.result # "error") OBVIOUS
    <2>f. f \in BOOLEAN OBVIOUS
    <2> HIDE DEF found, f, m, g
    <2>5. /\ v.failed = f /\ v.start = w.start /\ v.pre = w.pre /\ v.index = w.index
          /\ found = {} => v.at = "over" /\ v.verdict = "error"
          /\ found # {} => v.at = "match" /\ v.verdict = w.verdict /\ v.meta = m
      BY <2>0, <2>2 DEF Walks
    <2> SUFFICES ASSUME f = FALSE PROVE WalkOK(v) BY <2>5, <2>f DEF WalkOK
    <2>6. ~w.failed /\ q.failed = {} /\ q.result # "error" BY <2>4
    <2>3. v.verdict # "rejected" /\ v.at \in {"over", "match"} BY <2>0, <2>5, <2>6 DEF WalkOK
    <2>7. ResolveGets(routeRules[w.index], w.meta, found)
      <3>1. CASE q.kind = "lookup"
        <4>1. Gets(w.meta, found) BY <2>0, <2>1, <2>6, <3>1, LookupGets DEF found
        <4>2. routeRules[w.index].server = None BY <2>1, <3>1
        <4>. QED BY <4>1, <4>2 DEF ResolveGets
      <3>2. CASE q.kind = "direct"
        <4>1. q.result = "answer" /\ q.server \in Servers BY <2>0, <2>1, <2>6, <3>2 DEF GoodQuery
        <4>2. found = Zone[routeRules[w.index].server][w.meta.fqdn]
          BY <2>1, <3>2, <4>1 DEF found, LookupResult, Answer
        <4>3. routeRules[w.index].server # None BY <2>1, <3>2
        <4>. QED BY <2>1, <3>2, <4>1, <4>2, <4>3 DEF ResolveGets
      <3>. QED BY <2>1, <3>1, <3>2
    <2>8. /\ w.index # 0 /\ routeRules[w.index].action = "resolve" /\ w.meta.fqdn # None
          /\ ~IsFake(w.start)
          /\ Sniffed(w) \/ (Reaches(w.start, w.meta, w.index - 1) /\ Match(routeRules[w.index].match, w.meta))
      BY <2>0, <2>6 DEF WalkOK
    <2>9. w.index \in 1 .. Len(routeRules) /\ w.index \in Nat \ {0} BY <2>0, <2>8, RulesAreRules DEF GoodWalk
    <2>10. CASE Sniffed(w)
      <3>1. Sniffed(v) BY <2>5, <2>10 DEF Sniffed
      <3>2. ~v.pre /\ \E j : StopsAt(v.start, j) /\ routeRules[j].action # "reject" BY <3>1 DEF Sniffed
      <3>3. ~IsFake(v.start) BY <2>5, <2>8
      <3>. QED BY <2>3, <3>1, <3>2, <3>3 DEF WalkOK
    <2>11. CASE ~Sniffed(w)
      <3>1. CASE found = {}
        <4>1. ~Passes(routeRules[w.index], w.meta) BY <2>7, <2>8, <3>1, GetsOnce DEF Passes, ResolveGets
        <4>2. StopsAt(v.start, w.index) BY <2>5, <2>8, <2>9, <2>11, <4>1 DEF StopsAt
        <4>. QED BY <2>3, <2>5, <2>8, <3>1, <4>2 DEF WalkOK
      <3>2. CASE found # {}
        <4>1. Passes(routeRules[w.index], w.meta) /\ Becomes(routeRules[w.index], w.meta, m)
          BY <2>7, <2>8, <3>2 DEF Passes, Becomes, m
        <4>2. Reaches(w.start, m, w.index) BY <2>8, <2>9, <2>11, <4>1, ReachesPast
        <4>3. ~IsFake(v.start) /\ v.verdict # "rejected" /\ v.at = "match" BY <2>3, <2>5, <2>8, <3>2
        <4>. QED BY <2>5, <4>2, <4>3 DEF WalkOK
      <3>. QED BY <3>1, <3>2
    <2>. QED BY <2>10, <2>11
  <1>19. CASE EndOfRules(c)
    <2>0. /\ GoodWalk(w) /\ w \in Walks /\ WalkOK(w) /\ w.at = "matched" /\ w.index = 0
          /\ LetThrough(c) \/ (~w.pre /\ Over(c, "default"))
      BY <1>2, <1>19, <1>w DEF EndOfRules
    <2>1. CASE ~w.pre /\ Over(c, "default")
      <3>1. v.at = "over" /\ v.start = w.start /\ v.pre = w.pre /\ v.failed = w.failed
        BY <1>5, <2>0, <2>1
      <3>2. ~w.failed => Sniffed(w) \/ \E m : Reaches(v.start, m, Len(routeRules)) BY <2>0, <3>1 DEF WalkOK
      <3>3. Sniffed(w) => \E j : StopsAt(v.start, j) /\ routeRules[j].action # "reject" BY <3>1 DEF Sniffed
      <3>4. ~w.failed => ~IsFake(v.start) BY <2>0, <3>1 DEF WalkOK
      <3>. QED BY <2>1, <3>1, <3>2, <3>3, <3>4 DEF WalkOK
    <2>. QED BY <1>7, <2>0, <2>1
  <1>20. CASE ClientCloses(c)
    <2>0. GoodWalk(w) /\ w \in Walks /\ WalkOK(w) /\ w.at = "dns" /\ Over(c, "hijacked")
      BY <1>2, <1>20, <1>w DEF ClientCloses
    <2>1. v.at = "over" /\ v.start = w.start /\ v.pre = w.pre /\ v.failed = w.failed BY <1>5, <2>0
    <2>2. ~w.failed => /\ ~IsFake(v.start) /\ ~w.pre
                       /\ \E j : StopsAt(v.start, j) /\ routeRules[j].action # "reject"
      BY <2>0, <2>1 DEF WalkOK
    <2>. QED BY <2>1, <2>2 DEF WalkOK
  <1>21. ASSUME NEW d \in Conns, d # c, Comes(d) \/ ConnStep(d) \/ QueryStep(d) \/ Asks(d) \/ ClientCloses(d)
         PROVE  v = w
    BY <1>0, <1>21, <1>v, <1>w DEF Comes, ConnStep, MatchRule, Routes, RouteOptions, Rejects, HijacksDNS, Sniffs,
        SniffFails, Resolves, Resolved, EndOfRules, QueryStep, Asks, ClientCloses, Over, GoOn, LetThrough,
        PreMatchSniff, Enter
  <1>22. CASE QueryStep(c) \/ Asks(c) \/ Reload \/ Done \/ UNCHANGED vars
    <2>1. conn' = conn BY <1>22 DEF QueryStep, Asks, Reload, Done, vars
    <2>. QED BY <1>3, <1>v, <1>w, <2>1
  <1>. QED
    BY <1>3, <1>9, <1>10, <1>11, <1>12, <1>13, <1>14, <1>15, <1>16, <1>17, <1>18, <1>19, <1>20, <1>21, <1>22
       DEF Next, ConnStep

\* What pre-match rejects is rejected with its payload too, by the same rule.
THEOREM PreMatchIsRight == Spec => []PreMatchAgrees
  <1>1. Init => WalksOK BY DEF Init, WalksOK, NotCome
  <1>2. RouterInv /\ WalksOK => PreMatchAgrees
    <2> SUFFICES ASSUME RouterInv, WalksOK, NEW c \in Conns, NEW d \in Conns, ~reloaded,
                        Come(c), conn[c].pre, conn[c].verdict = "rejected", ~conn[c].failed,
                        Come(d), ~conn[d].pre, conn[d].at = "over", ~conn[d].failed,
                        conn[c].start = conn[d].start
                 PROVE  conn[d].verdict = "rejected"
      BY DEF PreMatchAgrees
    <2>1. WalkOK(conn[c]) /\ WalkOK(conn[d]) BY DEF WalksOK, Come
    <2>2. ~IsFake(conn[d].start) /\ \E j : StopsAt(conn[d].start, j) /\ routeRules[j].action = "reject"
      BY <2>1 DEF WalkOK
    <2>3. PICK j : StopsAt(conn[d].start, j) /\ routeRules[j].action = "reject" BY <2>2
    <2>4. ~\E m : Reaches(conn[d].start, m, Len(routeRules))
      <3>1. Len(routeRules) \in Nat /\ Len(routeRules) >= j BY <2>3, RulesAreRules DEF StopsAt
      <3>. QED BY <2>3, <3>1, StopsForGood
    <2>5. PICK k : StopsAt(conn[d].start, k) /\ (routeRules[k].action = "reject" => conn[d].verdict = "rejected")
      BY <2>1, <2>2, <2>4 DEF WalkOK
    <2>6. j = k BY <2>3, <2>5, StopsOnce
    <2>. QED BY <2>3, <2>5, <2>6
  <1>. QED BY <1>1, <1>2, RouterInvInit, RouterInvKept, QueriesWalkedInit, QueriesWalkedKept, WalksOKKept, PTL
          DEF Spec
=============================================================================
