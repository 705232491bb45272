----------------------------- MODULE RuleMatch -----------------------------
(***************************************************************************)
(* Matching rules (route/rule): the items of a rule fall into groups, a    *)
(* match state is the set of groups that have matched so far, and a rule   *)
(* returns the set of states its alternatives end in: none when it does    *)
(* not match.  The rules of a rule-set go on from the state of the rule    *)
(* that includes them.                                                     *)
(*                                                                         *)
(* A default rule is a record: `on` gives the values each group of items   *)
(* accepts (none for no items), `cidr` the addresses of its ip_cidr,       *)
(* ip_is_private and ip_accept_any items, `items` the protocols it asks    *)
(* for (for every other field), `sets` the rule-sets it includes, with     *)
(* their flags matchSource and acceptEmpty.  A logical rule has a mode and *)
(* the sequence of its rules.  The rules of rule-sets include no other     *)
(* sets, and the rules of a logical one are default rules.                 *)
(***************************************************************************)
EXTENDS Naturals, Sequences, FiniteSets

CONSTANTS
    Tags,    \* of rule-sets
    None     \* no domain, no address, no protocol

VARIABLE sets  \* the headless rules each rule-set holds

Groups == {"sourceAddress", "sourcePort", "destinationAddress", "destinationPort"}

(* Metadata of a connection or query: source, sourcePort, domain (sniffed, *)
(* mapped or asked for), fqdn, ip and port of the destination, protocol,   *)
(* addresses, and the rule cache.                                          *)
Host(m) == IF m.domain # None THEN m.domain ELSE m.fqdn

Value(m, g) ==
    CASE g = "sourceAddress" -> m.source
      [] g = "sourcePort" -> m.sourcePort
      [] g = "destinationAddress" -> Host(m)
      [] g = "destinationPort" -> m.port

\* IPCIDRItem.Match
CIDRMatch(r, m) ==
    IF m.matchSource THEN m.source \in r.cidr
    ELSE IF m.ip # None THEN m.ip \in r.cidr
    ELSE IF m.addresses # {} THEN m.addresses \cap r.cidr # {}
    ELSE m.acceptEmpty

\* The group the addresses of a rule count for: none when they are deferred.
CIDRGroup(r, m) ==
    IF m.ignore \/ r.cidr = {} THEN {}
    ELSE {IF m.matchSource THEN "sourceAddress" ELSE "destinationAddress"}

Required(r, m) == {g \in Groups : r.on[g] # {}} \cup CIDRGroup(r, m)

Matched(r, m) ==
    {g \in Groups : Value(m, g) \in r.on[g]}
        \cup {g \in CIDRGroup(r, m) : CIDRMatch(r, m)}

ItemsMatch(r, m) == r.items = {} \/ m.protocol \in r.items

\* Some field other than an address of the destination has been looked at.
DidMatch(r) == (\E g \in Groups : r.on[g] # {}) \/ r.items # {} \/ r.sets # {}

Combine(left, right) == {s \cup t : s \in left, t \in right}

\* Mutant: the rules of a rule-set start with the state of the failed rule
\* whether it is inverted or not.
InheritAlways(r, inherited) == inherited

\* An inverted rule is evaluated on its own.
EvaluationBase(r, inherited) == IF r.invert THEN {} ELSE inherited

InvertedFailure(r, inherited) == IF r.invert THEN {inherited} ELSE {}

\* What a rule hands to its rule-sets.
SetBase(r, m, inherited) == EvaluationBase(r, inherited) \cup Matched(r, m)

\* abstractDefaultRule.matchStatesWithBase, given the states its rule-sets return.
DefaultStates(r, m, inherited, states) ==
    LET passed == {s \in states : Required(r, m) \subseteq s}
        deferred == /\ m.ignore /\ passed = {{}}
                    /\ ~DidMatch(r) /\ r.cidr # {}
    IN  IF ~ItemsMatch(r, m) \/ passed = {} THEN InvertedFailure(r, inherited)
        ELSE IF ~r.invert THEN passed
        ELSE IF deferred THEN {inherited} ELSE {}

\* The states after 0, 1, ..., n rules of a logical rule that needs them all.
AllOf(n, base, ruleStates) ==
    LET states[i \in 0 .. n] ==
            IF i = 0 THEN {base} ELSE Combine(states[i - 1], ruleStates[i])
    IN  states

\* abstractLogicalRule.matchStatesWithBase, given the states its rules return.
LogicalStates(r, base, ruleStates) ==
    LET states == IF r.mode = "and"
                  THEN AllOf(Len(r.rules), EvaluationBase(r, base), ruleStates)[Len(r.rules)]
                  ELSE UNION {ruleStates[i] : i \in 1 .. Len(r.rules)}
    IN  IF states = {} THEN InvertedFailure(r, base)
        ELSE IF r.invert THEN {} ELSE states

\* The flags of a rule_set item are reset for a new rule, also within a logical one.
ResetRuleCache(m) == [m EXCEPT !.matchSource = FALSE, !.acceptEmpty = FALSE]

\* Rules of a rule-set, which have no rule-sets themselves.
LeafStates(r, m, base) == DefaultStates(r, m, base, {SetBase(r, m, base)})

HeadlessStates(r, m, base) ==
    IF r.logical
    THEN LogicalStates(r, base, [i \in 1 .. Len(r.rules) |->
            LeafStates(r.rules[i], ResetRuleCache(m), EvaluationBase(r, base))])
    ELSE LeafStates(r, m, base)

\* RuleSetItem and the rule-sets: every rule goes on from the same state.
RuleSetStates(r, m, base) ==
    LET nested == [m EXCEPT !.matchSource = r.matchSource, !.acceptEmpty = r.acceptEmpty]
    IN  UNION {HeadlessStates(h, nested, base) : h \in UNION {sets[t] : t \in r.sets}}

TopStates(r, m, base) ==
    DefaultStates(r, m, base, IF r.sets = {} THEN {SetBase(r, m, base)}
                              ELSE RuleSetStates(r, m, SetBase(r, m, base)))

MatchStates(r, m) ==
    IF r.logical
    THEN LogicalStates(r, {}, [i \in 1 .. Len(r.rules) |->
            TopStates(r.rules[i], ResetRuleCache(m), EvaluationBase(r, {}))])
    ELSE TopStates(r, m, {})

Match(r, m) == MatchStates(r, ResetRuleCache(m)) # {}

\* The rules a logical rule is made of, or the rule itself.
Parts(r) == IF r.logical THEN {r.rules[i] : i \in 1 .. Len(r.rules)} ELSE {r}

\* The shape of the rules of a rule-set, and of those of a configuration, which
\* include rule-sets.
IsHeadlessRule(r) ==
    /\ r.logical \in BOOLEAN /\ r.invert \in BOOLEAN /\ Len(r.rules) \in Nat
    /\ \A p \in Parts(r) : p.invert \in BOOLEAN

IsRule(r) ==
    /\ IsHeadlessRule(r)
    /\ \A p \in Parts(r) :
        p.sets \subseteq Tags /\ p.matchSource \in BOOLEAN /\ p.acceptEmpty \in BOOLEAN

\* ContainsIPCIDRRule of a rule-set's metadata
ContainsIPCIDRRule(t) == \E h \in sets[t] : \E p \in Parts(h) : p.cidr # {}

\* WithAddressLimit of a DNS rule
WithAddressLimit(r) ==
    \E p \in Parts(r) :
        p.cidr # {} \/ (~p.matchSource /\ \E t \in p.sets : ContainsIPCIDRRule(t))

\* A rule-set is reloaded: LocalRuleSet.reloadRules, RemoteRuleSet.loadBytes
ReloadRules(t, rules) == sets' = [sets EXCEPT ![t] = rules]
----------------------------------------------------------------------------
(* What the documentation of the route rules says a rule means, as a       *)
(* formula over its groups (configuration/route/rule.md).  That of the DNS *)
(* rules leaves ip_cidr out of the group of the domain                     *)
(* (configuration/dns/rule.md); for rules without domains beside their     *)
(* addresses the two are the same.                                         *)

LeafHolds(l, outer, m) ==
    IF l.invert THEN ~(ItemsMatch(l, m) /\ Required(l, m) \subseteq Matched(l, m))
    ELSE ItemsMatch(l, m) /\ Required(l, m) \subseteq Matched(l, m) \cup outer

Contributes(l, m) == IF l.invert THEN {} ELSE Matched(l, m)

\* A rule of a rule-set merged into a rule with groups `need`, `outer` of
\* which it matches by itself.
BranchHolds(h, outer, need, m) ==
    LET parts == Parts(h)
        any == \E p \in parts : /\ LeafHolds(p, outer, m)
                                /\ need \subseteq outer \cup Contributes(p, m)
        all == /\ \A p \in parts : LeafHolds(p, outer, m)
               /\ need \subseteq outer \cup UNION {Contributes(p, m) : p \in parts}
        alone == IF h.mode = "and" THEN \A p \in parts : LeafHolds(p, {}, m)
                 ELSE \E p \in parts : LeafHolds(p, {}, m)
    IN  IF ~h.logical THEN any
        ELSE IF h.invert THEN ~alone /\ need \subseteq outer
        ELSE IF h.mode = "and" THEN all ELSE any

DefaultHolds(r, m) ==
    LET nested == [m EXCEPT !.matchSource = r.matchSource, !.acceptEmpty = r.acceptEmpty]
        outer == Matched(r, m)
        need == Required(r, m)
    IN  r.invert # (/\ ItemsMatch(r, m)
                    /\ IF r.sets = {} THEN need \subseteq outer
                       ELSE \E t \in r.sets : \E h \in sets[t] :
                                BranchHolds(h, outer, need, nested))

Documented(r, m) ==
    IF ~r.logical THEN DefaultHolds(r, m)
    ELSE r.invert # IF r.mode = "and" THEN \A p \in Parts(r) : DefaultHolds(p, m)
                    ELSE \E p \in Parts(r) : DefaultHolds(p, m)
=============================================================================
