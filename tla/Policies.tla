------------------------------ MODULE Policies ------------------------------
(***************************************************************************)
(* Security policies (core/use_cases/n2.py, entities/security_policy.py),  *)
(* the service objects their rules name (n1.py) and the compiler from      *)
(* rules to the nftables chains of a node (services/policy_compiler.py).   *)
(*                                                                         *)
(* A rule matches by chain, source and service; destinations are matched   *)
(* the way sources are and left out.  The source "blank" is a rule of type *)
(* "cidr" with an empty value, which the entity accepts                    *)
(* (security_policy.py:78).  A packet is a chain, whether its source lies  *)
(* in the one CIDR rules may name, and a port; the ports of a service are  *)
(* those it covers, all of them when it lists none.                        *)
(***************************************************************************)
EXTENDS Repositories, FiniteSetsExt

CONSTANTS
    PolicyIds,
    RuleIds,        \* a set of naturals: the random ids, in the order of the index
    RuleSpecs,      \* rules that are added
    Services, PortNumbers

\* A statement of a chain, and what the compiler leaves: the ruleset, and the
\* services as they were.
Statements == [cidr : BOOLEAN, action : {"allow", "deny"}, ports : SUBSET PortNumbers]

Compilations ==
    [ruleset : [ingress : Seq(Statements), egress : Seq(Statements)],
     seen : UNION {[found -> SUBSET PortNumbers] : found \in SUBSET Services}]

Sources == {"any", "cidr", "blank", "group"}

ASSUME PoliciesAssumption ==
    /\ RuleIds \subseteq Nat /\ None \notin Services \cup Compilations
    /\ RuleSpecs \subseteq
         [priority : Nat, direction : {"ingress", "egress", "both"}, source : Sources,
          service : Services \cup {None}, action : {"allow", "deny"}, enabled : BOOLEAN]

\* rules is what the table of rules holds; seen, in compiled, is a history
\* variable.
PolicyRuleRows ==
    [id : RuleIds, priority : {r.priority : r \in RuleSpecs}, direction : {"ingress", "egress", "both"},
     source : Sources, service : Services \cup {None}, action : {"allow", "deny"},
     enabled : BOOLEAN]

PolicyRow == [rules |-> {}, status |-> "draft", compiled |-> None]

Policy(id) == Rows("policies")[id]

ServiceObject(v) == Rows("services")[v]

SavesPolicy(reads, id, row) == Handles(reads, <<Put("policies", id, row)>>)

-----------------------------------------------------------------------------
(* The compiler. *)

Before(r, s) == r.priority < s.priority \/ (r.priority = s.priority /\ r.id < s.id)

\* The rules as a load orders them: by priority, and in the index's order
\* where that is the same.
Ordered(rules) ==
    CHOOSE seq \in [1 .. Cardinality(rules) -> rules] :
        \A i, j \in DOMAIN seq : i < j => Before(seq[i], seq[j])

\* A rule whose source is a group or pool is skipped: nothing resolves them.
Resolved(rule) == rule.source # "group"

\* Mutant: an empty value matches no address.
StatementOfEmpty(rule, found) ==
    [cidr |-> rule.source \in {"cidr", "blank"}, action |-> rule.action,
     ports |-> IF rule.service \in DOMAIN found THEN found[rule.service] ELSE PortNumbers]

\* Only a CIDR with a value becomes an address match: a blank one matches every
\* source, like "any".  Ports of a service the compiler found; a rule whose service
\* is gone, or that names none, matches every port.
Statement(rule, found) ==
    [cidr |-> rule.source = "cidr", action |-> rule.action,
     ports |-> IF rule.service \in DOMAIN found THEN found[rule.service] ELSE PortNumbers]

Used(rules, chain) == {r \in rules : r.enabled /\ r.direction \in {chain, "both"} /\ Resolved(r)}

Chain(rules, chain, found) ==
    LET used == Ordered(Used(rules, chain)) IN [i \in DOMAIN used |-> Statement(used[i], found)]

Ruleset(rules, found) ==
    [ingress |-> Chain(rules, "ingress", found), egress |-> Chain(rules, "egress", found)]

\* What the node does with a packet: the first statement that matches decides,
\* the policy of the chain is drop.
Verdict(ruleset, p) ==
    LET chain == ruleset[p.chain]
        hits == {i \in DOMAIN chain : (chain[i].cidr => p.inside) /\ p.port \in chain[i].ports}
    IN IF hits = {} THEN "deny" ELSE chain[Min(hits)].action

-----------------------------------------------------------------------------
(* Policies. *)

CreateSecurityPolicy ==
    \E id \in FreshIds("policies", PolicyIds) :
        "policies" \in DOMAIN db /\ SavesPolicy({}, id, PolicyRow)

\* Only name, description and labels change; the row is saved with its rules.
UpdateSecurityPolicy == \E id \in Ids("policies") : SavesPolicy({"policies"}, id, Policy(id))

DeleteSecurityPolicy == \E id \in Ids("policies") : Handles({"policies"}, <<Drop("policies", id)>>)

Redrafted(id, rules) == SavesPolicy({"policies"}, id, [rules |-> rules, status |-> "draft", compiled |-> None])

AddPolicyRule ==
    \E id \in Ids("policies"), k \in RuleIds, spec \in RuleSpecs :
        /\ ~ \E r \in Policy(id).rules : r.id = k
        /\ Redrafted(id, Policy(id).rules \cup
                {[id |-> k, priority |-> spec.priority, direction |-> spec.direction,
                  source |-> spec.source, service |-> spec.service, action |-> spec.action,
                  enabled |-> spec.enabled]})

RemovePolicyRule ==
    \E id \in Ids("policies") : \E r \in Policy(id).rules : Redrafted(id, Policy(id).rules \ {r})

\* The services are read one by one after the policy; those that are gone are
\* left out without a word.
CompileSecurityPolicy ==
    \E id \in Ids("policies") :
        LET used == {r.service : r \in Policy(id).rules}
            found == Keep([v \in Ids("services") |-> ServiceObject(v).ports], used)
        IN SavesPolicy({"policies", "services"}, id,
             [rules |-> Policy(id).rules, status |-> "compiled",
              compiled |-> [ruleset |-> Ruleset(Policy(id).rules, found), seen |-> found]])

\* Nothing is sent to a node: the status is all that changes.
ApplySecurityPolicy ==
    \E id \in Ids("policies") :
        /\ Policy(id).status = "compiled"
        /\ SavesPolicy({"policies"}, id, [Policy(id) EXCEPT !.status = "applied"])

\* The counters of a rule are saved with the whole policy.
UpdateRuleCounters ==
    \E id \in Ids("policies") : Policy(id).rules # {} /\ SavesPolicy({"policies"}, id, Policy(id))

-----------------------------------------------------------------------------
(* Service objects. *)

ServiceObjectRows == [ports : SUBSET PortNumbers \ {{}}]

NewService(ports) == [ports |-> ports]

CreateServiceObject ==
    \E v \in FreshIds("services", Services), ports \in SUBSET PortNumbers \ {{}} :
        "services" \in DOMAIN db /\ Handles({}, <<Put("services", v, NewService(ports))>>)

UpdateServiceObject ==
    \E v \in Ids("services"), ports \in SUBSET PortNumbers \ {{}} :
        Handles({"services"}, <<Put("services", v, NewService(ports))>>)

\* Rules that name it are not looked for.
DeleteServiceObject == \E v \in Ids("services") : Handles({"services"}, <<Drop("services", v)>>)

PoliciesNext ==
    \/ CreateSecurityPolicy \/ UpdateSecurityPolicy \/ DeleteSecurityPolicy
    \/ AddPolicyRule \/ RemovePolicyRule \/ CompileSecurityPolicy \/ ApplySecurityPolicy
    \/ UpdateRuleCounters
    \/ CreateServiceObject \/ UpdateServiceObject \/ DeleteServiceObject

-----------------------------------------------------------------------------
(* Properties. *)

PoliciesTypeOK ==
    /\ \A v \in Ids("services") : ServiceObject(v) \in ServiceObjectRows
    /\ \A id \in Ids("policies") :
        /\ Policy(id).status \in {"draft", "compiled", "applied"} /\ Policy(id).rules \subseteq PolicyRuleRows
        /\ Policy(id).status = "draft" <=> Policy(id).compiled = None
        /\ Policy(id).compiled \in Compilations \cup {None}
        /\ \A r, s \in Policy(id).rules : r.id = s.id => r = s

Packets == [chain : {"ingress", "egress"}, inside : BOOLEAN, port : PortNumbers]

\* The enabled rules that are about packet p; one whose CIDR has no value is about
\* packets from everywhere (policy_compiler.py:44).
About(rules, found, p) ==
    {r \in rules : /\ r.enabled /\ r.direction \in {p.chain, "both"}
                   /\ r.source = "cidr" => p.inside
                   /\ r.service # None => p.port \in found[r.service]}

\* What the rules mean: the action of the smallest priority that is about the
\* packet - of one of them where priorities are equal - or deny.
Decisions(rules, found, p) ==
    LET about == About(rules, found, p)
        first == {r \in about : \A s \in about : r.priority <= s.priority}
    IN IF about = {} THEN {"deny"} ELSE {r.action : r \in first}

\* The ruleset stored with a policy decides every packet as the rules stored
\* with it do, whatever edits, compilations and applies have overtaken one
\* another, provided that every rule could be resolved: no group or pool is
\* named and every service was there.  (policy_compiler.py:106; n2.py:317)
RulesetDecidesAsRules ==
    \A id \in Ids("policies") :
        LET c == Policy(id).compiled
            rules == Policy(id).rules
        IN c # None /\ (\A r \in rules : Resolved(r) /\ (r.service = None \/ r.service \in DOMAIN c.seen))
             => \A p \in Packets : Verdict(c.ruleset, p) \in Decisions(rules, c.seen, p)

\* An unresolved group only takes its own rule out: without deny rules, what the
\* ruleset accepts some enabled allow rule is about, service aside.  An allow rule of
\* type "cidr" without a value is one that accepts from everywhere.
NoUnwantedAccept ==
    \A id \in Ids("policies") :
        LET c == Policy(id).compiled
            rules == Policy(id).rules
        IN c # None => \A p \in Packets :
             Verdict(c.ruleset, p) = "allow" =>
                \E r \in rules : /\ r.enabled /\ r.action = "allow" /\ r.direction \in {p.chain, "both"}
                                 /\ r.source \in {"any", "blank"} \/ (r.source = "cidr" /\ p.inside)

=============================================================================
