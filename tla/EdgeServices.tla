---------------------------- MODULE EdgeServices ----------------------------
(***************************************************************************)
(* The edge services of one node as the agent's adapters keep them:        *)
(* DHCP scopes as fragments dnsmasq reads (adapters/dhcp_dnsmasq), DNS     *)
(* zones as files CoreDNS reads through a generated Corefile               *)
(* (adapters/dns_coredns), NAT rules and firewall policies in maps of the  *)
(* agent from which one nftables table is rendered                         *)
(* (adapters/firewall_nftables).  In that table each policy is a chain     *)
(* that ends in its default action, and one dispatch chain jumps to all of *)
(* them, so the first one decides every forwarded packet.                  *)
(*                                                                         *)
(* What the daemons run is external: a reload takes in everything that is  *)
(* on disk, and nft swaps the whole table.  A step that fails and a        *)
(* process that stops at the same point leave the same state.              *)
(***************************************************************************)
EXTENDS Naturals, Sequences

CONSTANTS
    Scopes, Zones,
    NatRules, Policies,
    Specs, NoSpec,
    MaxFaults       \* bound on steps that fail

\* A file name carries the kind of its service, NoSpec is no content.
ASSUME EdgeAssumption ==
    /\ Scopes \cap Zones = {} /\ (Scopes \cup Zones) \cap (NatRules \cup Policies) = {}
    /\ NatRules \cap Policies = {}
    /\ NoSpec \notin Specs
    /\ MaxFaults \in Nat

VARIABLES
    file,           \* fragments and zone files
    corefile,       \* the zones it names
    running,        \* what dnsmasq and CoreDNS have loaded
    intent,         \* NftablesFirewall._policies and _nat, and the order of the policies
    kernel,         \* the nftables table: its NAT rules, and the policies' chains in the
                    \* order dispatch jumps to them
    last,           \* the last step and whether it was answered ok
    adrift,         \* history: backends with a load that failed, or maps forgotten, and
                    \* no load since
    faults

edgeVars == <<file, corefile, running, intent, kernel, last, adrift, faults>>

Files == Scopes \cup Zones
Rules == NatRules \cup Policies
Backend(i) == IF i \in Scopes THEN "dnsmasq" ELSE IF i \in Zones THEN "coredns" ELSE "nft"

NoIntent == [rule |-> [i \in Rules |-> NoSpec], order |-> <<>>]

\* Mutant: the policy added last is rendered first.
TableNewestFirst(map) ==
    LET n == Len(map.order)
    IN  [nat |-> [i \in NatRules |-> map.rule[i]],
         chains |-> [k \in 1 .. n |->
                        [policy |-> map.order[n + 1 - k], spec |-> map.rule[map.order[n + 1 - k]]]]]

\* _render: the whole table, from both maps, whatever changed.
Table(map) ==
    [nat |-> [i \in NatRules |-> map.rule[i]],
     chains |-> [k \in 1 .. Len(map.order) |->
                    [policy |-> map.order[k], spec |-> map.rule[map.order[k]]]]]

EdgeInit ==
    /\ file = [i \in Files |-> NoSpec] /\ running = file /\ corefile = {}
    /\ intent = NoIntent /\ kernel = Table(NoIntent)
    /\ last = NoSpec /\ adrift = {} /\ faults = 0

Answers(i, spec, ok) ==
    /\ last' = [id |-> i, spec |-> spec, ok |-> ok]
    /\ IF ok THEN UNCHANGED faults ELSE faults < MaxFaults /\ faults' = faults + 1

\* The backend took everything in, or did not.
Loads(b, ok) == adrift' = IF ok THEN adrift \ {b} ELSE adrift \cup {b}

DnsmasqReads(files) == [i \in Files |-> IF i \in Scopes THEN files[i] ELSE running[i]]

CorednsReads(files, zones) ==
    [i \in Files |-> IF i \in Scopes THEN running[i] ELSE IF i \in zones THEN files[i] ELSE NoSpec]

\* Mutant: the Corefile is written once.
ZonesOfOld(files) == corefile

\* The Corefile of the zone files that are there.
ZonesOf(files) == {z \in Zones : files[z] # NoSpec}

\* The order without i.
Without(order, i) ==
    LET k == CHOOSE k \in 1 .. Len(order) : order[k] = i
    IN  SubSeq(order, 1, k - 1) \o SubSeq(order, k + 1, Len(order))

\* A dict keeps the place of a key it has and puts a new one last.
OrderAfter(map, i, spec) ==
    IF i \notin Policies THEN map.order
    ELSE IF spec = NoSpec THEN Without(map.order, i)
    ELSE IF map.rule[i] = NoSpec THEN Append(map.order, i)
    ELSE map.order

-----------------------------------------------------------------------------
(* Steps of a plan.  The spec NoSpec stands for the delete step. *)

\* dnsmasq --test, the CoreDNS start or nft --check fail: nothing is written.
Refuse ==
    \E i \in Files \cup Rules, spec \in Specs :
        /\ Answers(i, spec, FALSE)
        /\ UNCHANGED <<file, corefile, running, intent, kernel, adrift>>

\* The file is what it should be, or the map has the entry: nothing is done.
IsNoop(i, spec) == IF i \in Rules THEN intent.rule[i] = spec ELSE file[i] = spec

Noop ==
    \E i \in Files \cup Rules, spec \in Specs \cup {NoSpec} :
        /\ IsNoop(i, spec)
        /\ Answers(i, spec, TRUE)
        /\ UNCHANGED <<file, corefile, running, intent, kernel, adrift>>

ApplyScope ==
    \E i \in Scopes, spec \in Specs \cup {NoSpec}, ok \in BOOLEAN :
        /\ ~ IsNoop(i, spec)
        /\ file' = [file EXCEPT ![i] = spec]
        /\ running' = IF ok THEN DnsmasqReads(file') ELSE running
        /\ Answers(i, spec, ok) /\ Loads("dnsmasq", ok)
        /\ UNCHANGED <<corefile, intent, kernel>>

\* Zone file, Corefile, reload; it may end after each.
ApplyZone ==
    \E i \in Zones, spec \in Specs \cup {NoSpec}, named, ok \in BOOLEAN :
        /\ ~ IsNoop(i, spec) /\ (ok => named)
        /\ file' = [file EXCEPT ![i] = spec]
        /\ corefile' = IF named THEN ZonesOf(file') ELSE corefile
        /\ running' = IF ok THEN CorednsReads(file', corefile') ELSE running
        /\ Answers(i, spec, ok) /\ Loads("coredns", ok)
        /\ UNCHANGED <<intent, kernel>>

\* The map is changed before nft is called.
ApplyRule ==
    \E i \in Rules, spec \in Specs \cup {NoSpec}, ok \in BOOLEAN :
        /\ ~ IsNoop(i, spec)
        /\ intent' = [rule |-> [intent.rule EXCEPT ![i] = spec], order |-> OrderAfter(intent, i, spec)]
        /\ kernel' = IF ok THEN Table(intent') ELSE kernel
        /\ Answers(i, spec, ok) /\ Loads("nft", ok)
        /\ UNCHANGED <<file, corefile, running>>

-----------------------------------------------------------------------------
\* The maps are in memory only; nothing reads the table back.
AgentRestarts ==
    /\ intent' = NoIntent /\ last' = NoSpec
    /\ adrift' = IF kernel = Table(NoIntent) THEN adrift ELSE adrift \cup {"nft"}
    /\ UNCHANGED <<file, corefile, running, kernel, faults>>

DaemonsRestart ==
    /\ running' = [i \in Files |-> IF i \in Scopes \cup corefile THEN file[i] ELSE NoSpec]
    /\ UNCHANGED <<file, corefile, intent, kernel, last, faults>>
    /\ adrift' = adrift \ ({"dnsmasq"} \cup IF corefile = ZonesOf(file) THEN {"coredns"} ELSE {})

HostReboots ==
    /\ kernel' = Table(NoIntent) /\ intent' = NoIntent /\ last' = NoSpec
    /\ running' = [i \in Files |-> IF i \in Scopes \cup corefile THEN file[i] ELSE NoSpec]
    /\ UNCHANGED <<file, corefile, faults>>
    /\ adrift' = IF corefile = ZonesOf(file) THEN {} ELSE adrift \cap {"coredns"}

EdgeNext ==
    \/ Refuse \/ Noop \/ ApplyScope \/ ApplyZone \/ ApplyRule
    \/ AgentRestarts \/ DaemonsRestart \/ HostReboots

EdgeSpec == EdgeInit /\ [][EdgeNext]_edgeVars

-----------------------------------------------------------------------------
(* Properties. *)

\* What the table has of a rule.  That a policy's chain is in it does not say that a
\* packet gets to the chain.
InTable(table, i) ==
    LET places == {k \in 1 .. Len(table.chains) : table.chains[k].policy = i}
    IN IF i \in NatRules THEN table.nat[i]
       ELSE IF places = {} THEN NoSpec ELSE table.chains[CHOOSE k \in places : TRUE].spec

Served(i) == IF i \in Files THEN running[i] ELSE InTable(kernel, i)

\* The chain that decides what is forwarded, if there is one, of every network of the
\* node: the first one ends in accept or drop (firewall_nftables/adapter.py:194), so
\* that no packet comes back to dispatch from it.
Deciding(table) == IF table.chains = <<>> THEN <<>> ELSE <<table.chains[1]>>

Contents == Specs \cup {NoSpec}

\* Every policy of the map has its place in the order.
IsIntent(map) ==
    /\ map \in [rule : [Rules -> Contents], order : Seq(Policies)]
    /\ \A i \in Policies : map.rule[i] # NoSpec => \E k \in 1 .. Len(map.order) : map.order[k] = i

EdgeTypeOK ==
    /\ file \in [Files -> Contents] /\ running \in [Files -> Contents]
    /\ IsIntent(intent)
    /\ kernel \in [nat : [NatRules -> Contents], chains : Seq([policy : Policies, spec : Contents])]
    /\ corefile \subseteq Zones
    /\ last = NoSpec \/ last \in [id : Files \cup Rules, spec : Contents, ok : BOOLEAN]
    /\ adrift \subseteq {"dnsmasq", "coredns", "nft"} /\ faults \in 0 .. MaxFaults

\* An answer "ok", which the reconciler takes on trust (diff_engine.py:329), is
\* true - the file is loaded, the NAT rule or the policy's chain is in the table as
\* asked - unless a load of its backend failed, or the agent restarted over a filled
\* table, and none has succeeded since: then the retry finds file or map as they
\* should be and answers "ok" to what nobody runs, or to the deletion of what is
\* still there (dhcp_dnsmasq/adapter.py:75, firewall_nftables/adapter.py:71, 81).
OkIsServed ==
    last # NoSpec /\ last.ok /\ Backend(last.id) \notin adrift => Served(last.id) = last.spec

\* One successful load heals all that failed before it: dnsmasq and CoreDNS then
\* run what is on disk, for every network of the node.
LoadHealsAll ==
    \A i \in Files : Backend(i) \notin adrift => running[i] = file[i]

\* An "ok" and a load mean what they seem to, as far as the two above say.
EdgeIsServed == OkIsServed /\ LoadHealsAll

\* A step changes what is loaded for its own service and nothing of another's: scope,
\* zone, NAT rule, text of a policy's chain.  Unless an earlier load had failed, or the
\* agent had restarted and forgotten the other's rules: then the table is rendered
\* without them (firewall_nftables/adapter.py:61).
OthersKept ==
    \A i \in Files \cup Rules : Served(i)' # Served(i) => i = last'.id \/ Backend(i) \in adrift

\* Forwarded packets are another matter, because the networks of a node share the
\* dispatch chain.  How they are decided changes only with a step for the policy that
\* decides them all: when it is changed or deleted, or when there is none yet and the
\* policy of the step is the first.  So no later policy, whatever its default, takes
\* traffic from the one that decides - and no later policy has any effect, against
\* "all-policies-active" (firewall_nftables/adapter.py:194-203).
FirstPolicyDecides ==
    Deciding(kernel') # Deciding(kernel) /\ "nft" \notin adrift =>
        last'.id = Head(IF kernel.chains = <<>> THEN kernel'.chains ELSE kernel.chains).policy

\* What one network asks for reaches no further than the two above say.  The first
\* policy of a node reaches all its networks.
ReachOfAStep ==
    [][last' # NoSpec /\ last' # last => OthersKept /\ FirstPolicyDecides]_edgeVars

=============================================================================
