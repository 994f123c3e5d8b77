-------------------------------- MODULE Ipam --------------------------------
(***************************************************************************)
(* Networks' desired state and the addresses of their subnets: creation,   *)
(* update and subnet upsert of a network (core/use_cases/networks.py,      *)
(* ipam.py), allocation, reservation and release of addresses, and the     *)
(* allocator (core/services/ip_allocator.py).                              *)
(*                                                                         *)
(* Addresses are naturals; a cidr, a pool and a reserved range are pairs   *)
(* <<first, last>>.  Of a network is kept what the allocator and the edge  *)
(* services read; the assignment of nodes is in ApplyNetwork.  A network   *)
(* has one subnet, named by the network: of two requests that both add the *)
(* first subnet the table refuses the later save (its id is another), here *)
(* it overwrites, or stops.                                                *)
(***************************************************************************)
EXTENDS Repositories, FiniteSetsExt

CONSTANTS
    Networks, Allocations,
    Cidrs, Pools, Ranges,   \* cidrs, tuples of pools and sets of reserved ranges requests ask for
    Gateways,               \* addresses, or None
    NatSpecs                \* egress interfaces, or None

Inside(a, range) == range[1] <= a /\ a <= range[2]
Addresses == UNION {c[1] .. c[2] : c \in Cidrs}

Subnet(cidr, gateway, pools, reserved) ==
    [cidr |-> cidr, gateway |-> gateway, pools |-> pools, reserved |-> reserved]

Overlap(a, b) == a[1] <= b[2] /\ b[1] <= a[2]

\* Subnet.__post_init__ accepts it.
SubnetValid(s) ==
    /\ s.gateway # None => Inside(s.gateway, s.cidr)
    /\ \A r \in Range(s.pools) \cup s.reserved : Inside(r[1], s.cidr) /\ Inside(r[2], s.cidr)
    /\ \A i, j \in DOMAIN s.pools : i # j => ~ Overlap(s.pools[i], s.pools[j])
    /\ s.gateway # None => \A i \in DOMAIN s.pools : ~ Inside(s.gateway, s.pools[i])

Subnets ==
    {s \in {Subnet(c, g, p, r) : c \in Cidrs, g \in Gateways, p \in Pools, r \in Ranges} : SubnetValid(s)}

ASSUME IpamAssumption ==
    /\ Cidrs \subseteq Nat \X Nat /\ Pools \subseteq Seq(Nat \X Nat) /\ Ranges \subseteq SUBSET (Nat \X Nat)
    /\ Gateways \subseteq Nat \cup {None} /\ None \in NatSpecs
    /\ None \notin Networks \cup Subnets \cup Nat

\* compute_spec_hash, before the sha256: pools and reserved ranges have no part in it.
SpecHash(n) ==
    [subnet |-> IF n.subnet = None THEN None ELSE <<n.subnet.cidr, n.subnet.gateway>>, nat |-> n.nat]

Rehashed(n) == [n EXCEPT !.hash = SpecHash(n)]

-----------------------------------------------------------------------------
(* The allocator. *)

\* Without pools everything between the network and the broadcast address.
PoolsOf(s) == IF s.pools # <<>> THEN s.pools ELSE << <<s.cidr[1] + 1, s.cidr[2] - 1>> >>

\* IpRange refuses the default pool of a /31 or a /32.
HasPool(s) == s.pools # <<>> \/ s.cidr[1] + 1 <= s.cidr[2] - 1

Candidates(s, pool) ==
    {a \in pool[1] .. pool[2] :
        /\ Inside(a, s.cidr)
        /\ a \notin {s.cidr[1], s.cidr[2], s.gateway}
        /\ \A r \in s.reserved : ~ Inside(a, r)}

\* The first free candidate in the order of the pools, None when exhausted.
NextAvailable(s, taken) ==
    LET free == [i \in DOMAIN PoolsOf(s) |-> Candidates(s, PoolsOf(s)[i]) \ taken]
        open == {i \in DOMAIN free : free[i] # {}}
    IN IF open = {} THEN None ELSE Min(free[Min(open)])

Assignable(s, a) ==
    /\ Inside(a, s.cidr)
    /\ a # s.gateway
    /\ \A r \in s.reserved : ~ Inside(a, r)
    /\ s.pools = <<>> \/ \E i \in DOMAIN s.pools : Inside(a, s.pools[i])

-----------------------------------------------------------------------------
Network(n) == Rows("networks")[n]
Allocation(a) == Rows("allocs")[a]

NewAllocation(n, ip) == [subnet |-> n, ip |-> ip]

InUse(n) == {Allocation(a).ip : a \in {x \in Ids("allocs") : Allocation(x).subnet = n}}

CreateNetwork ==
    \E n \in FreshIds("networks", Networks), s \in Subnets \cup {None} :
        /\ "networks" \in DOMAIN db
        /\ s # None => s.pools = <<>> /\ s.reserved = {}
        /\ Handles({"networks"},
                   <<Put("networks", n, Rehashed([subnet |-> s, nat |-> None, hash |-> None]))>>)

\* A new cidr or gateway replaces the subnet, its pools and ranges with it.  The
\* row is saved when nothing changed, too.
UpdateNetwork ==
    \E n \in Ids("networks"), s \in Subnets \cup {None}, nat \in NatSpecs :
        LET old == Network(n)
            replaces == s # None /\ (old.subnet = None \/ old.subnet.cidr # s.cidr
                                                        \/ old.subnet.gateway # s.gateway)
            new == [old EXCEPT !.subnet = IF replaces THEN s ELSE @,
                               !.nat = IF nat # None THEN nat ELSE @]
        IN /\ s # None => s.pools = <<>> /\ s.reserved = {}
           /\ Handles({"networks"},
                      <<Put("networks", n, IF new # old THEN Rehashed(new) ELSE old)>>)

\* Mutant: addresses in use are not looked at.
FitsAlways(n, s) == TRUE

\* No address in use is left out.
Fits(n, s) == \A a \in InUse(n) : Inside(a, s.cidr)

\* The subnet keeps its id.
UpsertSubnet ==
    \E n \in Ids("networks"), s \in Subnets :
        /\ Network(n).subnet # None => Fits(n, s)
        /\ Handles({"networks", "allocs"},
                   <<Put("networks", n, Rehashed([Network(n) EXCEPT !.subnet = s]))>>)

AllocateIp ==
    \E n \in Ids("networks"), a \in FreshIds("allocs", Allocations) :
        LET s == Network(n).subnet IN
        /\ s # None
        /\ HasPool(s)
        /\ NextAvailable(s, InUse(n)) # None
        /\ Handles({"networks", "allocs"},
                   <<Put("allocs", a, NewAllocation(n, NextAvailable(s, InUse(n))))>>)

ReserveIp ==
    \E n \in Ids("networks"), a \in FreshIds("allocs", Allocations), ip \in Addresses :
        LET s == Network(n).subnet IN
        /\ s # None
        /\ Assignable(s, ip)
        /\ ip \notin InUse(n)
        /\ Handles({"networks", "allocs"}, <<Put("allocs", a, NewAllocation(n, ip))>>)

ReleaseIp == \E a \in Ids("allocs") : RunsThrough(<<Drop("allocs", a)>>)

IpamNext == CreateNetwork \/ UpdateNetwork \/ UpsertSubnet \/ AllocateIp \/ ReserveIp \/ ReleaseIp

-----------------------------------------------------------------------------
(* Properties. *)

NetworkRows ==
    [subnet : Subnets \cup {None}, nat : NatSpecs,
     hash : [subnet : {None} \cup (Cidrs \X Gateways), nat : NatSpecs]]

AllocationRows == [subnet : Networks, ip : Addresses]

\* A table keeps rows of its type, and an address belongs to a network there is.
IpamTypeOK ==
    /\ \A n \in Ids("networks") : Network(n) \in NetworkRows
    /\ \A a \in Ids("allocs") : Allocation(a) \in AllocationRows /\ Allocation(a).subnet \in Ids("networks")

\* Two requests that compute the same lowest free address do not both get it:
\* the check of ReserveIp and the list of AllocateIp may be old when they save,
\* the constraint of the table is not.
AddressesUnique ==
    \A a, b \in Ids("allocs") : Allocation(a) = Allocation(b) => a = b

\* The allocator is exact: what it hands out a reservation of the same address
\* would be granted, and it is exhausted only when nothing but the network and
\* the broadcast address could still be reserved.
AllocatorIsExact ==
    \A n \in Ids("networks") :
        LET s == Network(n).subnet
            open == {a \in Addresses \ InUse(n) : Assignable(s, a) /\ a \notin {s.cidr[1], s.cidr[2]}}
        IN s # None /\ HasPool(s) =>
             NextAvailable(s, InUse(n)) \in open \/ (open = {} /\ NextAvailable(s, InUse(n)) = None)

\* An address outside its subnet was stranded by a network update, which looks
\* at no allocation and leaves a subnet without pools and ranges, by a save over
\* a change its request had not seen, or it came with a bundle whose networks and
\* addresses had been read at different times (backup.py): never by an upsert,
\* whose check (ipam.py, UpsertSubnet) is what the docstring promises.
StrandedOnlyUnchecked ==
    \A a \in Ids("allocs") :
        LET s == Network(Allocation(a).subnet).subnet IN
        \/ Inside(Allocation(a).ip, s.cidr)
        \/ s.pools = <<>> /\ s.reserved = {}
        \/ late
        \/ "allocs" \in DOMAIN files.bundle /\ a \in DOMAIN files.bundle.allocs

\* Whichever save came last, the hash stored with a network is that of the
\* subnet stored with it: an edit that is overwritten is overwritten whole.
HashCoversSubnet ==
    \A n \in Ids("networks") :
        Network(n).hash.subnet = SpecHash(Network(n)).subnet

\* PATCH: "the fields given are replaced", "every change bumps intent_version and
\* spec_hash" (user-guide.md:212, 226): a hash that was recomputed for a change is
\* the hash of what is stored.
HashIsOfStoredSpec ==
    \A n \in Ids("networks") : Network(n).hash = SpecHash(Network(n))

=============================================================================
