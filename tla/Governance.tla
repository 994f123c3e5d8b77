----------------------------- MODULE Governance -----------------------------
(***************************************************************************)
(* Quotas of a project, versioned snapshots of its resources, gateway      *)
(* bonds and retention policies (core/use_cases/n4.py).                    *)
(*                                                                         *)
(* Nothing in the code asks a quota before it creates a resource nor a     *)
(* retention policy before it deletes history: they are kept and reported. *)
(***************************************************************************)
EXTENDS Repositories

CONSTANTS
    Owners,             \* projects that quotas, snapshots and policies belong to
    QuotaIds, SnapshotIds, BondIds, RetentionIds,
    Resources, Limits,  \* what a quota bounds, and by how much
    Days, Mtus          \* what requests ask for, valid or not

ASSUME GovernanceAssumption == None \notin Owners

Quota(k) == Rows("quotas")[k]

QuotaRows == [project : Owners, limits : [Resources -> Limits \cup {None}]]

QuotaOf(p) == {k \in Ids("quotas") : Quota(k).project = p}

-----------------------------------------------------------------------------
(* Quotas. *)

NewQuota(p, limits) == [project |-> p, limits |-> limits]

\* One resource at a time, in the row that holds the limits of all; None
\* removes the limit.
SetProjectQuota ==
    \E p \in Owners, r \in Resources, limit \in Limits \cup {None} :
        LET rows == IF QuotaOf(p) # {} THEN QuotaOf(p) ELSE FreshIds("quotas", QuotaIds)
            limits(k) == IF k \in Ids("quotas") THEN Quota(k).limits ELSE [x \in Resources |-> None]
        IN /\ "quotas" \in DOMAIN db
           /\ \E k \in rows :
                Handles({"quotas"},
                        <<Put("quotas", k, NewQuota(p, [limits(k) EXCEPT ![r] = limit]))>>)

DeleteProjectQuota ==
    \E p \in Owners : \E k \in QuotaOf(p) : Handles({"quotas"}, <<Drop("quotas", k)>>)

\* QuotaService.compute_violations, which CheckProjectUsage reports.
Violations(limits, usage) == {r \in Resources : limits[r] # None /\ usage[r] > limits[r]}

-----------------------------------------------------------------------------
(* Snapshots. *)

Snapshot(s) == Rows("snapshots")[s]

SnapshotRows == [project : Owners, version : 1 .. MaxAsked]

SnapshotsOf(p) == {s \in Ids("snapshots") : Snapshot(s).project = p}

LastVersion(p) == Max({0} \cup {Snapshot(s).version : s \in SnapshotsOf(p)})

NewSnapshot(p, version) == [project |-> p, version |-> version]

TakeResourceSnapshot ==
    \E p \in Owners, s \in FreshIds("snapshots", SnapshotIds) :
        /\ "snapshots" \in DOMAIN db
        /\ Handles({"snapshots"}, <<Put("snapshots", s, NewSnapshot(p, LastVersion(p) + 1))>>)

DeleteResourceSnapshot == \E s \in Ids("snapshots") : Handles({"snapshots"}, <<Drop("snapshots", s)>>)

-----------------------------------------------------------------------------
(* Gateway bonds. *)

Bond(b) == Rows("bonds")[b]

BondRows == [mtu : Mtus, applied : Mtus \cup {None}]

MtuValid(m) == m # "bad"

CreateGatewayBond ==
    \E b \in FreshIds("bonds", BondIds), m \in Mtus :
        "bonds" \in DOMAIN db /\ MtuValid(m) /\ Handles({}, <<Put("bonds", b, [mtu |-> m, applied |-> None])>>)

\* GatewayBond.update refuses what the constructor does.
MayChangeMtuTo(m) == MtuValid(m)

\* The configuration that was applied stays until the next apply.
UpdateGatewayBond ==
    \E b \in Ids("bonds"), m \in Mtus :
        MayChangeMtuTo(m) /\ Handles({"bonds"}, <<Put("bonds", b, [Bond(b) EXCEPT !.mtu = m])>>)

DeleteGatewayBond == \E b \in Ids("bonds") : Handles({"bonds"}, <<Drop("bonds", b)>>)

ApplyGatewayBond ==
    \E b \in Ids("bonds") :
        Handles({"bonds"}, <<Put("bonds", b, [Bond(b) EXCEPT !.applied = Bond(b).mtu])>>)

-----------------------------------------------------------------------------
(* Retention policies: one per scope, of a project or - None - for all. *)

RetentionPolicy(k) == Rows("retention")[k]

RetentionRows == [project : Owners \cup {None}, days : Days]

PolicyFor(p) == {k \in Ids("retention") : RetentionPolicy(k).project = p}

DaysValid(d) == d # "bad"

\* Whichever row comes first is updated when there are several.
SetRetentionPolicy ==
    \E p \in Owners \cup {None}, d \in Days :
        LET rows == IF PolicyFor(p) # {} THEN PolicyFor(p) ELSE FreshIds("retention", RetentionIds)
        IN /\ "retention" \in DOMAIN db
           /\ DaysValid(d)
           /\ \E k \in rows : Handles({"retention"}, <<Put("retention", k, [project |-> p, days |-> d])>>)

DeleteRetentionPolicy == \E k \in Ids("retention") : Handles({"retention"}, <<Drop("retention", k)>>)

GovernanceNext ==
    \/ SetProjectQuota \/ DeleteProjectQuota
    \/ TakeResourceSnapshot \/ DeleteResourceSnapshot
    \/ CreateGatewayBond \/ UpdateGatewayBond \/ DeleteGatewayBond \/ ApplyGatewayBond
    \/ SetRetentionPolicy \/ DeleteRetentionPolicy

-----------------------------------------------------------------------------
(* Properties. *)

\* Every row can be loaded: no request stores an MTU or a number of days that
\* the constructor refuses.
GovernanceTypeOK ==
    /\ \A b \in Ids("bonds") : Bond(b) \in BondRows /\ MtuValid(Bond(b).mtu)
    /\ \A k \in Ids("retention") : RetentionPolicy(k) \in RetentionRows /\ DaysValid(RetentionPolicy(k).days)
    /\ \A s \in Ids("snapshots") : Snapshot(s) \in SnapshotRows
    /\ \A k \in Ids("quotas") : Quota(k) \in QuotaRows

\* A project has one quota and one retention policy, the controller one global
\* policy, and a project no two snapshots of one version.  Each is looked up
\* before an await (n4.py:174, 332, 611); two requests that both find nothing
\* are told apart by a constraint where there is one, but not for the global
\* policy - NULLs are distinct in uq_retention_scope_project - and not for
\* versions.
OnePerKey ==
    /\ \A p \in Owners : Cardinality(QuotaOf(p)) <= 1 /\ Cardinality(PolicyFor(p)) <= 1
    /\ late \/ Cardinality(PolicyFor(None)) <= 1
    /\ late \/ \A p \in Owners : \A s, u \in SnapshotsOf(p) :
                  Snapshot(s).version = Snapshot(u).version => s = u

=============================================================================
