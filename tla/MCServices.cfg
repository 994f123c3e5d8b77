SPECIFICATION Spec
CONSTANTS
    Deployments <- MCDeployments
    BackupAlone = TRUE
    Requests = {q1, q2}
    Idle = Idle
    None = None
    MaxAsked = 4
    Networks = {n1}
    Allocations = {a1, a2}
    Cidrs <- MCCidrs
    Pools <- MCPools
    Ranges <- MCRanges
    Gateways <- MCGateways
    NatSpecs <- MCNatSpecs
    Accounts = {u1, u2}
    Tokens = {t1, t2}
    Projects = {p1, p2}
    Names = {"boot"}
    BootName = "boot"
    BootToken = bt
    AuditIds = {ev1, ev2}
    OperationIds = {op1}
    BatchSize = 1
    Capacity = 2
    Unit = 2
    Refill = 1
    LastTick = 6
    Routers = {r1}
    Fips = {f1}
    Peers = {e1}
    Dests = {d1}
    Nets = {n1}
    ExtNets = {x1}
    Ports = {o1}
    PortIds = {l1}
    Vifs = {v1}
    Groups = {g1}
    MemberValues = {m1}
    AddressPools = {ap1}
    QosPolicies = {qp1}
    Trunks = {tr1}
    Versions = {0, 1}
    Vlans = {1, 2}
    PolicyIds = {sp1}
    RuleIds = {1, 2}
    RuleSpecs <- MCRuleSpecs
    Services = {"ssh"}
    PortNumbers = {22, 80}
    Owners = {p1}
    QuotaIds = {k1, k2}
    SnapshotIds = {s1, s2}
    BondIds = {b1}
    RetentionIds = {rp1, rp2}
    Resources = {"networks", "routers"}
    Limits = {1}
    Days = {"ok", "bad"}
    Mtus = {"ok", "jumbo", "bad"}
    Balancers = {lb1}
    Listeners = {li1}
    LbPools = {lp1}
    Members = {lm1}
    Monitors = {hm1, hm2}
    Weights = {1}
    Timings = {"ok"}
    Schedules = {sc1}
    Exprs <- MCExprs
    LastMinute = 3
    LastDay = 3
    Mirrors = {mi1}
    Tunnels = {tu1}
    VpnPeers = {vp1, vp2}
    Keys = {ke1}
    Secrets = {se1}
INVARIANTS RowsAreSound TakenOnce DerivedIsOwn AddressesFit RefusedIsThere GrantedIsBounded
PROPERTIES AccessHolds NothingForgotten SchedulesRunAsAsked
CHECK_DEADLOCK FALSE
