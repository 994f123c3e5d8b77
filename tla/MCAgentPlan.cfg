SPECIFICATION AgentSpec
CONSTANTS
    a = a
    b = b
    c = c
    m1 = m1
    m2 = m2
    s1 = s1
    s2 = s2
    Nodes <- MCNodes
    Mtus <- MCMtus
    Services <- MCServices
    Nets <- MCNets
    NoService = NoService
    NoPort = NoPort
    AlteredPort = AlteredPort
    MaxFailures = 1
    Scopes = {d1}
    Zones = {z1, z2}
    NatRules = {n1}
    Policies = {p1, p2}
    Specs = {x, y}
    NoSpec = NoSpec
    MaxFaults = 2
CONSTRAINT NotBothAtOnce
SYMMETRY EdgeSymmetry
INVARIANTS OkPlanConverges RetryIsSafe ShownIsPlanned EdgeIsServed
PROPERTIES StepsOnlyShrinkDiff ReachOfAStep
CHECK_DEADLOCK FALSE
