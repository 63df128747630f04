\* A supervised host with and another without a hardware address, a token that may change, saves that succeed, any two disruptions.
SPECIFICATION FairSpec
CONSTANTS
    m1 = m1
    m2 = m2
    noMac = noMac
    n1 = n1
    n2 = n2
    n3 = n3
    n4 = n4
    NodeID = {n1, n2, n3, n4}
    Machine = {m1, m2}
    Nameless = {m2}
    MAC = {m1, m2, noMac}
    NoMAC = noMac
    Addr = {"x", "y"}
    Token = {"t", "u"}
    Supervised = {m1}
    Timeout = 0
    ReapPeriod = 1
    SaveFaults = {}
    MaxOctet = 5
    Disruptions = 2
INVARIANT ClusterTypeOK
INVARIANT AgentAgrees
INVARIANT LiveAddressesDistinct
INVARIANT FleetSurvives
INVARIANT WriteThrough
PROPERTY ImplementsLedger
PROPERTY EventuallyShown
