\* Finding: the machines get other LAN addresses.
SPECIFICATION CSpec
CONSTANTS
    m1 = m1
    m2 = m2
    noMac = noMac
    n1 = n1
    n2 = n2
    n3 = n3
    n4 = n4
    NodeID = {n1, n2}
    Machine = {m1, m2}
    Nameless = {}
    MAC = {m1, m2, noMac}
    NoMAC = noMac
    Addr = {"x", "y"}
    Token = {"t"}
    Supervised = {m1, m2}
    Timeout = 0
    ReapPeriod = 1
    SaveFaults = {}
    MaxOctet = 4
    Disruptions = 1
INVARIANT CommandReachesNode
