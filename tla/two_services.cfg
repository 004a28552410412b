SPECIFICATION NFSpec
CONSTANTS
    Nil = Nil
    ip1 = ip1
    ip2 = ip2
    ip3 = ip3
    Addr = {"a1", "a2"}
    IP = {ip1, ip2, ip3}
    Port = {80, 443, 8080}
    Timeout = {10}
    Service = {"s1", "s2"}
    PortName = {"http", "https", "web"}
    Protocol = {"TCP"}
    IPLists <- MCLists
    UpdatedSets <- MCUpdatedSets
    SvcVersions <- TwoVersions
    EpVersions <- TwoEndpoints
    EndpointSlice = FALSE
    EpObject = {"s1", "s2"}
    Bootstrap = Nil
    Tombstones = FALSE
    MaxChanges = 5
    MaxKills = 0
INVARIANTS
    ServicePortsAsAsked
    SetsAsAsked
    AffinityAsAsked
    CacheInStep
    EndpointsAsAsked
    ServedAsAsked
PROPERTIES
    KeepsContract
    NeverEmptied
