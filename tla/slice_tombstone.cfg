SPECIFICATION NFSpec
CONSTANTS
    Nil = Nil
    ip1 = ip1
    ip2 = ip2
    ip3 = ip3
    Addr = {"a1", "a2"}
    IP = {ip1, ip2, ip3}
    Port = {80, 443, 8080}
    Timeout = {10}
    Service = {"s1"}
    PortName = {"http"}
    Protocol = {"TCP"}
    IPLists <- MCLists
    UpdatedSets <- MCUpdatedSets
    SvcVersions <- OnePort
    EpVersions <- OneSlice
    EndpointSlice = TRUE
    EpObject = {"sl1"}
    Bootstrap = Nil
    Tombstones = TRUE
    MaxChanges = 4
    MaxKills = 0
INVARIANTS
    EndpointsAsAsked
