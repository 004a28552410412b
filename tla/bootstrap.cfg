SPECIFICATION NFSpec
CONSTANTS
    Nil = Nil
    ip1 = ip1
    ip2 = ip2
    ip3 = ip3
    Addr = {"a1", "a2", "a3"}
    IP = {ip1, ip2, ip3}
    Port = {80, 443, 8080}
    Timeout = {10}
    Service = {"s1"}
    PortName = {"http"}
    Protocol = {"TCP"}
    IPLists <- MCLists
    UpdatedSets <- MCUpdatedSets
    SvcVersions <- APIServerVersions
    EpVersions <- APIServerEndpoints
    EndpointSlice = FALSE
    EpObject = {"s1"}
    Bootstrap <- MCBootstrap
    Tombstones = FALSE
    MaxChanges = 5
    MaxKills = 1
INVARIANTS
    APIServerReachable
