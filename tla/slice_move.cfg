SPECIFICATION NFSpec
CONSTANTS
    Nil = Nil
    ip1 = ip1
    ip2 = ip2
    ip3 = ip3
    Addr = {"a1", "a2"}
    IP = {ip1, ip2, ip3}
    Port = {80, 443, 8080}
    Timeout = {10}
    Service = {"s1"}
    PortName = {"http"}
    Protocol = {"TCP"}
    IPLists <- MCLists
    UpdatedSets <- MCUpdatedSets
    SvcVersions <- OnePort
    EpVersions <- MovingSlices
    EndpointSlice = TRUE
    EpObject = {"sl1", "sl2"}
    Bootstrap = Nil
    Tombstones = FALSE
    MaxChanges = 5
    MaxKills = 0
INVARIANTS
    ServedAsAsked
