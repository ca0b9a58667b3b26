CONSTANTS
    Vaults = {"v1", "v2"}
    Docs = {"x1"}
    DocVault <- MCDocVault
    Peers = {"p1", "p2", "p3"}
    PeerVault <- MCPeerVault
    TombstoneDays = 1
    PeerDays = 2
    MaxTime = 5
SPECIFICATION Spec
INVARIANT TypeOK
INVARIANT TombstoneKept
PROPERTY TombstoneGoes
