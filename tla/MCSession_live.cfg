CONSTANTS
    Conns = {c1, c2}
    Vaults = {"v1", "v2"}
    VaultOf <- MCVaultOf
    BlobClients = {c2}
    c1 = c1
    c2 = c2
    Sends <- MCSends
    Draining = {c2}
    Docs = {d1}
    NoDoc = NoDoc
    NoConn = NoConn
    Capacity = 1
    QueueCap = 1
    MaxLog = 1
SPECIFICATION Spec
PROPERTY RequestServed
PROPERTY ChangeReaches
CHECK_DEADLOCK FALSE
