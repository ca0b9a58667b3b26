CONSTANTS
    Requests = {r1, r2}
    ApiKeys = {k1, k2}
    Invites = {i1, i2}
    Peers = {p1, p2}
    Names = {n1, n2}
    None = None
SPECIFICATION Spec
SYMMETRY Symmetry
INVARIANT TypeOK
INVARIANT OneVaultKey
INVARIANT InviteOnce
INVARIANT DeviceTokenSound
PROPERTY VaultKeyKept
PROPERTY RetiredStaysOut
