CONSTANTS
    Conns = {c1, c2}
    Docs = {d1}
    Changes <- MCChanges
    Author <- MCAuthor
    Deps <- MCDeps
    Payloads <- MCOnePayload
    Corrupt = Corrupt
    NoHash = NoHash
    NoToken = NoToken
    NoDoc = NoDoc
    LegacyRows = {}
    LegacyTombs = {}
    MaxIncarnation = 3
SYMMETRY ConnSymmetry
SPECIFICATION Spec
INVARIANT DocListComplete
