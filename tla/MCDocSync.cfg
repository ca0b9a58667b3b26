CONSTANTS
    Conns = {c1, c2}
    Docs = {d1}
    Changes <- MCChanges
    Author <- MCAuthor
    Deps <- MCDeps
    Payloads <- MCPayloads
    Corrupt = Corrupt
    NoHash = NoHash
    NoToken = NoToken
    NoDoc = NoDoc
    LegacyRows <- MCLegacyRows
    LegacyTombs <- MCLegacyTombs
    MaxIncarnation = 3
SYMMETRY ConnSymmetry
SPECIFICATION Spec
INVARIANT TypeOK
PROPERTY NoResurrection
PROPERTY RowsExclusive
PROPERTY DeleteMatchesIntent
PROPERTY HistoryOnlyGrows
PROPERTY ImplementsLifecycle
