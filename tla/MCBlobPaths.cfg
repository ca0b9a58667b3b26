CONSTANTS
    Conns = {c1, c2}
    Readers = {r1}
    p1 = p1
    p2 = p2
    Paths = {p1, p2}
    SvgPaths = {p1}
    Bodies <- MCBodies
    Hashes = {1, 2, 3}
    Unsanitized = {3}
    Limit = 1
    MaxSeq = 3
    NoPath = NoPath
SYMMETRY ConnSymmetry
SPECIFICATION Spec
INVARIANT TypeOK
INVARIANT WalkComplete
INVARIANT NamesStoredBlob
INVARIANT EventAfterCommit
PROPERTY LastWriterWins
CHECK_DEADLOCK TRUE
