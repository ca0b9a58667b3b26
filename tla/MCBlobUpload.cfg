CONSTANTS
    Conns = {c1, c2}
    Sweeper = sweeper
    Uploads = {u1, u2}
    Hashes = {h1}
    Length <- MCLength
    Unsanitized = {}
    Sizes = {2}
    Segments <- MCSegments
    AbsoluteMax = 2
    MaxOpen = 2
    Quota = 4
    NoFile = NoFile
    NoHash = NoHash
    NoUpload = NoUpload
SYMMETRY BothSymmetry
SPECIFICATION Spec
INVARIANT TypeOK
INVARIANT BlobSound
INVARIANT ResumeSafe
PROPERTY ReceivedStays
CHECK_DEADLOCK FALSE
