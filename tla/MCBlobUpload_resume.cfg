CONSTANTS
    Conns = {c1, c2}
    Sweeper = sweeper
    Uploads = {u1, u2}
    Hashes = {h1}
    Length <- MCLength
    Unsanitized = {}
    Sizes = {2}
    Segments <- MCGoodSegments
    AbsoluteMax = 2
    MaxOpen = 2
    Quota = 0
    NoFile = NoFile
    NoHash = NoHash
    NoUpload = NoUpload
SYMMETRY ConnSymmetry
SPECIFICATION Spec
INVARIANT UploadResumable
CHECK_DEADLOCK FALSE
