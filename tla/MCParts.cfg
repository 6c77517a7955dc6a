SPECIFICATION PartsSpec
CONSTANTS
    Bytes <- MCBytes
    HeldMax = 2
    QSize = 4
    Modulus = 5
    HoldMs = 1
    MaxLag = 2
    MaxTyped = 4
    Segments <- MCSegments
    MaxSegs = 2
    MaxRev = 3
    Families = {"rom", "nano"}
    Texts <- MCTexts
    LINE_CHARS = 2
    LINES_PER_CHUNK = 2
    CHUNKS_PER_CARD = 2
    MaxChunks = 4
    MaxSwept = 2
    NoCard = NoCard
    TornManifest = TornManifest
    MaxPacks = 3
INVARIANTS
    LoopAgrees
    CanonicalAntisymmetric
    SameShapeTransitive
    BumpBeatsPublished
    VerifyPasses
    NeverMixed
    PressesAlternate
    NeverFull
    DownIsHeld
PROPERTY AllReleased
CHECK_DEADLOCK FALSE
