SPECIFICATION Spec
CONSTANTS
    jq = jq
    None = None
    Names <- OneName
    Versions <- TwoVersions
    ScanOrder <- TwoScan
    Payloads = {p1, p2}
    MaxBuilds = 2
    MaxOther = 1
INVARIANTS
    TypeOK
    ServedSound
    ServedHighest
    SoundInv
    HighestInv
    ScanIsReindex
PROPERTIES
    BlobsImmutable
    ServedMonotone
CHECK_DEADLOCK FALSE
