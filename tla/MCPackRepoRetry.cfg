SPECIFICATION Spec
CONSTANTS
    jq = jq
    None = None
    Names <- OneName
    Versions <- TwoVersions
    ScanOrder <- TwoScan
    Payloads = {p1, p2}
    MaxBuilds = 2
    MaxOther = 1
INVARIANT PublishedIsServed
CHECK_DEADLOCK FALSE
