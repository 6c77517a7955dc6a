SPECIFICATION Spec
CONSTANTS
    jq = jq
    zsh = zsh
    None = None
    Names <- BothNames
    Ports <- BothPorts
    Seed <- BothSeed
    Releases <- BothReleases
    Broken <- JqBroken
    Versions <- BothVersions
    ScanOrder <- BothScan
    Payloads = {p1, p2}
    MaxFaults = 2
    MaxOther = 2
    MaxForce = 1
INVARIANT ServedCoherent
