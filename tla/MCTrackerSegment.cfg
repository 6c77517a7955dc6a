SPECIFICATION Spec
CONSTANTS
    jq = jq
    zsh = zsh
    None = None
    Names <- JqName
    Ports <- JqPorts
    Seed <- JqSeed
    Releases <- JqReleases
    Broken = {}
    Versions <- JqVersions
    ScanOrder <- JqScan
    Payloads = {p1, p2}
    MaxFaults = 2
    MaxOther = 2
    MaxForce = 1
INVARIANT BumpIsServed
