SPECIFICATION FairSpec
CONSTANTS
    nano = nano
    sl = sl
    nanobin = nanobin
    nanorc = nanorc
    slbin = slbin
    xterm = xterm
    v1 = v1
    v2 = v2
    None = None
    Torn = Torn
    Names = {nano, sl}
    Vers = {v1, v2}
    Paths = {nanobin, nanorc, slbin, xterm}
    Contents <- OwnFiles
    Common = {xterm}
    EndsIn <- NoPairs
    Budgets <- BothSessions
    MaxArgs = 2
INVARIANTS TypeOK RegisteredOnce InstalledComplete UpgradeKeeps UpgradeConverges SyncRestores WorldIsAsked
PROPERTY WorldComesBack
CHECK_DEADLOCK FALSE
