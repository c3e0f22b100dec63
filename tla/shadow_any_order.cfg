CONSTANTS
    Peers = {1, 2}
    Files = {f1, f2}
    Versions = {0, 1}
    NoHash = empty
    Hashes = {empty}
    PeerTTL = 0
    AgeCap = 1
    LeaseTerm = 1
    SweepPeriod = 1
    Stamps = {0, 1}
    RegisterVersions = {0, 1}
SPECIFICATION Spec
INVARIANTS ShadowTypeOK HoldingsShown EntriesHosted
PROPERTIES MirrorNeverLowered
