CONSTANTS
    Peers = {1, 2, 3}
    Files = {f1}
    Versions = {0, 1}
    NoHash = empty
    Hashes = {empty}
    PeerTTL = 1
    AgeCap = 2
    LeaseTerm = 1
    ReplicationFactor = 1
    Grace = 0
    SweepPeriod = 2
    Stamps = {0}
    RegisterVersions = {0}
    FlightCap = 2
SPECIFICATION SyncSpec
INVARIANTS SyncTypeOK ShadowCoversPrimary
CONSTRAINT Followed
