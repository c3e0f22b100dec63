CONSTANTS
    Peers = {1, 2, 3}
    Files = {f1}
    Versions = {0, 1}
    NoHash = empty
    Hashes = {empty}
    PeerTTL = 0
    AgeCap = 1
    LeaseTerm = 1
    ReplicationFactor = 1
    Grace = 0
    SweepPeriod = 1
    Stamps = {0}
    RegisterVersions = {0, 1}
SPECIFICATION Spec
INVARIANTS TypeOK IndexConsistent AdvertisesNewest NoAbandonedEntry QueueSound LocksUpOnlyInACrowd
PROPERTIES VersionNeverLowered
