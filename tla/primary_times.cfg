CONSTANTS
    Peers = {1}
    Files = {f1}
    Versions = {0}
    NoHash = empty
    Hashes = {empty}
    PeerTTL <- CodePeerTTL
    AgeCap <- CodeAgeCap
    LeaseTerm <- CodeLeaseTerm
    ReplicationFactor = 2
    Grace <- CodeGrace
    SweepPeriod <- CodeSweepPeriod
    Stamps = {0}
    RegisterVersions = {0}
    HeartbeatPeriod <- CodeHeartbeat
SPECIFICATION TimingSpec
INVARIANTS TimingTypeOK ListedPeersFresh
PROPERTIES LivePeersKept StalePeersRemoved
