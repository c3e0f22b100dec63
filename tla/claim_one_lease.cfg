CONSTANTS
    Peers = {1, 2, 3}
    Files = {f1}
    Versions = {0, 1}
    NoHash = empty
    Hashes = {empty}
    PeerTTL = 0
    AgeCap = 1
    LeaseTerm = 2
    ReplicationFactor = 2
    Grace = 0
    SweepPeriod = 1
    Stamps = {0}
    RegisterVersions = {0}
SPECIFICATION ClaimSpec
INVARIANT AtMostOneGrant
