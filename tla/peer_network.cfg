CONSTANTS
    Peers = {1, 2}
    Files = {f1}
    Versions = {0, 1, 2}
    NoHash = 0
    Hashes = {0, 1, 2, 3}
    PeerTTL = 2
    AgeCap = 3
    LeaseTerm = 3
    ReplicationFactor = 2
    Grace = 1
    SweepPeriod = 1
    Stamps = {0}
    RegisterVersions = {0}
    Seeds = {1}
    Limit <- FewCommands
    Faults = {"peer", "primary", "heartbeat", "register", "write", "pull"}
    MaxTrouble = 2
SPECIFICATION FairNetSpec
INVARIANTS NetTypeOK ListingTrue UpdatePublishesEdit
PROPERTIES CopiesMade UpdateSpreads ImplementsDirectory
