--------------------------- MODULE PrimaryServer ----------------------------
(***************************************************************************)
(* The primary of server/server.go: its HTTP handlers, the cleanup loop    *)
(* and its crashes.  The clients are the environment: any well-formed      *)
(* request may arrive at any time, so a request that is late, repeated or  *)
(* sent by a peer the server has forgotten is among the behaviours.        *)
(*                                                                         *)
(* s.mu makes every handler one step.  The exception is a panic while it   *)
(* is held: handleAnnounce and handleDelete release it by a deferred call, *)
(* so the work done before the panic stays; handleRegister does not defer, *)
(* so the mutex stays locked and mu is "leaked".                           *)
(***************************************************************************)
EXTENDS ReplicationPlanner

CONSTANTS
    Grace,              \* initGracePeriod
    SweepPeriod,        \* period of the cleanup ticker
    Stamps,             \* ages of the LastSeen an announce may carry
    RegisterVersions    \* versions a /register may list: {0} for Go clients

ASSUME ServerAssumption ==
    /\ Grace \in Nat
    /\ SweepPeriod \in Nat \ {0}
    /\ Stamps \subseteq Ages
    /\ RegisterVersions \subseteq Versions

VARIABLES
    index,       \* s.peers, s.peerFiles and s.files
    queue,       \* s.queue
    mu,          \* s.mu as it is between steps: "free" or "leaked"
    uptime,      \* time since s.startTime, up to Grace
    sinceSweep   \* time since the ticker last fired

vars  == <<index, queue, mu, uptime, sinceSweep>>
clock == <<uptime, sinceSweep>>

TypeOK ==
    /\ IsIndex(index)
    /\ queue \subseteq Tasks
    /\ mu \in {"free", "leaked"}
    /\ uptime \in 0 .. Grace
    /\ sinceSweep \in 0 .. SweepPeriod

Init ==
    /\ index = EmptyIndex
    /\ queue = {}
    /\ mu = "free"
    /\ uptime = 0
    /\ sinceSweep = 0

Plans(ix) == PlanOutcomes(ix, queue, uptime = Grace)

-----------------------------------------------------------------------------
(* Handlers.  A request the code answers with an error changes nothing.    *)

(* The peer is handed its whole queue; a panic leaves the mutex locked.    *)
Register(p, cat) ==
    /\ mu = "free"
    /\ index' = ApplyRegister(index, p, cat)
    /\ \E plan \in Plans(index') :
          \/ /\ ~plan.panic
             /\ queue' = {t \in plan.queue : t.to # p}
             /\ mu' = mu
          \/ /\ plan.panic
             /\ queue' = plan.queue
             /\ mu' = "leaked"
    /\ UNCHANGED clock

Heartbeat(p) ==
    /\ mu = "free"
    /\ index' = Refresh(index, p)
    /\ queue' = {t \in queue : t.to # p}
    /\ UNCHANGED <<mu, clock>>

(* A version above the listed one needs the lease; anything else does not. *)
AnnounceAllowed(p, f, info) ==
    (f \in DOMAIN index.files /\ info.version > index.files[f].info.version)
        => LeaseCovers(index, p, f)

Announce(p, f, info, stamp) ==
    /\ mu = "free"
    /\ AnnounceAllowed(p, f, info)
    /\ index' = ApplyAnnounce(index, p, f, info, stamp)
    /\ \E plan \in Plans(index') : queue' = plan.queue
    /\ UNCHANGED <<mu, clock>>

RequestLease(p, f) ==
    /\ mu = "free"
    /\ ~LeaseBlocks(index, p, f)
    /\ index' = GrantLease(index, p, f)
    /\ UNCHANGED <<queue, mu, clock>>

(* The deleter's own tasks for f are dropped last, unless planning panics. *)
Delete(p, f) ==
    /\ mu = "free"
    /\ f \in DOMAIN index.files /\ p \in index.files[f].hosts
    /\ index' = DropHost(index, p, f)
    /\ \E plan \in Plans(index') :
          \/ /\ ~plan.panic
             /\ queue' = {t \in plan.queue : ~(t.to = p /\ t.file = f)}
          \/ /\ plan.panic
             /\ queue' = plan.queue
    /\ UNCHANGED <<mu, clock>>

-----------------------------------------------------------------------------
(* The cleanup loop, time and crashes.                                     *)

(* Slip: the queue of a pruned peer is kept.                               *)
SweepKeepsQueue ==
    /\ mu = "free"
    /\ sinceSweep = SweepPeriod
    /\ index' = Prune(index, StalePeers(index))
    /\ sinceSweep' = 0
    /\ UNCHANGED <<queue, mu, uptime>>

(* pruneStale, each time the ticker fires.                                 *)
Sweep ==
    /\ mu = "free"
    /\ sinceSweep = SweepPeriod
    /\ index' = Prune(index, StalePeers(index))
    /\ queue' = {t \in queue : t.to \notin StalePeers(index)}
    /\ sinceSweep' = 0
    /\ UNCHANGED <<mu, uptime>>

(* One unit of time.  The sweep is not late unless it waits for s.mu.      *)
Tick ==
    /\ sinceSweep < SweepPeriod \/ mu = "leaked"
    /\ index' = Elapse(index)
    /\ uptime' = IF uptime < Grace THEN uptime + 1 ELSE uptime
    /\ sinceSweep' = IF sinceSweep < SweepPeriod THEN sinceSweep + 1
                                                 ELSE sinceSweep
    /\ UNCHANGED <<queue, mu>>

(* The process is killed and started again: nothing is persisted.          *)
Restart ==
    /\ index' = EmptyIndex
    /\ queue' = {}
    /\ mu' = "free"
    /\ uptime' = 0
    /\ sinceSweep' = 0

RegisterCatalogues == {cat \in Catalogues :
                          \A f \in DOMAIN cat : cat[f].version \in RegisterVersions}

Next ==
    \/ \E p \in Peers, cat \in RegisterCatalogues : Register(p, cat)
    \/ \E p \in Peers : Heartbeat(p)
    \/ \E p \in Peers, f \in Files, info \in Infos, stamp \in Stamps :
          Announce(p, f, info, stamp)
    \/ \E p \in Peers, f \in Files : RequestLease(p, f)
    \/ \E p \in Peers, f \in Files : Delete(p, f)
    \/ Sweep
    \/ Tick
    \/ Restart

Spec == Init /\ [][Next]_vars

(* Time passes and the ticker fires; clients and crashes owe nothing.      *)
FairSpec == Spec /\ WF_vars(Tick) /\ WF_vars(Sweep)

-----------------------------------------------------------------------------
(* The host sets kept per file and the file sets kept per peer agree,      *)
(* and name only listed peers, whatever mix of registrations, announces,   *)
(* deletes, sweeps and failed handlers came before (server.go:36-44).      *)
IndexConsistent == MapsAgree(index)

(* The version /search advertises is never older than a host's copy, so    *)
(* no host is ever ahead of the authoritative version (server.go:249-253). *)
AdvertisesNewest == NoneAhead(index)

(* An entry without hosts is only ever a leased placeholder: no removal    *)
(* leaves a file listed that nobody hosts (server.go:97-104, 318-327).     *)
NoAbandonedEntry == HostlessIsPlaceholder(index)

(* Tasks wait only for peers that are still listed, at most one per peer   *)
(* and file, even after handlers that panicked (server.go:108, 649-658).   *)
QueueSound == TasksWellPlaced(index, queue)

(* The planner never has more hosts and queued adds than the replication   *)
(* factor while an add is queued (server.go:610-644).                      *)
QueueWithinFactor == WithinFactor(index, queue)

(* The server locks up for good only if it lists a peer for each copy the  *)
(* factor asks for and two more: a /register panics when a file has more   *)
(* hosts than the factor and an add is still queued for another peer, and  *)
(* that peer is listed too, because a prune takes the queue of the peers   *)
(* it removes (server.go:108, 361-378, 616-620).                           *)
LocksUpOnlyInACrowd ==
    mu = "leaked" => Cardinality(Listed(index)) >= ReplicationFactor + 2

(* A peer that stopped reporting is listed for at most the TTL and the     *)
(* time since the last sweep (server.go:75-90).                            *)
ListedPeersFresh ==
    mu = "free" =>
        \A p \in Listed(index) : index.seen[p] <= PeerTTL + sinceSweep

(* While a file stays listed its version never goes back, not even when a  *)
(* client registers with older ones (server.go:249, 434).                  *)
VersionNeverLowered ==
    [][\A f \in DOMAIN index.files \cap DOMAIN index'.files :
          index'.files[f].info.version >= index.files[f].info.version]_vars

Reports(p) ==
    \/ \E cat \in RegisterCatalogues : Register(p, cat)
    \/ \E f \in Files, info \in Infos, stamp \in Stamps : Announce(p, f, info, stamp)
    \/ \E f \in Files : Delete(p, f)

(* A report that is planned to the end leaves none of the files that its   *)
(* sender hosts short of tasks, though duplicates use up the allowance and *)
(* the reply, or the deleter's filter, take tasks away                     *)
(* (server.go:610-664, 373-378, 729-738).                                  *)
PassLeavesNoneShort ==
    [][\A f \in HostedFiles(index') : \A p \in index'.files[f].hosts :
          LeftShort(index', queue', f, p) =>
              ~(uptime = Grace /\ Failing(index', queue) = {} /\ Reports(p))]_vars

(* A peer that is stale does not stay so: it reports again or is removed,  *)
(* unless a leaked mutex has stopped the sweeps (server.go:75-110).        *)
StalePeersRemoved ==
    \A p \in Peers :
        index.seen[p] > PeerTTL ~> (index.seen[p] <= PeerTTL \/ mu = "leaked")

-----------------------------------------------------------------------------
(* The directory a client sees in the primary's state.  A lease is a firm  *)
(* lock until its expiration and a loose one at that very instant, when    *)
(* /announce still honours it and /lease no longer does.                   *)
DirectoryVersion ==
    [f \in Files |-> IF f \in DOMAIN index.files
                       THEN index.files[f].info.version ELSE -1]

DirectoryLock ==
    [f \in Files |->
        IF f \in DOMAIN index.files /\ index.files[f].lease.left >= 0
          THEN [holder |-> index.files[f].lease.holder,
                firm   |-> index.files[f].lease.left > 0]
          ELSE [holder |-> NoHolder, firm |-> FALSE]]

Directory == INSTANCE LeasedDirectory
                WITH version <- DirectoryVersion, lock <- DirectoryLock

(* With clients that register at version 0, as the Go client does, the     *)
(* version of a listed file is raised only by the peer whose lease has not *)
(* run out, and a lease in force passes to nobody else as long as the file *)
(* stays listed (server.go:302-332, 407-414).                              *)
ImplementsDirectory == Directory!Spec
=============================================================================
