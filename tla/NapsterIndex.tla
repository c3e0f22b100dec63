---------------------------- MODULE NapsterIndex ----------------------------
(***************************************************************************)
(* The central index of server/server.go: which peers are listed, which    *)
(* version of which file each of them hosts, and per file the newest       *)
(* FileInfo, the hosts and the write lease.  The module is pure: an index  *)
(* is a record, and every operation of the server that edits the three     *)
(* maps is an operator from an index to an index.  PrimaryServer.tla turns *)
(* them into handlers.                                                     *)
(*                                                                         *)
(* Instants are kept relative to now, which is all the code compares:      *)
(* a LastSeen is its age, an Expiration is the time left.                  *)
(***************************************************************************)
EXTENDS Integers, FiniteSets

CONSTANTS
    Peers,      \* peer IDs, numbered in the order sort.Strings gives them
    Files,      \* file names
    Versions,   \* FileInfo.Version
    Hashes,     \* FileInfo.Hash (and Size)
    NoHash,     \* the empty hash of a lease placeholder
    PeerTTL,    \* peerTTL
    AgeCap,     \* bound: ages from AgeCap on are not told apart
    LeaseTerm   \* how long a granted lease lasts

ASSUME IndexAssumption ==
    /\ Peers \subseteq Nat \ {0}
    /\ Versions \subseteq Nat /\ 0 \in Versions
    /\ NoHash \in Hashes
    /\ PeerTTL \in Nat
    /\ AgeCap \in Nat /\ PeerTTL < AgeCap
    /\ LeaseTerm \in Nat \ {0}

NotListed == -1     \* no such key in s.peers
NoCopy    == -1     \* no such key in s.peerFiles[id]
NoHolder  == 0
Expired   == -1     \* time left once now is after Expiration
NoLease   == [holder |-> NoHolder, left |-> Expired]

Ages     == 0 .. AgeCap
Infos    == [version : Versions, hash : Hashes]
Leases   == [holder : Peers \cup {NoHolder}, left : Expired .. LeaseTerm]
Entries  == [info : Infos, hosts : SUBSET Peers, lease : Leases]

Catalogues == UNION {[S -> Infos] : S \in SUBSET Files}

IsIndex(ix) ==
    /\ ix = [seen |-> ix.seen, held |-> ix.held, files |-> ix.files]
    /\ ix.seen \in [Peers -> Ages \cup {NotListed}]
    /\ ix.held \in [Peers -> [Files -> Versions \cup {NoCopy}]]
    /\ DOMAIN ix.files \subseteq Files
    /\ ix.files \in [DOMAIN ix.files -> Entries]

EmptyIndex ==
    [ seen  |-> [p \in Peers |-> NotListed],
      held  |-> [p \in Peers |-> [f \in Files |-> NoCopy]],
      files |-> [f \in {} |-> [info  |-> [version |-> 0, hash |-> NoHash],
                               hosts |-> {}, lease |-> NoLease]] ]

Listed(ix)     == {p \in Peers : ix.seen[p] # NotListed}
HostedFiles(ix) == {f \in DOMAIN ix.files : ix.files[f].hosts # {}}

-----------------------------------------------------------------------------
(* Writing to the index.                                                   *)

(* The entry of f, or the fresh one the code makes when there is none.     *)
EntryFor(ix, f, info) ==
    IF f \in DOMAIN ix.files THEN ix.files[f]
    ELSE [info |-> info, hosts |-> {}, lease |-> NoLease]

(* Slips: the recorded info is never replaced; it always is.               *)
ReportKeepsInfo(e, p, info) ==
    [info |-> e.info, hosts |-> e.hosts \cup {p}, lease |-> e.lease]
ReportReplacesInfo(e, p, info) ==
    [info |-> info, hosts |-> e.hosts \cup {p}, lease |-> e.lease]

(* Entry e after peer p reports info: not older replaces, host is added.   *)
Report(e, p, info) ==
    [ info  |-> IF info.version >= e.info.version THEN info ELSE e.info,
      hosts |-> e.hosts \cup {p},
      lease |-> e.lease ]

ApplyRegister(ix, p, cat) ==
    [ seen  |-> [ix.seen EXCEPT ![p] = 0],
      held  |-> [ix.held EXCEPT ![p] =
                   [f \in Files |-> IF f \in DOMAIN cat THEN cat[f].version
                                                        ELSE ix.held[p][f]]],
      files |-> [f \in DOMAIN ix.files \cup DOMAIN cat |->
                   IF f \in DOMAIN cat
                     THEN Report(EntryFor(ix, f, cat[f]), p, cat[f])
                     ELSE ix.files[f]] ]

(* Slip: the server counts the versions of a peer itself.                  *)
ApplyAnnounceCounts(ix, p, f, info, stamp) ==
    [ApplyRegister(ix, p, [g \in {f} |-> info])
        EXCEPT !.seen[p] = stamp, !.held[p][f] = ix.held[p][f] + 1]

(* stamp is the age of the LastSeen the request carries, 0 when it is the  *)
(* zero time and the server fills in now.                                  *)
ApplyAnnounce(ix, p, f, info, stamp) ==
    [ seen  |-> [ix.seen EXCEPT ![p] = stamp],
      held  |-> [ix.held EXCEPT ![p] = [ix.held[p] EXCEPT ![f] = info.version]],
      files |-> [g \in DOMAIN ix.files \cup {f} |->
                   IF g = f THEN Report(EntryFor(ix, f, info), p, info)
                            ELSE ix.files[g]] ]

(* Slip: a report does not renew LastSeen.                                 *)
RefreshKeepsAge(ix, p) == [seen |-> ix.seen, held |-> ix.held, files |-> ix.files]

Refresh(ix, p) ==
    [ seen  |-> IF p \in Listed(ix) THEN [ix.seen EXCEPT ![p] = 0] ELSE ix.seen,
      held  |-> ix.held,
      files |-> ix.files ]

WithLease(e, lease) == [info |-> e.info, hosts |-> e.hosts, lease |-> lease]

GrantLease(ix, p, f) ==
    LET was == EntryFor(ix, f, [version |-> 0, hash |-> NoHash])
    IN  [ seen  |-> ix.seen,
          held  |-> ix.held,
          files |-> [g \in DOMAIN ix.files \cup {f} |->
                       IF g = f
                         THEN WithLease(was, [holder |-> p, left |-> LeaseTerm])
                         ELSE ix.files[g]] ]

-----------------------------------------------------------------------------
(* Removing from the index.                                                *)

(* Entry e with only the hosts of S.                                       *)
KeepHosts(e, S) == [info |-> e.info, hosts |-> S, lease |-> e.lease]

(* Slip: the entry stays when its last host is gone.                       *)
DropHostOnly(ix, p, f) ==
    [ seen  |-> ix.seen,
      held  |-> [ix.held EXCEPT ![p] = [ix.held[p] EXCEPT ![f] = NoCopy]],
      files |-> [g \in DOMAIN ix.files |->
                   IF g = f THEN KeepHosts(ix.files[f], ix.files[f].hosts \ {p})
                            ELSE ix.files[g]] ]

DropHost(ix, p, f) ==
    LET rest == ix.files[f].hosts \ {p}
    IN  [ seen  |-> ix.seen,
          held  |-> [ix.held EXCEPT ![p] = [ix.held[p] EXCEPT ![f] = NoCopy]],
          files |-> [g \in {h \in DOMAIN ix.files : h = f => rest # {}} |->
                       IF g = f THEN KeepHosts(ix.files[f], rest)
                                ELSE ix.files[g]] ]

(* Slips: one unit late; only peers that host something are looked at.     *)
StalePeersLate(ix)  == {p \in Listed(ix) : ix.seen[p] > PeerTTL + 1}
StalePeersHosts(ix) == {p \in Listed(ix) : /\ ix.seen[p] > PeerTTL
                                           /\ \E f \in Files : ix.held[p][f] # NoCopy}

StalePeers(ix) == {p \in Listed(ix) : ix.seen[p] > PeerTTL}

(* The peers of gone that peerFiles says host f.                           *)
Leaving(ix, gone, f) == {p \in gone : ix.held[p][f] # NoCopy}

(* Slip: the host sets of the files are not cleaned.                       *)
PruneMapsOnly(ix, gone) ==
    [ seen  |-> [p \in Peers |-> IF p \in gone THEN NotListed ELSE ix.seen[p]],
      held  |-> [p \in Peers |-> IF p \in gone THEN [f \in Files |-> NoCopy]
                                               ELSE ix.held[p]],
      files |-> ix.files ]

(* An entry that loses its last host is deleted, lease and all; one that   *)
(* had no host to lose stays.                                              *)
Prune(ix, gone) ==
    [ seen  |-> [p \in Peers |-> IF p \in gone THEN NotListed ELSE ix.seen[p]],
      held  |-> [p \in Peers |-> IF p \in gone THEN [f \in Files |-> NoCopy]
                                               ELSE ix.held[p]],
      files |-> [f \in {g \in DOMAIN ix.files :
                          \/ Leaving(ix, gone, g) = {}
                          \/ ix.files[g].hosts \ Leaving(ix, gone, g) # {}} |->
                   KeepHosts(ix.files[f], ix.files[f].hosts \ Leaving(ix, gone, f))] ]

-----------------------------------------------------------------------------
(* Leases and time.                                                        *)

(* now is before the expiration of someone else's lease                    *)
LeaseBlocks(ix, p, f) ==
    /\ f \in DOMAIN ix.files
    /\ ix.files[f].lease.holder # p
    /\ ix.files[f].lease.left > 0

(* Slip: the expiration is not looked at.                                  *)
LeaseCoversForever(ix, p, f) == ix.files[f].lease.holder = p

(* now is not after the expiration of p's own lease                        *)
LeaseCovers(ix, p, f) ==
    /\ ix.files[f].lease.holder = p
    /\ ix.files[f].lease.left >= 0

Older(age)    == IF age = NotListed \/ age = AgeCap THEN age ELSE age + 1
RunDown(left) == IF left = Expired THEN Expired ELSE left - 1

Elapse(ix) ==
    [ seen  |-> [p \in Peers |-> Older(ix.seen[p])],
      held  |-> ix.held,
      files |-> [f \in DOMAIN ix.files |->
                   WithLease(ix.files[f], [holder |-> ix.files[f].lease.holder,
                                           left |-> RunDown(ix.files[f].lease.left)])] ]

-----------------------------------------------------------------------------
(* What must be true of the three maps together.                           *)

(* fe.Peers and peerFiles say the same, and only of listed peers.          *)
MapsAgree(ix) ==
    \A p \in Peers, f \in Files :
        /\ (f \in DOMAIN ix.files /\ p \in ix.files[f].hosts)
              <=> ix.held[p][f] # NoCopy
        /\ ix.held[p][f] # NoCopy => ix.seen[p] # NotListed

(* No host has a version newer than the one the entry advertises.          *)
NoneAhead(ix) ==
    \A f \in DOMAIN ix.files : \A p \in ix.files[f].hosts :
        ix.held[p][f] <= ix.files[f].info.version

(* An entry with no hosts is what a lease request for an unknown file left *)
(* behind: version 0, and a lease that was granted.                        *)
HostlessIsPlaceholder(ix) ==
    \A f \in DOMAIN ix.files : ix.files[f].hosts = {} =>
        /\ ix.files[f].info = [version |-> 0, hash |-> NoHash]
        /\ ix.files[f].lease.holder # NoHolder
=============================================================================
