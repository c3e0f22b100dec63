---------------------------- MODULE ShadowServer ----------------------------
(***************************************************************************)
(* The shadow of server/server.go: a server without NAPSTER_SHADOW_ADDR.   *)
(* It refuses every write but /sync, which it applies in whatever order    *)
(* the operations arrive, and it runs the same cleanup loop as the         *)
(* primary.  Here any operation may arrive at any time: one that was lost, *)
(* repeated, overtaken or refused by the primary is among the behaviours.  *)
(* ShadowSync.tla puts the primary and the network in front of it.         *)
(*                                                                         *)
(* Leases and tasks are not synced, so the mirror has none.                *)
(***************************************************************************)
EXTENDS NapsterIndex

CONSTANTS SweepPeriod, Stamps, RegisterVersions     \* as in PrimaryServer

ASSUME ShadowAssumption ==
    /\ SweepPeriod \in Nat \ {0}
    /\ Stamps \subseteq Ages
    /\ RegisterVersions \subseteq Versions

VARIABLES
    mirror,             \* the shadow's peers, peerFiles and files
    sinceMirrorSweep    \* time since its cleanup ticker last fired

svars == <<mirror, sinceMirrorSweep>>

ShadowTypeOK ==
    /\ IsIndex(mirror)
    /\ sinceMirrorSweep \in 0 .. SweepPeriod

Init == mirror = EmptyIndex /\ sinceMirrorSweep = 0

Lists == {cat \in Catalogues : \A f \in DOMAIN cat : cat[f].version \in RegisterVersions}

SyncOps ==
    [kind : {"register"}, peer : Peers, list : Lists]
      \cup [kind : {"announce"}, peer : Peers, file : Files, info : Infos, stamp : Stamps]
      \cup [kind : {"prune", "heartbeat"}, peer : Peers]
      \cup [kind : {"delete"}, peer : Peers, file : Files]

-----------------------------------------------------------------------------
(* The peer leaves the maps of peers, and stays a host of its files.       *)
ForgetPeer(ix, p) ==
    [ seen  |-> [ix.seen EXCEPT ![p] = NotListed],
      held  |-> [ix.held EXCEPT ![p] = [f \in Files |-> NoCopy]],
      files |-> ix.files ]

(* Slip: what peerFiles says of the peer stays.                            *)
ForgetHostOnly(ix, p, f) ==
    IF f \in DOMAIN ix.files
      THEN [DropHost(ix, p, f) EXCEPT !.held = ix.held]
      ELSE ix

(* As the primary's delete, without its checks.                            *)
ForgetHost(ix, p, f) ==
    IF f \in DOMAIN ix.files
      THEN DropHost(ix, p, f)
      ELSE [ seen  |-> ix.seen,
             held  |-> [ix.held EXCEPT ![p] = [ix.held[p] EXCEPT ![f] = NoCopy]],
             files |-> ix.files ]

(* handleSync                                                              *)
Sync(op) ==
    /\ \/ /\ op.kind = "register"
          /\ mirror' = ApplyRegister(mirror, op.peer, op.list)
       \/ /\ op.kind = "announce"
          /\ mirror' = ApplyAnnounce(mirror, op.peer, op.file, op.info, op.stamp)
       \/ /\ op.kind = "prune"
          /\ mirror' = ForgetPeer(mirror, op.peer)
       \/ /\ op.kind = "heartbeat"
          /\ mirror' = Refresh(mirror, op.peer)
       \/ /\ op.kind = "delete"
          /\ mirror' = ForgetHost(mirror, op.peer, op.file)
    /\ UNCHANGED sinceMirrorSweep

(* pruneStale on the shadow, whose own sync does nothing.                  *)
SweepMirror ==
    /\ sinceMirrorSweep = SweepPeriod
    /\ mirror' = Prune(mirror, StalePeers(mirror))
    /\ sinceMirrorSweep' = 0

TickMirror ==
    /\ sinceMirrorSweep < SweepPeriod
    /\ mirror' = Elapse(mirror)
    /\ sinceMirrorSweep' = sinceMirrorSweep + 1

RestartMirror == mirror' = EmptyIndex /\ sinceMirrorSweep' = 0

Next ==
    \/ \E op \in SyncOps : Sync(op)
    \/ SweepMirror
    \/ TickMirror
    \/ RestartMirror

Spec == Init /\ [][Next]_svars

-----------------------------------------------------------------------------
(* What peerFiles says is listed and shown, at no older a version.         *)
Shown(ix) ==
    \A p \in Peers, f \in Files : ix.held[p][f] # NoCopy =>
        /\ ix.seen[p] # NotListed
        /\ f \in DOMAIN ix.files
        /\ p \in ix.files[f].hosts
        /\ ix.held[p][f] <= ix.files[f].info.version

Hosted(ix) == \A f \in DOMAIN ix.files : ix.files[f].hosts # {}

(* What the shadow knows of a peer's copies its search shows, and at a     *)
(* version no older, whatever order, loss or repetition of operations came *)
(* before.  The converse fails: prune leaves hosts behind                  *)
(* (server.go:194-203).                                                    *)
HoldingsShown == Shown(mirror)

(* The shadow never shows a file without hosts: a delete or a sweep that   *)
(* takes the last one takes the entry, and no lease makes a placeholder    *)
(* (server.go:100-103, 217-223).                                           *)
EntriesHosted == Hosted(mirror)

(* An operation that arrives late never takes a version back, as long as   *)
(* the shadow has the file (server.go:249, 274).                           *)
MirrorNeverLowered ==
    [][\A f \in DOMAIN mirror.files \cap DOMAIN mirror'.files :
          mirror'.files[f].info.version >= mirror.files[f].info.version]_svars
=============================================================================
