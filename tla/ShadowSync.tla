----------------------------- MODULE ShadowSync -----------------------------
(***************************************************************************)
(* The primary, the shadow, and the operations in flight between them.     *)
(* The primary hands each operation to a goroutine of its own that posts   *)
(* it once: operations can be lost and overtake each other.                *)
(*                                                                         *)
(* An operation is put on its way in the step of its handler.  The code    *)
(* starts the goroutine a little earlier, before it locks s.mu, so two     *)
(* handlers may send in one order and apply in the other: here that is     *)
(* an overtaking.  When a panic has left s.mu locked, handlers still send  *)
(* and then wait for ever: these are the requests of Blocked.              *)
(*                                                                         *)
(* While the primary is down index is what it knew when it died, growing   *)
(* older, and look-ups go to the shadow.                                   *)
(*                                                                         *)
(* ideal and apart are history: ideal says that so far every operation     *)
(* arrived in order and before the clock moved on and that the shadow was  *)
(* never restarted; apart are the peers of which the servers may know      *)
(* different copies: those that went stale, reported again before the      *)
(* primary's sweep and have not listed all their copies since, and those   *)
(* whose request the shadow was told of and a locked-up primary never      *)
(* served.                                                                 *)
(***************************************************************************)
EXTENDS PrimaryServer, SequencesExt

CONSTANT FlightCap      \* bound: operations in flight

VARIABLES mirror, sinceMirrorSweep, flight, down, ideal, apart

(* The clients' announces have no LastSeen: the server fills it in.        *)
ASSUME SyncAssumption ==
    /\ IsFiniteSet(Peers)
    /\ Stamps = {0}
    /\ FlightCap \in Nat \ {0}

Shadow == INSTANCE ShadowServer

shadowVars == <<mirror, sinceMirrorSweep>>
history == <<ideal, apart>>
allVars == <<vars, shadowVars, flight, down, history>>

SyncTypeOK ==
    /\ TypeOK
    /\ Shadow!ShadowTypeOK
    /\ flight \in Seq(Shadow!SyncOps) /\ Len(flight) <= FlightCap
    /\ down \in BOOLEAN
    /\ ideal \in BOOLEAN
    /\ apart \subseteq Peers

SyncInit ==
    /\ Init
    /\ Shadow!Init
    /\ flight = <<>>
    /\ down = FALSE
    /\ ideal = TRUE
    /\ apart = {}

Send(ops) ==
    /\ Len(flight) + Len(ops) <= FlightCap
    /\ flight' = flight \o ops
    /\ ~down

Reported(p) == apart' = IF p \in StalePeers(index) THEN apart \cup {p} ELSE apart

-----------------------------------------------------------------------------
(* The primary's steps, with what they send.                               *)

SyncedRegister(p, cat) ==
    /\ Register(p, cat)
    /\ Send(<<[kind |-> "register", peer |-> p, list |-> cat]>>)
    /\ IF \A f \in Files : index.held[p][f] # NoCopy => f \in DOMAIN cat
         THEN apart' = apart \ {p}
         ELSE Reported(p)
    /\ UNCHANGED <<shadowVars, down, ideal>>

(* Slip: the shadow is not told.                                           *)
HeartbeatUnsent(p) ==
    /\ Heartbeat(p)
    /\ Reported(p)
    /\ ~down
    /\ UNCHANGED <<shadowVars, flight, down, ideal>>

(* Sent whether or not the primary knows the peer.                         *)
SyncedHeartbeat(p) ==
    /\ Heartbeat(p)
    /\ Send(<<[kind |-> "heartbeat", peer |-> p]>>)
    /\ Reported(p)
    /\ UNCHANGED <<shadowVars, down, ideal>>

SyncedAnnounce(p, f, info) ==
    /\ Announce(p, f, info, 0)
    /\ Send(<<[kind |-> "announce", peer |-> p, file |-> f, info |-> info,
               stamp |-> 0]>>)
    /\ Reported(p)
    /\ UNCHANGED <<shadowVars, down, ideal>>

SyncedDelete(p, f) ==
    /\ Delete(p, f)
    /\ Send(<<[kind |-> "delete", peer |-> p, file |-> f]>>)
    /\ UNCHANGED <<shadowVars, down, history>>

(* Sent before the primary answers 404 or 403.                             *)
RefusedDelete(p, f) ==
    /\ mu = "free"
    /\ f \in DOMAIN index.files => p \notin index.files[f].hosts
    /\ Send(<<[kind |-> "delete", peer |-> p, file |-> f]>>)
    /\ UNCHANGED <<vars, shadowVars, down, history>>

(* What a request does that comes after the mutex leaked: the shadow is    *)
(* told, and the handler waits.  An announce waits before it tells.        *)
Blocked(op) ==
    /\ mu = "leaked"
    /\ Send(<<op>>)
    /\ apart' = IF op.kind = "heartbeat" THEN apart ELSE apart \cup {op.peer}
    /\ UNCHANGED <<vars, shadowVars, down, ideal>>

(* Prunes of different peers commute, so their order does not matter.      *)
SyncedSweep ==
    /\ Sweep
    /\ Send(SetToSeq([kind : {"prune"}, peer : StalePeers(index)]))
    /\ apart' = apart \ StalePeers(index)
    /\ UNCHANGED <<shadowVars, down, ideal>>

(* Nothing is sent about leases.                                           *)
Unsynced(p, f) ==
    /\ RequestLease(p, f)
    /\ ~down
    /\ UNCHANGED <<shadowVars, flight, down, history>>

PrimaryDies ==
    /\ ~down
    /\ down' = TRUE
    /\ UNCHANGED <<vars, shadowVars, flight, history>>

(* Nothing is persisted, and nothing is asked of the shadow.               *)
PrimaryStarts ==
    /\ down
    /\ down' = FALSE
    /\ Restart
    /\ apart' = {}
    /\ UNCHANGED <<shadowVars, flight, ideal>>

-----------------------------------------------------------------------------
(* The network, the clock and the shadow.                                  *)

Deliver(i) ==
    /\ Shadow!Sync(flight[i])
    /\ flight' = RemoveAt(flight, i)
    /\ ideal' = (ideal /\ i = 1)
    /\ UNCHANGED <<vars, down, apart>>

Lose(i) ==
    /\ flight' = RemoveAt(flight, i)
    /\ ideal' = FALSE
    /\ UNCHANGED <<vars, shadowVars, down, apart>>

(* One clock for both servers.                                             *)
TimePasses ==
    /\ \/ ~down /\ Tick
       \/ down /\ index' = Elapse(index) /\ UNCHANGED <<queue, mu, clock>>
    /\ Shadow!TickMirror
    /\ ideal' = (ideal /\ flight = <<>>)
    /\ UNCHANGED <<flight, down, apart>>

ShadowSweep ==
    /\ Shadow!SweepMirror
    /\ UNCHANGED <<vars, flight, down, history>>

ShadowRestart ==
    /\ Shadow!RestartMirror
    /\ ideal' = FALSE
    /\ UNCHANGED <<vars, flight, down, apart>>

SyncNext ==
    \/ \E p \in Peers, cat \in RegisterCatalogues : SyncedRegister(p, cat)
    \/ \E p \in Peers : SyncedHeartbeat(p)
    \/ \E p \in Peers, f \in Files, info \in Infos : SyncedAnnounce(p, f, info)
    \/ \E p \in Peers, f \in Files :
          SyncedDelete(p, f) \/ RefusedDelete(p, f) \/ Unsynced(p, f)
    \/ \E op \in Shadow!SyncOps :
          op.kind \in {"register", "heartbeat", "delete"} /\ Blocked(op)
    \/ SyncedSweep
    \/ PrimaryDies
    \/ PrimaryStarts
    \/ \E i \in 1 .. Len(flight) : Deliver(i) \/ Lose(i)
    \/ TimePasses
    \/ ShadowSweep
    \/ ShadowRestart

SyncSpec == SyncInit /\ [][SyncNext]_allVars

-----------------------------------------------------------------------------
(* Look-ups: the hosts that /peers and /search give for f.                 *)
Hosts(ix, f) == IF f \in DOMAIN ix.files THEN ix.files[f].hosts ELSE {}

(* doRequest asks the shadow when the primary does not answer.  While the  *)
(* mutex is leaked the connection stands and nobody answers.               *)
LookUp(f) == IF down THEN Hosts(mirror, f) ELSE Hosts(index, f)
Answered  == down \/ mu = "free"

(* With ideal delivery the shadow can stand in for the primary: once       *)
(* nothing is in flight it knows every copy the primary knows, or knew     *)
(* when it died, at the same version, of every peer whose last report is   *)
(* no older than the TTL, and a look-up that is answered finds it; except  *)
(* for peers that came back from being stale, which it may have swept by   *)
(* itself, and for peers that a locked-up primary kept waiting.  After the *)
(* TTL a failover ends: no report reaches the shadow past a dead primary   *)
(* (server.go:84-91, 157-230, 358-378; client.go:46-105).                  *)
ShadowCoversPrimary ==
    ideal /\ flight = <<>> =>
        \A p \in Listed(index) \ apart, f \in Files :
            index.seen[p] <= PeerTTL /\ index.held[p][f] # NoCopy =>
                /\ mirror.held[p][f] = index.held[p][f]
                /\ Answered => p \in LookUp(f)

(* server.go:201-202, where the shadow applies a prune: "Deep clean not    *)
(* fully implemented in this snippet for brevity, but removing from        *)
(* s.peers prevents it from showing in search."  A search shows the hosts  *)
(* of the entries (server.go:500-502): with ideal delivery, they are       *)
(* listed.  TLC refutes it.                                                *)
PrunedPeersHidden ==
    ideal /\ flight = <<>> =>
        \A f \in DOMAIN mirror.files : mirror.files[f].hosts \subseteq Listed(mirror)
=============================================================================
