---------------------------- MODULE MCShadowSync ----------------------------
(***************************************************************************)
(* The primary and the shadow, for TLC: the behaviours that a run with     *)
(* three peers, the fewest that can lock the primary up, goes through.     *)
(* TLC looks no further where Followed does not hold.                      *)
(***************************************************************************)
EXTENDS ShadowSync

(* One peer at all times: what the servers know of its copies depends on   *)
(* no other peer, as long as the primary serves.                           *)
OnePeer ==
    /\ Listed(index) \cup Listed(mirror) \subseteq {1}
    /\ \A i \in DOMAIN flight : flight[i].peer = 1

(* Three peers before time passes: the way to a panic, and what is sent    *)
(* after it, by at most one peer that registers or deletes.                *)
OneInstant ==
    /\ sinceSweep = 0 /\ sinceMirrorSweep = 0
    /\ \A p \in Peers : index.seen[p] <= 0 /\ mirror.seen[p] <= 0
    /\ Len(flight) <= 1 /\ Cardinality(apart) <= 1
    /\ down => mu = "leaked"

(* Three peers and a primary that is locked up, or was killed when it was: *)
(* time, and heartbeats.                                                   *)
LockedUp ==
    /\ mu = "leaked"
    /\ apart = {}
    /\ Len(flight) <= 1

(* After delivery that was not ideal the property says nothing any more;   *)
(* and nothing of what it says depends on leases.                          *)
Followed ==
    /\ ideal
    /\ \A f \in DOMAIN index.files : index.files[f].lease = NoLease
    /\ OnePeer \/ OneInstant \/ LockedUp
=============================================================================
