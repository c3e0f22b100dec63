-------------------------- MODULE DocumentedClaims --------------------------
(***************************************************************************)
(* Sentences of README.md and of comments in the source, stated of the     *)
(* primary as the code has it.  TLC refutes each of them.                  *)
(*                                                                         *)
(* granted remembers what the server cannot: for each file, how much time  *)
(* every peer believes it still has on the lease that it was last granted  *)
(* (LeaseResponse.Expiration).  Nothing but the claims reads it.           *)
(***************************************************************************)
EXTENDS PrimaryServer

VARIABLE granted

ClaimInit == Init /\ granted = [f \in Files |-> [p \in Peers |-> Expired]]

Granting(p, f) ==
    /\ RequestLease(p, f)
    /\ granted' = [granted EXCEPT ![f][p] = LeaseTerm]

Passing ==
    /\ Tick
    /\ granted' = [f \in Files |-> [p \in Peers |-> RunDown(granted[f][p])]]

Serving ==
    \/ \E p \in Peers, cat \in RegisterCatalogues : Register(p, cat)
    \/ \E p \in Peers : Heartbeat(p)
    \/ \E p \in Peers, f \in Files, info \in Infos, stamp \in Stamps :
          Announce(p, f, info, stamp)
    \/ \E p \in Peers, f \in Files : Delete(p, f)
    \/ Sweep

(* Restart is left out: the claims fail without a crash.                   *)
ClaimNext ==
    \/ \E p \in Peers, f \in Files : Granting(p, f)
    \/ Passing
    \/ Serving /\ UNCHANGED granted

ClaimSpec == ClaimInit /\ [][ClaimNext]_<<vars, granted>>

-----------------------------------------------------------------------------
(* README.md:216, of /lease: "Rejects with holder info if another peer     *)
(* holds the lease."  No two peers hold an unexpired lease on one file.    *)
AtMostOneGrant ==
    \A f \in Files, p, r \in Peers :
        granted[f][p] > 0 /\ granted[f][r] > 0 => p = r

(* server.go:616-617: "Need to trim queued adds (over-scheduled). Keep     *)
(* earliest deterministic subset."  With more hosts than the factor asks   *)
(* for, that subset is empty: no add stays queued.                         *)
OverScheduledAddsTrimmed ==
    \A f \in HostedFiles(index) :
        Cardinality(index.files[f].hosts) > ReplicationFactor
            => PendingAdds(index, queue, f) = {}
=============================================================================
