----------------------------- MODULE MCPrimary ------------------------------
(***************************************************************************)
(* The primary with the intervals of the source, for TLC.  One Tick stands *)
(* for Unit seconds, which divides all of them, so none is rounded         *)
(* (server.go:62, 65, 76, 320; client.go:138).                             *)
(***************************************************************************)
EXTENDS PeerTiming

Unit == 5

CodeHeartbeat   == 20 \div Unit
CodePeerTTL     == 45 \div Unit
CodeLeaseTerm   == 60 \div Unit
CodeGrace       == 15 \div Unit
CodeSweepPeriod == 10 \div Unit

(* The first age that the freshness bound must exclude is still told apart *)
(* from the ages within it.                                                *)
CodeAgeCap == CodePeerTTL + CodeSweepPeriod + 1

ASSUME BoundsKeepTimingsApart ==
    /\ AgeCap > PeerTTL + SweepPeriod
    /\ \A seconds \in {20, 45, 60, 15, 10} : seconds % Unit = 0
=============================================================================
