----------------------------- MODULE MCNetwork ------------------------------
(***************************************************************************)
(* The primary and its peers, for TLC: how often the users give each       *)
(* command.                                                                *)
(***************************************************************************)
EXTENDS PeerNetwork

(* Two updates, so that two peers can want the lease at the same time.     *)
FewCommands ==
    [op \in {"get", "update", "delete"} |-> IF op = "update" THEN 2 ELSE 1]
=============================================================================
