--------------------------- MODULE NetworkClaims ----------------------------
(***************************************************************************)
(* Sentences of README.md, stated of the primary and its peers as the code *)
(* has them.  TLC refutes each of them, without any fault.                 *)
(***************************************************************************)
EXTENDS PeerNetwork

NoCommands  == [op \in {"get", "update", "delete"} |-> 0]
UpdatesOnly == [op \in {"get", "update", "delete"} |-> IF op = "update" THEN 2 ELSE 0]

(* README.md:42, of the replication factor: "The server ensures this many  *)
(* copies of each file exist across the network."  A file that somebody    *)
(* hosts gets its copies in the end, as far as there are peers.  It does   *)
(* not when all peers register in the grace period: nothing plans for them *)
(* then, and a heartbeat never does (server.go:448-483, 545).              *)
CopiesEnsured ==
    \A f \in Files : f \in HostedFiles(index) ~> Enough(f)

(* README.md:17: "Per-file write locks (leases) enforce sequential         *)
(* consistency. A peer must acquire a 60-second lease before updating a    *)
(* file to prevent write conflicts."  What the holder of a lease publishes *)
(* is what its user saved.  It is not when a replication pull of the       *)
(* version before replaces the file between the edit and its hash          *)
(* (client.go:260-281, 421).                                               *)
LeasedEditPublished ==
    \A p \in Peers :
        command[p].op = "stamped" /\ LeaseCovers(index, p, command[p].file)
            => command[p].info.hash = command[p].text
=============================================================================
