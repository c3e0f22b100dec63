------------------------- MODULE ReplicationPlanner -------------------------
(***************************************************************************)
(* planReplicationLocked of server/server.go as a relation between the     *)
(* index and the task queue before and the queue after.  s.queue is one    *)
(* flat set of tasks, each naming the peer it waits for: a peer always     *)
(* takes its whole queue at once, so the order inside it is not kept.      *)
(*                                                                         *)
(* The loop over s.files treats files independently, in map order, until   *)
(* the slice expression that trims over-scheduled adds is out of range; so *)
(* a pass either plans every hosted file, or panics having planned some of *)
(* the others.                                                             *)
(***************************************************************************)
EXTENDS NapsterIndex

CONSTANT ReplicationFactor

ASSUME FactorAssumption == ReplicationFactor \in Nat \ {0}

Tasks == [to : Peers, file : Files, info : Infos, src : Peers]

TasksFor(q, f) == {t \in q : t.file = f}
Targets(q, f)  == {t.to : t \in TasksFor(q, f)}

(* The k smallest members of S, in the order of the sorted ID lists.       *)
First(k, S) == {p \in S : Cardinality({r \in S : r < p}) < k}

(* Queued for a peer that is not a host: the task will add a copy.         *)
PendingAdds(ix, q, f) == Targets(q, f) \ ix.files[f].hosts

(* Slip: the first host is as good as any.                                 *)
SourcesFirst(ix, f) ==
    {p \in ix.files[f].hosts : \A r \in ix.files[f].hosts : p <= r}

(* Where a puller may be sent: any host of the latest version, or the      *)
(* first host when no host has it.                                         *)
Sources(ix, f) ==
    LET hosts  == ix.files[f].hosts
        latest == {p \in hosts : ix.held[p][f] = ix.files[f].info.version}
    IN  IF latest # {} THEN latest
                       ELSE {p \in hosts : \A r \in hosts : p <= r}

(* Slip: queued adds are not counted.                                      *)
AllowanceByHosts(ix, q, f) == ReplicationFactor - Cardinality(ix.files[f].hosts)

(* replicationFactor - effectiveOwners                                     *)
Allowance(ix, q, f) ==
    ReplicationFactor - Cardinality(ix.files[f].hosts)
                      - Cardinality(PendingAdds(ix, q, f))

(* queued[:len(queued)-over] has a negative bound. *)
TrimFails(ix, q, f) ==
    /\ PendingAdds(ix, q, f) # {}
    /\ Cardinality(ix.files[f].hosts) > ReplicationFactor

(* The queued adds that survive trimming.                                  *)
KeptAdds(ix, q, f) ==
    LET pending   == PendingAdds(ix, q, f)
        allowance == Allowance(ix, q, f)
    IN  IF allowance < 0 THEN First(Cardinality(pending) + allowance, pending)
                         ELSE pending

(* New adds go to the first non-hosts; one that has a task already uses up *)
(* its slot all the same, because duplicates are skipped after the cut.    *)
AddTargets(ix, q, f) ==
    LET allowance == Allowance(ix, q, f)
        others    == Listed(ix) \ ix.files[f].hosts
    IN  First(allowance, others)

(* Slip: a host at version 0 is taken for one without a version.           *)
UpdateTargetsVersioned(ix, f) ==
    {p \in ix.files[f].hosts : ix.held[p][f] # 0 /\ ix.held[p][f] < ix.files[f].info.version}

UpdateTargets(ix, f) ==
    {p \in ix.files[f].hosts : ix.held[p][f] < ix.files[f].info.version}

Trimmed(ix, q, f) ==
    LET staying == ix.files[f].hosts \cup KeptAdds(ix, q, f)
    IN  {t \in TasksFor(q, f) : t.to \in staying}

PlanFile(ix, q, f, src) ==
    LET kept == Trimmed(ix, q, f)
        to   == (AddTargets(ix, q, f) \cup UpdateTargets(ix, f)) \ Targets(kept, f)
    IN  kept \cup {[to |-> p, file |-> f, info |-> ix.files[f].info, src |-> src] :
                   p \in to}

(* The queue after the files of done were planned, src[f] their sources.   *)
PlanFiles(ix, q, done, src) ==
    {t \in q : t.file \notin done} \cup UNION {PlanFile(ix, q, f, src[f]) : f \in done}

SourceChoices(ix) ==
    {src \in [HostedFiles(ix) -> Peers] :
        \A f \in HostedFiles(ix) : src[f] \in Sources(ix, f)}

Failing(ix, q) == {f \in HostedFiles(ix) : TrimFails(ix, q, f)}

(* The files a pass may have planned when it ends.                         *)
PlannedSets(ix, q) ==
    IF Failing(ix, q) = {} THEN {HostedFiles(ix)}
                           ELSE SUBSET (HostedFiles(ix) \ Failing(ix, q))

(* The possible results of a pass; started says the grace period is over.  *)
PlanOutcomes(ix, q, started) ==
    IF started
      THEN LET panics == Failing(ix, q) # {}
           IN  {[queue |-> PlanFiles(ix, q, done, src), panic |-> panics] :
                done \in PlannedSets(ix, q), src \in SourceChoices(ix)}
      ELSE {[queue |-> q, panic |-> FALSE]}

-----------------------------------------------------------------------------
(* A task waits for a listed peer, and a peer never has two for one file.  *)
TasksWellPlaced(ix, q) ==
    /\ \A t \in q : t.to \in Listed(ix)
    /\ \A t, u \in q : t.to = u.to /\ t.file = u.file => t = u

(* Hosts and queued adds together stay within the replication factor.      *)
WithinFactor(ix, q) ==
    \A f \in DOMAIN ix.files :
        PendingAdds(ix, q, f) # {} =>
            Cardinality(ix.files[f].hosts) + Cardinality(PendingAdds(ix, q, f))
                <= ReplicationFactor

(* A host of f other than p has an older version and no task, or there are *)
(* too few hosts and no add is queued for anybody.                         *)
LeftShort(ix, q, f, p) ==
    LET hosts == ix.files[f].hosts
    IN  \/ \E r \in hosts \ {p} :
              ix.held[r][f] < ix.files[f].info.version /\ r \notin Targets(q, f)
        \/ /\ Cardinality(hosts) < ReplicationFactor
           /\ Listed(ix) \ hosts # {} /\ Targets(q, f) \ hosts = {}
=============================================================================
