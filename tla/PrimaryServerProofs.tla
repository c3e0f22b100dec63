------------------------ MODULE PrimaryServerProofs -------------------------
(***************************************************************************)
(* Safety of the primary for every fleet, every set of files and every     *)
(* interval: the index stays sound, tasks stay well placed, and versions   *)
(* do not go back, through every mix of requests, panics and restarts;     *)
(* only a crowd of listed peers can lock the server up; and in a small     *)
(* fleet the replication budget is kept.                                   *)
(***************************************************************************)
EXTENDS PrimaryServer, NapsterIndexProofs, FiniteSetTheorems

-----------------------------------------------------------------------------
(* Planning.                                                               *)

(* The tasks of one file after planning it: all for that file, all for     *)
(* listed peers, and no two for the same peer.                             *)
LEMMA PlanFileFacts ==
    ASSUME NEW ix, SoundIndex(ix), NEW q \in SUBSET Tasks,
           TasksWellPlaced(ix, q), NEW f \in DOMAIN ix.files, NEW src \in Peers
    PROVE  /\ PlanFile(ix, q, f, src) \subseteq Tasks
           /\ \A t \in PlanFile(ix, q, f, src) : t.file = f /\ t.to \in Listed(ix)
           /\ \A t, u \in PlanFile(ix, q, f, src) : t.to = u.to => t = u
<1> DEFINE kept == Trimmed(ix, q, f)
           to   == (AddTargets(ix, q, f) \cup UpdateTargets(ix, f))
                     \ Targets(kept, f)
           task(p) == [to |-> p, file |-> f, info |-> ix.files[f].info,
                       src |-> src]
           new  == {task(p) : p \in to}
<1>1. f \in Files /\ ix.files[f].info \in Infos
  BY DEF SoundIndex, IsIndex, Entries
<1>2. kept \subseteq q /\ \A t \in kept : t.file = f
  BY DEF Trimmed, TasksFor
<1>3. to \subseteq Listed(ix)
  <2>1. AddTargets(ix, q, f) \subseteq Listed(ix)
    BY DEF AddTargets, First
  <2>2. \A p \in ix.files[f].hosts : p \in Peers /\ p \in Listed(ix)
    BY DEF SoundIndex, IsIndex, Entries, MapsAgree, Listed
  <2>3. UpdateTargets(ix, f) \subseteq Listed(ix)
    BY <2>2 DEF UpdateTargets
  <2> QED
    BY <2>1, <2>3
<1>4. Listed(ix) \subseteq Peers
  BY DEF Listed
<1>5. \A p \in to : task(p) \in Tasks /\ task(p).file = f /\ task(p).to = p
  BY <1>1, <1>3, <1>4 DEF Tasks
<1>6. \A t \in kept : t.to \notin to
  BY <1>2 DEF Targets, TasksFor
<1>7. PlanFile(ix, q, f, src) = kept \cup new
  BY DEF PlanFile
<1>8. \A t \in kept : t.to \in Listed(ix)
  BY <1>2 DEF TasksWellPlaced
<1>9. \A t, u \in kept : t.to = u.to => t = u
  BY <1>2 DEF TasksWellPlaced
<1> HIDE DEF kept, to
<1>10. \A t \in new : t.to \in to /\ t = task(t.to) /\ t \in Tasks /\ t.file = f
  BY <1>5
<1> HIDE DEF new
<1> QED
  BY <1>2, <1>3, <1>6, <1>7, <1>8, <1>9, <1>10

(* A planning pass, complete or cut short by the panic, leaves the tasks   *)
(* of a sound index well placed.                                           *)
LEMMA PlanSound ==
    ASSUME NEW ix, SoundIndex(ix), NEW q \in SUBSET Tasks,
           TasksWellPlaced(ix, q), NEW started \in BOOLEAN,
           NEW plan \in PlanOutcomes(ix, q, started)
    PROVE  /\ plan.queue \subseteq Tasks
           /\ TasksWellPlaced(ix, plan.queue)
           /\ plan.panic \in BOOLEAN
<1>1. CASE ~started
  <2>1. PlanOutcomes(ix, q, started) = {[queue |-> q, panic |-> FALSE]}
    BY <1>1 DEF PlanOutcomes
  <2>2. plan = [queue |-> q, panic |-> FALSE]
    BY <2>1
  <2>3. plan.queue = q /\ plan.panic = FALSE
    BY <2>2
  <2> QED
    BY <2>3
<1>2. CASE started
  <2>a. PlanOutcomes(ix, q, started) =
          {[queue |-> PlanFiles(ix, q, d, src), panic |-> Failing(ix, q) # {}] :
           d \in PlannedSets(ix, q), src \in SourceChoices(ix)}
    BY <1>2 DEF PlanOutcomes
  <2>b. PICK d \in PlannedSets(ix, q), src \in SourceChoices(ix) :
           plan = [queue |-> PlanFiles(ix, q, d, src),
                   panic |-> Failing(ix, q) # {}]
    BY <2>a
  <2>c. d \in SUBSET HostedFiles(ix)
    BY DEF PlannedSets
  <2>1. plan.queue = PlanFiles(ix, q, d, src) /\ plan.panic = (Failing(ix, q) # {})
    BY <2>b
  <2> DEFINE rest == {t \in q : t.file \notin d}
             of(f) == PlanFile(ix, q, f, src[f])
  <2>2. \A f \in d : f \in DOMAIN ix.files /\ src[f] \in Peers
    BY <2>c DEF HostedFiles, SourceChoices
  <2>3. \A f \in d :
           /\ of(f) \subseteq Tasks
           /\ \A t \in of(f) : t.file = f /\ t.to \in Listed(ix)
           /\ \A t, u \in of(f) : t.to = u.to => t = u
    BY <2>2, PlanFileFacts
  <2>4. \A t \in rest : t \in q /\ t.to \in Listed(ix) /\ t.file \notin d
    BY DEF TasksWellPlaced
  <2> HIDE DEF of
  <2>5. \A t : t \in plan.queue <=> (t \in rest \/ \E f \in d : t \in of(f))
    BY <2>1 DEF PlanFiles, of
  <2>6. plan.queue \subseteq Tasks
    BY <2>3, <2>5
  <2>7. \A t \in plan.queue : t.to \in Listed(ix)
    BY <2>3, <2>4, <2>5
  <2>8. ASSUME NEW t \in plan.queue, NEW u \in plan.queue,
               t.to = u.to, t.file = u.file
        PROVE  t = u
    <3>1. CASE t \in rest
      <4>1. u \in rest
        BY <2>3, <2>4, <2>5, <2>8, <3>1
      <4> QED
        BY <2>4, <2>8, <3>1, <4>1 DEF TasksWellPlaced
    <3>2. CASE t \notin rest
      <4>1. PICK f \in d : t \in of(f)
        BY <2>5, <3>2
      <4>2. u.file = f
        BY <2>3, <2>8, <4>1
      <4>3. u \in of(f)
        BY <2>3, <2>4, <2>5, <4>2
      <4> QED
        BY <2>3, <2>8, <4>1, <4>3
    <3> QED
      BY <3>1, <3>2
  <2> QED
    BY <2>1, <2>6, <2>7, <2>8 DEF TasksWellPlaced
<1> QED
  BY <1>1, <1>2

(* Tasks stay well placed when some are taken, or more peers are listed.   *)
LEMMA FewerTasks ==
    ASSUME NEW ix, NEW new, NEW q, NEW fewer \in SUBSET q,
           TasksWellPlaced(ix, q), \A t \in fewer : t.to \in Listed(new)
    PROVE  TasksWellPlaced(new, fewer)
BY DEF TasksWellPlaced

-----------------------------------------------------------------------------
(* The inductive invariant.  The map relations and the placement of tasks  *)
(* lean on each other: updates are queued for hosts, and only because the  *)
(* hosts are listed are they queued for listed peers.                      *)
Sound ==
    /\ TypeOK
    /\ SoundIndex(index)
    /\ TasksWellPlaced(index, queue)

(* The server starts sound.                                                *)
LEMMA InitSound == Init => Sound
<1> SUFFICES ASSUME Init PROVE Sound
  OBVIOUS
<1>1. SoundIndex(index)
  BY EmptyIndexSound DEF Init
<1>2. TypeOK
  BY <1>1, ServerAssumption DEF Init, TypeOK, SoundIndex
<1> QED
  BY <1>1, <1>2 DEF Sound, Init, TasksWellPlaced

(* What every handler that plans relies on.                                *)
LEMMA PlanningKeepsSound ==
    ASSUME Sound, SoundIndex(index'), Listed(index) \subseteq Listed(index'),
           NEW plan \in Plans(index'), NEW kept \in SUBSET plan.queue
    PROVE  /\ kept \subseteq Tasks
           /\ TasksWellPlaced(index', kept)
           /\ plan.panic \in BOOLEAN
<1>1. queue \in SUBSET Tasks /\ TasksWellPlaced(index', queue)
  BY DEF Sound, TypeOK, TasksWellPlaced
<1>2. plan \in PlanOutcomes(index', queue, uptime = Grace)
  BY DEF Plans
<1>3. (uptime = Grace) \in BOOLEAN
  OBVIOUS
<1>4. /\ plan.queue \subseteq Tasks /\ TasksWellPlaced(index', plan.queue)
      /\ plan.panic \in BOOLEAN
  BY <1>1, <1>2, <1>3, PlanSound
<1> QED
  BY <1>4 DEF TasksWellPlaced

(* Every request, the sweep, time and a restart preserve soundness.        *)
LEMMA NextSound == Sound /\ [Next]_vars => Sound'
<1> SUFFICES ASSUME Sound, [Next]_vars PROVE Sound'
  OBVIOUS
<1> USE DEF Sound
<1>0. /\ SoundIndex(index) /\ IsIndex(index) /\ queue \subseteq Tasks
      /\ mu \in {"free", "leaked"} /\ uptime \in 0 .. Grace
      /\ sinceSweep \in 0 .. SweepPeriod /\ TasksWellPlaced(index, queue)
  BY DEF TypeOK
<1>c. UNCHANGED clock =>
        uptime' \in 0 .. Grace /\ sinceSweep' \in 0 .. SweepPeriod
  BY <1>0 DEF clock
<1>t. ASSUME SoundIndex(index'), TasksWellPlaced(index', queue'),
             queue' \subseteq Tasks, mu' \in {"free", "leaked"},
             uptime' \in 0 .. Grace, sinceSweep' \in 0 .. SweepPeriod
      PROVE  Sound'
  BY <1>t DEF TypeOK, SoundIndex
<1>1. ASSUME NEW p \in Peers, NEW cat \in RegisterCatalogues, Register(p, cat)
      PROVE  Sound'
  <2>1. cat \in Catalogues
    BY DEF RegisterCatalogues
  <2>2. SoundIndex(index')
    BY <1>0, <1>1, <2>1, RegisterSound DEF Register
  <2>3. Listed(index) \subseteq Listed(index')
    BY <1>0, <1>1, <2>1, RegisterFacts DEF Register, Listed, NotListed
  <2>4. PICK plan \in Plans(index') :
          \/ ~plan.panic /\ queue' = {t \in plan.queue : t.to # p} /\ mu' = mu
          \/ plan.panic /\ queue' = plan.queue /\ mu' = "leaked"
    BY <1>1 DEF Register
  <2>5. queue' \subseteq plan.queue /\ mu' \in {"free", "leaked"}
    BY <1>0, <2>4
  <2>6. queue' \subseteq Tasks /\ TasksWellPlaced(index', queue')
    BY <2>2, <2>3, <2>5, PlanningKeepsSound
  <2> QED
    BY <1>1, <1>c, <1>t, <2>2, <2>5, <2>6 DEF Register
<1>2. ASSUME NEW p \in Peers, Heartbeat(p)
      PROVE  Sound'
  <2>1. SoundIndex(index')
    BY <1>0, <1>2, RefreshSound DEF Heartbeat
  <2>2. Listed(index) \subseteq Listed(index')
    BY <1>0, <1>2 DEF Heartbeat, Refresh, Listed, NotListed, IsIndex
  <2>3. queue' \subseteq queue
    BY <1>2 DEF Heartbeat
  <2>4. TasksWellPlaced(index', queue')
    BY <1>0, <2>2, <2>3, FewerTasks DEF TasksWellPlaced
  <2> QED
    BY <1>0, <1>2, <1>c, <1>t, <2>1, <2>3, <2>4 DEF Heartbeat
<1>3. ASSUME NEW p \in Peers, NEW f \in Files, NEW info \in Infos,
             NEW stamp \in Stamps, Announce(p, f, info, stamp)
      PROVE  Sound'
  <2>1. stamp \in Ages
    BY ServerAssumption
  <2>2. SoundIndex(index')
    BY <1>0, <1>3, <2>1, AnnounceSound DEF Announce
  <2>3. Listed(index) \subseteq Listed(index')
    BY <1>0, <1>3, <2>1 DEF Announce, ApplyAnnounce, Listed, NotListed, Ages,
                            IsIndex
  <2>4. PICK plan \in Plans(index') : queue' = plan.queue
    BY <1>3 DEF Announce
  <2>5. queue' \subseteq Tasks /\ TasksWellPlaced(index', queue')
    BY <2>2, <2>3, <2>4, PlanningKeepsSound
  <2> QED
    BY <1>0, <1>3, <1>c, <1>t, <2>2, <2>5 DEF Announce
<1>4. ASSUME NEW p \in Peers, NEW f \in Files, RequestLease(p, f)
      PROVE  Sound'
  <2>1. SoundIndex(index')
    BY <1>0, <1>4, GrantLeaseSound DEF RequestLease
  <2>2. Listed(index') = Listed(index)
    BY <1>4 DEF RequestLease, GrantLease, Listed
  <2>3. TasksWellPlaced(index', queue')
    BY <1>0, <1>4, <2>2 DEF TasksWellPlaced, RequestLease
  <2> QED
    BY <1>0, <1>4, <1>c, <1>t, <2>1, <2>3 DEF RequestLease
<1>5. ASSUME NEW p \in Peers, NEW f \in Files, Delete(p, f)
      PROVE  Sound'
  <2>1. SoundIndex(index')
    BY <1>0, <1>5, DropHostSound DEF Delete
  <2>2. Listed(index) \subseteq Listed(index')
    BY <1>5 DEF Delete, DropHost, Listed
  <2>3. PICK plan \in Plans(index') :
          \/ ~plan.panic /\ queue' = {t \in plan.queue : ~(t.to = p /\ t.file = f)}
          \/ plan.panic /\ queue' = plan.queue
    BY <1>5 DEF Delete
  <2>4. queue' \subseteq plan.queue
    BY <2>3
  <2>5. queue' \subseteq Tasks /\ TasksWellPlaced(index', queue')
    BY <2>1, <2>2, <2>4, PlanningKeepsSound
  <2> QED
    BY <1>0, <1>5, <1>c, <1>t, <2>1, <2>5 DEF Delete
<1>6. CASE Sweep
  <2> DEFINE gone == StalePeers(index)
  <2>1. gone \in SUBSET Peers
    BY DEF StalePeers, Listed
  <2>2. SoundIndex(index')
    BY <1>0, <1>6, <2>1, PruneSound DEF Sweep
  <2>3. Listed(index') = Listed(index) \ gone
    BY <1>6 DEF Sweep, Prune, Listed
  <2>4. queue' \subseteq queue /\ \A t \in queue' : t.to \notin gone
    BY <1>6 DEF Sweep
  <2>5. TasksWellPlaced(index', queue')
    BY <1>0, <2>3, <2>4, FewerTasks DEF TasksWellPlaced
  <2>6. sinceSweep' \in 0 .. SweepPeriod
    BY <1>6, ServerAssumption DEF Sweep
  <2> QED
    BY <1>0, <1>6, <1>t, <2>2, <2>4, <2>5, <2>6 DEF Sweep
<1>7. CASE Tick
  <2>1. SoundIndex(index')
    BY <1>0, <1>7, ElapseSound DEF Tick
  <2>2. Listed(index') = Listed(index)
    BY <1>0, <1>7, IndexAssumption
    DEF Tick, Elapse, Listed, Older, NotListed, IsIndex, Ages
  <2>3. TasksWellPlaced(index', queue')
    BY <1>0, <1>7, <2>2 DEF TasksWellPlaced, Tick
  <2>4. uptime' \in 0 .. Grace /\ sinceSweep' \in 0 .. SweepPeriod
    BY <1>0, <1>7, ServerAssumption DEF Tick
  <2> QED
    BY <1>0, <1>7, <1>t, <2>1, <2>3, <2>4 DEF Tick
<1>8. CASE Restart
  <2>1. SoundIndex(index')
    BY <1>8, EmptyIndexSound DEF Restart
  <2>2. TasksWellPlaced(index', queue')
    BY <1>8 DEF Restart, TasksWellPlaced
  <2> QED
    BY <1>8, <1>t, <2>1, <2>2, ServerAssumption DEF Restart
<1>9. CASE UNCHANGED vars
  BY <1>0, <1>9, <1>t DEF vars
<1> QED
  BY <1>1, <1>2, <1>3, <1>4, <1>5, <1>6, <1>7, <1>8, <1>9 DEF Next

(* The server is sound at all times.                                       *)
THEOREM AlwaysSound == Spec => []Sound
BY InitSound, NextSound, PTL DEF Spec

-----------------------------------------------------------------------------
(* Every variable keeps its type (server.go:31-44).                        *)
THEOREM TypeCorrect == Spec => []TypeOK
<1>1. Sound => TypeOK
  BY DEF Sound
<1> QED
  BY <1>1, AlwaysSound, PTL

(* fe.Peers and s.peerFiles always agree and name listed peers only        *)
(* (server.go:84-110, 233-279, 424-438, 719-726).                          *)
THEOREM IndexAlwaysConsistent == Spec => []IndexConsistent
<1>1. Sound => IndexConsistent
  BY DEF Sound, SoundIndex, IndexConsistent
<1> QED
  BY <1>1, AlwaysSound, PTL

(* No host is ever ahead of the advertised version (server.go:249, 434).   *)
THEOREM AlwaysAdvertisesNewest == Spec => []AdvertisesNewest
<1>1. Sound => AdvertisesNewest
  BY DEF Sound, SoundIndex, AdvertisesNewest
<1> QED
  BY <1>1, AlwaysSound, PTL

(* Nothing but a leased placeholder is listed without a host               *)
(* (server.go:97-104, 318-327, 724-726).                                   *)
THEOREM NeverAbandonedEntry == Spec => []NoAbandonedEntry
<1>1. Sound => NoAbandonedEntry
  BY DEF Sound, SoundIndex, NoAbandonedEntry
<1> QED
  BY <1>1, AlwaysSound, PTL

(* Tasks wait for listed peers, one per peer and file, also after a pass   *)
(* that panicked (server.go:108, 542-680, 731-741).                        *)
THEOREM QueueAlwaysSound == Spec => []QueueSound
<1>1. Sound => QueueSound
  BY DEF Sound, QueueSound
<1> QED
  BY <1>1, AlwaysSound, PTL

-----------------------------------------------------------------------------
(* No step that keeps a file listed lowers its version: only reports write *)
(* it, and a report never lowers it (server.go:249-251, 434-436).          *)
LEMMA StepKeepsVersions ==
    Sound /\ [Next]_vars =>
        \A f \in DOMAIN index.files \cap DOMAIN index'.files :
            index'.files[f].info.version >= index.files[f].info.version
<1> SUFFICES ASSUME Sound, [Next]_vars,
                    NEW f \in DOMAIN index.files \cap DOMAIN index'.files
             PROVE  index'.files[f].info.version >= index.files[f].info.version
  OBVIOUS
<1> DEFINE old == index.files[f]
           new == index'.files[f]
<1>0. /\ IsIndex(index) /\ f \in Files /\ old \in Entries
      /\ old.info.version \in Nat
  <2>1. IsIndex(index) /\ f \in Files /\ old \in Entries
    BY DEF Sound, SoundIndex, IsIndex
  <2> QED
    BY <2>1, IndexAssumption DEF Entries, Infos
<1>e. ASSUME new.info = old.info PROVE new.info.version >= old.info.version
  BY <1>0, <1>e
<1>1. ASSUME NEW p \in Peers, NEW cat \in RegisterCatalogues, Register(p, cat)
      PROVE  new.info.version >= old.info.version
  <2>1. cat \in Catalogues
    BY DEF RegisterCatalogues
  <2>2. CASE f \in DOMAIN cat
    <3>1. new = Report(old, p, cat[f]) /\ cat[f] \in Infos
      BY <1>0, <1>1, <2>1, <2>2 DEF Register, ApplyRegister, EntryFor, Catalogues
    <3> QED
      BY <1>0, <3>1, ReportFacts
  <2>3. CASE f \notin DOMAIN cat
    BY <1>0, <1>1, <1>e, <2>3 DEF Register, ApplyRegister
  <2> QED
    BY <2>2, <2>3
<1>2. ASSUME NEW p \in Peers, Heartbeat(p)
      PROVE  new.info.version >= old.info.version
  BY <1>2, <1>e DEF Heartbeat, Refresh
<1>3. ASSUME NEW p \in Peers, NEW g \in Files, NEW info \in Infos,
             NEW stamp \in Stamps, Announce(p, g, info, stamp)
      PROVE  new.info.version >= old.info.version
  <2>1. CASE f = g
    <3>1. new = Report(old, p, info)
      BY <1>3, <2>1 DEF Announce, ApplyAnnounce, EntryFor
    <3> QED
      BY <1>0, <3>1, ReportFacts
  <2>2. CASE f # g
    BY <1>3, <1>e, <2>2 DEF Announce, ApplyAnnounce
  <2> QED
    BY <2>1, <2>2
<1>4. ASSUME NEW p \in Peers, NEW g \in Files, RequestLease(p, g)
      PROVE  new.info.version >= old.info.version
  BY <1>4, <1>e DEF RequestLease, GrantLease, EntryFor, WithLease
<1>5. ASSUME NEW p \in Peers, NEW g \in Files, Delete(p, g)
      PROVE  new.info.version >= old.info.version
  BY <1>5, <1>e DEF Delete, DropHost, KeepHosts
<1>6. CASE Sweep
  BY <1>6, <1>e DEF Sweep, Prune, KeepHosts
<1>7. CASE Tick
  BY <1>7, <1>e DEF Tick, Elapse, WithLease
<1>8. CASE Restart
  BY <1>8 DEF Restart, EmptyIndex
<1>9. CASE UNCHANGED vars
  BY <1>9, <1>e DEF vars
<1> QED
  BY <1>1, <1>2, <1>3, <1>4, <1>5, <1>6, <1>7, <1>8, <1>9 DEF Next

(* While a file stays listed its version never goes back.                  *)
THEOREM VersionsNeverLowered == Spec => VersionNeverLowered
<1>1. Sound /\ [Next]_vars =>
        [\A f \in DOMAIN index.files \cap DOMAIN index'.files :
            index'.files[f].info.version >= index.files[f].info.version]_vars
  BY StepKeepsVersions
<1> QED
  BY <1>1, AlwaysSound, PTL DEF Spec, VersionNeverLowered

-----------------------------------------------------------------------------
(* With announces that carry no stale LastSeen, a peer is listed for at    *)
(* most the TTL and the time since the last sweep after it was last heard  *)
(* of: the sweep that comes when it is stale removes it.                   *)
THEOREM ListedPeersStayFresh ==
    ASSUME Stamps \subseteq 0 .. PeerTTL
    PROVE  Spec => []ListedPeersFresh
<1>1. Init => ListedPeersFresh
  BY DEF Init, EmptyIndex, ListedPeersFresh, Listed
<1>2. Sound /\ ListedPeersFresh /\ [Next]_vars => ListedPeersFresh'
  <2> SUFFICES ASSUME Sound, ListedPeersFresh, [Next]_vars, mu' = "free",
                      NEW r \in Listed(index')
               PROVE  index'.seen[r] <= PeerTTL + sinceSweep'
    BY DEF ListedPeersFresh
  <2>0. /\ r \in Peers /\ index'.seen[r] # NotListed
        /\ PeerTTL \in Nat /\ sinceSweep \in Nat /\ SweepPeriod \in Nat
        /\ index.seen \in [Peers -> Ages \cup {NotListed}]
    BY IndexAssumption, ServerAssumption
    DEF Listed, Sound, TypeOK, SoundIndex, IsIndex
  <2>a. ASSUME mu = "free", index'.seen[r] = index.seen[r],
               sinceSweep' = sinceSweep
        PROVE  index'.seen[r] <= PeerTTL + sinceSweep'
    BY <2>0, <2>a DEF ListedPeersFresh, Listed
  <2>b. ASSUME index'.seen[r] \in 0 .. PeerTTL, sinceSweep' = sinceSweep
        PROVE  index'.seen[r] <= PeerTTL + sinceSweep'
    BY <2>0, <2>b
  <2>1. ASSUME NEW p \in Peers, NEW cat \in RegisterCatalogues, Register(p, cat)
        PROVE  index'.seen[r] <= PeerTTL + sinceSweep'
    BY <2>0, <2>1, <2>a, <2>b DEF Register, ApplyRegister, clock
  <2>2. ASSUME NEW p \in Peers, Heartbeat(p)
        PROVE  index'.seen[r] <= PeerTTL + sinceSweep'
    BY <2>0, <2>2, <2>a, <2>b DEF Heartbeat, Refresh, clock
  <2>3. ASSUME NEW p \in Peers, NEW f \in Files, NEW info \in Infos,
               NEW stamp \in Stamps, Announce(p, f, info, stamp)
        PROVE  index'.seen[r] <= PeerTTL + sinceSweep'
    BY <2>0, <2>3, <2>a, <2>b DEF Announce, ApplyAnnounce, clock
  <2>4. ASSUME NEW p \in Peers, NEW f \in Files, RequestLease(p, f)
        PROVE  index'.seen[r] <= PeerTTL + sinceSweep'
    BY <2>4, <2>a DEF RequestLease, GrantLease, clock
  <2>5. ASSUME NEW p \in Peers, NEW f \in Files, Delete(p, f)
        PROVE  index'.seen[r] <= PeerTTL + sinceSweep'
    BY <2>5, <2>a DEF Delete, DropHost, clock
  <2>6. CASE Sweep
    <3>1. index'.seen[r] = index.seen[r] /\ r \notin StalePeers(index)
      BY <2>0, <2>6 DEF Sweep, Prune
    <3>2. ~(index.seen[r] > PeerTTL) /\ sinceSweep' = 0
      BY <2>0, <2>6, <3>1 DEF Sweep, StalePeers, Listed
    <3> QED
      BY <2>0, <3>1, <3>2 DEF Ages, NotListed
  <2>7. CASE Tick
    <3>1. mu = "free" /\ sinceSweep' = sinceSweep + 1
      BY <2>7 DEF Tick
    <3>2. index'.seen[r] = Older(index.seen[r]) /\ index.seen[r] # NotListed
      BY <2>0, <2>7 DEF Tick, Elapse, Older
    <3>3. index.seen[r] <= PeerTTL + sinceSweep /\ index.seen[r] \in Ages
      BY <2>0, <3>1, <3>2 DEF ListedPeersFresh, Listed
    <3> QED
      BY <2>0, <3>1, <3>2, <3>3, IndexAssumption DEF Older, Ages
  <2>8. CASE Restart
    BY <2>0, <2>8 DEF Restart, EmptyIndex
  <2>9. CASE UNCHANGED vars
    BY <2>9, <2>a DEF vars
  <2> QED
    BY <2>1, <2>2, <2>3, <2>4, <2>5, <2>6, <2>7, <2>8, <2>9 DEF Next
<1> QED
  BY <1>1, <1>2, AlwaysSound, PTL DEF Spec

-----------------------------------------------------------------------------
(* What a pass that does not panic achieves.                               *)

(* A non-empty set of peers has a first one.                               *)
LEMMA FirstPeer ==
    ASSUME NEW S \in SUBSET Peers, S # {}
    PROVE  \E p \in S : \A r \in S : p <= r
<1>1. S \subseteq Nat
  BY IndexAssumption
<1>2. PICK p \in S : \A r \in S : ~(<<r, p>> \in OpToRel(<, Nat))
  BY <1>1, NatLessThanWellFounded, WFMin, Zenon
<1>3. \A r \in S : ~(r < p)
  BY <1>1, <1>2 DEF OpToRel
<1> QED
  BY <1>1, <1>3

(* All tasks that planning f leaves for f are for f.                       *)
LEMMA PlannedForFile ==
    ASSUME NEW ix, NEW q, NEW f, NEW src, NEW t \in PlanFile(ix, q, f, src)
    PROVE  t.file = f
<1>1. CASE t \in Trimmed(ix, q, f)
  BY <1>1 DEF Trimmed, TasksFor
<1>2. CASE t \notin Trimmed(ix, q, f)
  <2>1. \E p : t = [to |-> p, file |-> f, info |-> ix.files[f].info, src |-> src]
    BY <1>2 DEF PlanFile
  <2> QED
    BY <2>1
<1> QED
  BY <1>1, <1>2

(* The queue after it, as one of the possible outcomes of a whole pass.    *)
LEMMA PassPlansAll ==
    ASSUME NEW ix, NEW q, Failing(ix, q) = {}, NEW plan \in PlanOutcomes(ix, q, TRUE)
    PROVE  \E src \in SourceChoices(ix) :
              plan = [queue |-> PlanFiles(ix, q, HostedFiles(ix), src), panic |-> FALSE]
<1>1. PlannedSets(ix, q) = {HostedFiles(ix)}
  BY DEF PlannedSets
<1>2. PICK d \in PlannedSets(ix, q), src \in SourceChoices(ix) :
         plan = [queue |-> PlanFiles(ix, q, d, src), panic |-> Failing(ix, q) # {}]
  BY DEF PlanOutcomes
<1>3. (Failing(ix, q) # {}) = FALSE /\ d = HostedFiles(ix)
  BY <1>1
<1> QED
  BY <1>2, <1>3

(* It holds what planning leaves for each hosted file, and the old tasks   *)
(* for all other files.                                                    *)
LEMMA PlannedQueue ==
    ASSUME NEW ix, NEW q, NEW src
    PROVE  /\ \A f \in HostedFiles(ix) :
                 TasksFor(PlanFiles(ix, q, HostedFiles(ix), src), f)
                    = PlanFile(ix, q, f, src[f])
           /\ \A f : f \notin HostedFiles(ix) =>
                 TasksFor(PlanFiles(ix, q, HostedFiles(ix), src), f) = TasksFor(q, f)
<1> DEFINE of(f) == PlanFile(ix, q, f, src[f])
           after == PlanFiles(ix, q, HostedFiles(ix), src)
<1>1. \A f \in HostedFiles(ix) : \A t \in of(f) : t.file = f
  BY PlannedForFile
<1>2. \A t : t \in after <=> \/ t \in q /\ t.file \notin HostedFiles(ix)
                            \/ \E f \in HostedFiles(ix) : t \in of(f)
  BY DEF PlanFiles
<1> HIDE DEF of, after
<1>3. \A f \in HostedFiles(ix) : TasksFor(after, f) = of(f)
  BY <1>1, <1>2 DEF TasksFor
<1>4. ASSUME NEW f, f \notin HostedFiles(ix)
      PROVE  TasksFor(after, f) = TasksFor(q, f)
  BY <1>1, <1>2, <1>4 DEF TasksFor
<1> QED
  BY <1>3, <1>4 DEF of, after

(* A set of peers that is not empty has a first one, and it is among the   *)
(* first k of them for every positive k.                                   *)
LEMMA FirstNotEmpty ==
    ASSUME NEW S \in SUBSET Peers, S # {}, NEW k \in Int, k > 0
    PROVE  First(k, S) # {}
<1>1. PICK m \in S : \A r \in S : m <= r
  BY FirstPeer
<1>2. S \subseteq Nat
  BY IndexAssumption
<1>3. {r \in S : r < m} = {}
  <2>1. \A r \in S : ~(r < m)
    BY <1>1, <1>2
  <2> QED
    BY <2>1
<1>4. Cardinality({r \in S : r < m}) < k
  BY <1>3, FS_EmptySet
<1> QED
  BY <1>1, <1>4 DEF First

(* A host with an older version has a task, an old one or a new one; and   *)
(* with too few hosts some add is queued: an old one that survives         *)
(* trimming, or a new one when there is none that could use up its slot.   *)
LEMMA PlanFileMeetsNeeds ==
    ASSUME IsFiniteSet(Peers), NEW ix, SoundIndex(ix), NEW q \in SUBSET Tasks,
           NEW f \in HostedFiles(ix), NEW src,
           NEW after, TasksFor(after, f) = PlanFile(ix, q, f, src)
    PROVE  /\ UpdateTargets(ix, f) \subseteq Targets(after, f)
           /\ Cardinality(ix.files[f].hosts) < ReplicationFactor
              /\ Listed(ix) \ ix.files[f].hosts # {}
                 => Targets(after, f) \ ix.files[f].hosts # {}
<1> DEFINE hosts   == ix.files[f].hosts
           pending == PendingAdds(ix, q, f)
           kept    == Trimmed(ix, q, f)
           wanted  == AddTargets(ix, q, f) \cup UpdateTargets(ix, f)
<1>1. Targets(after, f) = Targets(kept, f) \cup wanted
  <2>1. Targets(after, f) = {t.to : t \in PlanFile(ix, q, f, src)}
    BY DEF Targets
  <2>2. Targets(kept, f) = {t.to : t \in kept}
    BY DEF Targets, TasksFor, Trimmed
  <2> DEFINE task(p) == [to |-> p, file |-> f, info |-> ix.files[f].info, src |-> src]
             new     == wanted \ Targets(kept, f)
  <2>3. PlanFile(ix, q, f, src) = kept \cup {task(p) : p \in new}
    BY DEF PlanFile
  <2>4. \A p : task(p).to = p
    OBVIOUS
  <2> HIDE DEF kept, wanted, task
  <2> QED
    BY <2>1, <2>2, <2>3, <2>4
<1>2. ASSUME Cardinality(hosts) < ReplicationFactor, Listed(ix) \ hosts # {}
      PROVE  Targets(after, f) \ hosts # {}
  <2>1. /\ hosts \subseteq Peers /\ Cardinality(hosts) \in Nat
        /\ pending \subseteq Peers \ hosts /\ Cardinality(pending) \in Nat
    <3>1. hosts \subseteq Peers
      BY DEF SoundIndex, IsIndex, Entries, HostedFiles
    <3>2. pending \subseteq Peers \ hosts
      BY DEF PendingAdds, Targets, TasksFor, Tasks
    <3> QED
      BY <3>1, <3>2, FS_Subset, FS_CardinalityType
  <2>2. Allowance(ix, q, f) = ReplicationFactor - Cardinality(hosts) - Cardinality(pending)
    BY DEF Allowance
  <2>3. ReplicationFactor \in Nat
    BY FactorAssumption
  <2>4. CASE pending = {}
    <3>1. Cardinality(pending) = 0
      BY <2>4, FS_EmptySet
    <3>2. Allowance(ix, q, f) \in Int /\ Allowance(ix, q, f) > 0
      <4> HIDE DEF pending, hosts
      <4> QED
        BY <1>2, <2>1, <2>2, <2>3, <3>1
    <3>3. Listed(ix) \ hosts \in SUBSET Peers
      BY DEF Listed
    <3>4. AddTargets(ix, q, f) # {} /\ AddTargets(ix, q, f) \subseteq Listed(ix) \ hosts
      <4>1. AddTargets(ix, q, f) = First(Allowance(ix, q, f), Listed(ix) \ hosts)
        BY DEF AddTargets
      <4>2. AddTargets(ix, q, f) \subseteq Listed(ix) \ hosts
        BY <4>1 DEF First
      <4> QED
        BY <1>2, <3>2, <3>3, <4>1, <4>2, FirstNotEmpty
    <3> QED
      BY <1>1, <3>4
  <2>5. CASE pending # {}
    <3>1. KeptAdds(ix, q, f) # {} /\ KeptAdds(ix, q, f) \subseteq pending
      <4>1. CASE Allowance(ix, q, f) < 0
        <5>1. KeptAdds(ix, q, f) =
                First(Cardinality(pending) + Allowance(ix, q, f), pending)
          BY <4>1 DEF KeptAdds
        <5>2. /\ Cardinality(pending) + Allowance(ix, q, f) \in Int
              /\ Cardinality(pending) + Allowance(ix, q, f) > 0
          <6> HIDE DEF pending, hosts
          <6> QED
            BY <1>2, <2>1, <2>2, <2>3
        <5>3. KeptAdds(ix, q, f) \subseteq pending
          BY <5>1 DEF First
        <5>4. pending \in SUBSET Peers
          BY <2>1
        <5> QED
          BY <2>5, <5>1, <5>2, <5>3, <5>4, FirstNotEmpty
      <4>2. CASE ~(Allowance(ix, q, f) < 0)
        BY <2>5, <4>2 DEF KeptAdds
      <4> QED
        BY <4>1, <4>2
    <3>2. PICK p \in KeptAdds(ix, q, f) : TRUE
      BY <3>1
    <3>3. p \in Targets(q, f) /\ p \notin hosts
      BY <3>1, <3>2 DEF PendingAdds
    <3>4. p \in Targets(kept, f)
      BY <3>2, <3>3 DEF Trimmed, Targets, TasksFor
    <3> QED
      BY <1>1, <3>3, <3>4
  <2> QED
    BY <2>4, <2>5
<1> QED
  BY <1>1, <1>2

(* A report keeps the tasks of all peers but its sender's, and the sender  *)
(* is one of the hosts.                                                    *)
LEMMA ReportLeavesNoneShort ==
    ASSUME IsFiniteSet(Peers), Sound, Sound', uptime = Grace, Failing(index', queue) = {},
           NEW f \in HostedFiles(index'), NEW p \in index'.files[f].hosts, Reports(p)
    PROVE  ~LeftShort(index', queue', f, p)
<1>1. PICK plan \in Plans(index') :
         /\ queue' \subseteq plan.queue
         /\ \A t \in plan.queue : t.to # p => t \in queue'
  BY DEF Reports, Register, Announce, Delete
<1>2. plan \in PlanOutcomes(index', queue, TRUE)
  <2>1. (uptime = Grace) = TRUE
    OBVIOUS
  <2> QED
    BY <2>1, Zenon DEF Plans
<1>3. PICK src : TasksFor(plan.queue, f) = PlanFile(index', queue, f, src)
  <2>1. PICK from \in SourceChoices(index') :
           plan = [queue |-> PlanFiles(index', queue, HostedFiles(index'), from),
                   panic |-> FALSE]
    BY <1>2, PassPlansAll
  <2>2. TasksFor(plan.queue, f) = PlanFile(index', queue, f, from[f])
    BY <2>1, PlannedQueue
  <2> QED
    BY <2>2
<1>4. SoundIndex(index') /\ queue \in SUBSET Tasks
  BY DEF Sound, TypeOK
<1>5. /\ UpdateTargets(index', f) \subseteq Targets(plan.queue, f)
      /\ Cardinality(index'.files[f].hosts) < ReplicationFactor
         /\ Listed(index') \ index'.files[f].hosts # {}
            => Targets(plan.queue, f) \ index'.files[f].hosts # {}
  BY <1>3, <1>4, PlanFileMeetsNeeds
<1>6. \A r \in Targets(plan.queue, f) \ {p} : r \in Targets(queue', f)
  BY <1>1 DEF Targets, TasksFor
<1> QED
  BY <1>5, <1>6 DEF LeftShort, UpdateTargets

(* In every fleet, a report that is planned without a panic leaves none of *)
(* the files that its sender hosts short of tasks (server.go:549-664).     *)
THEOREM PassesLeaveNoneShort ==
    ASSUME IsFiniteSet(Peers)
    PROVE  Spec => PassLeavesNoneShort
<1> DEFINE MeetsNeeds ==
             \A f \in HostedFiles(index') : \A p \in index'.files[f].hosts :
                LeftShort(index', queue', f, p) =>
                    ~(uptime = Grace /\ Failing(index', queue) = {} /\ Reports(p))
<1>1. Sound /\ Sound' => MeetsNeeds
  BY ReportLeavesNoneShort
<1>2. Spec => [][MeetsNeeds]_vars
  <2> HIDE DEF MeetsNeeds
  <2> QED
    BY <1>1, AlwaysSound, PTL
<1> QED
  BY <1>2 DEF PassLeavesNoneShort

-----------------------------------------------------------------------------
(* How the server locks up.                                                *)

(* A pass can panic only over a file with more hosts than the factor and a *)
(* task for one more peer; all of them are listed.                         *)
LEMMA PanicNeedsCrowd ==
    ASSUME NEW ix, SoundIndex(ix), IsFiniteSet(Listed(ix)),
           NEW q, TasksWellPlaced(ix, q), Failing(ix, q) # {}
    PROVE  Cardinality(Listed(ix)) >= ReplicationFactor + 2
<1>1. PICK f \in HostedFiles(ix) : TrimFails(ix, q, f)
  BY DEF Failing
<1> DEFINE hosts == ix.files[f].hosts
<1>2. PICK r \in PendingAdds(ix, q, f) : TRUE
  BY <1>1 DEF TrimFails
<1>3. r \in Listed(ix) /\ r \notin hosts
  BY <1>2 DEF PendingAdds, Targets, TasksFor, TasksWellPlaced
<1>4. hosts \subseteq Listed(ix)
  <2>1. f \in DOMAIN ix.files /\ hosts \subseteq Peers
    BY DEF HostedFiles, SoundIndex, IsIndex, Entries
  <2> QED
    BY <2>1 DEF SoundIndex, MapsAgree, Listed, IsIndex
<1>5. IsFiniteSet(hosts) /\ Cardinality(hosts) \in Nat
  BY <1>4, FS_Subset, FS_CardinalityType
<1>6. Cardinality(hosts \cup {r}) = Cardinality(hosts) + 1
  BY <1>3, <1>5, FS_AddElement
<1>7. Cardinality(hosts \cup {r}) <= Cardinality(Listed(ix))
  BY <1>3, <1>4, FS_Subset
<1>8. Cardinality(hosts) > ReplicationFactor
  BY <1>1 DEF TrimFails
<1>9. Cardinality(Listed(ix)) \in Nat
  BY FS_CardinalityType
<1> QED
  BY <1>5, <1>6, <1>7, <1>8, <1>9, FactorAssumption

(* Peers are listed one at a time, so there are never infinitely many.     *)
Crowd ==
    /\ IsFiniteSet(Listed(index))
    /\ LocksUpOnlyInACrowd

(* The server starts free and without peers.                               *)
LEMMA InitCrowd == Init => Crowd
<1> SUFFICES ASSUME Init PROVE Crowd
  OBVIOUS
<1>1. Listed(index) = {}
  BY DEF Init, EmptyIndex, Listed
<1> QED
  BY <1>1, FS_EmptySet DEF Init, Crowd, LocksUpOnlyInACrowd

(* Only a registration locks the server up, and only a restart changes who *)
(* is listed afterwards.                                                   *)
LEMMA NextCrowd == Sound /\ Sound' /\ Crowd /\ [Next]_vars => Crowd'
<1> SUFFICES ASSUME Sound, Sound', Crowd, [Next]_vars PROVE Crowd'
  OBVIOUS
<1>0. /\ SoundIndex(index) /\ SoundIndex(index') /\ IsIndex(index)
      /\ TasksWellPlaced(index, queue) /\ IsFiniteSet(Listed(index))
  BY DEF Sound, TypeOK, Crowd
<1>f. ASSUME NEW p, Listed(index') \subseteq Listed(index) \cup {p}
      PROVE  IsFiniteSet(Listed(index'))
  BY <1>0, <1>f, FS_AddElement, FS_Subset
<1>m. ASSUME mu' # "leaked", IsFiniteSet(Listed(index')) PROVE Crowd'
  BY <1>m DEF Crowd, LocksUpOnlyInACrowd
<1>1. ASSUME NEW p \in Peers, NEW cat \in RegisterCatalogues, Register(p, cat)
      PROVE  Crowd'
  <2>1. /\ Listed(index) \subseteq Listed(index')
        /\ Listed(index') \subseteq Listed(index) \cup {p}
    <3>1. cat \in Catalogues
      BY DEF RegisterCatalogues
    <3> QED
      BY <1>0, <1>1, <3>1, RegisterFacts DEF Register, Listed, NotListed
  <2>2. IsFiniteSet(Listed(index'))
    BY <1>f, <2>1
  <2>3. TasksWellPlaced(index', queue)
    BY <1>0, <2>1 DEF TasksWellPlaced
  <2>4. CASE mu' = "leaked"
    <3>1. PICK plan \in Plans(index') : plan.panic
      BY <1>1, <2>4 DEF Register
    <3>2. Failing(index', queue) # {}
      <4>1. CASE uptime # Grace
        <5>1. plan = [queue |-> queue, panic |-> FALSE]
          BY <4>1 DEF Plans, PlanOutcomes
        <5> QED
          BY <3>1, <5>1
      <4>2. CASE uptime = Grace
        <5>1. (uptime = Grace) = TRUE
          BY <4>2
        <5>2. plan \in PlanOutcomes(index', queue, TRUE)
          BY <5>1, Zenon DEF Plans
        <5>3. CASE Failing(index', queue) = {}
          <6>1. PICK src \in SourceChoices(index') :
                   plan = [queue |-> PlanFiles(index', queue, HostedFiles(index'), src),
                           panic |-> FALSE]
            BY <5>2, <5>3, PassPlansAll
          <6> QED
            BY <3>1, <6>1
        <5> QED
          BY <5>3
      <4> QED
        BY <4>1, <4>2
    <3>3. Cardinality(Listed(index')) >= ReplicationFactor + 2
      BY <1>0, <2>2, <2>3, <3>2, PanicNeedsCrowd
    <3> QED
      BY <2>2, <3>3 DEF Crowd, LocksUpOnlyInACrowd
  <2> QED
    BY <1>m, <2>2, <2>4
<1>2. ASSUME NEW p \in Peers,
             \/ Heartbeat(p)
             \/ \E f \in Files : RequestLease(p, f) \/ Delete(p, f)
      PROVE  Crowd'
  <2>1. Listed(index') \subseteq Listed(index) \cup {p}
    <3>1. CASE Heartbeat(p)
      BY <1>0, <3>1 DEF Heartbeat, Refresh, Listed, IsIndex
    <3>2. CASE \E f \in Files : RequestLease(p, f) \/ Delete(p, f)
      BY <3>2 DEF RequestLease, GrantLease, Delete, DropHost, Listed
    <3> QED
      BY <1>2, <3>1, <3>2
  <2>2. mu' # "leaked"
    BY <1>2 DEF Heartbeat, RequestLease, Delete
  <2> QED
    BY <1>f, <1>m, <2>1, <2>2
<1>3. ASSUME NEW p \in Peers, NEW f \in Files, NEW info \in Infos,
             NEW stamp \in Stamps, Announce(p, f, info, stamp)
      PROVE  Crowd'
  <2>1. Listed(index') \subseteq Listed(index) \cup {p}
    BY <1>0, <1>3 DEF Announce, ApplyAnnounce, Listed, IsIndex
  <2>2. mu' # "leaked"
    BY <1>3 DEF Announce
  <2> QED
    BY <1>f, <1>m, <2>1, <2>2
<1>4. CASE Sweep
  <2>1. Listed(index') \subseteq Listed(index) /\ mu' # "leaked"
    BY <1>4 DEF Sweep, Prune, Listed
  <2> QED
    BY <1>f, <1>m, <2>1
<1>5. CASE Tick
  <2>1. Listed(index') = Listed(index)
    BY <1>0, <1>5, IndexAssumption
    DEF Tick, Elapse, Listed, Older, NotListed, IsIndex, Ages
  <2> QED
    BY <1>5, <2>1 DEF Tick, Crowd, LocksUpOnlyInACrowd
<1>6. CASE Restart
  <2>1. Listed(index') = {} /\ mu' = "free"
    BY <1>6 DEF Restart, EmptyIndex, Listed
  <2> QED
    BY <1>m, <2>1, FS_EmptySet
<1>7. CASE UNCHANGED vars
  BY <1>7 DEF vars, Crowd, LocksUpOnlyInACrowd
<1> QED
  BY <1>1, <1>2, <1>3, <1>4, <1>5, <1>6, <1>7 DEF Next

(* The server locks up for good only while it lists at least two peers     *)
(* more than the factor (server.go:108, 361-378, 616-620).                 *)
THEOREM AlwaysLocksUpOnlyInACrowd == Spec => []LocksUpOnlyInACrowd
<1>1. Init => Sound /\ Crowd
  BY InitSound, InitCrowd
<1>2. Sound /\ Crowd /\ [Next]_vars => (Sound /\ Crowd)'
  BY NextSound, NextCrowd
<1>3. Sound /\ Crowd => LocksUpOnlyInACrowd
  BY DEF Crowd
<1> QED
  BY <1>1, <1>2, <1>3, PTL DEF Spec

-----------------------------------------------------------------------------
(* The replication budget of the primary, for every fleet of at most one   *)
(* peer more than the replication factor: the slice that trims queued adds *)
(* is never out of range, and hosts and queued adds stay within the        *)
(* factor.                                                                 *)
SmallFleet ==
    /\ IsFiniteSet(Peers)
    /\ Cardinality(Peers) <= ReplicationFactor + 1

-----------------------------------------------------------------------------
(* The first k of a set of numbers.                                        *)

(* A finite set of numbers that is not empty has a largest member: the     *)
(* smallest of the non-empty sets that contain, with a number, all the     *)
(* larger ones of the set, contains nothing else.                          *)
LEMMA LargestMember ==
    ASSUME NEW F \in SUBSET Nat, IsFiniteSet(F), F # {}
    PROVE  \E m \in F : \A x \in F : x <= m
<1> DEFINE Upper == {U \in SUBSET F : /\ U # {}
                                      /\ \A y \in U : \A x \in F : x >= y => x \in U}
<1>1. IsWellFoundedOn(StrictSubsetOrdering(F), SUBSET F)
  BY FS_StrictSubsetOrderingWellFounded, FS_FiniteSubsetsOfFinite
<1>2. Upper \subseteq SUBSET F /\ F \in Upper
  OBVIOUS
<1>3. PICK U \in Upper : \A V \in Upper : ~(<<V, U>> \in StrictSubsetOrdering(F))
  <2> HIDE DEF Upper
  <2> QED
    BY <1>1, <1>2, WFMin
<1>4. PICK m \in U : TRUE
  OBVIOUS
<1>5. U \in SUBSET F /\ m \in F /\ \A x \in F : x \in Nat
  OBVIOUS
<1> DEFINE V == {x \in U : x > m}
<1>6. V \subseteq U /\ V # U /\ V \in SUBSET F
  <2>1. m \notin V
    BY <1>5
  <2> QED
    BY <1>5, <2>1
<1>7. <<V, U>> \in StrictSubsetOrdering(F)
  BY <1>6 DEF StrictSubsetOrdering
<1>8. V = {}
  <2> SUFFICES ASSUME V # {} PROVE V \in Upper
    BY <1>3, <1>7
  <2>1. ASSUME NEW y \in V, NEW x \in F, x >= y PROVE x \in V
    BY <1>5, <2>1
  <2> QED
    BY <1>6, <2>1
<1>9. ASSUME NEW x \in F PROVE x <= m
  BY <1>4, <1>5, <1>8
<1> QED
  BY <1>5, <1>9

(* First(k, S) has at most k members: below its largest one there are      *)
(* fewer than k members of S, the others of First(k, S) among them.        *)
LEMMA FirstBound ==
    ASSUME NEW S \in SUBSET Nat, IsFiniteSet(S), NEW k \in Int
    PROVE  /\ First(k, S) \subseteq S
           /\ IsFiniteSet(First(k, S))
           /\ k >= 0 => Cardinality(First(k, S)) <= k
           /\ k <= 0 => First(k, S) = {}
<1> DEFINE F == First(k, S)
           below(m) == {r \in S : r < m}
<1>1. F \subseteq S /\ IsFiniteSet(F)
  BY FS_Subset DEF First
<1>2. \A m : IsFiniteSet(below(m)) /\ Cardinality(below(m)) \in Nat
  BY FS_Subset, FS_CardinalityType
<1>3. \A m \in F : Cardinality(below(m)) < k
  BY DEF First
<1>4. ASSUME k <= 0, NEW m \in F PROVE FALSE
  <2>1. Cardinality(below(m)) < k
    BY <1>3, <1>4
  <2>2. Cardinality(below(m)) \in Nat
    BY <1>2
  <2> HIDE DEF below
  <2> QED
    BY <1>4, <2>1, <2>2
<1>5. ASSUME k >= 0 PROVE Cardinality(F) <= k
  <2>1. CASE F = {}
    BY <1>5, <2>1, FS_EmptySet
  <2>2. CASE F # {}
    <3>1. PICK m \in F : \A x \in F : x <= m
      BY <1>1, <2>2, LargestMember
    <3>2. F \ {m} \subseteq below(m)
      <4>1. \A x \in F : x \in S /\ x \in Nat /\ x <= m
        BY <1>1, <3>1
      <4> HIDE DEF F
      <4> QED
        BY <4>1
    <3>3. Cardinality(F \ {m}) <= Cardinality(below(m))
      BY <1>2, <3>2, FS_Subset
    <3>4. Cardinality(F \ {m}) = Cardinality(F) - 1
      BY <1>1, <3>1, FS_RemoveElement
    <3>5. Cardinality(F) \in Nat /\ Cardinality(below(m)) \in Nat
      BY <1>1, <1>2, FS_CardinalityType
    <3>6. Cardinality(below(m)) < k
      BY <1>3, <3>1
    <3> QED
      BY <3>3, <3>4, <3>5, <3>6
  <2> QED
    BY <2>1, <2>2
<1> QED
  BY <1>1, <1>4, <1>5

-----------------------------------------------------------------------------
(* Planning within the budget.                                             *)

(* The hosts of f, none if it is not listed: entries come and go while the *)
(* tasks for their files stay queued.                                      *)
Hosting(ix, f) == IF f \in DOMAIN ix.files THEN ix.files[f].hosts ELSE {}

(* The peers that will be hosts of f when their tasks are done.            *)
Awaited(ix, q, f) == Targets(q, f) \ Hosting(ix, f)

Budgeted(ix, q, f) ==
    Awaited(ix, q, f) # {} =>
        Cardinality(Hosting(ix, f)) + Cardinality(Awaited(ix, q, f))
            <= ReplicationFactor

(* Hosts and queued adds are finite sets of peers, and apart.              *)
LEMMA BudgetTypes ==
    ASSUME IsFiniteSet(Peers), NEW ix, SoundIndex(ix), NEW q \in SUBSET Tasks, NEW f
    PROVE  /\ Hosting(ix, f) \subseteq Peers /\ IsFiniteSet(Hosting(ix, f))
           /\ Cardinality(Hosting(ix, f)) \in Nat
           /\ Awaited(ix, q, f) \subseteq Peers /\ IsFiniteSet(Awaited(ix, q, f))
           /\ Cardinality(Awaited(ix, q, f)) \in Nat
<1>1. Hosting(ix, f) \subseteq Peers
  BY DEF Hosting, SoundIndex, IsIndex, Entries
<1>2. Awaited(ix, q, f) \subseteq Peers
  BY DEF Awaited, Targets, TasksFor, Tasks
<1> QED
  BY <1>1, <1>2, FS_Subset, FS_CardinalityType

(* Fewer hosts and fewer tasks stay within the budget.                     *)
LEMMA BudgetShrinks ==
    ASSUME IsFiniteSet(Peers), NEW ix, SoundIndex(ix), NEW q \in SUBSET Tasks,
           NEW new, NEW fewer, NEW f, Budgeted(ix, q, f),
           Hosting(new, f) \subseteq Hosting(ix, f),
           Awaited(new, fewer, f) \subseteq Awaited(ix, q, f)
    PROVE  Budgeted(new, fewer, f)
<1> SUFFICES ASSUME Awaited(new, fewer, f) # {}
             PROVE  Cardinality(Hosting(new, f)) + Cardinality(Awaited(new, fewer, f))
                       <= ReplicationFactor
  BY DEF Budgeted
<1>1. Cardinality(Hosting(ix, f)) + Cardinality(Awaited(ix, q, f)) <= ReplicationFactor
  BY DEF Budgeted
<1>2. /\ IsFiniteSet(Hosting(ix, f)) /\ Cardinality(Hosting(ix, f)) \in Nat
      /\ IsFiniteSet(Awaited(ix, q, f)) /\ Cardinality(Awaited(ix, q, f)) \in Nat
  BY BudgetTypes
<1>3. /\ Cardinality(Hosting(new, f)) <= Cardinality(Hosting(ix, f))
      /\ Cardinality(Hosting(new, f)) \in Nat
  BY <1>2, FS_Subset, FS_CardinalityType
<1>4. /\ Cardinality(Awaited(new, fewer, f)) <= Cardinality(Awaited(ix, q, f))
      /\ Cardinality(Awaited(new, fewer, f)) \in Nat
  BY <1>2, FS_Subset, FS_CardinalityType
<1> QED
  BY <1>1, <1>2, <1>3, <1>4, FactorAssumption

(* What is queued for a hosted file after it was planned is within the     *)
(* budget, whatever was queued before: queued adds are trimmed to what the *)
(* hosts leave room for, or new ones fill it up.                           *)
LEMMA PlanFileBudget ==
    ASSUME IsFiniteSet(Peers), NEW ix, SoundIndex(ix), NEW q \in SUBSET Tasks,
           NEW f \in HostedFiles(ix), NEW src \in Peers,
           NEW after, TasksFor(after, f) = PlanFile(ix, q, f, src)
    PROVE  Budgeted(ix, after, f)
<1> DEFINE hosts   == ix.files[f].hosts
           pending == PendingAdds(ix, q, f)
           room    == ReplicationFactor - Cardinality(hosts)
           kept    == KeptAdds(ix, q, f)
           added   == AddTargets(ix, q, f)
<1>1. f \in DOMAIN ix.files /\ Hosting(ix, f) = hosts
  BY DEF HostedFiles, Hosting
<1>2. hosts \subseteq Peers /\ IsFiniteSet(hosts) /\ Cardinality(hosts) \in Nat
  BY <1>1, BudgetTypes
<1>3. pending = Awaited(ix, q, f)
  BY <1>1 DEF PendingAdds, Awaited
<1>4. /\ pending \subseteq Peers /\ IsFiniteSet(pending)
      /\ Cardinality(pending) \in Nat
  BY <1>3, BudgetTypes
<1>5. Peers \subseteq Nat /\ ReplicationFactor \in Nat /\ room \in Int
  BY <1>2, IndexAssumption, FactorAssumption
<1>6. Allowance(ix, q, f) = room - Cardinality(pending)
  BY DEF Allowance
<1>7. Awaited(ix, after, f) \subseteq kept \cup added
  <2>1. \A t \in PlanFile(ix, q, f, src) :
           \/ t.to \in hosts \cup kept
           \/ t.to \in added \cup UpdateTargets(ix, f)
    BY DEF PlanFile, Trimmed, Targets
  <2>2. UpdateTargets(ix, f) \subseteq hosts
    BY DEF UpdateTargets
  <2>3. Targets(after, f) = {t.to : t \in PlanFile(ix, q, f, src)}
    BY DEF Targets
  <2> HIDE DEF kept, added, hosts
  <2> QED
    BY <1>1, <2>1, <2>2, <2>3 DEF Awaited
<1>8. ASSUME IsFiniteSet(kept), IsFiniteSet(added),
             kept \cup added # {} =>
                Cardinality(kept) + Cardinality(added) <= room
      PROVE  Budgeted(ix, after, f)
  <2> HIDE DEF kept, added, hosts, room
  <2> SUFFICES ASSUME Awaited(ix, after, f) # {}
               PROVE  Cardinality(hosts) + Cardinality(Awaited(ix, after, f))
                         <= ReplicationFactor
    BY <1>1 DEF Budgeted
  <2>1. IsFiniteSet(kept \cup added)
    BY <1>8, FS_Union
  <2>2. /\ IsFiniteSet(Awaited(ix, after, f))
        /\ Cardinality(Awaited(ix, after, f)) <= Cardinality(kept \cup added)
    BY <1>7, <2>1, FS_Subset
  <2>3. Cardinality(kept \cup added)
           = Cardinality(kept) + Cardinality(added) - Cardinality(kept \cap added)
    BY <1>8, FS_Union
  <2>4. IsFiniteSet(kept \cap added)
    BY <1>8, FS_Intersection
  <2>5. /\ Cardinality(kept) \in Nat /\ Cardinality(added) \in Nat
        /\ Cardinality(kept \cap added) \in Nat
        /\ Cardinality(Awaited(ix, after, f)) \in Nat
    BY <1>8, <2>2, <2>4, FS_CardinalityType
  <2>6. Cardinality(kept) + Cardinality(added) <= room
    BY <1>7, <1>8
  <2>7. Cardinality(Awaited(ix, after, f)) <= room
    <3> QED
      BY <1>5, <2>2, <2>3, <2>5, <2>6
  <2> QED
    BY <1>2, <1>5, <2>5, <2>7 DEF room
<1>9. added = First(Allowance(ix, q, f), Listed(ix) \ hosts)
  BY DEF AddTargets
<1>10. Listed(ix) \ hosts \in SUBSET Nat /\ IsFiniteSet(Listed(ix) \ hosts)
  <2>1. Listed(ix) \ hosts \subseteq Peers
    BY DEF Listed
  <2> QED
    BY <1>5, <2>1, FS_Subset
<1>11. Allowance(ix, q, f) \in Int
  BY <1>4, <1>5, <1>6
<1>12. CASE Allowance(ix, q, f) >= 0
  <2>1. kept = pending
    BY <1>11, <1>12 DEF KeptAdds
  <2>2. IsFiniteSet(added) /\ Cardinality(added) <= Allowance(ix, q, f)
    BY <1>9, <1>10, <1>11, <1>12, FirstBound
  <2>3. Cardinality(added) \in Nat
    BY <2>2, FS_CardinalityType
  <2>4. Cardinality(kept) + Cardinality(added) <= room
    <3> HIDE DEF kept, added, room, pending
    <3> QED
      BY <1>4, <1>5, <1>6, <2>1, <2>2, <2>3
  <2> QED
    BY <1>4, <1>8, <2>1, <2>2, <2>4
<1>13. CASE ~(Allowance(ix, q, f) >= 0)
  <2>1. added = {}
    BY <1>9, <1>10, <1>11, <1>13, FirstBound
  <2>2. kept = First(Cardinality(pending) + Allowance(ix, q, f), pending)
    BY <1>11, <1>13 DEF KeptAdds
  <2>3. Cardinality(pending) + Allowance(ix, q, f) = room
    <3> HIDE DEF room, pending
    <3> QED
      BY <1>4, <1>5, <1>6
  <2>4. /\ IsFiniteSet(kept)
        /\ room >= 0 => Cardinality(kept) <= room
        /\ room <= 0 => kept = {}
    BY <1>4, <1>5, <2>2, <2>3, FirstBound
  <2>5. Cardinality(kept) \in Nat /\ IsFiniteSet(added) /\ Cardinality(added) = 0
    BY <2>1, <2>4, FS_CardinalityType, FS_EmptySet
  <2>6. kept \cup added # {} => Cardinality(kept) + Cardinality(added) <= room
    <3> HIDE DEF kept, added, room
    <3> QED
      BY <1>5, <2>1, <2>4, <2>5
  <2> QED
    BY <1>8, <2>4, <2>5, <2>6
<1> QED
  BY <1>12, <1>13

(* A file with more hosts than the factor has the whole small fleet for    *)
(* hosts, and nobody is left whose add could be queued.                    *)
LEMMA TrimNeverFails ==
    ASSUME SmallFleet, NEW ix, SoundIndex(ix), NEW q \in SUBSET Tasks
    PROVE  Failing(ix, q) = {}
<1> SUFFICES ASSUME NEW f \in HostedFiles(ix), TrimFails(ix, q, f)
             PROVE  FALSE
  BY DEF Failing
<1> DEFINE hosts == ix.files[f].hosts
<1>1. f \in DOMAIN ix.files /\ Hosting(ix, f) = hosts /\ IsFiniteSet(Peers)
  BY DEF HostedFiles, Hosting, SmallFleet
<1>2. hosts \subseteq Peers /\ Cardinality(hosts) \in Nat
  BY <1>1, BudgetTypes
<1>3. /\ Cardinality(hosts) > ReplicationFactor
      /\ PendingAdds(ix, q, f) # {} /\ PendingAdds(ix, q, f) \subseteq Peers \ hosts
  BY DEF TrimFails, PendingAdds, Targets, TasksFor, Tasks
<1>4. Cardinality(hosts) <= Cardinality(Peers) /\ Cardinality(Peers) \in Nat
  BY <1>1, <1>2, FS_Subset, FS_CardinalityType
<1>5. Cardinality(hosts) = Cardinality(Peers)
  BY <1>2, <1>3, <1>4, FactorAssumption DEF SmallFleet
<1>6. hosts = Peers
  BY <1>1, <1>2, <1>5, FS_Subset
<1> QED
  BY <1>3, <1>6

(* A planning pass does not panic, brings every hosted file within the     *)
(* budget and leaves the tasks for all other files alone.                  *)
LEMMA PlanBudget ==
    ASSUME SmallFleet, NEW ix, SoundIndex(ix), NEW q \in SUBSET Tasks,
           NEW plan \in PlanOutcomes(ix, q, TRUE)
    PROVE  /\ plan.panic = FALSE
           /\ \A f \in HostedFiles(ix) : Budgeted(ix, plan.queue, f)
           /\ \A f : f \notin HostedFiles(ix) => TasksFor(plan.queue, f) = TasksFor(q, f)
<1>1. Failing(ix, q) = {}
  BY TrimNeverFails
<1>2. PICK src \in SourceChoices(ix) :
         plan = [queue |-> PlanFiles(ix, q, HostedFiles(ix), src), panic |-> FALSE]
  BY <1>1, PassPlansAll
<1>3. plan.panic = FALSE /\ plan.queue = PlanFiles(ix, q, HostedFiles(ix), src)
  BY <1>2
<1>4. ASSUME NEW f \in HostedFiles(ix) PROVE Budgeted(ix, plan.queue, f)
  <2>1. TasksFor(plan.queue, f) = PlanFile(ix, q, f, src[f])
    BY <1>3, PlannedQueue
  <2>2. src[f] \in Peers
    BY DEF SourceChoices
  <2> QED
    BY <2>1, <2>2, PlanFileBudget DEF SmallFleet
<1>5. ASSUME NEW f, f \notin HostedFiles(ix)
      PROVE  TasksFor(plan.queue, f) = TasksFor(q, f)
  BY <1>3, <1>5, PlannedQueue
<1> QED
  BY <1>3, <1>4, <1>5

-----------------------------------------------------------------------------
(* The inductive invariant.  Nothing is queued in the grace period, so the *)
(* reports that add hosts without a planning pass find nothing queued; all *)
(* later reports plan.  Files without hosts keep what was queued for them, *)
(* so the budget is stated of them, too.                                   *)
InBudget ==
    /\ mu = "free"
    /\ uptime # Grace => queue = {}
    /\ \A f \in Files : Budgeted(index, queue, f)

(* Nothing queued is within the budget.                                    *)
LEMMA EmptyInBudget == ASSUME NEW ix, NEW f PROVE Budgeted(ix, {}, f)
BY DEF Budgeted, Awaited, Targets, TasksFor

(* The server starts within the budget.                                    *)
LEMMA InitInBudget == Init => InBudget
BY EmptyInBudget DEF Init, InBudget

(* A planning pass leaves what is queued for files without hosts.          *)
LEMMA UnhostedKeepTasks ==
    ASSUME SmallFleet, Sound, SoundIndex(index'), uptime = Grace,
           NEW plan \in Plans(index'), NEW f, Hosting(index', f) = {}
    PROVE  TasksFor(plan.queue, f) = TasksFor(queue, f)
<1>1. (uptime = Grace) = TRUE
  OBVIOUS
<1>2. plan \in PlanOutcomes(index', queue, TRUE)
  BY <1>1, Zenon DEF Plans
<1>3. f \notin HostedFiles(index')
  BY DEF HostedFiles, Hosting
<1>4. \A g : g \notin HostedFiles(index') => TasksFor(plan.queue, g) = TasksFor(queue, g)
  BY <1>2, PlanBudget DEF Sound, TypeOK
<1> QED
  BY <1>3, <1>4

(* No planning pass panics.                                                *)
LEMMA NoPanic ==
    ASSUME SmallFleet, Sound, SoundIndex(index'), NEW plan \in Plans(index')
    PROVE  plan.panic = FALSE
<1>1. CASE uptime # Grace
  <2>1. plan = [queue |-> queue, panic |-> FALSE]
    BY <1>1 DEF Plans, PlanOutcomes
  <2> QED
    BY <2>1
<1>2. CASE uptime = Grace
  <2>1. (uptime = Grace) = TRUE
    BY <1>2
  <2>2. plan \in PlanOutcomes(index', queue, TRUE)
    BY <2>1, Zenon DEF Plans
  <2> QED
    BY <2>2, PlanBudget DEF Sound, TypeOK
<1> QED
  BY <1>1, <1>2

(* What every handler that plans relies on: a change of the index that     *)
(* gives the files without hosts no more room needs a pass for the others. *)
LEMMA PlanningInBudget ==
    ASSUME SmallFleet, Sound, InBudget,
           SoundIndex(index'), Listed(index) \subseteq Listed(index'),
           NEW plan \in Plans(index'), NEW kept \in SUBSET plan.queue,
           \A f \in Files : Hosting(index', f) = {} /\ uptime = Grace =>
               Awaited(index', kept, f) \subseteq Awaited(index, queue, f)
    PROVE  /\ plan.panic = FALSE
           /\ uptime # Grace => kept = {}
           /\ \A f \in Files : Budgeted(index', kept, f)
<1>1. queue \in SUBSET Tasks /\ SoundIndex(index) /\ IsFiniteSet(Peers)
  BY DEF Sound, TypeOK, SmallFleet
<1>2. CASE uptime # Grace
  <2>1. queue = {}
    BY <1>2 DEF InBudget
  <2>2. plan = [queue |-> {}, panic |-> FALSE]
    BY <1>2, <2>1 DEF Plans, PlanOutcomes
  <2>3. plan.queue = {} /\ plan.panic = FALSE
    BY <2>2
  <2>4. kept = {}
    BY <2>3
  <2> QED
    BY <2>3, <2>4, EmptyInBudget
<1>3. CASE uptime = Grace
  <2>1. plan \in PlanOutcomes(index', queue, TRUE)
    <3>1. (uptime = Grace) = TRUE
      BY <1>3
    <3> QED
      BY <3>1, Zenon DEF Plans
  <2>2. /\ plan.panic = FALSE
        /\ \A f \in HostedFiles(index') : Budgeted(index', plan.queue, f)
    BY <1>1, <2>1, PlanBudget
  <2>3. plan.queue \subseteq Tasks
    BY PlanningKeepsSound
  <2>4. ASSUME NEW f \in Files PROVE Budgeted(index', kept, f)
    <3>1. CASE f \in HostedFiles(index')
      <4>1. Awaited(index', kept, f) \subseteq Awaited(index', plan.queue, f)
        BY DEF Awaited, Targets, TasksFor
      <4> QED
        BY <1>1, <2>2, <2>3, <3>1, <4>1, BudgetShrinks
    <3>2. CASE f \notin HostedFiles(index')
      <4>1. Hosting(index', f) = {}
        BY <3>2 DEF Hosting, HostedFiles
      <4> QED
        BY <1>1, <1>3, <3>2, <4>1, BudgetShrinks DEF InBudget
    <3> QED
      BY <3>1, <3>2
  <2> QED
    BY <1>3, <2>2, <2>4
<1> QED
  BY <1>2, <1>3

(* Every request, the sweep, time and a restart keep within the budget.    *)
LEMMA NextInBudget ==
    ASSUME SmallFleet, Sound, Sound', InBudget, [Next]_vars
    PROVE  InBudget'
<1>0. /\ mu = "free" /\ queue \in SUBSET Tasks /\ IsFiniteSet(Peers)
      /\ SoundIndex(index) /\ SoundIndex(index') /\ queue' \in SUBSET Tasks
      /\ uptime # Grace => queue = {}
      /\ \A f \in Files : Budgeted(index, queue, f)
  BY DEF Sound, TypeOK, InBudget, SmallFleet
<1>i. IsIndex(index)
  BY <1>0 DEF SoundIndex
<1>a. ASSUME mu' = mu, uptime' = uptime, queue' \subseteq queue,
             \A f \in Files : /\ Hosting(index', f) \subseteq Hosting(index, f)
                              /\ Awaited(index', queue', f) \subseteq Awaited(index, queue, f)
      PROVE  InBudget'
  <2>1. \A f \in Files : Budgeted(index', queue', f)
    BY <1>0, <1>a, BudgetShrinks
  <2> QED
    BY <1>0, <1>a, <2>1 DEF InBudget
<1>1. ASSUME NEW p \in Peers, NEW cat \in RegisterCatalogues, Register(p, cat)
      PROVE  InBudget'
  <2>1. cat \in Catalogues
    BY DEF RegisterCatalogues
  <2>2. Listed(index) \subseteq Listed(index')
    BY <1>i, <1>1, <2>1, RegisterFacts DEF Register, Listed, NotListed
  <2>3. PICK plan \in Plans(index') :
          \/ ~plan.panic /\ queue' = {t \in plan.queue : t.to # p} /\ mu' = mu
          \/ plan.panic /\ queue' = plan.queue /\ mu' = "leaked"
    BY <1>1 DEF Register
  <2>4. ASSUME NEW f \in Files, Hosting(index', f) = {}, uptime = Grace
        PROVE  Awaited(index', queue', f) \subseteq Awaited(index, queue, f)
    <3>1. Hosting(index, f) \subseteq Hosting(index', f)
      BY <1>1 DEF Register, ApplyRegister, Hosting, EntryFor, Report
    <3>2. TasksFor(plan.queue, f) = TasksFor(queue, f) /\ queue' \subseteq plan.queue
      BY <1>0, <2>3, <2>4, UnhostedKeepTasks
    <3> QED
      BY <2>4, <3>1, <3>2 DEF Awaited, Targets, TasksFor
  <2>5. queue' \in SUBSET plan.queue
    BY <2>3
  <2>6. /\ plan.panic = FALSE
        /\ uptime # Grace => queue' = {}
        /\ \A f \in Files : Budgeted(index', queue', f)
    BY <1>0, <2>2, <2>4, <2>5, PlanningInBudget
  <2> QED
    BY <1>0, <1>1, <2>3, <2>6 DEF Register, clock, InBudget
<1>2. ASSUME NEW p \in Peers, Heartbeat(p)
      PROVE  InBudget'
  <2>1. \A f : Hosting(index', f) = Hosting(index, f)
    BY <1>2 DEF Heartbeat, Refresh, Hosting
  <2> QED
    BY <1>2, <1>a, <2>1 DEF Heartbeat, clock, Awaited, Targets, TasksFor
<1>3. ASSUME NEW p \in Peers, NEW g \in Files, NEW info \in Infos,
             NEW stamp \in Stamps, Announce(p, g, info, stamp)
      PROVE  InBudget'
  <2>1. stamp \in Ages
    BY ServerAssumption
  <2>2. Listed(index) \subseteq Listed(index')
    BY <1>i, <1>3, <2>1 DEF Announce, ApplyAnnounce, Listed, NotListed, Ages, IsIndex
  <2>3. PICK plan \in Plans(index') : queue' = plan.queue
    BY <1>3 DEF Announce
  <2>4. ASSUME NEW f \in Files, Hosting(index', f) = {}, uptime = Grace
        PROVE  Awaited(index', queue', f) \subseteq Awaited(index, queue, f)
    <3>1. Hosting(index, f) \subseteq Hosting(index', f)
      BY <1>3 DEF Announce, ApplyAnnounce, Hosting, EntryFor, Report
    <3>2. TasksFor(queue', f) = TasksFor(queue, f)
      BY <1>0, <2>3, <2>4, UnhostedKeepTasks
    <3> QED
      BY <2>4, <3>1, <3>2 DEF Awaited, Targets
  <2> QED
    BY <1>0, <1>3, <2>2, <2>3, <2>4, PlanningInBudget DEF Announce, clock, InBudget
<1>4. ASSUME NEW p \in Peers, NEW g \in Files, RequestLease(p, g)
      PROVE  InBudget'
  <2>1. \A f : Hosting(index', f) = Hosting(index, f)
    BY <1>4 DEF RequestLease, GrantLease, EntryFor, WithLease, Hosting
  <2> QED
    BY <1>4, <1>a, <2>1 DEF RequestLease, clock, Awaited
<1>5. ASSUME NEW p \in Peers, NEW g \in Files, Delete(p, g)
      PROVE  InBudget'
  <2>1. Listed(index) \subseteq Listed(index')
    BY <1>5 DEF Delete, DropHost, Listed
  <2>2. PICK plan \in Plans(index') :
          \/ ~plan.panic /\ queue' = {t \in plan.queue : ~(t.to = p /\ t.file = g)}
          \/ plan.panic /\ queue' = plan.queue
    BY <1>5 DEF Delete
  <2>3. plan.panic = FALSE
    BY <1>0, NoPanic
  <2>4. ASSUME NEW f \in Files, Hosting(index', f) = {}, uptime = Grace
        PROVE  Awaited(index', queue', f) \subseteq Awaited(index, queue, f)
    <3>1. TasksFor(plan.queue, f) = TasksFor(queue, f)
      BY <1>0, <2>4, UnhostedKeepTasks
    <3>2. CASE f = g
      <4>1. Hosting(index, f) \subseteq {p}
        BY <1>5, <2>4, <3>2 DEF Delete, DropHost, KeepHosts, Hosting
      <4>2. p \notin Targets(queue', f)
        BY <2>2, <2>3, <3>2 DEF Targets, TasksFor
      <4> QED
        BY <2>2, <2>4, <3>1, <4>1, <4>2 DEF Awaited, Targets, TasksFor
    <3>3. CASE f # g
      <4>1. Hosting(index, f) \subseteq Hosting(index', f)
        BY <1>5, <3>3 DEF Delete, DropHost, KeepHosts, Hosting
      <4> QED
        BY <2>2, <2>4, <3>1, <4>1 DEF Awaited, Targets, TasksFor
    <3> QED
      BY <3>2, <3>3
  <2>5. queue' \in SUBSET plan.queue
    BY <2>2
  <2>6. /\ plan.panic = FALSE
        /\ uptime # Grace => queue' = {}
        /\ \A f \in Files : Budgeted(index', queue', f)
    BY <1>0, <2>1, <2>4, <2>5, PlanningInBudget
  <2> QED
    BY <1>0, <1>5, <2>2, <2>6 DEF Delete, clock, InBudget
<1>6. CASE Sweep
  <2> DEFINE gone == StalePeers(index)
  <2>1. ASSUME NEW f
        PROVE  /\ Hosting(index', f) \subseteq Hosting(index, f)
               /\ Hosting(index, f) \subseteq Hosting(index', f) \cup gone
    BY <1>6 DEF Sweep, Prune, Leaving, KeepHosts, Hosting
  <2>2. queue' \subseteq queue /\ \A t \in queue' : t.to \notin gone
    BY <1>6 DEF Sweep
  <2> HIDE DEF gone
  <2>3. ASSUME NEW f
        PROVE  Awaited(index', queue', f) \subseteq Awaited(index, queue, f)
    BY <2>1, <2>2 DEF Awaited, Targets, TasksFor
  <2> QED
    BY <1>6, <1>a, <2>1, <2>2, <2>3 DEF Sweep
<1>7. CASE Tick
  <2>1. \A f : Hosting(index', f) = Hosting(index, f)
    BY <1>7 DEF Tick, Elapse, WithLease, Hosting
  <2>2. \A f \in Files : Budgeted(index', queue', f)
    BY <1>0, <1>7, <2>1 DEF Tick, Budgeted, Awaited
  <2>3. uptime' # Grace => uptime # Grace
    BY <1>7, ServerAssumption DEF Tick
  <2> QED
    BY <1>0, <1>7, <2>2, <2>3 DEF Tick, InBudget
<1>8. CASE Restart
  BY <1>8, EmptyInBudget DEF Restart, InBudget
<1>9. CASE UNCHANGED vars
  BY <1>0, <1>9 DEF vars, InBudget, Budgeted, Awaited, Hosting
<1> QED
  BY <1>1, <1>2, <1>3, <1>4, <1>5, <1>6, <1>7, <1>8, <1>9 DEF Next

-----------------------------------------------------------------------------
(* In a small fleet the server is within its budget at all times.          *)
THEOREM AlwaysInBudget ==
    ASSUME SmallFleet
    PROVE  Spec => [](Sound /\ InBudget)
<1>1. Init => Sound /\ InBudget
  BY InitSound, InitInBudget
<1>2. Sound /\ InBudget /\ [Next]_vars => (Sound /\ InBudget)'
  BY NextSound, NextInBudget
<1> QED
  BY <1>1, <1>2, PTL DEF Spec

(* While an add is queued, hosts and queued adds are no more than the      *)
(* replication factor (server.go:610-644).                                 *)
THEOREM QueueStaysWithinFactor ==
    ASSUME SmallFleet
    PROVE  Spec => []QueueWithinFactor
<1>1. Sound /\ InBudget => QueueWithinFactor
  <2> SUFFICES ASSUME Sound, InBudget, NEW f \in DOMAIN index.files,
                      PendingAdds(index, queue, f) # {}
               PROVE  Cardinality(index.files[f].hosts)
                        + Cardinality(PendingAdds(index, queue, f)) <= ReplicationFactor
    BY DEF QueueWithinFactor, WithinFactor
  <2>1. f \in Files
    BY DEF Sound, SoundIndex, IsIndex
  <2>2. /\ Hosting(index, f) = index.files[f].hosts
        /\ Awaited(index, queue, f) = PendingAdds(index, queue, f)
    BY DEF Hosting, Awaited, PendingAdds
  <2> QED
    BY <2>1, <2>2 DEF InBudget, Budgeted
<1> QED
  BY <1>1, AlwaysInBudget, PTL
=============================================================================
