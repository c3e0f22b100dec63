------------------------- MODULE PeerNetworkProofs --------------------------
(***************************************************************************)
(* The primary and its peers: what the primary lists is what the           *)
(* directories hold, and an update publishes what was saved, wherever      *)
(* operations on a file did not overlap at a peer and none of them failed  *)
(* between the file and the primary.                                       *)
(***************************************************************************)
EXTENDS PeerNetwork, DirectoryProofs

-----------------------------------------------------------------------------
(* What goes round between the primary and the peers.                      *)

(* info is listed for f, or a task, a job or an update carries it.         *)
Circulates(f, info) ==
    \/ f \in HostedFiles(index) /\ info = index.files[f].info
    \/ \E t \in queue : t.file = f /\ t.info = info
    \/ \E j \in jobs : j.task.file = f /\ j.task.info = info
    \/ \E p \in Peers : /\ command[p].op = "stamped" /\ command[p].file = f
                        /\ command[p].info = info

(* A version that an update has stamped tells the content.                 *)
VersionsTell ==
    \A f \in Files, a, b \in Infos :
        Circulates(f, a) =>
            /\ a.hash # NoHash
            /\ a.version \in stamps \cup {0}
            /\ Circulates(f, b) /\ a.version = b.version /\ a.version # 0
                   => a.hash = b.hash

(* Where nothing overlapped, a peer's directory has what the operation     *)
(* under way at that peer takes it to have.                                *)
Faithful ==
    \A p \in Peers, f \in Files : <<p, f>> \notin suspect =>
        /\ loop[p].at = "scanned" /\ f \in DOMAIN loop[p].cat =>
              disk[p][f] = loop[p].cat[f].hash
        /\ \A j \in jobs : j.pulled /\ j.task.to = p /\ j.task.file = f =>
              disk[p][f] = j.task.info.hash
        /\ command[p].file = f /\ command[p].op = "saved" =>
              disk[p][f] = command[p].text
        /\ command[p].file = f /\ command[p].op = "stamped" =>
              disk[p][f] = command[p].info.hash /\ command[p].info.hash = command[p].text

(* A scan lists files by what they contain.                                *)
ScansHashed ==
    \A p \in Peers : loop[p].at = "scanned" =>
        \A f \in DOMAIN loop[p].cat : loop[p].cat[f].hash # NoHash

OverlapsNoted == Overlaps \subseteq suspect

NetFacts ==
    /\ VersionsTell
    /\ Faithful
    /\ ScansHashed
    /\ ListingTrue

NetInv ==
    /\ Sound
    /\ NetTypeOK
    /\ OverlapsNoted
    /\ NetFacts

-----------------------------------------------------------------------------
(* The parts of the state.                                                 *)

(* The loop's places are told apart by their names.                        *)
LEMMA LoopFacts ==
    ASSUME NEW l \in Loops
    PROVE  /\ l.at \in {"down", "due", "waiting", "joining", "scanned"}
           /\ l.at = "joining" => l.retry \in BOOLEAN
           /\ l.at = "scanned" => /\ l.retry \in BOOLEAN
                                  /\ l.cat \in RegisterCatalogues
                                  /\ l = Scanned(l.cat, l.retry)
           /\ l = Down \/ l = Due \/ l = Waiting => l.at # "scanned"
BY DEF Loops, Down, Due, Waiting, Joining, Scanned

LEMMA CommandFacts ==
    ASSUME NEW c \in Commands
    PROVE  /\ c.op \in {"none", "edit", "saved", "stamped", "delete", "erased"}
           /\ c.op = "none" => c.file = NoFile /\ c = Idle
           /\ c.op # "none" => c.file \in Files
           /\ c.op \in {"edit", "saved", "stamped"} => c.text \in Contents
           /\ c.op = "stamped" => c.info \in Infos
BY DEF Commands, Idle

(* A registration lists files at version 0, with the contents found.       *)
LEMMA CatalogueFacts ==
    ASSUME NEW cat \in RegisterCatalogues
    PROVE  /\ cat \in Catalogues /\ DOMAIN cat \subseteq Files
           /\ \A f \in DOMAIN cat : cat[f] \in Infos /\ cat[f].version = 0
BY NetworkAssumption DEF RegisterCatalogues, Catalogues

(* What a report lists is an info, and its hash not the mark of no file.   *)
LEMMA ListedInfos ==
    ASSUME NEW cat \in Catalogues, NEW f \in DOMAIN cat
    PROVE  /\ cat[f] \in Infos /\ cat[f].version \in Nat
           /\ cat[f].hash \in Hashes /\ cat[f].hash # NoFile
<1>1. PICK S \in SUBSET Files : cat \in [S -> Infos]
  BY DEF Catalogues
<1>2. cat[f] \in Infos
  BY <1>1
<1>3. cat[f].version \in Nat /\ cat[f].hash \in Hashes
  BY <1>2, IndexAssumption DEF Infos
<1>4. \A h \in Hashes : h # NoFile
  BY NetworkAssumption DEF NoFile
<1> QED
  BY <1>2, <1>3, <1>4

(* A pass gives new tasks the listed info of a hosted file.                *)
LEMMA PlanInfos ==
    ASSUME NEW ix, NEW q \in SUBSET Tasks, NEW started,
           NEW plan \in PlanOutcomes(ix, q, started), NEW t \in plan.queue
    PROVE  \/ t \in q
           \/ t.file \in HostedFiles(ix) /\ t.info = ix.files[t.file].info
<1>1. CASE ~started
  BY <1>1 DEF PlanOutcomes
<1>2. CASE started
  <2>1. PICK done \in PlannedSets(ix, q), src \in SourceChoices(ix) :
           plan.queue = PlanFiles(ix, q, done, src)
    BY <1>2 DEF PlanOutcomes
  <2>2. done \subseteq HostedFiles(ix)
    BY DEF PlannedSets
  <2>3. CASE t \in q
    BY <2>3
  <2>4. CASE t \notin q
    <3>1. PICK f \in done : t \in PlanFile(ix, q, f, src[f])
      BY <2>1, <2>4 DEF PlanFiles
    <3>2. t \notin Trimmed(ix, q, f)
      BY <2>4 DEF Trimmed, TasksFor
    <3>3. PICK p : t = [to |-> p, file |-> f, info |-> ix.files[f].info, src |-> src[f]]
      BY <3>1, <3>2 DEF PlanFile
    <3> QED
      BY <2>2, <3>3
  <2> QED
    BY <2>3, <2>4
<1> QED
  BY <1>1, <1>2

(* Contents are numbers that NoFile is not among.                          *)
LEMMA ContentsFacts ==
    /\ Contents \subseteq Hashes /\ NoHash \notin Contents /\ NoFile \notin Contents
    /\ \A n \in Nat : n < Limit["update"] => Original + (n + 1) \in Contents
    /\ Original \in Contents
    /\ Limit["update"] \in Nat
<1>1. Limit["update"] \in Nat
  BY NetworkAssumption
<1> QED
  BY <1>1, NetworkAssumption DEF Contents, NoFile, Original

(* Jobs, commands and loops are different things.                          *)
LEMMA KindsDiffer ==
    ASSUME NetTypeOK, NEW p \in Peers, NEW j \in jobs
    PROVE  /\ j # command[p] /\ j # loop[p] /\ command[p] # loop[p]
<1>1. DOMAIN j = {"task", "pulled"}
  BY DEF NetTypeOK
<1>2. command[p] \in Commands /\ loop[p] \in Loops
  BY DEF NetTypeOK
<1>3. "op" \in DOMAIN command[p]
  BY <1>2 DEF Commands, Idle
<1>4. "at" \in DOMAIN loop[p] /\ "op" \notin DOMAIN loop[p]
  BY <1>2 DEF Loops, Down, Due, Waiting, Joining, Scanned
<1> QED
  BY <1>1, <1>3, <1>4

LEMMA CommandIsNoLoop ==
    ASSUME NetTypeOK, NEW p \in Peers
    PROVE  command[p] # loop[p]
<1>2. command[p] \in Commands /\ loop[p] \in Loops
  BY DEF NetTypeOK
<1>3. "op" \in DOMAIN command[p]
  BY <1>2 DEF Commands, Idle
<1>4. "op" \notin DOMAIN loop[p]
  BY <1>2 DEF Loops, Down, Due, Waiting, Joining, Scanned
<1> QED
  BY <1>3, <1>4

(* Where nothing overlapped at most one thing goes on about the file.      *)
OneAtATime ==
    \A p \in Peers, f \in Files : <<p, f>> \notin suspect =>
        /\ \A j, k \in jobs : (j.task.to = p /\ j.task.file = f /\ k.task.to = p
                               /\ k.task.file = f) => j = k
        /\ \A j \in jobs : j.task.to = p /\ j.task.file = f =>
              /\ command[p].file # f
              /\ ~(loop[p].at = "scanned" /\ f \in DOMAIN loop[p].cat)
        /\ command[p].file = f =>
              ~(loop[p].at = "scanned" /\ f \in DOMAIN loop[p].cat)

LEMMA OneActivity == NetTypeOK /\ OverlapsNoted => OneAtATime
<1> SUFFICES ASSUME NetTypeOK, OverlapsNoted,
                    NEW p \in Peers, NEW f \in Files, <<p, f>> \notin suspect
             PROVE  /\ \A j, k \in jobs : (j.task.to = p /\ j.task.file = f /\ k.task.to = p
                                           /\ k.task.file = f) => j = k
                    /\ \A j \in jobs : j.task.to = p /\ j.task.file = f =>
                          /\ command[p].file # f
                          /\ ~(loop[p].at = "scanned" /\ f \in DOMAIN loop[p].cat)
                    /\ command[p].file = f =>
                          ~(loop[p].at = "scanned" /\ f \in DOMAIN loop[p].cat)
  BY DEF OneAtATime
<1>1. <<p, f>> \in Peers \X Files /\ <<p, f>>[1] = p /\ <<p, f>>[2] = f
  OBVIOUS
<1>2. \A a, b \in Activities(p, f) : a = b
  BY <1>1 DEF OverlapsNoted, Overlaps
<1>3. \A j \in jobs : j.task.to = p /\ j.task.file = f => j \in Activities(p, f)
  BY DEF Activities
<1>4. command[p].file = f => command[p] \in Activities(p, f)
  BY DEF Activities
<1>5. loop[p].at = "scanned" /\ f \in DOMAIN loop[p].cat => loop[p] \in Activities(p, f)
  BY DEF Activities
<1>6. \A j \in jobs : j # command[p] /\ j # loop[p]
  BY KindsDiffer
<1>7. command[p] # loop[p]
  BY CommandIsNoLoop
<1>8. \A j, k \in jobs : (j.task.to = p /\ j.task.file = f /\ k.task.to = p
                          /\ k.task.file = f) => j = k
  BY <1>2, <1>3
<1>9. \A j \in jobs : j.task.to = p /\ j.task.file = f =>
         /\ command[p].file # f
         /\ ~(loop[p].at = "scanned" /\ f \in DOMAIN loop[p].cat)
  BY <1>2, <1>3, <1>4, <1>5, <1>6
<1>10. command[p].file = f => ~(loop[p].at = "scanned" /\ f \in DOMAIN loop[p].cat)
  BY <1>2, <1>4, <1>5, <1>7
<1> QED
  BY <1>8, <1>9, <1>10

LEMMA OneActivityAfter == NetTypeOK' /\ OverlapsNoted' => OneAtATime'
BY OneActivity, PTL

-----------------------------------------------------------------------------
(* Frames: what a step has to leave alone.                                 *)

(* No step forgets what is suspect, and new overlaps become it.            *)
LEMMA SuspectGrows ==
    ASSUME OverlapsNoted, [NetNext]_nvars
    PROVE  suspect \subseteq suspect' /\ OverlapsNoted'
<1>1. CASE UNCHANGED pvars
  BY <1>1 DEF pvars, OverlapsNoted, Overlaps, Activities
<1>2. CASE \E pfs : Mark(pfs)
  BY <1>2 DEF Mark, OverlapsNoted
<1>3. \A p \in Peers :
         PeerStep(p) \/ JobStep(p) \/ CommandStep(p) \/ RegisterLost(p) \/ BeatLost(p) \/ Crash(p)
            => \E pfs : Mark(pfs)
  <2> SUFFICES ASSUME NEW p \in Peers,
                      \/ PeerStep(p) \/ JobStep(p) \/ CommandStep(p)
                      \/ RegisterLost(p) \/ BeatLost(p) \/ Crash(p)
               PROVE  \E pfs : Mark(pfs)
    OBVIOUS
  <2>1. CASE PeerStep(p)
    BY <2>1, Zenon DEF PeerStep, Start, Scan, PostRegister, Beat
  <2>2. CASE JobStep(p)
    BY <2>2, Zenon DEF JobStep, Pull, AnnouncePull
  <2>3. CASE CommandStep(p)
    BY <2>3, Zenon DEF CommandStep, Get, StartUpdate, StartDelete, Save, EditorFails, Stamp,
                       Publish, EraseFile, TellDeleted
  <2>4. CASE RegisterLost(p) \/ BeatLost(p) \/ Crash(p)
    BY <2>4, Zenon DEF RegisterLost, BeatLost, Crash
  <2> QED
    BY <2>1, <2>2, <2>3, <2>4
<1>4. WriteLost \/ CrashPrimary \/ Interval \/ (\E j \in jobs : PullFails(j))
         => \E pfs : Mark(pfs)
  BY Zenon DEF WriteLost, CrashPrimary, Interval, PullFails
<1>5. NetSweep \/ UNCHANGED nvars => UNCHANGED pvars
  BY DEF NetSweep, nvars
<1> QED
  BY <1>1, <1>2, <1>3, <1>4, <1>5 DEF NetNext

(* A step may bring contents of scans into circulation, at version 0.      *)
Plain(info) == info.version = 0 /\ info.hash # NoHash

LEMMA CirculationKept ==
    ASSUME VersionsTell, stamps \subseteq stamps',
           \A f \in Files, info \in Infos :
              Circulates(f, info)' => Circulates(f, info) \/ Plain(info)
    PROVE  VersionsTell'
<1> SUFFICES ASSUME NEW f \in Files, NEW a \in Infos, NEW b \in Infos, Circulates(f, a)'
             PROVE  /\ a.hash # NoHash
                    /\ a.version \in stamps' \cup {0}
                    /\ Circulates(f, b)' /\ a.version = b.version /\ a.version # 0
                           => a.hash = b.hash
  BY DEF VersionsTell
<1>1. Circulates(f, a) \/ Plain(a)
  OBVIOUS
<1>2. Circulates(f, b)' => Circulates(f, b) \/ Plain(b)
  OBVIOUS
<1> QED
  BY <1>1, <1>2 DEF VersionsTell, Plain

(* Directories stay as they are, and no operation gets to a point where    *)
(* something is asked of them.                                             *)
LEMMA FaithfulFrame ==
    ASSUME Faithful, suspect \subseteq suspect', disk' = disk,
           \A j \in jobs' : j.pulled => j \in jobs,
           \A p \in Peers : loop'[p] = loop[p] \/ loop'[p].at # "scanned",
           \A p \in Peers : \/ command'[p] = command[p]
                            \/ command'[p].op \notin {"saved", "stamped"}
    PROVE  Faithful'
BY DEF Faithful

-----------------------------------------------------------------------------
(* The primary's listing.                                                  *)

(* The hosts that are left are at the versions they were, and so are the   *)
(* files.                                                                  *)
KeepsHosts(ix, new) ==
    \A p \in Peers : \A f \in HostedFiles(new) : p \in new.files[f].hosts =>
        /\ f \in HostedFiles(ix) /\ p \in ix.files[f].hosts
        /\ new.files[f].info = ix.files[f].info
        /\ new.held[p][f] = ix.held[p][f]

LEMMA KeepHostsOps ==
    ASSUME NEW ix, IsIndex(ix)
    PROVE  /\ KeepsHosts(ix, ix)
           /\ KeepsHosts(ix, EmptyIndex)
           /\ \A p \in Peers : KeepsHosts(ix, Refresh(ix, p))
           /\ \A p \in Peers, f \in Files : KeepsHosts(ix, GrantLease(ix, p, f))
           /\ \A p \in Peers, f \in DOMAIN ix.files : KeepsHosts(ix, DropHost(ix, p, f))
           /\ \A gone \in SUBSET Peers : KeepsHosts(ix, Prune(ix, gone))
           /\ KeepsHosts(ix, Elapse(ix))
<1>1. KeepsHosts(ix, ix)
  BY DEF KeepsHosts
<1>2. KeepsHosts(ix, EmptyIndex)
  BY DEF KeepsHosts, HostedFiles, EmptyIndex
<1>3. ASSUME NEW p \in Peers PROVE KeepsHosts(ix, Refresh(ix, p))
  BY DEF KeepsHosts, HostedFiles, Refresh
<1>4. ASSUME NEW p \in Peers, NEW f \in Files PROVE KeepsHosts(ix, GrantLease(ix, p, f))
  BY DEF KeepsHosts, HostedFiles, GrantLease, EntryFor, WithLease
<1>5. ASSUME NEW p \in Peers, NEW f \in DOMAIN ix.files
      PROVE  KeepsHosts(ix, DropHost(ix, p, f))
  <2> DEFINE rest == ix.files[f].hosts \ {p}
             new  == DropHost(ix, p, f)
  <2>1. /\ \A r \in Peers, g \in Files :
              ~(r = p /\ g = f) => new.held[r][g] = ix.held[r][g]
        /\ DOMAIN new.files = {h \in DOMAIN ix.files : h = f => rest # {}}
        /\ f \in DOMAIN new.files => /\ new.files[f].hosts = rest
                                     /\ new.files[f].info = ix.files[f].info
        /\ \A g \in DOMAIN new.files : g # f => new.files[g] = ix.files[g]
    BY DropHostFacts
  <2> HIDE DEF new
  <2>2. DOMAIN ix.files \subseteq Files
    BY DEF IsIndex
  <2>3. KeepsHosts(ix, new)
    BY <2>1, <2>2 DEF KeepsHosts, HostedFiles
  <2> QED
    BY <2>3 DEF new
<1>6. ASSUME NEW gone \in SUBSET Peers PROVE KeepsHosts(ix, Prune(ix, gone))
  <2> DEFINE new == Prune(ix, gone)
  <2>1. /\ IsIndex(Prune(ix, gone))
        /\ Prune(ix, gone).seen = [r \in Peers |-> IF r \in gone THEN NotListed
                                                                ELSE ix.seen[r]]
        /\ Prune(ix, gone).held = [r \in Peers |-> IF r \in gone THEN [g \in Files |-> NoCopy]
                                                  ELSE ix.held[r]]
        /\ DOMAIN Prune(ix, gone).files =
              {g \in DOMAIN ix.files :
                  \/ Leaving(ix, gone, g) = {}
                  \/ ix.files[g].hosts \ Leaving(ix, gone, g) # {}}
        /\ \A g \in DOMAIN Prune(ix, gone).files :
              /\ Prune(ix, gone).files[g].info = ix.files[g].info
              /\ Prune(ix, gone).files[g].hosts
                    = ix.files[g].hosts \ Leaving(ix, gone, g)
              /\ Prune(ix, gone).files[g].lease = ix.files[g].lease
    BY PruneFacts
  <2>2. SUFFICES ASSUME NEW p \in Peers, NEW f \in HostedFiles(new), p \in new.files[f].hosts
                 PROVE  /\ f \in HostedFiles(ix) /\ p \in ix.files[f].hosts
                        /\ new.files[f].info = ix.files[f].info
                        /\ new.held[p][f] = ix.held[p][f]
    BY DEF KeepsHosts
  <2>3. /\ f \in DOMAIN new.files /\ f \in DOMAIN ix.files /\ f \in Files
        /\ new.files[f].hosts = ix.files[f].hosts \ Leaving(ix, gone, f)
        /\ new.files[f].info = ix.files[f].info
    BY <2>1 DEF HostedFiles, IsIndex
  <2>4. p \in ix.files[f].hosts /\ ~(p \in gone /\ ix.held[p][f] # NoCopy)
    BY <2>2, <2>3 DEF Leaving
  <2>5. new.held[p][f] = ix.held[p][f]
    BY <2>1, <2>3, <2>4
  <2> QED
    BY <2>3, <2>4, <2>5 DEF HostedFiles
<1>7. KeepsHosts(ix, Elapse(ix))
  BY DEF KeepsHosts, HostedFiles, Elapse, WithLease
<1> QED
  BY <1>1, <1>2, <1>3, <1>4, <1>5, <1>6, <1>7

(* A step of that kind, which settles nothing, keeps the listing true.     *)
LEMMA ListingFrame ==
    ASSUME ListingTrue, IsIndex(index'), KeepsHosts(index, index'),
           suspect \subseteq suspect',
           \A p \in Peers, f \in Files :
              f \in HostedFiles(index') /\ p \in index'.files[f].hosts
                 /\ <<p, f>> \notin suspect' /\ ~Unsettled(p, f)'
              => ~Unsettled(p, f) /\ disk'[p][f] = disk[p][f]
    PROVE  ListingTrue'
<1> SUFFICES ASSUME NEW p \in Peers, NEW f \in HostedFiles(index'),
                    p \in index'.files[f].hosts, <<p, f>> \notin suspect', ~Unsettled(p, f)'
             PROVE  /\ disk'[p][f] # NoFile
                    /\ index'.files[f].info.version \in {index'.held[p][f]} \ {0}
                          => disk'[p][f] = index'.files[f].info.hash
  BY DEF ListingTrue
<1>1. f \in Files
  BY DEF HostedFiles, IsIndex
<1>2. /\ f \in HostedFiles(index) /\ p \in index.files[f].hosts
      /\ index'.files[f].info = index.files[f].info
      /\ index'.held[p][f] = index.held[p][f]
  BY DEF KeepsHosts
<1>3. ~Unsettled(p, f) /\ disk'[p][f] = disk[p][f] /\ <<p, f>> \notin suspect
  BY <1>1
<1> QED
  BY <1>2, <1>3 DEF ListingTrue

(* What a report of p does to one file.  Where it is older than the        *)
(* listing it changes no more than the hosts.                              *)
LEMMA ReportEffect ==
    ASSUME NEW ix, SoundIndex(ix), NEW p \in Peers, NEW cat \in Catalogues,
           NEW new, new.files = ApplyRegister(ix, p, cat).files,
           new.held = ApplyRegister(ix, p, cat).held,
           NEW f \in HostedFiles(new)
    PROVE  /\ f \notin DOMAIN cat =>
                 /\ f \in HostedFiles(ix) /\ new.files[f] = ix.files[f]
                 /\ \A r \in Peers : new.held[r][f] = ix.held[r][f]
           /\ f \in DOMAIN cat =>
                 /\ new.held[p][f] = cat[f].version
                 /\ \A r \in Peers : r # p => new.held[r][f] = ix.held[r][f]
                 /\ \A r \in new.files[f].hosts : r # p =>
                       f \in HostedFiles(ix) /\ r \in ix.files[f].hosts
                 /\ \/ /\ new.files[f].info = cat[f]
                       /\ f \in HostedFiles(ix) => cat[f].version >= ix.files[f].info.version
                    \/ /\ f \in HostedFiles(ix)
                       /\ new.files[f].info = ix.files[f].info
                       /\ ix.files[f].info.version > cat[f].version
<1> DEFINE reg == ApplyRegister(ix, p, cat)
<1>1. IsIndex(ix) /\ HostlessIsPlaceholder(ix)
  BY DEF SoundIndex
<1>2. /\ IsIndex(reg)
      /\ DOMAIN reg.files = DOMAIN ix.files \cup DOMAIN cat
      /\ reg.seen[p] = 0
      /\ \A r \in Peers : r # p => /\ reg.seen[r] = ix.seen[r]
                                   /\ reg.held[r] = ix.held[r]
      /\ \A g \in Files : g \notin DOMAIN cat =>
            /\ reg.held[p][g] = ix.held[p][g]
            /\ g \in DOMAIN ix.files => reg.files[g] = ix.files[g]
      /\ \A g \in DOMAIN cat :
            /\ reg.held[p][g] = cat[g].version
            /\ reg.files[g] = Report(EntryFor(ix, g, cat[g]), p, cat[g])
  BY <1>1, RegisterFacts
<1> HIDE DEF reg
<1>3. new.files = reg.files /\ new.held = reg.held
  BY DEF reg
<1>4. f \in Files /\ f \in DOMAIN reg.files
  BY <1>2, <1>3 DEF HostedFiles, IsIndex
<1>5. f \in DOMAIN cat => cat[f] \in Infos /\ cat[f].version \in Nat
  BY ListedInfos
<1>6. f \in DOMAIN ix.files => ix.files[f] \in Entries /\ ix.files[f].info.version \in Nat
  BY <1>1, <1>4, IndexAssumption DEF IsIndex, Entries, Infos
<1>7. CASE f \notin DOMAIN cat
  BY <1>2, <1>3, <1>4, <1>7 DEF HostedFiles
<1>8. CASE f \in DOMAIN cat /\ f \notin DOMAIN ix.files
  <2>1. new.files[f] = Report([info |-> cat[f], hosts |-> {}, lease |-> NoLease], p, cat[f])
    BY <1>2, <1>3, <1>8 DEF EntryFor
  <2>2. new.files[f].info = cat[f] /\ new.files[f].hosts = {p}
    BY <2>1 DEF Report
  <2> QED
    BY <1>2, <1>3, <1>8, <2>2 DEF HostedFiles
<1>9. CASE f \in DOMAIN cat /\ f \in DOMAIN ix.files
  <2>1. new.files[f] = Report(ix.files[f], p, cat[f])
    BY <1>2, <1>3, <1>9 DEF EntryFor
  <2>2. /\ new.files[f].hosts = ix.files[f].hosts \cup {p}
        /\ new.files[f].info = IF cat[f].version >= ix.files[f].info.version
                                 THEN cat[f] ELSE ix.files[f].info
    BY <2>1 DEF Report
  <2>3. f \notin HostedFiles(ix) => ix.files[f].info.version = 0 /\ ix.files[f].hosts = {}
    BY <1>1, <1>9 DEF HostedFiles, HostlessIsPlaceholder
  <2>4. \A r \in new.files[f].hosts : r # p =>
           f \in HostedFiles(ix) /\ r \in ix.files[f].hosts
    BY <1>9, <2>2 DEF HostedFiles
  <2>5. /\ new.held[p][f] = cat[f].version
        /\ \A r \in Peers : r # p => new.held[r][f] = ix.held[r][f]
    BY <1>2, <1>3, <1>9
  <2> QED
    BY <1>5, <1>6, <1>9, <2>2, <2>3, <2>4, <2>5
<1> QED
  BY <1>7, <1>8, <1>9

(* A report of what is in the directory keeps the listing true: the peers  *)
(* that have the listed version on record have the content listed with it. *)
LEMMA ReportKeepsListing ==
    ASSUME Sound, NetTypeOK, VersionsTell, ListingTrue,
           NEW p \in Peers, NEW cat \in Catalogues, IsIndex(index'),
           index'.files = ApplyRegister(index, p, cat).files,
           index'.held = ApplyRegister(index, p, cat).held,
           suspect \subseteq suspect', disk' = disk,
           \A f \in DOMAIN cat : <<p, f>> \notin suspect' => disk[p][f] = cat[f].hash,
           \A f \in DOMAIN cat : cat[f].version # 0 => Circulates(f, cat[f]),
           \A q \in Peers, f \in Files :
              <<q, f>> \notin suspect' /\ ~Unsettled(q, f)'
              => ~Unsettled(q, f) \/ (q = p /\ f \in DOMAIN cat)
    PROVE  ListingTrue'
<1> SUFFICES ASSUME NEW q \in Peers, NEW f \in HostedFiles(index'),
                    q \in index'.files[f].hosts, <<q, f>> \notin suspect', ~Unsettled(q, f)'
             PROVE  /\ disk[q][f] # NoFile
                    /\ index'.files[f].info.version = index'.held[q][f]
                          /\ index'.held[q][f] # 0
                          => disk[q][f] = index'.files[f].info.hash
  BY DEF ListingTrue
<1>1. SoundIndex(index) /\ NoneAhead(index) /\ IsIndex(index)
  BY DEF Sound, SoundIndex
<1>2. f \in Files /\ <<q, f>> \notin suspect
  BY DEF HostedFiles, IsIndex
<1>3. /\ f \notin DOMAIN cat =>
            /\ f \in HostedFiles(index) /\ index'.files[f] = index.files[f]
            /\ \A r \in Peers : index'.held[r][f] = index.held[r][f]
      /\ f \in DOMAIN cat =>
            /\ index'.held[p][f] = cat[f].version
            /\ \A r \in Peers : r # p => index'.held[r][f] = index.held[r][f]
            /\ \A r \in index'.files[f].hosts : r # p =>
                  f \in HostedFiles(index) /\ r \in index.files[f].hosts
            /\ \/ /\ index'.files[f].info = cat[f]
                  /\ f \in HostedFiles(index) => cat[f].version >= index.files[f].info.version
               \/ /\ f \in HostedFiles(index)
                  /\ index'.files[f].info = index.files[f].info
                  /\ index.files[f].info.version > cat[f].version
  BY <1>1, ReportEffect
<1>4. f \in DOMAIN cat => cat[f] \in Infos /\ cat[f].version \in Nat /\ cat[f].hash # NoFile
  BY ListedInfos
<1>5. CASE f \notin DOMAIN cat
  BY <1>2, <1>3, <1>5 DEF ListingTrue
<1>6. CASE f \in DOMAIN cat /\ q = p
  <2>1. disk[p][f] = cat[f].hash
    BY <1>6
  <2>2. f \in HostedFiles(index) => index.files[f].info.version \in Nat
    BY <1>1, <1>2, IndexAssumption DEF HostedFiles, IsIndex, Entries, Infos
  <2> QED
    BY <1>3, <1>4, <1>6, <2>1, <2>2
<1>7. CASE f \in DOMAIN cat /\ q # p
  <2>1. f \in HostedFiles(index) /\ q \in index.files[f].hosts
    BY <1>3, <1>7
  <2>2. ~Unsettled(q, f)
    BY <1>2, <1>7
  <2>3. /\ disk[q][f] # NoFile
        /\ index.files[f].info.version = index.held[q][f] /\ index.held[q][f] # 0
              => disk[q][f] = index.files[f].info.hash
    BY <1>2, <2>1, <2>2 DEF ListingTrue
  <2>4. CASE index'.files[f].info = index.files[f].info
    BY <1>3, <1>7, <2>3, <2>4
  <2>5. CASE /\ index'.files[f].info = cat[f]
             /\ index'.files[f].info.version = index'.held[q][f]
             /\ index'.held[q][f] # 0
    <3>1. /\ cat[f].version = index.held[q][f] /\ cat[f].version # 0
          /\ cat[f].version >= index.files[f].info.version \/ index'.files[f].info = index.files[f].info
      BY <1>3, <1>7, <2>1, <2>5
    <3>2. /\ index.files[f].info \in Infos /\ index.files[f].info.version \in Nat
          /\ index.held[q][f] <= index.files[f].info.version
      BY <1>1, <1>2, <2>1, IndexAssumption
      DEF HostedFiles, IsIndex, Entries, Infos, NoneAhead
    <3>3. index'.files[f].info # index.files[f].info => cat[f].version = index.files[f].info.version
      BY <1>4, <1>7, <3>1, <3>2
    <3>4. Circulates(f, cat[f]) /\ Circulates(f, index.files[f].info)
      BY <1>7, <2>1, <3>1 DEF Circulates
    <3>5. cat[f].version = index.files[f].info.version => cat[f].hash = index.files[f].info.hash
      BY <1>2, <1>4, <1>7, <3>1, <3>2, <3>4 DEF VersionsTell
    <3> QED
      BY <2>3, <2>4, <2>5, <3>1, <3>3, <3>5
  <2> QED
    BY <1>3, <1>7, <2>3, <2>4, <2>5
<1> QED
  BY <1>5, <1>6, <1>7

-----------------------------------------------------------------------------
(* The steps, one invariant at a time.                                     *)

(* What a step of the network does to the primary is a step of it.         *)
LEMMA NetStepIsStep == NetTypeOK /\ [NetNext]_nvars => [Next]_vars
<1> SUFFICES ASSUME NetTypeOK, NetNext PROVE Next \/ UNCHANGED vars
  BY DEF nvars
<1>0. 0 \in Stamps
  BY NetworkAssumption
<1>1. ASSUME NEW p \in Peers, PeerStep(p) \/ RegisterLost(p) \/ BeatLost(p)
      PROVE  Next \/ UNCHANGED vars
  <2>1. loop[p] \in Loops
    BY DEF NetTypeOK
  <2>2. loop[p].at = "scanned" => loop[p].cat \in RegisterCatalogues
    BY <2>1, LoopFacts
  <2>3. CASE PostRegister(p) \/ RegisterLost(p)
    BY <2>2, <2>3 DEF PostRegister, RegisterLost, Next
  <2>4. CASE Beat(p) \/ BeatLost(p)
    BY <2>4 DEF Beat, BeatLost, Next
  <2>5. CASE Start(p) \/ Scan(p)
    BY <2>5 DEF Start, Scan
  <2> QED
    BY <1>1, <2>3, <2>4, <2>5 DEF PeerStep
<1>2. ASSUME NEW p \in Peers, JobStep(p) PROVE Next \/ UNCHANGED vars
  <2>1. PICK j \in jobs : Pull(j) \/ AnnouncePull(j)
    BY <1>2 DEF JobStep
  <2>2. /\ j.task.to \in Peers /\ j.task.file \in Files /\ j.task.info \in Infos
    BY DEF NetTypeOK, Tasks
  <2>3. CASE AnnouncePull(j)
    BY <1>0, <2>2, <2>3 DEF AnnouncePull, Next
  <2>4. CASE Pull(j)
    BY <2>4 DEF Pull
  <2> QED
    BY <2>1, <2>3, <2>4
<1>3. ASSUME NEW p \in Peers, CommandStep(p) PROVE Next \/ UNCHANGED vars
  <2>1. command[p] \in Commands
    BY DEF NetTypeOK
  <2>2. /\ command[p].op # "none" => command[p].file \in Files
        /\ command[p].op = "stamped" => command[p].info \in Infos
    BY <2>1, CommandFacts
  <2>3. CASE Publish(p)
    BY <1>0, <2>2, <2>3 DEF Publish, Publishes, Next
  <2>4. CASE TellDeleted(p)
    BY <2>2, <2>4 DEF TellDeleted, Deletes, Next
  <2>5. ASSUME NEW f \in Files, StartUpdate(p, f) PROVE Next
    BY <2>5 DEF StartUpdate, Next
  <2>6. ASSUME NEW f \in Files, Get(p, f) \/ StartDelete(p, f) PROVE UNCHANGED vars
    BY <2>6 DEF Get, StartDelete
  <2>7. CASE Save(p) \/ EditorFails(p) \/ Stamp(p) \/ EraseFile(p)
    BY <2>7, Zenon DEF Save, EditorFails, Stamp, EraseFile
  <2> QED
    BY <1>3, <2>3, <2>4, <2>5, <2>6, <2>7 DEF CommandStep
<1>4. ASSUME (\E p \in Peers : Crash(p)) \/ \E j \in jobs : PullFails(j)
      PROVE  UNCHANGED vars
  BY <1>4 DEF Crash, PullFails
<1>5. WriteLost => UNCHANGED vars
  BY DEF WriteLost
<1>6. CrashPrimary \/ Interval \/ NetSweep => Next
  BY DEF CrashPrimary, Interval, NetSweep, Next
<1> QED
  BY <1>1, <1>2, <1>3, <1>4, <1>5, <1>6 DEF NetNext

LEMMA NetKeepsSound == Sound /\ NetTypeOK /\ [NetNext]_nvars => Sound'
BY NetStepIsStep, NextSound

(* Every registration has the tasks of a pass over the index it leaves.    *)
LEMMA RegisterTasks ==
    ASSUME Sound, Sound', NEW p \in Peers, NEW cat \in Catalogues,
           index' = ApplyRegister(index, p, cat), NEW plan \in Plans(index')
    PROVE  plan.queue \subseteq Tasks
<1>1. IsIndex(index) /\ SoundIndex(index')
  BY DEF Sound, SoundIndex
<1>2. Listed(index) \subseteq Listed(index')
  BY <1>1, RegisterFacts DEF Listed, NotListed
<1> QED
  BY <1>1, <1>2, PlanningKeepsSound

(* History and counters.                                                   *)
LEMMA CountTypes ==
    ASSUME NetTypeOK
    PROVE  /\ \A pfs \in SUBSET (Peers \X Files) : Mark(pfs) => suspect' \subseteq Peers \X Files
           /\ \A p \in Peers, op \in DOMAIN Limit : Give(p, op) => given' \in [DOMAIN Limit -> Nat]
           /\ \A kind : Fault(kind) => faults' \subseteq Faults
           /\ {} \in SUBSET (Peers \X Files)
           /\ DOMAIN Limit = {"get", "update", "delete"}
<1>1. \A pfs \in SUBSET (Peers \X Files) : Mark(pfs) => suspect' \subseteq Peers \X Files
  BY DEF Mark, Overlaps, NetTypeOK
<1>2. \A p \in Peers, op \in DOMAIN Limit : Give(p, op) => given' \in [DOMAIN Limit -> Nat]
  BY DEF Give, NetTypeOK
<1>3. \A kind : Fault(kind) => faults' \subseteq Faults
  BY DEF Fault, NetTypeOK
<1> QED
  BY <1>1, <1>2, <1>3, NetworkAssumption

(* The types, by the parts that a step may change.                         *)
LEMMA NetTypesAfter ==
    ASSUME Sound', disk' \in [Peers -> [Files -> Contents \cup {NoFile}]],
           loop' \in [Peers -> Loops], jobs' \subseteq [task : Tasks, pulled : BOOLEAN],
           command' \in [Peers -> Commands], given' \in [DOMAIN Limit -> Nat],
           stamps' \subseteq Versions, faults' \subseteq Faults,
           suspect' \subseteq Peers \X Files
    PROVE  NetTypeOK'
BY DEF NetTypeOK, Sound

LEMMA NetTypes ==
    ASSUME NetTypeOK
    PROVE  /\ disk \in [Peers -> [Files -> Contents \cup {NoFile}]]
           /\ loop \in [Peers -> Loops] /\ jobs \subseteq [task : Tasks, pulled : BOOLEAN]
           /\ command \in [Peers -> Commands] /\ given \in [DOMAIN Limit -> Nat]
           /\ stamps \subseteq Versions /\ faults \subseteq Faults
           /\ suspect \subseteq Peers \X Files
BY DEF NetTypeOK

(* A goroutine starts with its task, before the pull.                      *)
LEMMA JobFacts ==
    ASSUME NEW t \in Tasks
    PROVE  /\ Job(t) \in [task : Tasks, pulled : BOOLEAN]
           /\ Job(t).task = t /\ Job(t).pulled = FALSE
BY DEF Job

(* Every action keeps the types.                                           *)
LEMMA PeerKeepsTypes ==
    ASSUME NetTypeOK, Sound, Sound', NEW p \in Peers,
           PeerStep(p) \/ RegisterLost(p) \/ BeatLost(p)
    PROVE  NetTypeOK'
<1>0. /\ loop[p] \in Loops
      /\ Down \in Loops /\ Due \in Loops /\ Waiting \in Loops
      /\ \A retry \in BOOLEAN : Joining(retry) \in Loops
      /\ \A cat \in RegisterCatalogues, retry \in BOOLEAN : Scanned(cat, retry) \in Loops
  BY DEF NetTypeOK, Loops
<1>1. CASE Start(p)
  <2>1. loop' \in [Peers -> Loops]
    BY <1>0, <1>1, NetTypes DEF Start
  <2> QED
    BY <1>1, <2>1, NetTypes, CountTypes, NetTypesAfter DEF Start
<1>2. CASE Scan(p)
  <2> DEFINE here == {f \in Files : disk[p][f] # NoFile}
             cat  == [f \in here |-> [version |-> 0, hash |-> disk[p][f]]]
  <2>1. loop[p].retry \in BOOLEAN
    BY <1>0, <1>2, LoopFacts DEF Scan
  <2>2. \A f \in here : disk[p][f] \in Hashes
    BY NetTypes, ContentsFacts
  <2>3. cat \in [here -> Infos]
    BY <2>2, IndexAssumption DEF Infos
  <2>4. cat \in RegisterCatalogues
    BY <2>3, NetworkAssumption DEF RegisterCatalogues, Catalogues
  <2>5. loop' = [loop EXCEPT ![p] = Scanned(cat, loop[p].retry)]
    BY <1>2 DEF Scan
  <2>6. loop' \in [Peers -> Loops]
    BY <1>0, <2>1, <2>4, <2>5, NetTypes
  <2> QED
    BY <1>2, <2>6, NetTypes, CountTypes, NetTypesAfter DEF Scan
<1>3. CASE PostRegister(p)
  <2>1. loop[p].cat \in Catalogues
    BY <1>0, <1>3, LoopFacts, CatalogueFacts DEF PostRegister
  <2>2. index' = ApplyRegister(index, p, loop[p].cat)
    BY <1>3 DEF PostRegister, Register
  <2>3. PICK plan \in Plans(index') :
           jobs' = jobs \cup {Job(t) : t \in {u \in plan.queue :
                                    u.to = p /\ index'.held[p][u.file] = NoCopy}}
    BY <1>3 DEF PostRegister
  <2>4. plan.queue \subseteq Tasks
    BY <2>1, <2>2, RegisterTasks
  <2>5. jobs' \subseteq [task : Tasks, pulled : BOOLEAN]
    <3>1. \A j \in jobs' : j \in jobs \/ \E t \in plan.queue : j = Job(t)
      BY <2>3
    <3> QED
      BY <2>4, <3>1, NetTypes, JobFacts
  <2>6. loop' \in [Peers -> Loops]
    BY <1>0, <1>3, NetTypes DEF PostRegister
  <2> QED
    BY <1>3, <2>5, <2>6, NetTypes, CountTypes, NetTypesAfter DEF PostRegister
<1>4. CASE Beat(p)
  <2>1. jobs' \subseteq [task : Tasks, pulled : BOOLEAN]
    <3>1. queue \subseteq Tasks
      BY DEF Sound, TypeOK
    <3>2. jobs' = jobs \/ jobs' = jobs \cup {Job(t) : t \in {u \in queue : u.to = p}}
      BY <1>4 DEF Beat
    <3>3. \A j \in jobs' : j \in jobs \/ \E t \in queue : j = Job(t)
      BY <3>2
    <3> QED
      BY <3>1, <3>3, NetTypes, JobFacts
  <2>2. loop' \in [Peers -> Loops]
    BY <1>0, <1>4, NetTypes DEF Beat
  <2> QED
    BY <1>4, <2>1, <2>2, NetTypes, CountTypes, NetTypesAfter DEF Beat
<1>5. CASE RegisterLost(p)
  <2>1. loop[p].retry \in BOOLEAN
    BY <1>0, <1>5, LoopFacts DEF RegisterLost
  <2>2. loop' \in [Peers -> Loops]
    BY <1>0, <1>5, NetTypes DEF RegisterLost
  <2> QED
    BY <1>5, <2>2, NetTypes, CountTypes, NetTypesAfter DEF RegisterLost
<1>6. CASE BeatLost(p)
  <2>1. loop' \in [Peers -> Loops]
    BY <1>0, <1>6, NetTypes DEF BeatLost
  <2> QED
    BY <1>6, <2>1, NetTypes, CountTypes, NetTypesAfter DEF BeatLost
<1> QED
  BY <1>1, <1>2, <1>3, <1>4, <1>5, <1>6 DEF PeerStep

LEMMA JobKeepsTypes ==
    ASSUME NetTypeOK, Sound, Sound', NEW j \in jobs,
           Pull(j) \/ PullFails(j) \/ AnnouncePull(j)
    PROVE  NetTypeOK'
<1>0. /\ j \in [task : Tasks, pulled : BOOLEAN] /\ j.task \in Tasks
      /\ j.task.to \in Peers /\ j.task.file \in Files /\ j.task.src \in Peers
  BY NetTypes DEF Tasks
<1>1. CASE Pull(j)
  <2>1. [j EXCEPT !.pulled = TRUE] \in [task : Tasks, pulled : BOOLEAN]
    BY <1>0
  <2>2. jobs' \subseteq [task : Tasks, pulled : BOOLEAN]
    BY <1>1, <2>1, NetTypes DEF Pull
  <2>3. disk[j.task.src][j.task.file] \in Contents \cup {NoFile}
    BY <1>0, NetTypes
  <2>4. disk' \in [Peers -> [Files -> Contents \cup {NoFile}]]
    <3>1. \/ disk' = disk
          \/ disk' = [disk EXCEPT ![j.task.to][j.task.file] =
                             disk[j.task.src][j.task.file]]
      BY <1>1 DEF Pull
    <3> QED
      BY <1>0, <2>3, <3>1, NetTypes
  <2> QED
    BY <1>1, <2>2, <2>4, NetTypes, CountTypes, NetTypesAfter DEF Pull
<1>2. CASE AnnouncePull(j)
  <2>1. {<<j.task.to, j.task.file>>} \in SUBSET (Peers \X Files)
    BY <1>0
  <2>2. jobs' \subseteq [task : Tasks, pulled : BOOLEAN]
    BY <1>2, NetTypes DEF AnnouncePull
  <2>3. suspect' \subseteq Peers \X Files
    BY <1>2, <2>1, CountTypes DEF AnnouncePull
  <2> QED
    BY <1>2, <2>2, <2>3, NetTypes, NetTypesAfter DEF AnnouncePull
<1>3. CASE PullFails(j)
  <2>1. jobs' \subseteq [task : Tasks, pulled : BOOLEAN]
    BY <1>3, NetTypes DEF PullFails
  <2> QED
    BY <1>3, <2>1, NetTypes, CountTypes, NetTypesAfter DEF PullFails
<1> QED
  BY <1>1, <1>2, <1>3

LEMMA CommandKeepsTypes ==
    ASSUME NetTypeOK, Sound, Sound', NEW p \in Peers, CommandStep(p)
    PROVE  NetTypeOK'
<1>0. /\ command[p] \in Commands /\ Idle \in Commands
      /\ command[p].op \in {"edit", "saved", "stamped", "delete", "erased"}
            => command[p].file \in Files
      /\ command[p].op \in {"edit", "saved", "stamped"} => command[p].text \in Contents
      /\ command[p].op = "stamped" => command[p].info \in Infos
  <2>1. command[p] \in Commands
    BY NetTypes
  <2> QED
    BY <2>1, CommandFacts DEF Commands
<1>1. ASSUME NEW f \in Files, Get(p, f) PROVE NetTypeOK'
  <2>1. /\ IsIndex(index) /\ f \in DOMAIN index.files
        /\ index.files[f].hosts \in SUBSET Peers /\ index.files[f].hosts # {}
        /\ index.files[f].info \in Infos
    BY <1>1 DEF Get, HostedFiles, Sound, SoundIndex, IsIndex, Entries
  <2>2. FirstHost(f) \in Peers
    <3>1. \E q \in index.files[f].hosts : \A r \in index.files[f].hosts : q <= r
      BY <2>1, FirstPeer
    <3> QED
      BY <2>1, <3>1 DEF FirstHost
  <2> DEFINE t == [to |-> p, file |-> f, info |-> index.files[f].info, src |-> FirstHost(f)]
  <2>3. t \in Tasks
    BY <2>1, <2>2 DEF Tasks
  <2>4. jobs' = jobs \cup {Job(t)}
    BY <1>1 DEF Get
  <2>5. jobs' \subseteq [task : Tasks, pulled : BOOLEAN]
    BY <2>3, <2>4, NetTypes, JobFacts
  <2>6. given' \in [DOMAIN Limit -> Nat]
    BY <1>1, CountTypes DEF Get
  <2> QED
    BY <1>1, <2>5, <2>6, NetTypes, CountTypes, NetTypesAfter DEF Get
<1>2. ASSUME NEW f \in Files, StartUpdate(p, f) PROVE NetTypeOK'
  <2>1. /\ given["update"] \in Nat /\ given["update"] < Limit["update"]
        /\ given'["update"] = given["update"] + 1
        /\ given' \in [DOMAIN Limit -> Nat]
    BY <1>2, NetTypes, CountTypes DEF StartUpdate, Give
  <2>2. Original + given'["update"] \in Contents
    BY <2>1, ContentsFacts
  <2>3. [op |-> "edit", file |-> f, text |-> Original + given'["update"]] \in Commands
    BY <2>2 DEF Commands
  <2>4. command' = [command EXCEPT ![p] = IF disk[p][f] = NoFile THEN Idle
                    ELSE [op |-> "edit", file |-> f, text |-> Original + given'["update"]]]
    BY <1>2 DEF StartUpdate
  <2>5. command' \in [Peers -> Commands]
    BY <1>0, <2>3, <2>4, NetTypes
  <2> QED
    BY <1>2, <2>1, <2>5, NetTypes, CountTypes, NetTypesAfter DEF StartUpdate
<1>3. ASSUME NEW f \in Files, StartDelete(p, f) PROVE NetTypeOK'
  <2>1. [op |-> "delete", file |-> f] \in Commands
    BY DEF Commands
  <2>2. command' \in [Peers -> Commands]
    BY <1>3, <2>1, NetTypes DEF StartDelete
  <2>3. given' \in [DOMAIN Limit -> Nat]
    BY <1>3, CountTypes DEF StartDelete
  <2> QED
    BY <1>3, <2>2, <2>3, NetTypes, CountTypes, NetTypesAfter DEF StartDelete
<1>4. CASE Save(p)
  <2>1. command[p] \in [op : {"edit", "saved"}, file : Files, text : Contents]
    BY <1>0, <1>4 DEF Save, Commands, Idle
  <2>2. [command[p] EXCEPT !.op = "saved"] \in Commands
    BY <2>1 DEF Commands
  <2>3. command' \in [Peers -> Commands]
    BY <1>4, <2>2, NetTypes DEF Save
  <2>4. disk' \in [Peers -> [Files -> Contents \cup {NoFile}]]
    BY <1>0, <1>4, NetTypes DEF Save
  <2> QED
    BY <1>4, <2>3, <2>4, NetTypes, CountTypes, NetTypesAfter DEF Save
<1>5. CASE EditorFails(p)
  <2> DEFINE f == command[p].file
  <2>1. command' \in [Peers -> Commands]
    BY <1>0, <1>5, NetTypes DEF EditorFails
  <2>2. f \in Files /\ command[p].text \in Contents
    BY <1>0, <1>5 DEF EditorFails
  <2>3. disk' \in [Peers -> [Files -> Contents \cup {NoFile}]]
    BY <1>5, <2>2, NetTypes DEF EditorFails
  <2>4. {<<p, f>>} \in SUBSET (Peers \X Files)
    BY <2>2
  <2>5. suspect' \subseteq Peers \X Files
    BY <1>5, <2>4, CountTypes DEF EditorFails
  <2> QED
    BY <1>5, <2>1, <2>3, <2>5, NetTypes, CountTypes, NetTypesAfter DEF EditorFails
<1>6. CASE Stamp(p)
  <2> DEFINE f == command[p].file
  <2>1. f \in Files /\ command[p].text \in Contents
    BY <1>0, <1>6 DEF Stamp
  <2>2. disk[p][f] # NoFile => disk[p][f] \in Hashes
    BY <2>1, NetTypes, ContentsFacts
  <2>3. CASE disk[p][f] = NoFile
    <3>1. command' \in [Peers -> Commands]
      BY <1>0, <1>6, <2>3, NetTypes DEF Stamp
    <3>2. stamps' = stamps
      BY <1>6, <2>3 DEF Stamp
    <3> QED
      BY <1>6, <3>1, <3>2, NetTypes, CountTypes, NetTypesAfter DEF Stamp
  <2>4. CASE disk[p][f] # NoFile
    <3>1. PICK v \in Versions \ (stamps \cup {0}) :
             /\ stamps' = stamps \cup {v}
             /\ command' = [command EXCEPT ![p] =
                   [op |-> "stamped", file |-> f, text |-> command[p].text,
                    info |-> [version |-> v, hash |-> disk[p][f]]]]
      BY <1>6, <2>4 DEF Stamp
    <3>2. [op |-> "stamped", file |-> f, text |-> command[p].text,
           info |-> [version |-> v, hash |-> disk[p][f]]] \in Commands
      BY <2>1, <2>2, <2>4 DEF Commands, Infos
    <3>3. command' \in [Peers -> Commands] /\ stamps' \subseteq Versions
      BY <3>1, <3>2, NetTypes
    <3> QED
      BY <1>6, <3>3, NetTypes, CountTypes, NetTypesAfter DEF Stamp
  <2> QED
    BY <2>3, <2>4
<1>7. CASE Publish(p)
  <2>1. command' \in [Peers -> Commands]
    BY <1>0, <1>7, NetTypes DEF Publish
  <2>2. command[p].file \in Files
    BY <1>0, <1>7 DEF Publish
  <2>3. {<<p, command[p].file>>} \in SUBSET (Peers \X Files)
    BY <2>2
  <2>4. suspect' \subseteq Peers \X Files
    BY <1>7, <2>3, CountTypes DEF Publish
  <2> QED
    BY <1>7, <2>1, <2>4, NetTypes, NetTypesAfter DEF Publish
<1>8. CASE EraseFile(p)
  <2>1. command[p] \in [op : {"delete", "erased"}, file : Files]
    BY <1>0, <1>8 DEF EraseFile, Commands, Idle
  <2>2. [command[p] EXCEPT !.op = "erased"] \in Commands
    BY <2>1 DEF Commands
  <2>3. command' \in [Peers -> Commands]
    BY <1>8, <2>2, NetTypes DEF EraseFile
  <2>4. disk' \in [Peers -> [Files -> Contents \cup {NoFile}]]
    BY <1>0, <1>8, NetTypes DEF EraseFile
  <2> QED
    BY <1>8, <2>3, <2>4, NetTypes, CountTypes, NetTypesAfter DEF EraseFile
<1>9. CASE TellDeleted(p)
  <2>1. command' \in [Peers -> Commands]
    BY <1>0, <1>9, NetTypes DEF TellDeleted
  <2> QED
    BY <1>9, <2>1, NetTypes, CountTypes, NetTypesAfter DEF TellDeleted
<1> QED
  BY <1>1, <1>2, <1>3, <1>4, <1>5, <1>6, <1>7, <1>8, <1>9 DEF CommandStep

LEMMA FaultKeepsTypes ==
    ASSUME NetTypeOK, Sound, Sound',
           (\E p \in Peers : Crash(p)) \/ WriteLost \/ CrashPrimary \/ Interval \/ NetSweep
    PROVE  NetTypeOK'
<1>0. Idle \in Commands /\ Down \in Loops /\ Due \in Loops
  BY DEF Commands, Loops
<1>1. ASSUME NEW p \in Peers, Crash(p) PROVE NetTypeOK'
  <2>1. loop' \in [Peers -> Loops] /\ command' \in [Peers -> Commands]
    BY <1>0, <1>1, NetTypes DEF Crash
  <2>2. jobs' \subseteq [task : Tasks, pulled : BOOLEAN]
    BY <1>1, NetTypes DEF Crash
  <2>3. {<<p, f>> : f \in {g \in Files : Unsettled(p, g)}} \in SUBSET (Peers \X Files)
    OBVIOUS
  <2>4. suspect' \subseteq Peers \X Files
    BY <1>1, <2>3, CountTypes DEF Crash
  <2> QED
    BY <1>1, <2>1, <2>2, <2>4, NetTypes, CountTypes, NetTypesAfter DEF Crash
<1>2. CASE WriteLost
  <2>1. ASSUME NEW j \in jobs, jobs' = jobs \ {j}, UNCHANGED command,
               Mark({<<j.task.to, j.task.file>>})
        PROVE  NetTypeOK'
    <3>1. {<<j.task.to, j.task.file>>} \in SUBSET (Peers \X Files)
      BY NetTypes DEF Tasks
    <3>2. suspect' \subseteq Peers \X Files
      BY <2>1, <3>1, CountTypes
    <3> QED
      BY <1>2, <2>1, <3>2, NetTypes, CountTypes, NetTypesAfter DEF WriteLost
  <2>2. ASSUME NEW p \in Peers, command[p].op \in {"stamped", "erased"},
               command' = [command EXCEPT ![p] = Idle], UNCHANGED jobs,
               Mark({<<p, command[p].file>>})
        PROVE  NetTypeOK'
    <3>1. command[p].file \in Files
      BY <2>2, NetTypes, CommandFacts
    <3>2. {<<p, command[p].file>>} \in SUBSET (Peers \X Files)
      BY <3>1
    <3>3. suspect' \subseteq Peers \X Files
      BY <2>2, <3>2, CountTypes
    <3>4. command' \in [Peers -> Commands]
      BY <1>0, <2>2, NetTypes
    <3> QED
      BY <1>2, <2>2, <3>3, <3>4, NetTypes, CountTypes, NetTypesAfter DEF WriteLost
  <2> QED
    BY <1>2, <2>1, <2>2 DEF WriteLost
<1>3. CASE CrashPrimary
  BY <1>3, NetTypes, CountTypes, NetTypesAfter DEF CrashPrimary
<1>4. CASE Interval
  <2>1. loop' \in [Peers -> Loops]
    BY <1>0, <1>4, NetTypes DEF Interval
  <2> QED
    BY <1>4, <2>1, NetTypes, CountTypes, NetTypesAfter DEF Interval
<1>5. CASE NetSweep
  BY <1>5, NetTypes, NetTypesAfter DEF NetSweep, pvars
<1> QED
  BY <1>1, <1>2, <1>3, <1>4, <1>5

LEMMA NetKeepsTypes == NetTypeOK /\ Sound /\ Sound' /\ [NetNext]_nvars => NetTypeOK'
<1> SUFFICES ASSUME NetTypeOK, Sound, Sound', [NetNext]_nvars PROVE NetTypeOK'
  OBVIOUS
<1>1. ASSUME NEW p \in Peers, JobStep(p) PROVE NetTypeOK'
  BY <1>1, JobKeepsTypes DEF JobStep
<1>2. ASSUME NEW p \in Peers,
             \/ PeerStep(p) \/ RegisterLost(p) \/ BeatLost(p)
             \/ CommandStep(p) \/ Crash(p)
      PROVE  NetTypeOK'
  BY <1>2, PeerKeepsTypes, CommandKeepsTypes, FaultKeepsTypes
<1>3. WriteLost \/ CrashPrimary \/ Interval \/ NetSweep => NetTypeOK'
  BY FaultKeepsTypes
<1>4. ASSUME NEW j \in jobs, PullFails(j) PROVE NetTypeOK'
  BY <1>4, JobKeepsTypes
<1>5. CASE UNCHANGED nvars
  BY <1>5, NetTypes, NetTypesAfter DEF nvars, pvars
<1> QED
  BY <1>1, <1>2, <1>3, <1>4, <1>5 DEF NetNext

-----------------------------------------------------------------------------
(* What the requests do to the listing and the queue.                      *)

(* New tasks are for files as they are listed after the step.              *)
TasksListed ==
    \A t \in queue' : \/ t \in queue
                      \/ /\ t.file \in HostedFiles(index')
                         /\ t.info = index'.files[t.file].info

LEMMA PlansListed ==
    ASSUME Sound, NEW plan \in Plans(index'), queue' \subseteq plan.queue
    PROVE  TasksListed
<1>1. queue \in SUBSET Tasks
  BY DEF Sound, TypeOK
<1>2. \A t \in plan.queue : \/ t \in queue
                            \/ /\ t.file \in HostedFiles(index')
                               /\ t.info = index'.files[t.file].info
  BY <1>1, PlanInfos DEF Plans
<1> QED
  BY <1>2 DEF TasksListed

(* All requests but the reports leave the hosts they keep as they are.     *)
LEMMA OthersKeepHosts ==
    ASSUME Sound,
           \/ \E p \in Peers : Heartbeat(p)
           \/ \E p \in Peers, f \in Files : RequestLease(p, f) \/ Delete(p, f)
           \/ Sweep \/ Tick \/ Restart \/ UNCHANGED vars
    PROVE  KeepsHosts(index, index') /\ TasksListed
<1>0. IsIndex(index)
  BY DEF Sound, SoundIndex
<1>1. ASSUME NEW p \in Peers, Heartbeat(p) PROVE KeepsHosts(index, index') /\ TasksListed
  BY <1>0, <1>1, KeepHostsOps DEF Heartbeat, TasksListed
<1>2. ASSUME NEW p \in Peers, NEW f \in Files, RequestLease(p, f)
      PROVE  KeepsHosts(index, index') /\ TasksListed
  BY <1>0, <1>2, KeepHostsOps DEF RequestLease, TasksListed
<1>3. ASSUME NEW p \in Peers, NEW f \in Files, Delete(p, f)
      PROVE  KeepsHosts(index, index') /\ TasksListed
  <2>1. KeepsHosts(index, index')
    BY <1>0, <1>3, KeepHostsOps DEF Delete
  <2>2. PICK plan \in Plans(index') :
          \/ ~plan.panic /\ queue' = {t \in plan.queue : ~(t.to = p /\ t.file = f)}
          \/ plan.panic /\ queue' = plan.queue
    BY <1>3 DEF Delete
  <2>3. queue' \subseteq plan.queue
    BY <2>2
  <2> QED
    BY <2>1, <2>3, PlansListed
<1>4. CASE Sweep
  <2>1. StalePeers(index) \in SUBSET Peers
    BY DEF StalePeers, Listed
  <2> QED
    BY <1>0, <1>4, <2>1, KeepHostsOps DEF Sweep, TasksListed
<1>5. CASE Tick
  BY <1>0, <1>5, KeepHostsOps DEF Tick, TasksListed
<1>6. CASE Restart
  BY <1>0, <1>6, KeepHostsOps DEF Restart, TasksListed
<1>7. CASE UNCHANGED vars
  BY <1>0, <1>7, KeepHostsOps DEF vars, TasksListed
<1> QED
  BY <1>1, <1>2, <1>3, <1>4, <1>5, <1>6, <1>7

(* Announces are reports of one file.                                      *)
LEMMA RegisterReports ==
    ASSUME Sound, NEW p \in Peers, NEW cat \in RegisterCatalogues, Register(p, cat)
    PROVE  /\ index'.files = ApplyRegister(index, p, cat).files
           /\ index'.held = ApplyRegister(index, p, cat).held
           /\ TasksListed
<1>1. PICK plan \in Plans(index') :
        \/ ~plan.panic /\ queue' = {t \in plan.queue : t.to # p} /\ mu' = mu
        \/ plan.panic /\ queue' = plan.queue /\ mu' = "leaked"
  BY DEF Register
<1>2. queue' \subseteq plan.queue
  BY <1>1
<1>3. TasksListed
  BY <1>2, PlansListed
<1> QED
  BY <1>3 DEF Register

LEMMA AnnounceReports ==
    ASSUME Sound, NEW p \in Peers, NEW f \in Files, NEW info \in Infos,
           Announce(p, f, info, 0)
    PROVE  /\ OneFile(f, info) \in Catalogues
           /\ DOMAIN OneFile(f, info) = {f} /\ OneFile(f, info)[f] = info
           /\ index'.files = ApplyRegister(index, p, OneFile(f, info)).files
           /\ index'.held = ApplyRegister(index, p, OneFile(f, info)).held
           /\ TasksListed
<1>0. IsIndex(index) /\ 0 \in Ages
  BY NetworkAssumption, ServerAssumption DEF Sound, SoundIndex
<1>1. /\ OneFile(f, info) \in Catalogues
      /\ ApplyAnnounce(index, p, f, info, 0)
           = Dated(ApplyRegister(index, p, OneFile(f, info)), p, 0)
  BY <1>0, AnnounceFacts
<1>2. /\ index'.files = ApplyRegister(index, p, OneFile(f, info)).files
      /\ index'.held = ApplyRegister(index, p, OneFile(f, info)).held
  BY <1>1 DEF Announce, Dated
<1>3. DOMAIN OneFile(f, info) = {f} /\ OneFile(f, info)[f] = info
  BY DEF OneFile
<1>4. PICK plan \in Plans(index') : queue' = plan.queue
  BY DEF Announce
<1>5. TasksListed
  BY <1>4, PlansListed
<1> QED
  BY <1>1, <1>2, <1>3, <1>5

(* What is listed after a step was in circulation, or a scan found it.     *)
ListedKnown ==
    \A f \in HostedFiles(index') :
        Circulates(f, index'.files[f].info) \/ Plain(index'.files[f].info)

LEMMA KeptIsKnown ==
    ASSUME Sound', KeepsHosts(index, index')
    PROVE  ListedKnown
<1> SUFFICES ASSUME NEW f \in HostedFiles(index') PROVE Circulates(f, index'.files[f].info)
  BY DEF ListedKnown
<1>1. IsIndex(index')
  BY DEF Sound, SoundIndex
<1>2. PICK p \in Peers : p \in index'.files[f].hosts
  BY <1>1 DEF HostedFiles, IsIndex, Entries
<1>3. f \in HostedFiles(index) /\ index'.files[f].info = index.files[f].info
  BY <1>2 DEF KeepsHosts
<1> QED
  BY <1>3 DEF Circulates

LEMMA ReportIsKnown ==
    ASSUME Sound, NEW p \in Peers, NEW cat \in Catalogues,
           index'.files = ApplyRegister(index, p, cat).files,
           index'.held = ApplyRegister(index, p, cat).held,
           \A f \in DOMAIN cat : Circulates(f, cat[f]) \/ Plain(cat[f])
    PROVE  ListedKnown
<1> SUFFICES ASSUME NEW f \in HostedFiles(index')
             PROVE  Circulates(f, index'.files[f].info) \/ Plain(index'.files[f].info)
  BY DEF ListedKnown
<1>1. SoundIndex(index)
  BY DEF Sound
<1>2. \/ f \in HostedFiles(index) /\ index'.files[f].info = index.files[f].info
      \/ f \in DOMAIN cat /\ index'.files[f].info = cat[f]
  <2>1. /\ f \notin DOMAIN cat =>
              /\ f \in HostedFiles(index) /\ index'.files[f] = index.files[f]
              /\ \A r \in Peers : index'.held[r][f] = index.held[r][f]
        /\ f \in DOMAIN cat =>
              /\ index'.held[p][f] = cat[f].version
              /\ \A r \in Peers : r # p => index'.held[r][f] = index.held[r][f]
              /\ \A r \in index'.files[f].hosts : r # p =>
                    f \in HostedFiles(index) /\ r \in index.files[f].hosts
              /\ \/ /\ index'.files[f].info = cat[f]
                    /\ f \in HostedFiles(index) => cat[f].version >= index.files[f].info.version
                 \/ /\ f \in HostedFiles(index)
                    /\ index'.files[f].info = index.files[f].info
                    /\ index.files[f].info.version > cat[f].version
    BY <1>1, ReportEffect
  <2> QED
    BY <2>1
<1> QED
  BY <1>2 DEF Circulates

(* Nothing but scans and stamps brings anything new into circulation.      *)
LEMMA VersionsFrame ==
    ASSUME VersionsTell, stamps \subseteq stamps', ListedKnown, TasksListed,
           \A j \in jobs' :
              \/ \E k \in jobs : k.task = j.task
              \/ j.task \in queue
              \/ /\ j.task.file \in HostedFiles(index')
                 /\ j.task.info = index'.files[j.task.file].info,
           \A p \in Peers : command'[p].op = "stamped" => command'[p] = command[p]
    PROVE  VersionsTell'
<1>1. ASSUME NEW f \in Files, NEW info \in Infos, Circulates(f, info)'
      PROVE  Circulates(f, info) \/ Plain(info)
  <2>0. \/ f \in HostedFiles(index') /\ info = index'.files[f].info
        \/ \E t \in queue' : t.file = f /\ t.info = info
        \/ \E j \in jobs' : j.task.file = f /\ j.task.info = info
        \/ \E p \in Peers : /\ command'[p].op = "stamped" /\ command'[p].file = f
                            /\ command'[p].info = info
    BY <1>1 DEF Circulates
  <2>1. CASE f \in HostedFiles(index') /\ info = index'.files[f].info
    BY <2>1 DEF ListedKnown
  <2>2. CASE \E t \in queue : t.file = f /\ t.info = info
    BY <2>2 DEF Circulates
  <2>3. CASE \E t \in queue' : t.file = f /\ t.info = info
    BY <2>1, <2>2, <2>3 DEF TasksListed
  <2>4. CASE \E j \in jobs' : j.task.file = f /\ j.task.info = info
    <3>1. PICK j \in jobs' : j.task.file = f /\ j.task.info = info
      BY <2>4
    <3>2. CASE \E k \in jobs : k.task = j.task
      BY <3>1, <3>2 DEF Circulates
    <3> QED
      BY <2>1, <2>2, <3>1, <3>2
  <2>5. CASE \E p \in Peers : /\ command'[p].op = "stamped" /\ command'[p].file = f
                              /\ command'[p].info = info
    <3>1. PICK p \in Peers : /\ command'[p].op = "stamped" /\ command'[p].file = f
                             /\ command'[p].info = info
      BY <2>5
    <3>2. command'[p] = command[p]
      BY <3>1
    <3> QED
      BY <3>1, <3>2 DEF Circulates
  <2> QED
    BY <2>0, <2>1, <2>3, <2>4, <2>5
<1> QED
  BY <1>1, CirculationKept

-----------------------------------------------------------------------------
(* What each action does to the facts about versions, directories and the  *)
(* listing.                                                                *)

(* What is known of every step.                                            *)
Carried ==
    /\ NetInv
    /\ Sound' /\ NetTypeOK' /\ OverlapsNoted'
    /\ suspect \subseteq suspect'

LEMMA CarriedFacts ==
    ASSUME Carried
    PROVE  /\ Sound /\ NetTypeOK /\ OverlapsNoted /\ VersionsTell /\ Faithful
           /\ ScansHashed /\ ListingTrue
           /\ OneAtATime /\ OneAtATime' /\ IsIndex(index') /\ suspect \subseteq suspect'
<1>1. NetTypeOK /\ OverlapsNoted /\ NetTypeOK' /\ OverlapsNoted'
  BY DEF Carried, NetInv
<1>2. OneAtATime /\ OneAtATime'
  BY <1>1, OneActivity, OneActivityAfter
<1>3. IsIndex(index')
  BY DEF Carried, Sound, SoundIndex
<1> QED
  BY <1>2, <1>3 DEF Carried, NetInv, NetFacts

(* The pulled jobs go on, and so do the commands that changed the file.    *)
LEMMA UnsettledFrame ==
    ASSUME NEW p \in Peers, NEW f \in Files, ~Unsettled(p, f)',
           \A j \in jobs : j.pulled => j \in jobs',
           command[p].op \in {"saved", "stamped", "erased"} => command'[p] = command[p]
    PROVE  ~Unsettled(p, f)
BY DEF Unsettled

(* Scans and directories stay, and what stops leaves nothing unsettled at  *)
(* a host that is not suspect.                                             *)
LEMMA QuietStep ==
    ASSUME Carried, KeepsHosts(index, index'), TasksListed,
           disk' = disk, stamps' = stamps,
           \A j \in jobs' :
              \/ j \in jobs
              \/ /\ ~j.pulled
                 /\ \/ j.task \in queue
                    \/ /\ j.task.file \in HostedFiles(index')
                       /\ j.task.info = index'.files[j.task.file].info,
           \A p \in Peers : loop'[p] = loop[p] \/ loop'[p].at # "scanned",
           \A p \in Peers : \/ command'[p] = command[p]
                            \/ command'[p].op \notin {"saved", "stamped"},
           \A p \in Peers, f \in Files :
              f \in HostedFiles(index') /\ p \in index'.files[f].hosts
                 /\ <<p, f>> \notin suspect' /\ ~Unsettled(p, f)'
              => ~Unsettled(p, f)
    PROVE  NetFacts'
<1>1. VersionsTell'
  <2>1. ListedKnown
    BY KeptIsKnown DEF Carried
  <2>2. \A j \in jobs' :
              \/ \E k \in jobs : k.task = j.task
              \/ j.task \in queue
              \/ /\ j.task.file \in HostedFiles(index')
                 /\ j.task.info = index'.files[j.task.file].info
    OBVIOUS
  <2> QED
    BY <2>1, <2>2, CarriedFacts, VersionsFrame
<1>2. Faithful'
  <2>1. \A j \in jobs' : j.pulled => j \in jobs
    OBVIOUS
  <2> QED
    BY <2>1, CarriedFacts, FaithfulFrame
<1>3. ScansHashed'
  BY CarriedFacts DEF ScansHashed
<1>4. ListingTrue'
  BY CarriedFacts, ListingFrame
<1> QED
  BY <1>1, <1>2, <1>3, <1>4 DEF NetFacts

(* A peer tells the primary what is in its directory.                      *)
LEMMA ReportStep ==
    ASSUME Carried, NEW p \in Peers, NEW cat \in Catalogues,
           index'.files = ApplyRegister(index, p, cat).files,
           index'.held = ApplyRegister(index, p, cat).held,
           TasksListed, disk' = disk, stamps' = stamps,
           \A f \in DOMAIN cat : <<p, f>> \notin suspect' => disk[p][f] = cat[f].hash,
           \A f \in DOMAIN cat : Circulates(f, cat[f]) \/ Plain(cat[f]),
           \A j \in jobs' :
              \/ j \in jobs
              \/ /\ ~j.pulled
                 /\ \/ j.task \in queue
                    \/ /\ j.task.file \in HostedFiles(index')
                       /\ j.task.info = index'.files[j.task.file].info,
           \A q \in Peers : loop'[q] = loop[q] \/ loop'[q].at # "scanned",
           \A q \in Peers : \/ command'[q] = command[q]
                            \/ command'[q].op \notin {"saved", "stamped"},
           \A q \in Peers, f \in Files :
              <<q, f>> \notin suspect' /\ ~Unsettled(q, f)'
              => ~Unsettled(q, f) \/ (q = p /\ f \in DOMAIN cat)
    PROVE  NetFacts'
<1>1. VersionsTell'
  <2>1. ListedKnown
    BY CarriedFacts, ReportIsKnown
  <2>2. \A j \in jobs' :
              \/ \E k \in jobs : k.task = j.task
              \/ j.task \in queue
              \/ /\ j.task.file \in HostedFiles(index')
                 /\ j.task.info = index'.files[j.task.file].info
    OBVIOUS
  <2> QED
    BY <2>1, <2>2, CarriedFacts, VersionsFrame
<1>2. Faithful'
  <2>1. \A j \in jobs' : j.pulled => j \in jobs
    OBVIOUS
  <2> QED
    BY <2>1, CarriedFacts, FaithfulFrame
<1>3. ScansHashed'
  BY CarriedFacts DEF ScansHashed
<1>4. ListingTrue'
  <2>1. \A f \in DOMAIN cat : cat[f].version # 0 => Circulates(f, cat[f])
    BY DEF Plain
  <2> QED
    BY <2>1, CarriedFacts, ReportKeepsListing
<1> QED
  BY <1>1, <1>2, <1>3, <1>4 DEF NetFacts

(* The background loop.                                                    *)
LEMMA LoopKeepsFacts ==
    ASSUME Carried, NEW p \in Peers, Start(p) \/ Beat(p) \/ BeatLost(p)
    PROVE  NetFacts'
<1>0. Sound /\ NetTypeOK
  BY CarriedFacts
<1>1. KeepsHosts(index, index') /\ TasksListed
  <2>1. Heartbeat(p) \/ UNCHANGED vars
    BY DEF Start, Beat, BeatLost
  <2> QED
    BY <1>0, <2>1, OthersKeepHosts
<1>2. disk' = disk /\ stamps' = stamps /\ command' = command
  BY DEF Start, Beat, BeatLost
<1>3. \A j \in jobs' : j \in jobs \/ (~j.pulled /\ j.task \in queue)
  <2>1. jobs' = jobs \/ jobs' = jobs \cup {Job(t) : t \in {u \in queue : u.to = p}}
    BY DEF Start, Beat, BeatLost
  <2>2. \A j \in jobs' : j \in jobs \/ \E t \in queue : j = Job(t)
    BY <2>1
  <2>3. queue \subseteq Tasks
    BY <1>0 DEF Sound, TypeOK
  <2> QED
    BY <2>2, <2>3, JobFacts
<1>4. jobs \subseteq jobs'
  BY DEF Start, Beat, BeatLost
<1>5. \A q \in Peers : loop'[q] = loop[q] \/ loop'[q].at # "scanned"
  BY <1>0, NetTypes DEF Start, Beat, BeatLost, Joining, Waiting
<1>6. \A q \in Peers, f \in Files : ~Unsettled(q, f)' => ~Unsettled(q, f)
  BY <1>2, <1>4, UnsettledFrame
<1> QED
  BY <1>1, <1>2, <1>3, <1>5, <1>6, QuietStep

LEMMA ScanKeepsFacts ==
    ASSUME Carried, NEW p \in Peers, Scan(p)
    PROVE  NetFacts'
<1>0. /\ Sound /\ NetTypeOK /\ VersionsTell /\ Faithful /\ ScansHashed /\ ListingTrue
      /\ IsIndex(index') /\ suspect \subseteq suspect'
  BY CarriedFacts
<1> DEFINE here == {f \in Files : disk[p][f] # NoFile}
           cat  == [f \in here |-> [version |-> 0, hash |-> disk[p][f]]]
<1>1. /\ UNCHANGED <<vars, disk, jobs, command, stamps>>
      /\ loop' = [loop EXCEPT ![p] = Scanned(cat, loop[p].retry)]
  BY DEF Scan
<1>2. /\ \A q \in Peers : q # p => loop'[q] = loop[q]
      /\ loop'[p].cat = cat
  BY <1>0, <1>1, NetTypes DEF Scanned
<1>3. \A f \in DOMAIN cat : cat[f].hash = disk[p][f] /\ cat[f].hash # NoHash
  BY <1>0, NetTypes, ContentsFacts
<1> HIDE DEF cat
<1>4. KeepsHosts(index, index') /\ TasksListed
  BY <1>0, <1>1, OthersKeepHosts
<1>5. ListedKnown
  BY <1>4, KeptIsKnown DEF Carried
<1>6. VersionsTell'
  BY <1>0, <1>1, <1>4, <1>5, VersionsFrame
<1>7. Faithful'
  BY <1>0, <1>1, <1>2, <1>3 DEF Faithful
<1>8. ScansHashed'
  BY <1>0, <1>2, <1>3 DEF ScansHashed
<1>9. ListingTrue'
  <2>1. \A q \in Peers, f \in Files : ~Unsettled(q, f)' => ~Unsettled(q, f)
    BY <1>1, UnsettledFrame
  <2> QED
    BY <1>0, <1>1, <1>4, <2>1, ListingFrame
<1> QED
  BY <1>6, <1>7, <1>8, <1>9 DEF NetFacts

(* Registrations list what was scanned, and tasks of the reply start.      *)
LEMMA RegisterKeepsFacts ==
    ASSUME Carried, NEW p \in Peers, loop[p].at = "scanned", Register(p, loop[p].cat),
           PostRegister(p) \/ RegisterLost(p)
    PROVE  NetFacts'
<1> DEFINE cat == loop[p].cat
<1>0. Sound /\ NetTypeOK /\ Faithful /\ ScansHashed /\ suspect \subseteq suspect'
  BY CarriedFacts
<1>1. /\ cat \in RegisterCatalogues /\ cat \in Catalogues /\ DOMAIN cat \subseteq Files
      /\ \A f \in DOMAIN cat : cat[f].version = 0
  BY <1>0, NetTypes, LoopFacts, CatalogueFacts
<1>2. /\ index'.files = ApplyRegister(index, p, cat).files
      /\ index'.held = ApplyRegister(index, p, cat).held
      /\ TasksListed
  BY <1>0, <1>1, RegisterReports
<1>3. disk' = disk /\ stamps' = stamps /\ command' = command
  BY DEF PostRegister, RegisterLost
<1>4. \A f \in DOMAIN cat : <<p, f>> \notin suspect' => disk[p][f] = cat[f].hash
  BY <1>0, <1>1 DEF Faithful
<1>5. \A f \in DOMAIN cat : Circulates(f, cat[f]) \/ Plain(cat[f])
  BY <1>0, <1>1 DEF ScansHashed, Plain
<1>6. jobs \subseteq jobs' /\ \A j \in jobs' :
              \/ j \in jobs
              \/ /\ ~j.pulled
                 /\ \/ j.task \in queue
                    \/ /\ j.task.file \in HostedFiles(index')
                       /\ j.task.info = index'.files[j.task.file].info
  <2>1. CASE RegisterLost(p)
    BY <2>1 DEF RegisterLost
  <2>2. CASE PostRegister(p)
    <3>1. PICK plan \in Plans(index') :
             jobs' = jobs \cup {Job(t) : t \in {u \in plan.queue :
                                      u.to = p /\ index'.held[p][u.file] = NoCopy}}
      BY <2>2 DEF PostRegister
    <3>2. \A j \in jobs' : j \in jobs \/ \E t \in plan.queue : j = Job(t)
      BY <3>1
    <3>3. plan.queue \subseteq Tasks
      BY <1>0, <1>1, RegisterTasks DEF Carried, Register
    <3>4. \A t \in plan.queue : \/ t \in queue
                                \/ /\ t.file \in HostedFiles(index')
                                   /\ t.info = index'.files[t.file].info
      <4>1. queue \in SUBSET Tasks
        BY <1>0 DEF Sound, TypeOK
      <4> QED
        BY <4>1, PlanInfos DEF Plans
    <3>5. jobs \subseteq jobs'
      BY <3>1
    <3>6. \A t \in plan.queue : Job(t).task = t /\ ~Job(t).pulled
      BY <3>3, JobFacts
    <3>7. ASSUME NEW j \in jobs', j \notin jobs
          PROVE  /\ ~j.pulled
                 /\ \/ j.task \in queue
                    \/ /\ j.task.file \in HostedFiles(index')
                       /\ j.task.info = index'.files[j.task.file].info
      BY <3>2, <3>4, <3>6, <3>7
    <3> QED
      BY <3>5, <3>7
  <2> QED
    BY <2>1, <2>2
<1>7. \A q \in Peers : loop'[q] = loop[q] \/ loop'[q].at # "scanned"
  BY <1>0, NetTypes DEF PostRegister, RegisterLost, Joining, Waiting
<1>8. \A q \in Peers, f \in Files : ~Unsettled(q, f)' => ~Unsettled(q, f)
  BY <1>3, <1>6, UnsettledFrame
<1> HIDE DEF cat
<1> QED
  BY <1>1, <1>2, <1>3, <1>4, <1>5, <1>6, <1>7, <1>8, ReportStep

LEMMA LostRegisterKeepsFacts ==
    ASSUME Carried, NEW p \in Peers, RegisterLost(p), UNCHANGED vars
    PROVE  NetFacts'
<1>0. Sound /\ NetTypeOK
  BY CarriedFacts
<1>1. KeepsHosts(index, index') /\ TasksListed
  BY <1>0, OthersKeepHosts
<1>2. disk' = disk /\ stamps' = stamps /\ command' = command /\ jobs' = jobs
  BY DEF RegisterLost
<1>3. \A q \in Peers : loop'[q] = loop[q] \/ loop'[q].at # "scanned"
  BY <1>0, NetTypes DEF RegisterLost, Joining, Waiting
<1>4. \A q \in Peers, f \in Files : ~Unsettled(q, f)' => ~Unsettled(q, f)
  BY <1>2, UnsettledFrame
<1> QED
  BY <1>1, <1>2, <1>3, <1>4, QuietStep

(* Pulls.  What is pulled has the content that the task names.             *)
LEMMA PullKeepsFacts ==
    ASSUME Carried, NEW j \in jobs, Pull(j)
    PROVE  NetFacts'
<1>0. /\ Sound /\ NetTypeOK /\ VersionsTell /\ Faithful /\ ScansHashed /\ ListingTrue
      /\ OneAtATime' /\ IsIndex(index') /\ suspect \subseteq suspect'
  BY CarriedFacts
<1> DEFINE p == j.task.to
           f == j.task.file
           k == [j EXCEPT !.pulled = TRUE]
<1>1. /\ j.task \in Tasks /\ p \in Peers /\ f \in Files /\ j.task.src \in Peers
      /\ j.task.info \in Infos
      /\ k.task = j.task /\ k.pulled = TRUE
  BY <1>0, NetTypes DEF Tasks
<1>2. KeepsHosts(index, index') /\ TasksListed
  BY <1>0, OthersKeepHosts DEF Pull
<1>3. /\ UNCHANGED <<vars, loop, command, stamps>> /\ j.pulled # TRUE
  BY DEF Pull
<1>4. CASE ~Offers(j.task)
  <2>1. disk' = disk /\ jobs' = jobs \ {j}
    BY <1>4 DEF Pull
  <2>2. \A q \in Peers, g \in Files : ~Unsettled(q, g)' => ~Unsettled(q, g)
    BY <1>3, <2>1, UnsettledFrame
  <2> QED
    BY <1>2, <1>3, <2>1, <2>2, QuietStep
<1>5. CASE Offers(j.task)
  <2>1. /\ disk' = [disk EXCEPT ![p][f] = disk[j.task.src][f]]
        /\ jobs' = (jobs \ {j}) \cup {k}
    BY <1>5 DEF Pull
  <2>2. Circulates(f, j.task.info)
    BY DEF Circulates
  <2>3. disk[j.task.src][f] = j.task.info.hash
    <3>1. j.task.info.hash # NoHash
      BY <1>0, <1>1, <2>2 DEF VersionsTell
    <3> QED
      BY <1>5, <3>1 DEF Offers
  <2>4. /\ disk'[p][f] = j.task.info.hash
        /\ \A q \in Peers, g \in Files : ~(q = p /\ g = f) => disk'[q][g] = disk[q][g]
    BY <1>0, <1>1, <2>1, <2>3, NetTypes
  <2> HIDE DEF k, p, f
  <2>5. VersionsTell'
    <3>1. ListedKnown
      BY <1>2, KeptIsKnown DEF Carried
    <3>2. \A l \in jobs' : \E m \in jobs : m.task = l.task
      BY <1>1, <2>1
    <3> QED
      BY <1>0, <1>2, <1>3, <3>1, <3>2, VersionsFrame
  <2>6. Faithful'
    <3> SUFFICES ASSUME NEW q \in Peers, NEW g \in Files, <<q, g>> \notin suspect'
                 PROVE  /\ loop[q].at = "scanned" /\ g \in DOMAIN loop[q].cat =>
                              disk'[q][g] = loop[q].cat[g].hash
                        /\ \A l \in jobs' : l.pulled /\ l.task.to = q /\ l.task.file = g =>
                              disk'[q][g] = l.task.info.hash
                        /\ command[q].file = g /\ command[q].op = "saved" =>
                              disk'[q][g] = command[q].text
                        /\ command[q].file = g /\ command[q].op = "stamped" =>
                              /\ disk'[q][g] = command[q].info.hash
                              /\ command[q].info.hash = command[q].text
      BY <1>3 DEF Faithful
    <3>1. CASE q = p /\ g = f
      <4>1. k \in jobs' /\ k.task.to = q /\ k.task.file = g
        BY <1>1, <2>1, <3>1 DEF p, f
      <4>2. /\ command[q].file # g
            /\ ~(loop[q].at = "scanned" /\ g \in DOMAIN loop[q].cat)
            /\ \A l \in jobs' : l.task.to = q /\ l.task.file = g => l = k
        BY <1>0, <1>3, <4>1 DEF OneAtATime
      <4> QED
        BY <1>1, <2>4, <3>1, <4>2
    <3>2. CASE ~(q = p /\ g = f)
      <4>1. \A l \in jobs' : l.task.to = q /\ l.task.file = g => l \in jobs
        BY <1>1, <2>1, <3>2 DEF p, f
      <4>2. disk'[q][g] = disk[q][g] /\ <<q, g>> \notin suspect
        BY <1>0, <2>4, <3>2
      <4> QED
        BY <1>0, <4>1, <4>2 DEF Faithful
    <3> QED
      BY <3>1, <3>2
  <2>7. ScansHashed'
    BY <1>0, <1>3 DEF ScansHashed
  <2>8. ListingTrue'
    <3>1. ASSUME NEW q \in Peers, NEW g \in Files, ~Unsettled(q, g)'
          PROVE  ~Unsettled(q, g) /\ disk'[q][g] = disk[q][g]
      <4>1. k \in jobs'
        BY <2>1
      <4>2. ~(q = p /\ g = f)
        BY <1>1, <3>1, <4>1 DEF Unsettled, p, f
      <4>3. \A l \in jobs : l.pulled => l \in jobs'
        BY <1>3, <2>1
      <4> QED
        BY <1>3, <2>4, <3>1, <4>2, <4>3, UnsettledFrame
    <3> QED
      BY <1>0, <1>2, <3>1, ListingFrame
  <2> QED
    BY <2>5, <2>6, <2>7, <2>8 DEF NetFacts
<1> QED
  BY <1>4, <1>5

LEMMA PullFailsKeepsFacts ==
    ASSUME Carried, NEW j \in jobs, PullFails(j)
    PROVE  NetFacts'
<1>1. KeepsHosts(index, index') /\ TasksListed
  BY CarriedFacts, OthersKeepHosts DEF PullFails
<1>2. UNCHANGED <<disk, loop, command, stamps>> /\ jobs' = jobs \ {j} /\ ~j.pulled
  BY DEF PullFails
<1>3. \A q \in Peers, g \in Files : ~Unsettled(q, g)' => ~Unsettled(q, g)
  BY <1>2, UnsettledFrame
<1> QED
  BY <1>1, <1>2, <1>3, QuietStep

LEMMA AnnouncePullKeepsFacts ==
    ASSUME Carried, NEW j \in jobs, AnnouncePull(j)
    PROVE  NetFacts'
<1>0. Sound /\ NetTypeOK /\ Faithful /\ suspect \subseteq suspect'
  BY CarriedFacts
<1> DEFINE p == j.task.to
           f == j.task.file
           info == j.task.info
<1>1. p \in Peers /\ f \in Files /\ info \in Infos
  BY <1>0, NetTypes DEF Tasks
<1>2. /\ j.pulled /\ jobs' = jobs \ {j}
      /\ disk' = disk /\ stamps' = stamps /\ loop' = loop /\ command' = command
  BY DEF AnnouncePull
<1>3. \A q \in Peers, g \in Files :
         ~Unsettled(q, g)' => ~Unsettled(q, g) \/ (q = p /\ g = f)
  BY <1>2 DEF Unsettled
<1>4. CASE Announce(p, f, info, 0)
  <2>1. /\ OneFile(f, info) \in Catalogues
        /\ DOMAIN OneFile(f, info) = {f} /\ OneFile(f, info)[f] = info
        /\ index'.files = ApplyRegister(index, p, OneFile(f, info)).files
        /\ index'.held = ApplyRegister(index, p, OneFile(f, info)).held
        /\ TasksListed
    BY <1>0, <1>1, <1>4, AnnounceReports
  <2>2. <<p, f>> \notin suspect' => disk[p][f] = info.hash
    BY <1>0, <1>1, <1>2 DEF Faithful
  <2>3. Circulates(f, info)
    BY DEF Circulates
  <2> HIDE DEF p, f, info
  <2> DEFINE cat == OneFile(f, info)
  <2>4. /\ \A g \in DOMAIN cat : <<p, g>> \notin suspect' => disk[p][g] = cat[g].hash
        /\ \A g \in DOMAIN cat : Circulates(g, cat[g]) \/ Plain(cat[g])
        /\ \A q \in Peers, g \in Files :
              <<q, g>> \notin suspect' /\ ~Unsettled(q, g)'
              => ~Unsettled(q, g) \/ (q = p /\ g \in DOMAIN cat)
    BY <1>3, <2>1, <2>2, <2>3
  <2> HIDE DEF cat
  <2>5. /\ cat \in Catalogues
        /\ index'.files = ApplyRegister(index, p, cat).files
        /\ index'.held = ApplyRegister(index, p, cat).held
    BY <2>1 DEF cat
  <2> QED
    BY <1>1, <1>2, <2>1, <2>4, <2>5, ReportStep
<1>5. CASE UNCHANGED vars /\ Mark({<<p, f>>})
  <2>1. KeepsHosts(index, index') /\ TasksListed
    BY <1>0, <1>5, OthersKeepHosts
  <2>2. <<p, f>> \in suspect'
    BY <1>5 DEF Mark
  <2> HIDE DEF p, f, info
  <2> QED
    BY <1>2, <1>3, <2>1, <2>2, QuietStep
<1> QED
  BY <1>4, <1>5 DEF AnnouncePull

(* Commands that change neither a directory nor what an update carries.    *)
LEMMA StartsKeepFacts ==
    ASSUME Carried, NEW p \in Peers, NEW f \in Files,
           Get(p, f) \/ StartUpdate(p, f) \/ StartDelete(p, f)
    PROVE  NetFacts'
<1>0. Sound /\ NetTypeOK
  BY CarriedFacts
<1>1. KeepsHosts(index, index') /\ TasksListed
  <2>1. RequestLease(p, f) \/ UNCHANGED vars
    BY DEF Get, StartUpdate, StartDelete
  <2> QED
    BY <1>0, <2>1, OthersKeepHosts
<1>2. disk' = disk /\ stamps' = stamps /\ loop' = loop
  BY DEF Get, StartUpdate, StartDelete
<1>3. command[p].op = "none"
  BY DEF Get, StartUpdate, StartDelete, Give, Idle
<1>4. \A q \in Peers : \/ command'[q] = command[q]
                       \/ q = p /\ command'[q].op \in {"none", "edit", "delete"}
  BY <1>0, NetTypes DEF Get, StartUpdate, StartDelete, Idle
<1>5. jobs \subseteq jobs' /\ \A j \in jobs' :
         \/ j \in jobs
         \/ /\ ~j.pulled
            /\ j.task.file \in HostedFiles(index')
            /\ j.task.info = index'.files[j.task.file].info
  <2>1. CASE Get(p, f)
    <3> DEFINE t == [to |-> p, file |-> f, info |-> index.files[f].info, src |-> FirstHost(f)]
    <3>1. jobs' = jobs \cup {Job(t)} /\ index' = index /\ f \in HostedFiles(index)
      BY <2>1 DEF Get, vars
    <3>2. Job(t).task = t /\ Job(t).pulled = FALSE
      BY DEF Job
    <3> QED
      BY <3>1, <3>2
  <2>2. CASE StartUpdate(p, f) \/ StartDelete(p, f)
    BY <2>2 DEF StartUpdate, StartDelete
  <2> QED
    BY <2>1, <2>2
<1>6. \A q \in Peers, g \in Files : ~Unsettled(q, g)' => ~Unsettled(q, g)
  BY <1>3, <1>4, <1>5, UnsettledFrame
<1> QED
  BY <1>1, <1>2, <1>4, <1>5, <1>6, QuietStep

(* What the editor left behind when it failed makes its peer suspect.      *)
LEMMA EditorFailsKeepsFacts ==
    ASSUME Carried, NEW p \in Peers, EditorFails(p)
    PROVE  NetFacts'
<1>0. /\ Sound /\ NetTypeOK /\ VersionsTell /\ Faithful /\ ScansHashed /\ ListingTrue
      /\ IsIndex(index') /\ suspect \subseteq suspect'
  BY CarriedFacts
<1> DEFINE f == command[p].file
<1>1. KeepsHosts(index, index') /\ TasksListed
  BY <1>0, OthersKeepHosts DEF EditorFails
<1>2. UNCHANGED <<vars, loop, jobs, stamps>> /\ command[p].op = "edit"
  BY DEF EditorFails
<1>3. \A q \in Peers : \/ command'[q] = command[q]
                       \/ q = p /\ command'[q].op = "none"
  BY <1>0, NetTypes DEF EditorFails, Idle
<1>4. \A q \in Peers, g \in Files : ~Unsettled(q, g)' => ~Unsettled(q, g)
  BY <1>2, <1>3, UnsettledFrame
<1>5. CASE disk' = disk
  BY <1>1, <1>2, <1>3, <1>4, <1>5, QuietStep
<1>6. CASE disk' = [disk EXCEPT ![p][f] = command[p].text] /\ Mark({<<p, f>>})
  <2>1. \A q \in Peers, g \in Files :
           <<q, g>> \notin suspect' => disk'[q][g] = disk[q][g] /\ <<q, g>> \notin suspect
    <3>1. <<p, f>> \in suspect'
      BY <1>6 DEF Mark
    <3> HIDE DEF f
    <3> QED
      BY <1>0, <1>6, <3>1, NetTypes
  <2> HIDE DEF f
  <2>2. VersionsTell'
    <3>1. ListedKnown
      BY <1>1, KeptIsKnown DEF Carried
    <3> QED
      BY <1>0, <1>1, <1>2, <1>3, <3>1, VersionsFrame
  <2>3. Faithful'
    BY <1>0, <1>2, <1>3, <2>1 DEF Faithful
  <2>4. ScansHashed'
    BY <1>0, <1>2 DEF ScansHashed
  <2>5. ListingTrue'
    BY <1>0, <1>1, <1>4, <2>1, ListingFrame
  <2> QED
    BY <2>2, <2>3, <2>4, <2>5 DEF NetFacts
<1> QED
  BY <1>5, <1>6 DEF EditorFails

(* The editor and the delete change the file of their command, and leave   *)
(* it unsettled.                                                           *)
LEMMA EditsKeepFacts ==
    ASSUME Carried, NEW p \in Peers, Save(p) \/ EraseFile(p)
    PROVE  NetFacts'
<1>0. /\ Sound /\ NetTypeOK /\ VersionsTell /\ Faithful /\ ScansHashed /\ ListingTrue
      /\ OneAtATime' /\ IsIndex(index') /\ suspect \subseteq suspect'
  BY CarriedFacts
<1> DEFINE f == command[p].file
<1>1. UNCHANGED <<vars, loop, jobs, stamps>>
  BY DEF Save, EraseFile
<1>2. command[p] \in Commands /\ command[p].op \in {"edit", "delete"}
  BY <1>0, NetTypes DEF Save, EraseFile
<1>3. f \in Files
  BY <1>2, CommandFacts
<1>4. /\ \A q \in Peers : q # p => command'[q] = command[q]
      /\ command'[p].file = f
      /\ \/ /\ command'[p].op = "saved"
            /\ disk'[p][f] = command[p].text /\ command'[p].text = command[p].text
         \/ command'[p].op = "erased"
      /\ \A q \in Peers, g \in Files : ~(q = p /\ g = f) => disk'[q][g] = disk[q][g]
  <2>1. CASE Save(p)
    <3>1. command[p] \in [op : {"edit", "saved"}, file : Files, text : Contents]
      BY <1>2, <2>1 DEF Save, Commands, Idle
    <3>2. command' = [command EXCEPT ![p].op = "saved"]
          /\ disk' = [disk EXCEPT ![p][f] = command[p].text]
      BY <2>1 DEF Save
    <3> QED
      BY <1>0, <1>3, <3>1, <3>2, NetTypes
  <2>2. CASE EraseFile(p)
    <3>1. command[p] \in [op : {"delete", "erased"}, file : Files]
      BY <1>2, <2>2 DEF EraseFile, Commands, Idle
    <3>2. command' = [command EXCEPT ![p].op = "erased"]
          /\ disk' = [disk EXCEPT ![p][f] = NoFile]
      BY <2>2 DEF EraseFile
    <3> QED
      BY <1>0, <1>3, <3>1, <3>2, NetTypes
  <2> QED
    BY <2>1, <2>2
<1> HIDE DEF f
<1>5. KeepsHosts(index, index') /\ TasksListed
  BY <1>0, <1>1, OthersKeepHosts
<1>6. VersionsTell'
  <2>1. ListedKnown
    BY <1>5, KeptIsKnown DEF Carried
  <2> QED
    BY <1>0, <1>1, <1>4, <1>5, <2>1, VersionsFrame
<1>7. Faithful'
  <2> SUFFICES ASSUME NEW q \in Peers, NEW g \in Files, <<q, g>> \notin suspect'
               PROVE  /\ loop[q].at = "scanned" /\ g \in DOMAIN loop[q].cat =>
                            disk'[q][g] = loop[q].cat[g].hash
                      /\ \A l \in jobs : l.pulled /\ l.task.to = q /\ l.task.file = g =>
                            disk'[q][g] = l.task.info.hash
                      /\ command'[q].file = g /\ command'[q].op = "saved" =>
                            disk'[q][g] = command'[q].text
                      /\ command'[q].file = g /\ command'[q].op = "stamped" =>
                            /\ disk'[q][g] = command'[q].info.hash
                            /\ command'[q].info.hash = command'[q].text
    BY <1>1 DEF Faithful
  <2>1. CASE q = p /\ g = f
    <3>1. /\ ~(loop[q].at = "scanned" /\ g \in DOMAIN loop[q].cat)
          /\ \A l \in jobs : ~(l.task.to = q /\ l.task.file = g)
      BY <1>0, <1>1, <1>4, <2>1 DEF OneAtATime
    <3> QED
      BY <1>4, <2>1, <3>1
  <2>2. CASE ~(q = p /\ g = f)
    <3>1. disk'[q][g] = disk[q][g] /\ <<q, g>> \notin suspect
      BY <1>0, <1>4, <2>2
    <3> QED
      BY <1>0, <1>4, <2>2, <3>1 DEF Faithful
  <2> QED
    BY <2>1, <2>2
<1>8. ScansHashed'
  BY <1>0, <1>1 DEF ScansHashed
<1>9. ListingTrue'
  <2>1. ASSUME NEW q \in Peers, NEW g \in Files, ~Unsettled(q, g)'
        PROVE  ~Unsettled(q, g) /\ disk'[q][g] = disk[q][g]
    <3>1. ~(q = p /\ g = f)
      BY <1>4, <2>1 DEF Unsettled
    <3>2. command[q].op \in {"saved", "stamped", "erased"} => command'[q] = command[q]
      BY <1>2, <1>4
    <3> QED
      BY <1>1, <1>4, <2>1, <3>1, <3>2, UnsettledFrame
  <2> QED
    BY <1>0, <1>5, <2>1, ListingFrame
<1> QED
  BY <1>6, <1>7, <1>8, <1>9 DEF NetFacts

(* A stamp is a version that no file had before.                           *)
LEMMA StampKeepsFacts ==
    ASSUME Carried, NEW p \in Peers, Stamp(p)
    PROVE  NetFacts'
<1>0. /\ Sound /\ NetTypeOK /\ VersionsTell /\ Faithful /\ ScansHashed /\ ListingTrue
      /\ IsIndex(index') /\ suspect \subseteq suspect'
  BY CarriedFacts
<1> DEFINE f == command[p].file
<1>1. UNCHANGED <<vars, disk, loop, jobs>> /\ command[p].op = "saved"
  BY DEF Stamp
<1>2. f \in Files /\ command[p].text \in Contents
  BY <1>0, <1>1, NetTypes, CommandFacts
<1>3. KeepsHosts(index, index') /\ TasksListed
  BY <1>0, <1>1, OthersKeepHosts
<1>4. CASE disk[p][f] = NoFile
  <2>1. command' = [command EXCEPT ![p] = Idle] /\ stamps' = stamps
    BY <1>4 DEF Stamp
  <2>2. \A q \in Peers : command'[q] = command[q] \/ (q = p /\ command'[q].op = "none")
    BY <1>0, <2>1, NetTypes DEF Idle
  <2>3. <<p, f>> \in suspect'
    BY <1>0, <1>1, <1>2, <1>4, ContentsFacts DEF Faithful
  <2>4. \A q \in Peers, g \in Files :
           <<q, g>> \notin suspect' /\ ~Unsettled(q, g)' => ~Unsettled(q, g)
    BY <1>1, <2>2, <2>3 DEF Unsettled
  <2> QED
    BY <1>1, <1>3, <2>1, <2>2, <2>4, QuietStep
<1>5. CASE disk[p][f] # NoFile
  <2>1. PICK v \in Versions \ (stamps \cup {0}) :
           /\ stamps' = stamps \cup {v}
           /\ command' = [command EXCEPT ![p] =
                 [op |-> "stamped", file |-> f, text |-> command[p].text,
                  info |-> [version |-> v, hash |-> disk[p][f]]]]
    BY <1>5 DEF Stamp
  <2> DEFINE info == [version |-> v, hash |-> disk[p][f]]
  <2>2. /\ \A q \in Peers : q # p => command'[q] = command[q]
        /\ command'[p].op = "stamped" /\ command'[p].file = f
        /\ command'[p].text = command[p].text /\ command'[p].info = info
    BY <1>0, <2>1, NetTypes
  <2>3. info.version = v /\ info.hash = disk[p][f] /\ info.hash # NoHash
    BY <1>0, <1>2, <1>5, NetTypes, ContentsFacts
  <2> HIDE DEF f, info
  <2>4. VersionsTell'
    <3>1. ASSUME NEW g \in Files, NEW a, Circulates(g, a)'
          PROVE  Circulates(g, a) \/ (g = f /\ a = info)
      <4>1. CASE \E q \in Peers : /\ command'[q].op = "stamped" /\ command'[q].file = g
                                  /\ command'[q].info = a
        <5>1. PICK q \in Peers : /\ command'[q].op = "stamped" /\ command'[q].file = g
                                 /\ command'[q].info = a
          BY <4>1
        <5>2. CASE q = p
          BY <2>2, <5>1, <5>2
        <5>3. CASE q # p
          BY <2>2, <5>1, <5>3 DEF Circulates
        <5> QED
          BY <5>2, <5>3
      <4>2. CASE \/ g \in HostedFiles(index') /\ a = index'.files[g].info
                 \/ \E t \in queue' : t.file = g /\ t.info = a
                 \/ \E j \in jobs' : j.task.file = g /\ j.task.info = a
        BY <1>1, <4>2 DEF Circulates, vars
      <4> QED
        BY <3>1, <4>1, <4>2 DEF Circulates
    <3> SUFFICES ASSUME NEW g \in Files, NEW a \in Infos, NEW b \in Infos, Circulates(g, a)'
                 PROVE  /\ a.hash # NoHash
                        /\ a.version \in stamps' \cup {0}
                        /\ Circulates(g, b)' /\ a.version = b.version /\ a.version # 0
                               => a.hash = b.hash
      BY DEF VersionsTell
    <3>2. \A c \in Infos : Circulates(g, c)' => Circulates(g, c) \/ c = info
      BY <3>1
    <3>3. \A c \in Infos : Circulates(g, c) => /\ c.hash # NoHash
                                               /\ c.version \in stamps \cup {0}
                                               /\ c.version # v
      BY <1>0, <2>1 DEF VersionsTell
    <3>4. Circulates(g, a) /\ Circulates(g, b) /\ a.version = b.version /\ a.version # 0
             => a.hash = b.hash
      BY <1>0 DEF VersionsTell
    <3> QED
      BY <2>1, <2>3, <3>2, <3>3, <3>4
  <2>5. Faithful'
    <3> SUFFICES ASSUME NEW q \in Peers, NEW g \in Files, <<q, g>> \notin suspect'
                 PROVE  /\ loop[q].at = "scanned" /\ g \in DOMAIN loop[q].cat =>
                              disk[q][g] = loop[q].cat[g].hash
                        /\ \A l \in jobs : l.pulled /\ l.task.to = q /\ l.task.file = g =>
                              disk[q][g] = l.task.info.hash
                        /\ command'[q].file = g /\ command'[q].op = "saved" =>
                              disk[q][g] = command'[q].text
                        /\ command'[q].file = g /\ command'[q].op = "stamped" =>
                              /\ disk[q][g] = command'[q].info.hash
                              /\ command'[q].info.hash = command'[q].text
      BY <1>1 DEF Faithful
    <3>1. <<q, g>> \notin suspect
      BY <1>0
    <3>2. q = p /\ g = f => disk[q][g] = command[p].text
      BY <1>0, <1>1, <3>1 DEF Faithful, f
    <3>3. /\ command'[q].file = g /\ command'[q].op = "saved" =>
                disk[q][g] = command'[q].text
          /\ command'[q].file = g /\ command'[q].op = "stamped" =>
                /\ disk[q][g] = command'[q].info.hash
                /\ command'[q].info.hash = command'[q].text
      <4>1. CASE q = p
        BY <2>2, <2>3, <3>2, <4>1
      <4>2. CASE q # p
        BY <1>0, <2>2, <3>1, <4>2 DEF Faithful
      <4> QED
        BY <4>1, <4>2
    <3> QED
      BY <1>0, <3>1, <3>3 DEF Faithful
  <2>6. ScansHashed'
    BY <1>0, <1>1 DEF ScansHashed
  <2>7. ListingTrue'
    <3>1. \A q \in Peers, g \in Files : ~Unsettled(q, g)' => ~Unsettled(q, g)
      BY <1>1, <2>2 DEF Unsettled, f
    <3> QED
      BY <1>0, <1>1, <1>3, <3>1, ListingFrame
  <2> QED
    BY <2>4, <2>5, <2>6, <2>7 DEF NetFacts
<1> QED
  BY <1>4, <1>5

LEMMA PublishKeepsFacts ==
    ASSUME Carried, NEW p \in Peers, Publish(p)
    PROVE  NetFacts'
<1>0. Sound /\ NetTypeOK /\ Faithful /\ suspect \subseteq suspect'
  BY CarriedFacts
<1> DEFINE f == command[p].file
           info == command[p].info
<1>1. UNCHANGED <<disk, loop, jobs, stamps>> /\ command[p].op = "stamped"
  BY DEF Publish
<1>2. f \in Files /\ info \in Infos
  BY <1>0, <1>1, NetTypes, CommandFacts
<1>3. \A q \in Peers : \/ command'[q] = command[q]
                       \/ q = p /\ command'[q].op = "none"
  BY <1>0, NetTypes DEF Publish, Idle
<1>4. \A q \in Peers, g \in Files :
         ~Unsettled(q, g)' => ~Unsettled(q, g) \/ (q = p /\ g = f)
  BY <1>1, <1>3 DEF Unsettled
<1>5. CASE Announce(p, f, info, 0)
  <2>1. /\ OneFile(f, info) \in Catalogues
        /\ DOMAIN OneFile(f, info) = {f} /\ OneFile(f, info)[f] = info
        /\ index'.files = ApplyRegister(index, p, OneFile(f, info)).files
        /\ index'.held = ApplyRegister(index, p, OneFile(f, info)).held
        /\ TasksListed
    BY <1>0, <1>2, <1>5, AnnounceReports
  <2>2. <<p, f>> \notin suspect' => disk[p][f] = info.hash
    BY <1>0, <1>1, <1>2 DEF Faithful
  <2>3. Circulates(f, info)
    BY <1>1 DEF Circulates
  <2> HIDE DEF f, info
  <2> DEFINE cat == OneFile(f, info)
  <2>4. /\ \A g \in DOMAIN cat : <<p, g>> \notin suspect' => disk[p][g] = cat[g].hash
        /\ \A g \in DOMAIN cat : Circulates(g, cat[g]) \/ Plain(cat[g])
        /\ \A q \in Peers, g \in Files :
              <<q, g>> \notin suspect' /\ ~Unsettled(q, g)'
              => ~Unsettled(q, g) \/ (q = p /\ g \in DOMAIN cat)
    BY <1>4, <2>1, <2>2, <2>3
  <2> HIDE DEF cat
  <2>5. /\ cat \in Catalogues
        /\ index'.files = ApplyRegister(index, p, cat).files
        /\ index'.held = ApplyRegister(index, p, cat).held
    BY <2>1 DEF cat
  <2> QED
    BY <1>1, <1>3, <2>1, <2>4, <2>5, ReportStep
<1>6. CASE UNCHANGED vars /\ Mark({<<p, f>>})
  <2>1. KeepsHosts(index, index') /\ TasksListed
    BY <1>0, <1>6, OthersKeepHosts
  <2>2. <<p, f>> \in suspect'
    BY <1>6 DEF Mark
  <2> HIDE DEF f, info
  <2> QED
    BY <1>1, <1>3, <1>4, <2>1, <2>2, QuietStep
<1> QED
  BY <1>5, <1>6 DEF Publish, Publishes

(* A delete that has been told of leaves no host behind that lacks the     *)
(* file.                                                                   *)
LEMMA TellDeletedKeepsFacts ==
    ASSUME Carried, NEW p \in Peers, TellDeleted(p)
    PROVE  NetFacts'
<1>0. Sound /\ NetTypeOK
  BY CarriedFacts
<1> DEFINE f == command[p].file
<1>1. UNCHANGED <<disk, loop, jobs, stamps>> /\ command[p].op = "erased"
  BY DEF TellDeleted
<1>2. f \in Files
  BY <1>0, <1>1, NetTypes, CommandFacts
<1>3. \A q \in Peers : \/ command'[q] = command[q]
                       \/ q = p /\ command'[q].op = "none"
  BY <1>0, NetTypes DEF TellDeleted, Idle
<1>4. Delete(p, f) \/ (UNCHANGED vars /\ (f \in DOMAIN index.files
                                            => p \notin index.files[f].hosts))
  BY DEF TellDeleted, Deletes
<1>5. KeepsHosts(index, index') /\ TasksListed
  BY <1>0, <1>2, <1>4, OthersKeepHosts
<1>6. f \in HostedFiles(index') => p \notin index'.files[f].hosts
  <2>1. CASE Delete(p, f)
    <3>1. f \in DOMAIN index.files /\ index' = DropHost(index, p, f)
      BY <2>1 DEF Delete
    <3>2. f \in DOMAIN index'.files => index'.files[f].hosts = index.files[f].hosts \ {p}
      BY <3>1 DEF DropHost, KeepHosts
    <3> QED
      BY <3>2 DEF HostedFiles
  <2>2. CASE UNCHANGED vars /\ (f \in DOMAIN index.files => p \notin index.files[f].hosts)
    BY <2>2 DEF vars, HostedFiles
  <2> QED
    BY <1>4, <2>1, <2>2
<1>7. \A q \in Peers, g \in Files :
         ~Unsettled(q, g)' => ~Unsettled(q, g) \/ (q = p /\ g = f)
  BY <1>1, <1>3 DEF Unsettled
<1> HIDE DEF f
<1> QED
  BY <1>1, <1>3, <1>5, <1>6, <1>7, QuietStep

(* What a fault leaves unsettled becomes suspect.                          *)
LEMMA FaultsKeepFacts ==
    ASSUME Carried,
           (\E p \in Peers : Crash(p)) \/ WriteLost \/ CrashPrimary \/ Interval \/ NetSweep
    PROVE  NetFacts'
<1>0. Sound /\ NetTypeOK
  BY CarriedFacts
<1>1. ASSUME NEW p \in Peers, Crash(p) PROVE NetFacts'
  <2>1. KeepsHosts(index, index') /\ TasksListed
    BY <1>0, <1>1, OthersKeepHosts DEF Crash
  <2>2. /\ disk' = disk /\ stamps' = stamps
        /\ jobs' = {j \in jobs : j.task.to # p}
    BY <1>1 DEF Crash
  <2>3. \A q \in Peers : \/ command'[q] = command[q] /\ loop'[q] = loop[q]
                         \/ q = p /\ command'[q].op = "none" /\ loop'[q].at = "down"
    BY <1>0, <1>1, NetTypes DEF Crash, Idle, Down
  <2>4. \A q \in Peers, g \in Files :
           <<q, g>> \notin suspect' /\ ~Unsettled(q, g)' => ~Unsettled(q, g)
    <3>1. \A g \in Files : Unsettled(p, g) => <<p, g>> \in suspect'
      BY <1>1 DEF Crash, Mark
    <3>2. \A q \in Peers, g \in Files : q # p /\ ~Unsettled(q, g)' => ~Unsettled(q, g)
      BY <2>2, <2>3 DEF Unsettled
    <3> QED
      BY <3>1, <3>2
  <2>5. \A j \in jobs' : j \in jobs
    BY <2>2
  <2> QED
    BY <2>1, <2>2, <2>3, <2>4, <2>5, QuietStep
<1>2. CASE WriteLost
  <2>1. KeepsHosts(index, index') /\ TasksListed
    BY <1>0, <1>2, OthersKeepHosts DEF WriteLost
  <2>2. UNCHANGED <<disk, loop, stamps>>
    BY <1>2 DEF WriteLost
  <2>3. ASSUME NEW j \in jobs, jobs' = jobs \ {j}, UNCHANGED command,
               Mark({<<j.task.to, j.task.file>>})
        PROVE  NetFacts'
    <3>1. <<j.task.to, j.task.file>> \in suspect'
      BY <2>3 DEF Mark
    <3>2. \A q \in Peers, g \in Files :
             <<q, g>> \notin suspect' /\ ~Unsettled(q, g)' => ~Unsettled(q, g)
      BY <2>3, <3>1 DEF Unsettled
    <3>3. \A k \in jobs' : k \in jobs
      BY <2>3
    <3> QED
      BY <2>1, <2>2, <2>3, <3>2, <3>3, QuietStep
  <2>4. ASSUME NEW p \in Peers, command' = [command EXCEPT ![p] = Idle], UNCHANGED jobs,
               Mark({<<p, command[p].file>>})
        PROVE  NetFacts'
    <3>1. <<p, command[p].file>> \in suspect'
      BY <2>4 DEF Mark
    <3>2. \A q \in Peers : command'[q] = command[q] \/ (q = p /\ command'[q].op = "none")
      BY <1>0, <2>4, NetTypes DEF Idle
    <3>3. \A q \in Peers, g \in Files :
             <<q, g>> \notin suspect' /\ ~Unsettled(q, g)' => ~Unsettled(q, g)
      BY <2>4, <3>1, <3>2 DEF Unsettled
    <3> QED
      BY <2>1, <2>2, <2>4, <3>2, <3>3, QuietStep
  <2> QED
    BY <1>2, <2>3, <2>4 DEF WriteLost
<1>3. CASE CrashPrimary \/ Interval \/ NetSweep
  <2>1. KeepsHosts(index, index') /\ TasksListed
    BY <1>0, <1>3, OthersKeepHosts DEF CrashPrimary, Interval, NetSweep
  <2>2. UNCHANGED <<disk, jobs, command, stamps>>
    BY <1>3 DEF CrashPrimary, Interval, NetSweep, pvars
  <2>3. \A q \in Peers : loop'[q] = loop[q] \/ loop'[q].at # "scanned"
    BY <1>0, <1>3, NetTypes DEF CrashPrimary, Interval, NetSweep, pvars, Due
  <2>4. \A q \in Peers, g \in Files : ~Unsettled(q, g)' => ~Unsettled(q, g)
    BY <2>2, UnsettledFrame
  <2> QED
    BY <2>1, <2>2, <2>3, <2>4, QuietStep
<1> QED
  BY <1>1, <1>2, <1>3

-----------------------------------------------------------------------------
(* The network starts as it should, and every step keeps the invariant.    *)
LEMMA NetStarts == NetInit => NetInv
<1> SUFFICES ASSUME NetInit PROVE NetInv
  OBVIOUS
<1>1. Sound
  BY InitSound DEF NetInit
<1>2. /\ index = EmptyIndex /\ queue = {} /\ jobs = {} /\ suspect = {}
      /\ \A p \in Peers : loop[p] = Joining(FALSE) /\ command[p] = Idle
  BY DEF NetInit, Init
<1>3. HostedFiles(index) = {}
  BY <1>2 DEF EmptyIndex, HostedFiles
<1>4. NetTypeOK
  <2>1. TypeOK
    BY <1>1 DEF Sound
  <2>2. disk \in [Peers -> [Files -> Contents \cup {NoFile}]]
    BY ContentsFacts DEF NetInit
  <2>3. loop \in [Peers -> Loops] /\ command \in [Peers -> Commands]
    <3>1. \A retry \in BOOLEAN : Joining(retry) \in Loops
      BY DEF Loops
    <3>2. Idle \in Commands
      BY DEF Commands
    <3> QED
      BY <3>1, <3>2 DEF NetInit
  <2>4. given \in [DOMAIN Limit -> Nat]
    BY DEF NetInit
  <2> QED
    BY <2>1, <2>2, <2>3, <2>4 DEF NetInit, NetTypeOK
<1>5. OverlapsNoted
  <2>1. \A p \in Peers, f \in Files : \A a, b \in Activities(p, f) : a = b
    BY <1>2 DEF Activities, Joining
  <2> QED
    BY <2>1 DEF OverlapsNoted, Overlaps
<1>6. VersionsTell
  <2>1. ASSUME NEW f, NEW info PROVE ~Circulates(f, info)
    <3>1. \A p \in Peers : command[p].op # "stamped"
      BY <1>2 DEF Idle, Joining
    <3>2. queue = {} /\ jobs = {}
      BY <1>2
    <3> QED
      BY <1>3, <3>1, <3>2 DEF Circulates
  <2> QED
    BY <2>1 DEF VersionsTell
<1>7. Faithful
  BY <1>2 DEF Faithful, Idle, Joining
<1>8. ScansHashed /\ ListingTrue
  BY <1>2, <1>3 DEF ScansHashed, ListingTrue, Joining
<1> QED
  BY <1>1, <1>4, <1>5, <1>6, <1>7, <1>8 DEF NetInv, NetFacts

LEMMA NetKeepsFacts == Carried /\ [NetNext]_nvars => NetFacts'
<1> SUFFICES ASSUME Carried, [NetNext]_nvars PROVE NetFacts'
  OBVIOUS
<1>1. ASSUME NEW p \in Peers, PeerStep(p) \/ RegisterLost(p) \/ BeatLost(p) PROVE NetFacts'
  <2>1. CASE Start(p) \/ Beat(p) \/ BeatLost(p)
    BY <2>1, LoopKeepsFacts
  <2>2. CASE Scan(p)
    BY <2>2, ScanKeepsFacts
  <2>3. CASE PostRegister(p)
    BY <2>3, RegisterKeepsFacts DEF PostRegister
  <2>4. CASE RegisterLost(p)
    BY <2>4, RegisterKeepsFacts, LostRegisterKeepsFacts DEF RegisterLost
  <2> QED
    BY <1>1, <2>1, <2>2, <2>3, <2>4 DEF PeerStep
<1>2. ASSUME NEW p \in Peers, JobStep(p) PROVE NetFacts'
  BY <1>2, PullKeepsFacts, AnnouncePullKeepsFacts DEF JobStep
<1>3. ASSUME NEW p \in Peers, CommandStep(p) PROVE NetFacts'
  BY <1>3, StartsKeepFacts, EditorFailsKeepsFacts, EditsKeepFacts, StampKeepsFacts,
     PublishKeepsFacts, TellDeletedKeepsFacts DEF CommandStep
<1>4. ASSUME (\E p \in Peers : Crash(p)) \/ WriteLost \/ CrashPrimary \/ Interval \/ NetSweep
      PROVE  NetFacts'
  BY <1>4, FaultsKeepFacts
<1>5. CASE UNCHANGED nvars
  <2>1. UNCHANGED <<vars, disk, loop, jobs, command, stamps>>
    BY <1>5 DEF nvars, pvars
  <2>2. KeepsHosts(index, index') /\ TasksListed
    BY <2>1, CarriedFacts, OthersKeepHosts
  <2>3. \A q \in Peers, g \in Files : ~Unsettled(q, g)' => ~Unsettled(q, g)
    BY <2>1, UnsettledFrame
  <2> QED
    BY <2>1, <2>2, <2>3, QuietStep
<1>6. ASSUME NEW j \in jobs, PullFails(j) PROVE NetFacts'
  BY <1>6, PullFailsKeepsFacts
<1> QED
  BY <1>1, <1>2, <1>3, <1>4, <1>5, <1>6 DEF NetNext

LEMMA NetKeepsInv == NetInv /\ [NetNext]_nvars => NetInv'
<1> SUFFICES ASSUME NetInv, [NetNext]_nvars PROVE NetInv'
  OBVIOUS
<1>1. Sound' /\ NetTypeOK'
  BY NetKeepsSound, NetKeepsTypes DEF NetInv
<1>2. suspect \subseteq suspect' /\ OverlapsNoted'
  BY SuspectGrows DEF NetInv
<1>3. Carried
  BY <1>1, <1>2 DEF Carried
<1>4. NetFacts'
  BY <1>3, NetKeepsFacts
<1> QED
  BY <1>1, <1>2, <1>4 DEF NetInv

-----------------------------------------------------------------------------
(* The invariant holds at all times.                                       *)
THEOREM NetAlwaysSound == NetSpec => []NetInv
BY NetStarts, NetKeepsInv, PTL DEF NetSpec

(* Every variable of the network keeps its type (client.go:39-62).         *)
THEOREM NetTypeCorrect == NetSpec => []NetTypeOK
<1>1. NetInv => NetTypeOK
  BY DEF NetInv
<1> QED
  BY <1>1, NetAlwaysSound, PTL

(* Whom the primary lists as a host has the file, and whom it has on       *)
(* record at the advertised version of an updated file has that content,   *)
(* unless operations on the file overlapped at that peer or one of them    *)
(* failed between the file and the primary (client.go:219-241, 245-300,    *)
(* 440-474).                                                               *)
THEOREM ListingAlwaysTrue == NetSpec => []ListingTrue
<1>1. NetInv => ListingTrue
  BY DEF NetInv, NetFacts
<1> QED
  BY <1>1, NetAlwaysSound, PTL

(* An update publishes the text that the user saved, unless another        *)
(* operation on the file ran at that peer meanwhile (client.go:260-292).   *)
THEOREM UpdatesPublishEdits == NetSpec => []UpdatePublishesEdit
<1>1. NetInv => UpdatePublishesEdit
  <2> SUFFICES ASSUME NetInv, NEW p \in Peers, command[p].op = "stamped",
                      <<p, command[p].file>> \notin suspect
               PROVE  command[p].info.hash = command[p].text
    BY DEF UpdatePublishesEdit
  <2>1. command[p].file \in Files
    BY NetTypes, CommandFacts DEF NetInv
  <2> QED
    BY <2>1 DEF NetInv, NetFacts, Faithful
<1> QED
  BY <1>1, NetAlwaysSound, PTL

(* The network runs the primary: what is proved of the server under any    *)
(* requests holds of it among these peers.                                 *)
THEOREM NetworkRunsPrimary == NetSpec => Spec
<1>1. NetInit => Init
  BY DEF NetInit
<1>2. NetTypeOK /\ [NetNext]_nvars => [Next]_vars
  BY NetStepIsStep
<1> QED
  BY <1>1, <1>2, NetTypeCorrect, PTL DEF NetSpec, Spec

(* The Go peers register at version 0, so the primary that serves them is  *)
(* the leased directory (server.go:302-332, 407-414).                      *)
THEOREM NetworkImplementsDirectory == NetSpec => ImplementsDirectory
BY NetworkAssumption, NetworkRunsPrimary, PrimaryImplementsDirectory
=============================================================================
