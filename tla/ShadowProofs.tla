---------------------------- MODULE ShadowProofs ----------------------------
(***************************************************************************)
(* The shadow's invariants hold whatever operations reach it, in whatever  *)
(* order: each operation of /sync keeps them on its own.                   *)
(***************************************************************************)
EXTENDS ShadowServer, NapsterIndexProofs

SoundMirror(ix) == IsIndex(ix) /\ Shown(ix) /\ Hosted(ix)

(* Versions are compared as integers.                                      *)
LEMMA Numbers ==
    ASSUME NEW ix, IsIndex(ix)
    PROVE  /\ \A p \in Peers, f \in Files : ix.held[p][f] \in Int
           /\ \A f \in DOMAIN ix.files : /\ f \in Files
                                         /\ ix.files[f] \in Entries
                                         /\ ix.files[f].hosts \in SUBSET Peers
                                         /\ ix.files[f].info.version \in Nat
BY IndexAssumption DEF IsIndex, Entries, Infos, NoCopy

(* A registration lists its peer, and shows every file it names.           *)
LEMMA RegisterMirror ==
    ASSUME NEW ix, SoundMirror(ix), NEW p \in Peers, NEW cat \in Catalogues
    PROVE  SoundMirror(ApplyRegister(ix, p, cat))
<1> DEFINE new == ApplyRegister(ix, p, cat)
<1>1. IsIndex(ix) /\ Shown(ix) /\ Hosted(ix)
  BY DEF SoundMirror
<1>2. /\ IsIndex(new)
      /\ DOMAIN new.files = DOMAIN ix.files \cup DOMAIN cat
      /\ new.seen[p] = 0
      /\ \A r \in Peers : r # p => /\ new.seen[r] = ix.seen[r]
                                   /\ new.held[r] = ix.held[r]
      /\ \A f \in Files : f \notin DOMAIN cat =>
            /\ new.held[p][f] = ix.held[p][f]
            /\ f \in DOMAIN ix.files => new.files[f] = ix.files[f]
      /\ \A f \in DOMAIN cat :
            /\ new.held[p][f] = cat[f].version
            /\ new.files[f] = Report(EntryFor(ix, f, cat[f]), p, cat[f])
  BY <1>1, RegisterFacts
<1>3. DOMAIN cat \subseteq Files /\ \A f \in DOMAIN cat : cat[f] \in Infos
  BY DEF Catalogues
<1>4. \A f \in DOMAIN cat :
         /\ new.files[f].hosts =
               (IF f \in DOMAIN ix.files THEN ix.files[f].hosts ELSE {}) \cup {p}
         /\ new.files[f].info.version >= cat[f].version
         /\ f \in DOMAIN ix.files =>
              new.files[f].info.version >= ix.files[f].info.version
  BY <1>1, <1>2, <1>3, EntryForFacts, ReportFacts
<1> HIDE DEF new
<1>5. Shown(new)
  <2> SUFFICES ASSUME NEW r \in Peers, NEW f \in Files, new.held[r][f] # NoCopy
               PROVE  /\ new.seen[r] # NotListed
                      /\ f \in DOMAIN new.files
                      /\ r \in new.files[f].hosts
                      /\ new.held[r][f] <= new.files[f].info.version
    BY DEF Shown
  <2>1. CASE f \in DOMAIN cat /\ r = p
    <3>1. cat[f].version \in Int /\ new.files[f].info.version \in Int
      BY <1>2, <1>3, <2>1, Numbers, IndexAssumption DEF Infos
    <3> QED
      BY <1>2, <1>4, <2>1, <3>1 DEF NotListed
  <2>2. CASE f \in DOMAIN cat /\ r # p
    <3>1. /\ f \in DOMAIN ix.files /\ r \in ix.files[f].hosts
          /\ ix.seen[r] # NotListed
          /\ new.held[r][f] <= ix.files[f].info.version
      BY <1>1, <1>2, <2>2 DEF Shown
    <3>2. /\ new.held[r][f] \in Int /\ ix.files[f].info.version \in Int
          /\ new.files[f].info.version \in Int
      BY <1>1, <1>2, <2>2, <3>1, Numbers
    <3> QED
      BY <1>2, <1>4, <2>2, <3>1, <3>2
  <2>3. CASE f \notin DOMAIN cat
    BY <1>1, <1>2, <2>3 DEF Shown, NotListed
  <2> QED
    BY <2>1, <2>2, <2>3
<1>6. Hosted(new)
  <2> SUFFICES ASSUME NEW f \in DOMAIN new.files
               PROVE  new.files[f].hosts # {}
    BY DEF Hosted
  <2>1. CASE f \in DOMAIN cat
    BY <1>4, <2>1
  <2>2. CASE f \notin DOMAIN cat
    <3>1. f \in DOMAIN ix.files /\ f \in Files
      BY <1>1, <1>2, <2>2 DEF IsIndex
    <3> QED
      BY <1>1, <1>2, <2>2, <3>1 DEF Hosted
  <2> QED
    BY <2>1, <2>2
<1> QED
  BY <1>2, <1>5, <1>6 DEF SoundMirror, new

(* Only the ages differ, and the same peers are listed.                    *)
LEMMA SeenMirror ==
    ASSUME NEW ix, SoundMirror(ix),
           NEW seen \in [Peers -> Ages \cup {NotListed}],
           \A r \in Peers : ix.seen[r] # NotListed => seen[r] # NotListed
    PROVE  SoundMirror([seen |-> seen, held |-> ix.held, files |-> ix.files])
<1> DEFINE new == [seen |-> seen, held |-> ix.held, files |-> ix.files]
<1>1. /\ IsIndex(new) /\ new.seen = seen /\ new.held = ix.held
      /\ new.files = ix.files
  BY DEF SoundMirror, IsIndex
<1> HIDE DEF new
<1>2. Shown(new) /\ Hosted(new)
  BY <1>1 DEF SoundMirror, Shown, Hosted
<1> QED
  BY <1>1, <1>2 DEF SoundMirror, new

(* An announce, with whatever LastSeen it carries.                         *)
LEMMA AnnounceMirror ==
    ASSUME NEW ix, SoundMirror(ix), NEW p \in Peers, NEW f \in Files,
           NEW info \in Infos, NEW stamp \in Ages
    PROVE  SoundMirror(ApplyAnnounce(ix, p, f, info, stamp))
<1> DEFINE reg == ApplyRegister(ix, p, OneFile(f, info))
<1>0. IsIndex(ix)
  BY DEF SoundMirror
<1>1. /\ OneFile(f, info) \in Catalogues
      /\ ApplyAnnounce(ix, p, f, info, stamp) = Dated(reg, p, stamp)
  BY <1>0, AnnounceFacts
<1>2. SoundMirror(reg)
  BY <1>1, RegisterMirror
<1> HIDE DEF reg
<1>3. SoundMirror(Dated(reg, p, stamp))
  BY <1>2, DatedSeen, SeenMirror DEF SoundMirror, Dated
<1> QED
  BY <1>1, <1>3

(* A heartbeat.                                                            *)
LEMMA RefreshMirror ==
    ASSUME NEW ix, SoundMirror(ix), NEW p \in Peers
    PROVE  SoundMirror(Refresh(ix, p))
<1> DEFINE seen == IF p \in Listed(ix) THEN [ix.seen EXCEPT ![p] = 0] ELSE ix.seen
<1>1. seen \in [Peers -> Ages \cup {NotListed}]
  BY IndexAssumption DEF SoundMirror, IsIndex, Ages
<1>2. \A r \in Peers : ix.seen[r] # NotListed => seen[r] # NotListed
  BY DEF SoundMirror, IsIndex, NotListed
<1> QED
  BY <1>1, <1>2, SeenMirror DEF Refresh

(* A prune forgets what the peer holds, so what is left is still shown.    *)
LEMMA ForgetPeerMirror ==
    ASSUME NEW ix, SoundMirror(ix), NEW p \in Peers
    PROVE  SoundMirror(ForgetPeer(ix, p))
<1> DEFINE new == ForgetPeer(ix, p)
<1>1. IsIndex(ix) /\ Shown(ix) /\ Hosted(ix)
  BY DEF SoundMirror
<1>2. /\ new = [seen |-> new.seen, held |-> new.held, files |-> new.files]
      /\ new.seen = [ix.seen EXCEPT ![p] = NotListed]
      /\ new.held = [ix.held EXCEPT ![p] = [f \in Files |-> NoCopy]]
      /\ new.files = ix.files
  BY DEF ForgetPeer
<1> HIDE DEF new
<1>3. IsIndex(new)
  BY <1>1, <1>2 DEF IsIndex
<1>4. /\ \A f \in Files : new.held[p][f] = NoCopy
      /\ \A r \in Peers : r # p => /\ new.held[r] = ix.held[r]
                                   /\ new.seen[r] = ix.seen[r]
  BY <1>1, <1>2 DEF IsIndex
<1>5. Shown(new)
  BY <1>1, <1>2, <1>4 DEF Shown
<1>6. Hosted(new)
  BY <1>1, <1>2 DEF Hosted
<1> QED
  BY <1>3, <1>5, <1>6 DEF SoundMirror, new

(* A delete, of a file that may be unknown by a peer that may not host it. *)
LEMMA ForgetHostMirror ==
    ASSUME NEW ix, SoundMirror(ix), NEW p \in Peers, NEW f \in Files
    PROVE  SoundMirror(ForgetHost(ix, p, f))
<1>1. IsIndex(ix) /\ Shown(ix) /\ Hosted(ix)
  BY DEF SoundMirror
<1>2. CASE f \in DOMAIN ix.files
  <2> DEFINE rest == ix.files[f].hosts \ {p}
             new  == DropHost(ix, p, f)
  <2>1. /\ IsIndex(new)
        /\ new.seen = ix.seen
        /\ new.held[p][f] = NoCopy
        /\ \A r \in Peers, g \in Files :
              ~(r = p /\ g = f) => new.held[r][g] = ix.held[r][g]
        /\ DOMAIN new.files = {h \in DOMAIN ix.files : h = f => rest # {}}
        /\ f \in DOMAIN new.files => /\ new.files[f].hosts = rest
                                     /\ new.files[f].info = ix.files[f].info
        /\ \A g \in DOMAIN new.files : g # f => new.files[g] = ix.files[g]
    BY <1>1, <1>2, DropHostFacts
  <2> HIDE DEF new
  <2>2. Shown(new)
    <3> SUFFICES ASSUME NEW r \in Peers, NEW g \in Files, new.held[r][g] # NoCopy
                 PROVE  /\ new.seen[r] # NotListed
                        /\ g \in DOMAIN new.files
                        /\ r \in new.files[g].hosts
                        /\ new.held[r][g] <= new.files[g].info.version
      BY DEF Shown
    <3>1. ~(r = p /\ g = f) /\ new.held[r][g] = ix.held[r][g]
      BY <2>1
    <3>2. /\ ix.seen[r] # NotListed /\ g \in DOMAIN ix.files
          /\ r \in ix.files[g].hosts
          /\ ix.held[r][g] <= ix.files[g].info.version
      BY <1>1, <3>1 DEF Shown
    <3>3. g = f => r \in rest
      BY <3>1, <3>2
    <3>4. g \in DOMAIN new.files
      BY <2>1, <3>2, <3>3
    <3> QED
      BY <2>1, <3>1, <3>2, <3>3, <3>4
  <2>3. Hosted(new)
    <3> SUFFICES ASSUME NEW g \in DOMAIN new.files
                 PROVE  new.files[g].hosts # {}
      BY DEF Hosted
    <3>1. g \in DOMAIN ix.files /\ (g = f => rest # {})
      BY <2>1
    <3> QED
      BY <1>1, <2>1, <3>1 DEF Hosted
  <2> QED
    BY <1>2, <2>1, <2>2, <2>3 DEF SoundMirror, ForgetHost, new
<1>3. CASE f \notin DOMAIN ix.files
  <2> DEFINE new == ForgetHost(ix, p, f)
  <2>1. /\ new = [seen |-> new.seen, held |-> new.held, files |-> new.files]
        /\ new.seen = ix.seen
        /\ new.held = [ix.held EXCEPT ![p] = [ix.held[p] EXCEPT ![f] = NoCopy]]
        /\ new.files = ix.files
    BY <1>3 DEF ForgetHost
  <2> HIDE DEF new
  <2>2. /\ IsIndex(new)
        /\ \A r \in Peers, g \in Files :
              new.held[r][g] # NoCopy => new.held[r][g] = ix.held[r][g]
    BY <1>1, <2>1 DEF IsIndex
  <2>3. Shown(new)
    BY <1>1, <2>1, <2>2 DEF Shown
  <2>4. Hosted(new)
    BY <1>1, <2>1 DEF Hosted
  <2> QED
    BY <2>2, <2>3, <2>4 DEF SoundMirror, new
<1> QED
  BY <1>2, <1>3

(* The sweep takes the pruned peers' copies with them, and no entry that   *)
(* is left is without hosts.                                               *)
LEMMA PruneMirror ==
    ASSUME NEW ix, SoundMirror(ix), NEW gone \in SUBSET Peers
    PROVE  SoundMirror(Prune(ix, gone))
<1> DEFINE new     == Prune(ix, gone)
           left(g) == ix.files[g].hosts \ Leaving(ix, gone, g)
<1>1. IsIndex(ix) /\ Shown(ix) /\ Hosted(ix)
  BY DEF SoundMirror
<1>2. /\ IsIndex(new)
      /\ new.seen = [r \in Peers |-> IF r \in gone THEN NotListed
                                                  ELSE ix.seen[r]]
      /\ new.held = [r \in Peers |-> IF r \in gone THEN [g \in Files |-> NoCopy]
                                                  ELSE ix.held[r]]
      /\ DOMAIN new.files = {g \in DOMAIN ix.files :
                               Leaving(ix, gone, g) = {} \/ left(g) # {}}
      /\ \A g \in DOMAIN new.files : /\ new.files[g].info = ix.files[g].info
                                      /\ new.files[g].hosts = left(g)
  BY <1>1, PruneFacts
<1> HIDE DEF new
<1>3. Shown(new)
  <2> SUFFICES ASSUME NEW r \in Peers, NEW g \in Files, new.held[r][g] # NoCopy
               PROVE  /\ new.seen[r] # NotListed
                      /\ g \in DOMAIN new.files
                      /\ r \in new.files[g].hosts
                      /\ new.held[r][g] <= new.files[g].info.version
    BY DEF Shown
  <2>1. r \notin gone /\ new.held[r][g] = ix.held[r][g] /\ new.seen[r] = ix.seen[r]
    BY <1>2
  <2>2. /\ ix.seen[r] # NotListed /\ g \in DOMAIN ix.files
        /\ r \in ix.files[g].hosts
        /\ ix.held[r][g] <= ix.files[g].info.version
    BY <1>1, <2>1 DEF Shown
  <2>3. r \in left(g)
    BY <2>1, <2>2 DEF Leaving
  <2>4. g \in DOMAIN new.files
    BY <1>2, <2>2, <2>3
  <2> QED
    BY <1>2, <2>1, <2>2, <2>3, <2>4
<1>4. Hosted(new)
  <2> SUFFICES ASSUME NEW g \in DOMAIN new.files
               PROVE  left(g) # {}
    BY <1>2 DEF Hosted
  <2>1. g \in DOMAIN ix.files /\ (Leaving(ix, gone, g) = {} \/ left(g) # {})
    BY <1>2
  <2> QED
    BY <1>1, <2>1 DEF Hosted
<1> QED
  BY <1>2, <1>3, <1>4 DEF SoundMirror, new

(* The passing of time.                                                    *)
LEMMA ElapseMirror ==
    ASSUME NEW ix, SoundMirror(ix)
    PROVE  SoundMirror(Elapse(ix))
<1> DEFINE new == Elapse(ix)
<1>1. /\ IsIndex(new)
      /\ \A r \in Peers : new.seen[r] = NotListed <=> ix.seen[r] = NotListed
      /\ new.held = ix.held
      /\ DOMAIN new.files = DOMAIN ix.files
      /\ \A g \in DOMAIN ix.files : /\ new.files[g].info = ix.files[g].info
                                    /\ new.files[g].hosts = ix.files[g].hosts
  BY ElapseFacts DEF SoundMirror
<1> HIDE DEF new
<1>2. Shown(new)
  BY <1>1 DEF SoundMirror, Shown
<1>3. Hosted(new)
  BY <1>1 DEF SoundMirror, Hosted
<1> QED
  BY <1>1, <1>2, <1>3 DEF SoundMirror, new

-----------------------------------------------------------------------------
MirrorInv == SoundMirror(mirror) /\ sinceMirrorSweep \in 0 .. SweepPeriod

(* The shadow starts, and starts again, empty.                             *)
LEMMA EmptyMirror == SoundMirror(EmptyIndex) /\ 0 \in 0 .. SweepPeriod
<1>1. SoundIndex(EmptyIndex) /\ 0 \in 0 .. SweepPeriod
  BY EmptyIndexSound, ShadowAssumption
<1> QED
  BY <1>1 DEF SoundIndex, SoundMirror, Shown, Hosted, EmptyIndex, NoCopy

(* Whatever operation arrives, the mirror stays sound.                     *)
LEMMA SyncSound ==
    ASSUME MirrorInv, NEW op \in SyncOps, Sync(op)
    PROVE  MirrorInv'
<1>1. SoundMirror(mirror) /\ sinceMirrorSweep' \in 0 .. SweepPeriod
  BY DEF MirrorInv, Sync
<1>2. CASE op.kind = "register" /\ mirror' = ApplyRegister(mirror, op.peer, op.list)
  <2>1. op.peer \in Peers /\ op.list \in Catalogues
    BY <1>2 DEF SyncOps, Lists
  <2> QED
    BY <1>1, <1>2, <2>1, RegisterMirror DEF MirrorInv
<1>3. CASE /\ op.kind = "announce"
           /\ mirror' = ApplyAnnounce(mirror, op.peer, op.file, op.info, op.stamp)
  <2>1. /\ op.peer \in Peers /\ op.file \in Files
        /\ op.info \in Infos /\ op.stamp \in Ages
    BY <1>3, ShadowAssumption DEF SyncOps
  <2> QED
    BY <1>1, <1>3, <2>1, AnnounceMirror DEF MirrorInv
<1>4. CASE op.kind = "prune" /\ mirror' = ForgetPeer(mirror, op.peer)
  <2>1. op.peer \in Peers
    BY <1>4 DEF SyncOps
  <2> QED
    BY <1>1, <1>4, <2>1, ForgetPeerMirror DEF MirrorInv
<1>5. CASE op.kind = "heartbeat" /\ mirror' = Refresh(mirror, op.peer)
  <2>1. op.peer \in Peers
    BY <1>5 DEF SyncOps
  <2> QED
    BY <1>1, <1>5, <2>1, RefreshMirror DEF MirrorInv
<1>6. CASE op.kind = "delete" /\ mirror' = ForgetHost(mirror, op.peer, op.file)
  <2>1. op.peer \in Peers /\ op.file \in Files
    BY <1>6 DEF SyncOps
  <2> QED
    BY <1>1, <1>6, <2>1, ForgetHostMirror DEF MirrorInv
<1> QED
  BY <1>2, <1>3, <1>4, <1>5, <1>6 DEF Sync

LEMMA MirrorNext == MirrorInv /\ [Next]_svars => MirrorInv'
<1> SUFFICES ASSUME MirrorInv, [Next]_svars
             PROVE  MirrorInv'
  OBVIOUS
<1>1. ASSUME NEW op \in SyncOps, Sync(op)
      PROVE  MirrorInv'
  BY <1>1, SyncSound
<1>2. CASE SweepMirror
  <2>1. StalePeers(mirror) \in SUBSET Peers /\ 0 \in 0 .. SweepPeriod
    BY EmptyMirror DEF StalePeers, Listed
  <2> QED
    BY <1>2, <2>1, PruneMirror DEF MirrorInv, SweepMirror
<1>3. CASE TickMirror
  <2>1. sinceMirrorSweep + 1 \in 0 .. SweepPeriod
    BY <1>3, ShadowAssumption DEF TickMirror, MirrorInv
  <2> QED
    BY <1>3, <2>1, ElapseMirror DEF MirrorInv, TickMirror
<1>4. CASE RestartMirror
  BY <1>4, EmptyMirror DEF MirrorInv, RestartMirror
<1>5. CASE UNCHANGED svars
  BY <1>5 DEF MirrorInv, svars
<1> QED
  BY <1>1, <1>2, <1>3, <1>4, <1>5 DEF Next

(* The inductive invariant of the shadow.                                  *)
THEOREM MirrorAlwaysSound == Spec => []MirrorInv
<1>1. Init => MirrorInv
  BY EmptyMirror DEF Init, MirrorInv
<1> QED
  BY <1>1, MirrorNext, PTL DEF Spec

(* The shadow's variables keep their types.                                *)
THEOREM ShadowTypeCorrect == Spec => []ShadowTypeOK
<1>1. MirrorInv => ShadowTypeOK
  BY DEF MirrorInv, SoundMirror, ShadowTypeOK
<1> QED
  BY <1>1, MirrorAlwaysSound, PTL

(* The shadow's search shows what the shadow knows of listed peers.        *)
THEOREM HoldingsAlwaysShown == Spec => []HoldingsShown
<1>1. MirrorInv => HoldingsShown
  BY DEF MirrorInv, SoundMirror, HoldingsShown
<1> QED
  BY <1>1, MirrorAlwaysSound, PTL

(* The shadow never shows a file without hosts.                            *)
THEOREM EntriesAlwaysHosted == Spec => []EntriesHosted
<1>1. MirrorInv => EntriesHosted
  BY DEF MirrorInv, SoundMirror, EntriesHosted
<1> QED
  BY <1>1, MirrorAlwaysSound, PTL

-----------------------------------------------------------------------------
(* No operation, however late, lowers the version of a file that stays.    *)
LEMMA StepKeepsMirrorVersions ==
    MirrorInv /\ [Next]_svars =>
        \A f \in DOMAIN mirror.files \cap DOMAIN mirror'.files :
            mirror'.files[f].info.version >= mirror.files[f].info.version
<1> SUFFICES ASSUME MirrorInv, [Next]_svars,
                    NEW f \in DOMAIN mirror.files \cap DOMAIN mirror'.files
             PROVE  mirror'.files[f].info.version >= mirror.files[f].info.version
  OBVIOUS
<1> DEFINE old == mirror.files[f]
           new == mirror'.files[f]
<1>0. IsIndex(mirror) /\ f \in Files /\ old \in Entries /\ old.info.version \in Nat
  <2>1. IsIndex(mirror)
    BY DEF MirrorInv, SoundMirror
  <2> QED
    BY <2>1, Numbers
<1>e. ASSUME new.info = old.info PROVE new.info.version >= old.info.version
  BY <1>0, <1>e
<1>r. ASSUME NEW p \in Peers, NEW info \in Infos, new = Report(old, p, info)
      PROVE  new.info.version >= old.info.version
  BY <1>0, <1>r, ReportFacts
<1>1. ASSUME NEW op \in SyncOps, Sync(op)
      PROVE  new.info.version >= old.info.version
  <2>1. CASE op.kind = "register" /\ mirror' = ApplyRegister(mirror, op.peer, op.list)
    <3>1. op.peer \in Peers /\ op.list \in Catalogues
      BY <2>1 DEF SyncOps, Lists
    <3>2. CASE f \in DOMAIN op.list
      <4>1. op.list[f] \in Infos
        BY <3>1, <3>2 DEF Catalogues
      <4>2. new = Report(old, op.peer, op.list[f])
        BY <2>1, <3>2 DEF ApplyRegister, EntryFor
      <4> QED
        BY <1>r, <3>1, <4>1, <4>2
    <3>3. CASE f \notin DOMAIN op.list
      BY <1>e, <2>1, <3>3 DEF ApplyRegister
    <3> QED
      BY <3>2, <3>3
  <2>2. CASE /\ op.kind = "announce"
             /\ mirror' = ApplyAnnounce(mirror, op.peer, op.file, op.info, op.stamp)
    <3>1. op.peer \in Peers /\ op.info \in Infos
      BY <2>2 DEF SyncOps
    <3>2. CASE f = op.file
      <4>1. new = Report(old, op.peer, op.info)
        BY <2>2, <3>2 DEF ApplyAnnounce, EntryFor
      <4> QED
        BY <1>r, <3>1, <4>1
    <3>3. CASE f # op.file
      BY <1>e, <2>2, <3>3 DEF ApplyAnnounce
    <3> QED
      BY <3>2, <3>3
  <2>3. CASE op.kind = "prune" /\ mirror' = ForgetPeer(mirror, op.peer)
    BY <1>e, <2>3 DEF ForgetPeer
  <2>4. CASE op.kind = "heartbeat" /\ mirror' = Refresh(mirror, op.peer)
    BY <1>e, <2>4 DEF Refresh
  <2>5. CASE op.kind = "delete" /\ mirror' = ForgetHost(mirror, op.peer, op.file)
    BY <1>e, <2>5 DEF ForgetHost, DropHost, KeepHosts
  <2> QED
    BY <1>1, <2>1, <2>2, <2>3, <2>4, <2>5 DEF Sync
<1>2. CASE SweepMirror
  BY <1>2, <1>e DEF SweepMirror, Prune, KeepHosts
<1>3. CASE TickMirror
  BY <1>3, <1>e DEF TickMirror, Elapse, WithLease
<1>4. CASE RestartMirror
  BY <1>4 DEF RestartMirror, EmptyIndex
<1>5. CASE UNCHANGED svars
  BY <1>5, <1>e DEF svars
<1> QED
  BY <1>1, <1>2, <1>3, <1>4, <1>5 DEF Next

(* While the shadow has a file its version never goes back.                *)
THEOREM MirrorVersionsNeverLowered == Spec => MirrorNeverLowered
<1>1. MirrorInv /\ [Next]_svars =>
        [\A f \in DOMAIN mirror.files \cap DOMAIN mirror'.files :
            mirror'.files[f].info.version >= mirror.files[f].info.version]_svars
  BY StepKeepsMirrorVersions
<1> QED
  BY <1>1, MirrorAlwaysSound, PTL DEF Spec, MirrorNeverLowered
=============================================================================
