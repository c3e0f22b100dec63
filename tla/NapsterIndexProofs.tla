------------------------- MODULE NapsterIndexProofs -------------------------
(***************************************************************************)
(* Every operation of NapsterIndex.tla takes an index to an index, and     *)
(* keeps the relations between its three maps.                             *)
(***************************************************************************)
EXTENDS NapsterIndex, TLAPS

(* The relations that hold of the index together; none of the three is     *)
(* weakened by an operation, so their conjunction is inductive.            *)
SoundIndex(ix) ==
    /\ IsIndex(ix)
    /\ MapsAgree(ix)
    /\ NoneAhead(ix)
    /\ HostlessIsPlaceholder(ix)

-----------------------------------------------------------------------------
(* A host that reports a file becomes a host of it, and the entry is then  *)
(* at least as new as the report and as it was before.                     *)
LEMMA ReportFacts ==
    ASSUME NEW e \in Entries, NEW p \in Peers, NEW info \in Infos
    PROVE  /\ Report(e, p, info) \in Entries
           /\ Report(e, p, info).hosts = e.hosts \cup {p}
           /\ Report(e, p, info).lease = e.lease
           /\ Report(e, p, info).info.version >= info.version
           /\ Report(e, p, info).info.version >= e.info.version
<1>1. e.info.version \in Nat /\ info.version \in Nat
  BY IndexAssumption DEF Entries, Infos
<1> QED
  BY <1>1 DEF Report, Entries, Infos

(* The entry a report starts from is an entry, and if it is a fresh one it *)
(* has no hosts and the reported info.                                     *)
LEMMA EntryForFacts ==
    ASSUME NEW ix, IsIndex(ix), NEW f \in Files, NEW info \in Infos
    PROVE  /\ EntryFor(ix, f, info) \in Entries
           /\ f \in DOMAIN ix.files => EntryFor(ix, f, info) = ix.files[f]
           /\ f \notin DOMAIN ix.files =>
                /\ EntryFor(ix, f, info).hosts = {}
                /\ EntryFor(ix, f, info).info = info
<1>1. NoLease \in Leases
  BY IndexAssumption DEF NoLease, Leases, NoHolder, Expired
<1>2. CASE f \in DOMAIN ix.files
  BY <1>2 DEF EntryFor, IsIndex
<1>3. CASE f \notin DOMAIN ix.files
  BY <1>1, <1>3 DEF EntryFor, Entries
<1> QED
  BY <1>2, <1>3

-----------------------------------------------------------------------------
(* The empty index is sound.                                               *)
LEMMA EmptyIndexSound == SoundIndex(EmptyIndex)
<1>1. IsIndex(EmptyIndex)
  BY IndexAssumption
  DEF IsIndex, EmptyIndex, NotListed, NoCopy, Entries, Infos, Leases
<1>2. MapsAgree(EmptyIndex)
  BY DEF MapsAgree, EmptyIndex, NoCopy
<1>3. NoneAhead(EmptyIndex) /\ HostlessIsPlaceholder(EmptyIndex)
  BY DEF NoneAhead, HostlessIsPlaceholder, EmptyIndex
<1> QED
  BY <1>1, <1>2, <1>3 DEF SoundIndex

(* What a registration does to the maps, file by file.                     *)
LEMMA RegisterFacts ==
    ASSUME NEW ix, IsIndex(ix), NEW p \in Peers, NEW cat \in Catalogues
    PROVE  LET new == ApplyRegister(ix, p, cat)
           IN  /\ IsIndex(new)
               /\ DOMAIN new.files = DOMAIN ix.files \cup DOMAIN cat
               /\ new.seen[p] = 0
               /\ \A r \in Peers : r # p => /\ new.seen[r] = ix.seen[r]
                                            /\ new.held[r] = ix.held[r]
               /\ \A f \in Files : f \notin DOMAIN cat =>
                     /\ new.held[p][f] = ix.held[p][f]
                     /\ f \in DOMAIN ix.files => new.files[f] = ix.files[f]
               /\ \A f \in DOMAIN cat :
                     /\ new.held[p][f] = cat[f].version
                     /\ new.files[f] = Report(EntryFor(ix, f, cat[f]), p, cat[f])
<1> DEFINE new == ApplyRegister(ix, p, cat)
<1>1. DOMAIN cat \subseteq Files /\ \A f \in DOMAIN cat : cat[f] \in Infos
  BY DEF Catalogues
<1>2. \A f \in DOMAIN cat : Report(EntryFor(ix, f, cat[f]), p, cat[f]) \in Entries
  BY <1>1, EntryForFacts, ReportFacts
<1>3. \A f \in DOMAIN cat : cat[f].version \in Versions
  BY <1>1 DEF Infos
<1>4. new.seen \in [Peers -> Ages \cup {NotListed}]
  BY IndexAssumption DEF ApplyRegister, IsIndex, Ages
<1>5. new.held \in [Peers -> [Files -> Versions \cup {NoCopy}]]
  BY <1>3 DEF ApplyRegister, IsIndex
<1>6. /\ DOMAIN new.files = DOMAIN ix.files \cup DOMAIN cat
      /\ new.files \in [DOMAIN new.files -> Entries]
  BY <1>2 DEF ApplyRegister, IsIndex
<1>7. IsIndex(new)
  BY <1>1, <1>4, <1>5, <1>6 DEF IsIndex, ApplyRegister
<1> QED
  BY <1>1, <1>6, <1>7 DEF ApplyRegister, IsIndex

(* Registering keeps the index sound.                                      *)
LEMMA RegisterSound ==
    ASSUME NEW ix, SoundIndex(ix), NEW p \in Peers, NEW cat \in Catalogues
    PROVE  SoundIndex(ApplyRegister(ix, p, cat))
<1> DEFINE new == ApplyRegister(ix, p, cat)
<1>1. /\ IsIndex(ix) /\ MapsAgree(ix) /\ NoneAhead(ix)
      /\ HostlessIsPlaceholder(ix)
  BY DEF SoundIndex
<1>2. /\ IsIndex(new)
      /\ DOMAIN new.files = DOMAIN ix.files \cup DOMAIN cat
      /\ new.seen[p] = 0
      /\ \A r \in Peers : r # p => /\ new.seen[r] = ix.seen[r]
                                   /\ new.held[r] = ix.held[r]
      /\ \A f \in Files : f \notin DOMAIN cat =>
            /\ new.held[p][f] = ix.held[p][f]
            /\ f \in DOMAIN ix.files => new.files[f] = ix.files[f]
      /\ \A f \in DOMAIN cat :
            /\ new.held[p][f] = cat[f].version
            /\ new.files[f] = Report(EntryFor(ix, f, cat[f]), p, cat[f])
  BY <1>1, RegisterFacts
<1>3. /\ DOMAIN cat \subseteq Files
      /\ \A f \in DOMAIN cat : cat[f] \in Infos /\ cat[f].version \in Nat
  BY IndexAssumption DEF Catalogues, Infos
<1>4. \A f \in DOMAIN cat :
         /\ new.files[f].hosts =
               (IF f \in DOMAIN ix.files THEN ix.files[f].hosts ELSE {}) \cup {p}
         /\ new.files[f].info.version >= cat[f].version
         /\ f \in DOMAIN ix.files =>
              new.files[f].info.version >= ix.files[f].info.version
  BY <1>1, <1>2, <1>3, EntryForFacts, ReportFacts
<1> HIDE DEF new
<1>5. MapsAgree(new)
  <2> SUFFICES ASSUME NEW r \in Peers, NEW f \in Files
               PROVE  /\ (f \in DOMAIN new.files /\ r \in new.files[f].hosts)
                            <=> new.held[r][f] # NoCopy
                      /\ new.held[r][f] # NoCopy => new.seen[r] # NotListed
    BY DEF MapsAgree
  <2>1. CASE f \in DOMAIN cat /\ r = p
    BY <1>2, <1>3, <1>4, <2>1 DEF NoCopy, NotListed
  <2>2. CASE f \in DOMAIN cat /\ r # p
    BY <1>1, <1>2, <1>4, <2>2 DEF MapsAgree
  <2>3. CASE f \notin DOMAIN cat
    BY <1>1, <1>2, <2>3 DEF MapsAgree, NotListed
  <2> QED
    BY <2>1, <2>2, <2>3
<1>6. NoneAhead(new)
  <2> SUFFICES ASSUME NEW f \in DOMAIN new.files, NEW r \in new.files[f].hosts
               PROVE  new.held[r][f] <= new.files[f].info.version
    BY DEF NoneAhead
  <2>1. f \in Files /\ r \in Peers
    BY <1>2 DEF IsIndex, Entries
  <2>2. CASE f \in DOMAIN cat /\ r = p
    BY <1>2, <1>3, <1>4, <2>2
  <2>3. CASE f \in DOMAIN cat /\ r # p
    <3>1. f \in DOMAIN ix.files /\ r \in ix.files[f].hosts
      BY <1>4, <2>3
    <3>2. new.held[r][f] <= ix.files[f].info.version
      BY <1>1, <1>2, <2>1, <2>3, <3>1 DEF NoneAhead
    <3>3. ix.held[r][f] \in Int /\ ix.files[f].info.version \in Int
          /\ new.files[f].info.version \in Int
      BY <1>1, <1>2, <2>1, <3>1, IndexAssumption
      DEF IsIndex, Entries, Infos, NoCopy
    <3> QED
      BY <1>2, <1>4, <2>1, <2>3, <3>1, <3>2, <3>3
  <2>4. CASE f \notin DOMAIN cat
    BY <1>1, <1>2, <2>1, <2>4 DEF NoneAhead
  <2> QED
    BY <2>2, <2>3, <2>4
<1>7. HostlessIsPlaceholder(new)
  <2> SUFFICES ASSUME NEW f \in DOMAIN new.files, new.files[f].hosts = {}
               PROVE  /\ new.files[f].info = [version |-> 0, hash |-> NoHash]
                      /\ new.files[f].lease.holder # NoHolder
    BY DEF HostlessIsPlaceholder
  <2>1. f \notin DOMAIN cat
    BY <1>4
  <2>2. f \in DOMAIN ix.files /\ f \in Files /\ new.files[f] = ix.files[f]
    BY <1>1, <1>2, <2>1 DEF IsIndex
  <2> QED
    BY <1>1, <2>2 DEF HostlessIsPlaceholder
<1> QED
  BY <1>2, <1>5, <1>6, <1>7 DEF SoundIndex, new

(* Only the ages differ, and the same peers are listed: soundness carries  *)
(* over.                                                                   *)
LEMMA SeenSound ==
    ASSUME NEW ix, SoundIndex(ix),
           NEW seen \in [Peers -> Ages \cup {NotListed}],
           \A r \in Peers : ix.seen[r] # NotListed => seen[r] # NotListed
    PROVE  SoundIndex([seen |-> seen, held |-> ix.held, files |-> ix.files])
<1> DEFINE new == [seen |-> seen, held |-> ix.held, files |-> ix.files]
<1>1. /\ IsIndex(new) /\ new.seen = seen /\ new.held = ix.held
      /\ new.files = ix.files
  BY DEF SoundIndex, IsIndex
<1> HIDE DEF new
<1>2. MapsAgree(new)
  BY <1>1 DEF SoundIndex, MapsAgree
<1>3. NoneAhead(new) /\ HostlessIsPlaceholder(new)
  BY <1>1 DEF SoundIndex, NoneAhead, HostlessIsPlaceholder
<1> QED
  BY <1>1, <1>2, <1>3 DEF SoundIndex, new

(* Announcing is the registration of one file, apart from the age of the   *)
(* LastSeen it carries.                                                    *)
OneFile(f, info) == [g \in {f} |-> info]

Dated(ix, p, stamp) ==
    [seen |-> [ix.seen EXCEPT ![p] = stamp], held |-> ix.held, files |-> ix.files]

LEMMA AnnounceFacts ==
    ASSUME NEW ix, IsIndex(ix), NEW p \in Peers, NEW f \in Files,
           NEW info \in Infos, NEW stamp \in Ages
    PROVE  /\ OneFile(f, info) \in Catalogues
           /\ ApplyAnnounce(ix, p, f, info, stamp)
                = Dated(ApplyRegister(ix, p, OneFile(f, info)), p, stamp)
<1> DEFINE cat  == OneFile(f, info)
           reg  == ApplyRegister(ix, p, cat)
           new  == ApplyAnnounce(ix, p, f, info, stamp)
<1>1. cat \in Catalogues /\ DOMAIN cat = {f} /\ cat[f] = info
  <2>1. cat \in [{f} -> Infos] /\ {f} \in SUBSET Files
    BY DEF OneFile
  <2> QED
    BY <2>1 DEF Catalogues, OneFile
<1>2. new.seen = [reg.seen EXCEPT ![p] = stamp]
  BY DEF ApplyAnnounce, ApplyRegister, IsIndex
<1>3. new.held = reg.held
  <2>1. [ix.held[p] EXCEPT ![f] = info.version]
          = [g \in Files |-> IF g \in DOMAIN cat THEN cat[g].version
                                                 ELSE ix.held[p][g]]
    BY <1>1 DEF IsIndex
  <2> QED
    BY <2>1 DEF ApplyAnnounce, ApplyRegister
<1>4. new.files = reg.files
  BY <1>1 DEF ApplyAnnounce, ApplyRegister
<1>5. new = [seen |-> new.seen, held |-> new.held, files |-> new.files]
  BY DEF ApplyAnnounce
<1> QED
  BY <1>1, <1>2, <1>3, <1>4, <1>5 DEF Dated

(* A LastSeen carried by a request may be given to any listed peer.        *)
LEMMA DatedSeen ==
    ASSUME NEW ix, IsIndex(ix), NEW p \in Peers, NEW stamp \in Ages
    PROVE  /\ [ix.seen EXCEPT ![p] = stamp] \in [Peers -> Ages \cup {NotListed}]
           /\ \A r \in Peers : ix.seen[r] # NotListed =>
                 [ix.seen EXCEPT ![p] = stamp][r] # NotListed
BY DEF IsIndex, Ages, NotListed

(* Announcing keeps the index sound.                                       *)
LEMMA AnnounceSound ==
    ASSUME NEW ix, SoundIndex(ix), NEW p \in Peers, NEW f \in Files,
           NEW info \in Infos, NEW stamp \in Ages
    PROVE  SoundIndex(ApplyAnnounce(ix, p, f, info, stamp))
<1> DEFINE reg == ApplyRegister(ix, p, OneFile(f, info))
<1>0. IsIndex(ix)
  BY DEF SoundIndex
<1>1. /\ OneFile(f, info) \in Catalogues
      /\ ApplyAnnounce(ix, p, f, info, stamp) = Dated(reg, p, stamp)
  BY <1>0, AnnounceFacts
<1>2. SoundIndex(reg)
  BY <1>1, RegisterSound
<1> HIDE DEF reg
<1>3. SoundIndex(Dated(reg, p, stamp))
  BY <1>2, DatedSeen, SeenSound DEF SoundIndex, Dated
<1> QED
  BY <1>1, <1>3

(* A heartbeat keeps the index sound.                                      *)
LEMMA RefreshSound ==
    ASSUME NEW ix, SoundIndex(ix), NEW p \in Peers
    PROVE  SoundIndex(Refresh(ix, p))
<1> DEFINE seen == IF p \in Listed(ix) THEN [ix.seen EXCEPT ![p] = 0] ELSE ix.seen
<1>1. seen \in [Peers -> Ages \cup {NotListed}]
  BY IndexAssumption DEF SoundIndex, IsIndex, Ages
<1>2. \A r \in Peers : ix.seen[r] # NotListed => seen[r] # NotListed
  BY DEF SoundIndex, IsIndex, NotListed
<1> QED
  BY <1>1, <1>2, SeenSound DEF Refresh

(* Changing the lease of an entry changes nothing else of it.              *)
LEMMA WithLeaseFacts ==
    ASSUME NEW e \in Entries, NEW lease \in Leases
    PROVE  /\ WithLease(e, lease) \in Entries
           /\ WithLease(e, lease).info = e.info
           /\ WithLease(e, lease).hosts = e.hosts
           /\ WithLease(e, lease).lease = lease
BY DEF WithLease, Entries

(* Granting a lease keeps the index sound: the entry it may create is the  *)
(* placeholder.                                                            *)
LEMMA GrantLeaseSound ==
    ASSUME NEW ix, SoundIndex(ix), NEW p \in Peers, NEW f \in Files
    PROVE  SoundIndex(GrantLease(ix, p, f))
<1> DEFINE blank == [version |-> 0, hash |-> NoHash]
           was   == EntryFor(ix, f, blank)
           new   == GrantLease(ix, p, f)
<1>1. IsIndex(ix) /\ blank \in Infos
  BY IndexAssumption DEF SoundIndex, Infos
<1>2. /\ was \in Entries
      /\ f \in DOMAIN ix.files => was = ix.files[f]
      /\ f \notin DOMAIN ix.files => was.hosts = {} /\ was.info = blank
  BY <1>1, EntryForFacts
<1> DEFINE lease == [holder |-> p, left |-> LeaseTerm]
<1>3. /\ new.seen = ix.seen /\ new.held = ix.held
      /\ DOMAIN new.files = DOMAIN ix.files \cup {f}
      /\ new.files[f] = WithLease(was, lease)
      /\ \A g \in DOMAIN ix.files : g # f => new.files[g] = ix.files[g]
      /\ new = [seen |-> new.seen, held |-> new.held, files |-> new.files]
  BY DEF GrantLease
<1>4. /\ new.files[f] \in Entries
      /\ new.files[f].info = was.info
      /\ new.files[f].hosts = was.hosts
      /\ new.files[f].lease.holder = p
  <2>1. lease \in Leases /\ lease.holder = p
    BY IndexAssumption DEF Leases, Expired
  <2> QED
    BY <1>2, <1>3, <2>1, WithLeaseFacts
<1>5. new.files \in [DOMAIN new.files -> Entries]
  <2>1. new.files = [g \in DOMAIN new.files |-> new.files[g]]
    BY DEF GrantLease
  <2> QED
    BY <1>1, <1>3, <1>4, <2>1 DEF IsIndex
<1> HIDE DEF new, was, lease
<1>6. IsIndex(new)
  BY <1>1, <1>3, <1>5 DEF IsIndex
<1>7. MapsAgree(new)
  BY <1>1, <1>2, <1>3, <1>4 DEF SoundIndex, MapsAgree, IsIndex
<1>8. NoneAhead(new)
  BY <1>1, <1>2, <1>3, <1>4 DEF SoundIndex, NoneAhead, IsIndex
<1>9. HostlessIsPlaceholder(new)
  <2>1. p # NoHolder
    BY IndexAssumption DEF NoHolder
  <2> QED
    BY <1>2, <1>3, <1>4, <2>1 DEF SoundIndex, HostlessIsPlaceholder
<1> QED
  BY <1>6, <1>7, <1>8, <1>9 DEF SoundIndex, new

-----------------------------------------------------------------------------
(* Taking hosts away leaves an entry that is one.                          *)
LEMMA KeepHostsFacts ==
    ASSUME NEW e \in Entries, NEW S \in SUBSET Peers
    PROVE  /\ KeepHosts(e, S) \in Entries
           /\ KeepHosts(e, S).info = e.info
           /\ KeepHosts(e, S).hosts = S
           /\ KeepHosts(e, S).lease = e.lease
BY DEF KeepHosts, Entries

(* What a delete does to the maps: the entry is dropped exactly when nobody *)
(* is left to host it.                                                     *)
LEMMA DropHostFacts ==
    ASSUME NEW ix, IsIndex(ix), NEW p \in Peers, NEW f \in DOMAIN ix.files
    PROVE  LET rest == ix.files[f].hosts \ {p}
               new  == DropHost(ix, p, f)
           IN  /\ IsIndex(new)
               /\ new.seen = ix.seen
               /\ new.held[p][f] = NoCopy
               /\ \A r \in Peers, g \in Files :
                     ~(r = p /\ g = f) => new.held[r][g] = ix.held[r][g]
               /\ DOMAIN new.files = {h \in DOMAIN ix.files : h = f => rest # {}}
               /\ f \in DOMAIN new.files => /\ new.files[f].hosts = rest
                                            /\ new.files[f].info = ix.files[f].info
               /\ \A g \in DOMAIN new.files : g # f => new.files[g] = ix.files[g]
<1> DEFINE rest == ix.files[f].hosts \ {p}
           new  == DropHost(ix, p, f)
<1>1. f \in Files /\ ix.files[f] \in Entries /\ rest \in SUBSET Peers
  BY DEF IsIndex, Entries
<1>2. /\ KeepHosts(ix.files[f], rest) \in Entries
      /\ KeepHosts(ix.files[f], rest).info = ix.files[f].info
      /\ KeepHosts(ix.files[f], rest).hosts = rest
  BY <1>1, KeepHostsFacts
<1>3. /\ new = [seen |-> new.seen, held |-> new.held, files |-> new.files]
      /\ new.seen = ix.seen
      /\ new.held = [ix.held EXCEPT ![p] = [ix.held[p] EXCEPT ![f] = NoCopy]]
      /\ DOMAIN new.files = {h \in DOMAIN ix.files : h = f => rest # {}}
      /\ new.files = [g \in DOMAIN new.files |-> new.files[g]]
      /\ f \in DOMAIN new.files => new.files[f] = KeepHosts(ix.files[f], rest)
      /\ \A g \in DOMAIN new.files : g # f => new.files[g] = ix.files[g]
  BY DEF DropHost
<1>4. /\ new.held[p][f] = NoCopy
      /\ \A r \in Peers, g \in Files :
            ~(r = p /\ g = f) => new.held[r][g] = ix.held[r][g]
      /\ new.held \in [Peers -> [Files -> Versions \cup {NoCopy}]]
  BY <1>1, <1>3 DEF IsIndex
<1> HIDE DEF new
<1>5. IsIndex(new)
  <2>1. \A g \in DOMAIN new.files : new.files[g] \in Entries
    BY <1>1, <1>2, <1>3 DEF IsIndex
  <2>2. new.files \in [DOMAIN new.files -> Entries]
    BY <1>3, <2>1
  <2> QED
    BY <1>1, <1>3, <1>4, <2>2 DEF IsIndex
<1> QED
  BY <1>2, <1>3, <1>4, <1>5 DEF new

(* A delete keeps the index sound.                                         *)
LEMMA DropHostSound ==
    ASSUME NEW ix, SoundIndex(ix), NEW p \in Peers, NEW f \in DOMAIN ix.files
    PROVE  SoundIndex(DropHost(ix, p, f))
<1> DEFINE rest == ix.files[f].hosts \ {p}
           new  == DropHost(ix, p, f)
<1>1. IsIndex(ix) /\ f \in Files /\ ix.files[f] \in Entries
  BY DEF SoundIndex, IsIndex
<1>2. /\ IsIndex(new)
      /\ new.seen = ix.seen
      /\ new.held[p][f] = NoCopy
      /\ \A r \in Peers, g \in Files :
            ~(r = p /\ g = f) => new.held[r][g] = ix.held[r][g]
      /\ DOMAIN new.files = {h \in DOMAIN ix.files : h = f => rest # {}}
      /\ f \in DOMAIN new.files => /\ new.files[f].hosts = rest
                                   /\ new.files[f].info = ix.files[f].info
      /\ \A g \in DOMAIN new.files : g # f => new.files[g] = ix.files[g]
  BY <1>1, DropHostFacts
<1> HIDE DEF new
<1>3. MapsAgree(new)
  <2> SUFFICES ASSUME NEW r \in Peers, NEW g \in Files
               PROVE  /\ (g \in DOMAIN new.files /\ r \in new.files[g].hosts)
                            <=> new.held[r][g] # NoCopy
                      /\ new.held[r][g] # NoCopy => new.seen[r] # NotListed
    BY DEF MapsAgree
  <2>1. CASE g = f /\ r = p
    BY <1>2, <2>1
  <2>3. CASE g = f /\ r # p
    <3>1. r \in rest <=> ix.held[r][f] # NoCopy
      BY <2>3 DEF SoundIndex, MapsAgree
    <3>2. f \in DOMAIN new.files <=> rest # {}
      BY <1>2
    <3> QED
      BY <1>2, <2>3, <3>1, <3>2 DEF SoundIndex, MapsAgree
  <2>2. CASE g # f
    BY <1>2, <2>2 DEF SoundIndex, MapsAgree
  <2> QED
    BY <2>1, <2>2, <2>3
<1>4. NoneAhead(new)
  <2> SUFFICES ASSUME NEW g \in DOMAIN new.files, NEW r \in new.files[g].hosts
               PROVE  new.held[r][g] <= new.files[g].info.version
    BY DEF NoneAhead
  <2>1. /\ g \in DOMAIN ix.files /\ g \in Files
        /\ r \in ix.files[g].hosts /\ r \in Peers
        /\ new.files[g].info = ix.files[g].info
        /\ ~(r = p /\ g = f)
    BY <1>1, <1>2 DEF IsIndex, Entries
  <2> QED
    BY <1>2, <2>1 DEF SoundIndex, NoneAhead
<1>5. HostlessIsPlaceholder(new)
  BY <1>2 DEF SoundIndex, HostlessIsPlaceholder
<1> QED
  BY <1>2, <1>3, <1>4, <1>5 DEF SoundIndex, new

(* What pruning does to the maps: the pruned peers leave, and an entry is  *)
(* dropped exactly when one of them was its last host.                     *)
LEMMA PruneFacts ==
    ASSUME NEW ix, IsIndex(ix), NEW gone \in SUBSET Peers
    PROVE  /\ IsIndex(Prune(ix, gone))
           /\ Prune(ix, gone).seen = [r \in Peers |-> IF r \in gone THEN NotListed
                                                                   ELSE ix.seen[r]]
           /\ Prune(ix, gone).held =
                 [r \in Peers |-> IF r \in gone THEN [g \in Files |-> NoCopy]
                                                ELSE ix.held[r]]
           /\ DOMAIN Prune(ix, gone).files =
                 {g \in DOMAIN ix.files :
                     \/ Leaving(ix, gone, g) = {}
                     \/ ix.files[g].hosts \ Leaving(ix, gone, g) # {}}
           /\ \A g \in DOMAIN Prune(ix, gone).files :
                 /\ Prune(ix, gone).files[g].info = ix.files[g].info
                 /\ Prune(ix, gone).files[g].hosts
                       = ix.files[g].hosts \ Leaving(ix, gone, g)
                 /\ Prune(ix, gone).files[g].lease = ix.files[g].lease
<1> DEFINE new     == Prune(ix, gone)
           left(g) == ix.files[g].hosts \ Leaving(ix, gone, g)
<1>1. \A g \in DOMAIN ix.files :
         g \in Files /\ ix.files[g] \in Entries /\ left(g) \in SUBSET Peers
  BY DEF IsIndex, Entries
<1>2. \A g \in DOMAIN ix.files :
         /\ KeepHosts(ix.files[g], left(g)) \in Entries
         /\ KeepHosts(ix.files[g], left(g)).info = ix.files[g].info
         /\ KeepHosts(ix.files[g], left(g)).hosts = left(g)
         /\ KeepHosts(ix.files[g], left(g)).lease = ix.files[g].lease
  BY <1>1, KeepHostsFacts
<1>3. /\ new = [seen |-> new.seen, held |-> new.held, files |-> new.files]
      /\ new.seen = [r \in Peers |-> IF r \in gone THEN NotListed
                                                  ELSE ix.seen[r]]
      /\ new.held = [r \in Peers |-> IF r \in gone THEN [g \in Files |-> NoCopy]
                                                  ELSE ix.held[r]]
      /\ DOMAIN new.files = {g \in DOMAIN ix.files :
                               Leaving(ix, gone, g) = {} \/ left(g) # {}}
      /\ new.files = [g \in DOMAIN new.files |-> new.files[g]]
      /\ \A g \in DOMAIN new.files :
            new.files[g] = KeepHosts(ix.files[g], left(g))
  BY DEF Prune
<1> HIDE DEF new
<1>4. IsIndex(new)
  <2>1. \A g \in DOMAIN new.files : new.files[g] \in Entries
    BY <1>2, <1>3
  <2>2. new.files \in [DOMAIN new.files -> Entries]
    BY <1>3, <2>1
  <2> QED
    BY <1>1, <1>3, <2>2 DEF IsIndex
<1>5. \A g \in DOMAIN new.files : /\ new.files[g].info = ix.files[g].info
                                   /\ new.files[g].hosts = left(g)
                                   /\ new.files[g].lease = ix.files[g].lease
  BY <1>2, <1>3
<1> QED
  BY <1>3, <1>4, <1>5 DEF new

(* Pruning keeps the index sound.                                          *)
LEMMA PruneSound ==
    ASSUME NEW ix, SoundIndex(ix), NEW gone \in SUBSET Peers
    PROVE  SoundIndex(Prune(ix, gone))
<1> DEFINE new     == Prune(ix, gone)
           left(g) == ix.files[g].hosts \ Leaving(ix, gone, g)
<1>1. IsIndex(ix) /\ \A g \in DOMAIN ix.files :
         g \in Files /\ ix.files[g] \in Entries /\ left(g) \in SUBSET Peers
  BY DEF SoundIndex, IsIndex, Entries
<1>2. /\ IsIndex(new)
      /\ new.seen = [r \in Peers |-> IF r \in gone THEN NotListed
                                                  ELSE ix.seen[r]]
      /\ new.held = [r \in Peers |-> IF r \in gone THEN [g \in Files |-> NoCopy]
                                                  ELSE ix.held[r]]
      /\ DOMAIN new.files = {g \in DOMAIN ix.files :
                               Leaving(ix, gone, g) = {} \/ left(g) # {}}
      /\ \A g \in DOMAIN new.files : /\ new.files[g].info = ix.files[g].info
                                      /\ new.files[g].hosts = left(g)
                                      /\ new.files[g].lease = ix.files[g].lease
  BY <1>1, PruneFacts
<1> HIDE DEF new
<1>3. MapsAgree(new)
  <2> SUFFICES ASSUME NEW r \in Peers, NEW g \in Files
               PROVE  /\ (g \in DOMAIN new.files /\ r \in new.files[g].hosts)
                            <=> new.held[r][g] # NoCopy
                      /\ new.held[r][g] # NoCopy => new.seen[r] # NotListed
    BY DEF MapsAgree
  <2>1. (g \in DOMAIN ix.files /\ r \in ix.files[g].hosts) <=> ix.held[r][g] # NoCopy
    BY DEF SoundIndex, MapsAgree
  <2>2. CASE r \in gone
    <3>1. new.held[r][g] = NoCopy
      BY <1>2, <2>2
    <3>2. r \in left(g) => g \notin DOMAIN ix.files
      BY <2>1, <2>2 DEF Leaving
    <3> QED
      BY <1>2, <3>1, <3>2
  <2>3. CASE r \notin gone
    <3>1. r \notin Leaving(ix, gone, g)
      BY <2>3 DEF Leaving
    <3> QED
      BY <1>2, <2>1, <2>3, <3>1 DEF SoundIndex, MapsAgree
  <2> QED
    BY <2>2, <2>3
<1>4. NoneAhead(new)
  <2> SUFFICES ASSUME NEW g \in DOMAIN new.files, NEW r \in new.files[g].hosts
               PROVE  new.held[r][g] <= new.files[g].info.version
    BY DEF NoneAhead
  <2>1. /\ g \in DOMAIN ix.files /\ g \in Files
        /\ r \in ix.files[g].hosts /\ r \in Peers
        /\ r \notin Leaving(ix, gone, g)
        /\ new.files[g].info = ix.files[g].info
    BY <1>1, <1>2
  <2>2. r \notin gone
    BY <2>1 DEF SoundIndex, MapsAgree, Leaving
  <2> QED
    BY <1>2, <2>1, <2>2 DEF SoundIndex, NoneAhead
<1>5. HostlessIsPlaceholder(new)
  <2> SUFFICES ASSUME NEW g \in DOMAIN new.files, new.files[g].hosts = {}
               PROVE  /\ new.files[g].info = [version |-> 0, hash |-> NoHash]
                      /\ new.files[g].lease.holder # NoHolder
    BY DEF HostlessIsPlaceholder
  <2>1. g \in DOMAIN ix.files /\ ix.files[g].hosts = {}
    BY <1>2
  <2> QED
    BY <1>2, <2>1 DEF SoundIndex, HostlessIsPlaceholder
<1> QED
  BY <1>2, <1>3, <1>4, <1>5 DEF SoundIndex, new

-----------------------------------------------------------------------------
(* The passing of time changes ages and the time left on leases.           *)
LEMMA ElapseFacts ==
    ASSUME NEW ix, IsIndex(ix)
    PROVE  /\ IsIndex(Elapse(ix))
           /\ \A r \in Peers :
                 Elapse(ix).seen[r] = NotListed <=> ix.seen[r] = NotListed
           /\ Elapse(ix).held = ix.held
           /\ DOMAIN Elapse(ix).files = DOMAIN ix.files
           /\ \A g \in DOMAIN ix.files :
                 /\ Elapse(ix).files[g].info = ix.files[g].info
                 /\ Elapse(ix).files[g].hosts = ix.files[g].hosts
                 /\ Elapse(ix).files[g].lease.holder = ix.files[g].lease.holder
<1> DEFINE new == Elapse(ix)
<1>2. \A a \in Ages \cup {NotListed} :
         /\ Older(a) \in Ages \cup {NotListed}
         /\ Older(a) = NotListed <=> a = NotListed
  BY IndexAssumption DEF Older, Ages, NotListed
<1> DEFINE rest(g) == [holder |-> ix.files[g].lease.holder,
                       left |-> RunDown(ix.files[g].lease.left)]
<1>3. \A g \in DOMAIN ix.files : rest(g) \in Leases
  <2>1. \A l \in Expired .. LeaseTerm : RunDown(l) \in Expired .. LeaseTerm
    BY IndexAssumption DEF RunDown, Expired
  <2>2. \A g \in DOMAIN ix.files : ix.files[g].lease \in Leases
    BY DEF IsIndex, Entries
  <2> QED
    BY <2>1, <2>2 DEF Leases
<1>4. /\ new = [seen |-> new.seen, held |-> new.held, files |-> new.files]
      /\ new.seen = [r \in Peers |-> Older(ix.seen[r])]
      /\ new.held = ix.held
      /\ DOMAIN new.files = DOMAIN ix.files
      /\ new.files = [g \in DOMAIN new.files |-> new.files[g]]
      /\ \A g \in DOMAIN ix.files :
            new.files[g] = WithLease(ix.files[g], rest(g))
  BY DEF Elapse
<1>5. \A g \in DOMAIN ix.files :
         /\ new.files[g] \in Entries
         /\ new.files[g].info = ix.files[g].info
         /\ new.files[g].hosts = ix.files[g].hosts
         /\ new.files[g].lease.holder = ix.files[g].lease.holder
  <2> SUFFICES ASSUME NEW g \in DOMAIN ix.files
               PROVE  /\ new.files[g] \in Entries
                      /\ new.files[g].info = ix.files[g].info
                      /\ new.files[g].hosts = ix.files[g].hosts
                      /\ new.files[g].lease.holder = ix.files[g].lease.holder
    OBVIOUS
  <2>1. ix.files[g] \in Entries /\ rest(g) \in Leases
    BY <1>3 DEF IsIndex
  <2>2. new.files[g] = WithLease(ix.files[g], rest(g))
    BY <1>4
  <2>3. rest(g).holder = ix.files[g].lease.holder
    OBVIOUS
  <2> QED
    BY <2>1, <2>2, <2>3, WithLeaseFacts
<1> HIDE DEF new
<1>6. IsIndex(new)
  <2>1. new.files \in [DOMAIN new.files -> Entries]
    BY <1>4, <1>5
  <2>2. new.seen \in [Peers -> Ages \cup {NotListed}]
    BY <1>2, <1>4 DEF IsIndex
  <2> QED
    BY <1>4, <2>1, <2>2 DEF IsIndex
<1>7. \A r \in Peers : new.seen[r] = NotListed <=> ix.seen[r] = NotListed
  BY <1>2, <1>4 DEF IsIndex
<1> QED
  BY <1>4, <1>5, <1>6, <1>7 DEF new

(* The passing of time keeps the index sound.                              *)
LEMMA ElapseSound ==
    ASSUME NEW ix, SoundIndex(ix)
    PROVE  SoundIndex(Elapse(ix))
<1> DEFINE new == Elapse(ix)
<1>1. /\ IsIndex(new)
      /\ \A r \in Peers : new.seen[r] = NotListed <=> ix.seen[r] = NotListed
      /\ new.held = ix.held
      /\ DOMAIN new.files = DOMAIN ix.files
      /\ \A g \in DOMAIN ix.files :
            /\ new.files[g].info = ix.files[g].info
            /\ new.files[g].hosts = ix.files[g].hosts
            /\ new.files[g].lease.holder = ix.files[g].lease.holder
  BY ElapseFacts DEF SoundIndex
<1> HIDE DEF new
<1>2. MapsAgree(new)
  BY <1>1 DEF SoundIndex, MapsAgree
<1>3. NoneAhead(new)
  BY <1>1 DEF SoundIndex, NoneAhead
<1>4. HostlessIsPlaceholder(new)
  BY <1>1 DEF SoundIndex, HostlessIsPlaceholder
<1> QED
  BY <1>1, <1>2, <1>3, <1>4 DEF SoundIndex, new
=============================================================================
