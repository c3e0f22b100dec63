-------------------------- MODULE DirectoryProofs ---------------------------
(***************************************************************************)
(* The primary implements LeasedDirectory.tla when clients register at     *)
(* version 0: each step of the server is one step of the directory, or     *)
(* none.  A /register then only enlists, so that an announce by the lease  *)
(* holder is the only way for a version to grow.                           *)
(***************************************************************************)
EXTENDS PrimaryServerProofs

Ver  == DirectoryVersion
Lock == DirectoryLock

(* What the directory shows of one file, listed or not.                    *)
LEMMA ShownFacts ==
    ASSUME SoundIndex(index)
    PROVE  /\ Ver \in [Files -> Versions \cup {Directory!Absent}]
           /\ Lock \in [Files -> Directory!Locks]
           /\ \A f \in Files : f \notin DOMAIN index.files =>
                /\ Ver[f] = Directory!Absent
                /\ Lock[f] = Directory!Unlocked
           /\ \A f \in DOMAIN index.files :
                /\ f \in Files
                /\ Ver[f] = index.files[f].info.version
                /\ Ver[f] \in Nat
                /\ index.files[f].lease \in Leases
<1>1. \A f \in DOMAIN index.files :
         /\ f \in Files
         /\ index.files[f].info.version \in Versions
         /\ index.files[f].lease \in Leases
  BY DEF SoundIndex, IsIndex, Entries, Infos
<1>2. Versions \subseteq Nat
  BY IndexAssumption
<1>3. Lock \in [Files -> Directory!Locks]
  BY <1>1 DEF Lock, DirectoryLock, Leases, Directory!Locks, Directory!Nobody,
              NoHolder
<1> QED
  BY <1>1, <1>2, <1>3 DEF Ver, DirectoryVersion, Lock, DirectoryLock,
     Directory!Absent, Directory!Unlocked, Directory!Nobody, NoHolder

(* A step that keeps the version and the lease of a file keeps what the    *)
(* directory shows of it.                                                  *)
LEMMA ShownSame ==
    ASSUME NEW f \in Files,
           f \in DOMAIN index.files <=> f \in DOMAIN index'.files,
           f \in DOMAIN index.files =>
             /\ index'.files[f].info.version = index.files[f].info.version
             /\ index'.files[f].lease = index.files[f].lease
    PROVE  Ver'[f] = Ver[f] /\ Lock'[f] = Lock[f]
BY DEF Ver, DirectoryVersion, Lock, DirectoryLock

(* If that is so of every file, the directory stutters.                    *)
LEMMA AllSame ==
    ASSUME \A f \in Files : Ver'[f] = Ver[f] /\ Lock'[f] = Lock[f]
    PROVE  UNCHANGED Directory!dvars
<1>1. Ver' = Ver /\ Lock' = Lock
  BY DEF Ver, DirectoryVersion, Lock, DirectoryLock
<1> QED
  BY <1>1 DEF Directory!dvars, Ver, Lock

(* If it is so of every file but those of S, and those were not listed and *)
(* are not leased, the directory enlists S.                                *)
LEMMA EnlistsSome ==
    ASSUME SoundIndex(index), SoundIndex(index'), NEW S \in SUBSET Files,
           \A f \in S : f \notin DOMAIN index.files
                        /\ Lock'[f] = Directory!Unlocked,
           \A f \in Files : f \notin S => Ver'[f] = Ver[f] /\ Lock'[f] = Lock[f]
    PROVE  Directory!Enlist(S)
<1>1. Ver' \in [Files -> Versions \cup {Directory!Absent}]
  <2>1. \A f \in DOMAIN index'.files : f \in Files /\ index'.files[f].info.version \in Versions
    BY DEF SoundIndex, IsIndex, Entries, Infos
  <2> QED
    BY <2>1 DEF Ver, DirectoryVersion, Directory!Absent
<1>2. \A f \in S : Ver[f] = Directory!Absent /\ Lock[f] = Directory!Unlocked
  BY ShownFacts
<1>3. Lock' = Lock
  <2>1. \A f \in Files : Lock'[f] = Lock[f]
    BY <1>2
  <2> QED
    BY <2>1 DEF Lock, DirectoryLock
<1> QED
  BY <1>1, <1>2, <1>3 DEF Directory!Enlist, Ver, Lock

(* If it is so of every file but those of S, and those are not listed any  *)
(* more, the directory forgets S.                                          *)
LEMMA ForgetsSome ==
    ASSUME NEW S \in SUBSET Files,
           \A f \in S : f \notin DOMAIN index'.files,
           \A f \in Files : f \notin S => Ver'[f] = Ver[f] /\ Lock'[f] = Lock[f]
    PROVE  Directory!Forget(S)
<1>1. \A f \in S : Ver'[f] = Directory!Absent /\ Lock'[f] = Directory!Unlocked
  BY DEF Ver, DirectoryVersion, Lock, DirectoryLock, Directory!Absent,
         Directory!Unlocked, Directory!Nobody, NoHolder
<1>2. Ver' = [f \in Files |-> IF f \in S THEN Directory!Absent ELSE Ver[f]]
  BY <1>1 DEF Ver, DirectoryVersion
<1>3. Lock' = [f \in Files |-> IF f \in S THEN Directory!Unlocked ELSE Lock[f]]
  BY <1>1 DEF Lock, DirectoryLock
<1> QED
  BY <1>2, <1>3 DEF Directory!Forget, Ver, Lock

-----------------------------------------------------------------------------
(* The initial states agree.                                               *)
LEMMA InitRefines == Init => Directory!Init
BY DEF Init, EmptyIndex, Directory!Init, DirectoryVersion, DirectoryLock,
       Directory!Absent, Directory!Unlocked, Directory!Nobody, NoHolder

(* A registration at version 0 enlists what it brings and changes nothing  *)
(* that is listed: 0 is not above the listed version, and if it is not     *)
(* below it either, then it is the same.                                   *)
LEMMA RegisterRefines ==
    ASSUME RegisterVersions = {0}, Sound, Sound', NEW p \in Peers,
           NEW cat \in RegisterCatalogues, Register(p, cat)
    PROVE  \E S \in SUBSET Files : Directory!Enlist(S)
<1> DEFINE S == DOMAIN cat \ DOMAIN index.files
<1>1. /\ SoundIndex(index) /\ SoundIndex(index') /\ IsIndex(index)
      /\ cat \in Catalogues
      /\ DOMAIN cat \subseteq Files
      /\ \A f \in DOMAIN cat : cat[f] \in Infos /\ cat[f].version = 0
  BY DEF Sound, SoundIndex, RegisterCatalogues, Catalogues
<1>2. /\ index' = ApplyRegister(index, p, cat)
      /\ DOMAIN index'.files = DOMAIN index.files \cup DOMAIN cat
  BY DEF Register, ApplyRegister
<1>3. ASSUME NEW f \in S PROVE Lock'[f] = Directory!Unlocked
  <2>1. f \in DOMAIN cat /\ f \in Files
    BY <1>1
  <2>2. index'.files[f] = Report(EntryFor(index, f, cat[f]), p, cat[f])
    BY <1>2, <2>1 DEF ApplyRegister
  <2>3. index'.files[f].lease = NoLease
    BY <2>2 DEF Report, EntryFor
  <2>4. ~(index'.files[f].lease.left >= 0)
    BY <2>3 DEF NoLease, Expired
  <2> QED
    BY <2>1, <2>4 DEF Lock, DirectoryLock, Directory!Unlocked, Directory!Nobody,
                      NoHolder
<1>4. ASSUME NEW f \in Files, f \notin S
      PROVE  Ver'[f] = Ver[f] /\ Lock'[f] = Lock[f]
  <2>1. CASE f \in DOMAIN cat
    <3>1. f \in DOMAIN index.files
      BY <1>4, <2>1
    <3>2. index'.files[f] = Report(index.files[f], p, cat[f])
      BY <1>2, <2>1, <3>1 DEF ApplyRegister, EntryFor
    <3>3. index.files[f].info.version \in Nat
      BY <1>1, <3>1, IndexAssumption DEF IsIndex, Entries, Infos
    <3>4. /\ index'.files[f].info.version = index.files[f].info.version
          /\ index'.files[f].lease = index.files[f].lease
      BY <1>1, <2>1, <3>2, <3>3 DEF Report
    <3> QED
      BY <1>2, <3>1, <3>4, ShownSame
  <2>2. CASE f \notin DOMAIN cat
    <3>1. f \in DOMAIN index.files => index'.files[f] = index.files[f]
      BY <1>2, <2>2 DEF ApplyRegister
    <3> QED
      BY <1>2, <2>2, <3>1, ShownSame
  <2> QED
    BY <2>1, <2>2
<1>5. S \in SUBSET Files
  BY <1>1
<1> QED
  BY <1>1, <1>3, <1>4, <1>5, EnlistsSome

(* An announce enlists an unknown file, publishes a newer version under    *)
(* the lease, or shows nothing new.                                        *)
LEMMA AnnounceRefines ==
    ASSUME Sound, Sound', NEW p \in Peers, NEW f \in Files, NEW info \in Infos,
           NEW stamp \in Stamps, Announce(p, f, info, stamp)
    PROVE  [Directory!Next]_(Directory!dvars)
<1>1. /\ SoundIndex(index) /\ SoundIndex(index') /\ IsIndex(index)
      /\ index' = ApplyAnnounce(index, p, f, info, stamp)
      /\ AnnounceAllowed(p, f, info)
      /\ info.version \in Versions /\ info.version \in Nat
  BY IndexAssumption DEF Sound, SoundIndex, Announce, Infos
<1>2. /\ DOMAIN index'.files = DOMAIN index.files \cup {f}
      /\ index'.files[f] = Report(EntryFor(index, f, info), p, info)
      /\ \A g \in DOMAIN index.files : g # f => index'.files[g] = index.files[g]
  BY <1>1 DEF ApplyAnnounce
<1>3. \A g \in Files : g # f => Ver'[g] = Ver[g] /\ Lock'[g] = Lock[g]
  BY <1>2, ShownSame
<1>4. CASE f \notin DOMAIN index.files
  <2>1. index'.files[f].lease = NoLease
    BY <1>2, <1>4 DEF Report, EntryFor
  <2>2. Lock'[f] = Directory!Unlocked
    BY <2>1 DEF Lock, DirectoryLock, NoLease, Expired, Directory!Unlocked,
                Directory!Nobody, NoHolder
  <2>3. Directory!Enlist({f})
    BY <1>1, <1>3, <1>4, <2>2, EnlistsSome
  <2> QED
    BY <2>3 DEF Directory!Next
<1>5. CASE f \in DOMAIN index.files
  <2>1. /\ index'.files[f] = Report(index.files[f], p, info)
        /\ index'.files[f].lease = index.files[f].lease
        /\ index.files[f].info.version \in Nat
    BY <1>1, <1>2, <1>5, IndexAssumption
    DEF EntryFor, Report, IsIndex, Entries, Infos
  <2>2. CASE info.version > index.files[f].info.version
    <3>1. LeaseCovers(index, p, f)
      BY <1>1, <1>5, <2>2 DEF AnnounceAllowed
    <3>2. /\ Ver[f] = index.files[f].info.version /\ Ver[f] \in Nat
          /\ Ver'[f] = info.version
          /\ Lock[f].holder = p /\ Lock'[f] = Lock[f]
      BY <1>1, <1>2, <1>5, <2>1, <2>2, <3>1
      DEF Ver, DirectoryVersion, Lock, DirectoryLock, LeaseCovers, Report
    <3>3. Ver' = [Ver EXCEPT ![f] = info.version] /\ Lock' = Lock
      BY <1>3, <3>2 DEF Ver, DirectoryVersion, Lock, DirectoryLock
    <3>4. Directory!Publish(p, f, info.version)
      BY <2>2, <3>2, <3>3 DEF Directory!Publish, Directory!Absent, Ver, Lock
    <3> QED
      BY <1>1, <3>4 DEF Directory!Next
  <2>3. CASE ~(info.version > index.files[f].info.version)
    <3>1. index'.files[f].info.version = index.files[f].info.version
      BY <1>1, <2>1, <2>3 DEF Report
    <3>2. Ver'[f] = Ver[f] /\ Lock'[f] = Lock[f]
      BY <1>2, <1>5, <2>1, <3>1, ShownSame
    <3> QED
      BY <1>3, <3>2, AllSame
  <2> QED
    BY <2>2, <2>3
<1> QED
  BY <1>4, <1>5

(* A granted lease is an acquired lock: it was not firm in another's hand. *)
LEMMA RequestLeaseRefines ==
    ASSUME Sound, NEW p \in Peers, NEW f \in Files, RequestLease(p, f)
    PROVE  Directory!Acquire(p, f)
<1>1. /\ SoundIndex(index) /\ index' = GrantLease(index, p, f)
      /\ ~LeaseBlocks(index, p, f)
  BY DEF Sound, RequestLease
<1>2. /\ DOMAIN index'.files = DOMAIN index.files \cup {f}
      /\ index'.files[f].lease = [holder |-> p, left |-> LeaseTerm]
      /\ index'.files[f].info =
            EntryFor(index, f, [version |-> 0, hash |-> NoHash]).info
      /\ \A g \in DOMAIN index.files : g # f => index'.files[g] = index.files[g]
  BY <1>1 DEF GrantLease, WithLease
<1>3. \A g \in Files : g # f => Ver'[g] = Ver[g] /\ Lock'[g] = Lock[g]
  BY <1>2, ShownSame
<1>4. Lock'[f] = [holder |-> p, firm |-> TRUE]
  <2>1. LeaseTerm > 0 /\ LeaseTerm >= 0
    BY IndexAssumption
  <2>2. Lock'[f] = [holder |-> p, firm |-> LeaseTerm > 0]
    BY <1>2, <2>1 DEF Lock, DirectoryLock
  <2>3. (LeaseTerm > 0) = TRUE
    BY <2>1
  <2> QED
    BY <2>2, <2>3, Zenon
<1>5. Ver'[f] = IF Ver[f] = Directory!Absent THEN 0 ELSE Ver[f]
  <2>1. CASE f \in DOMAIN index.files
    <3>1. Ver'[f] = index.files[f].info.version
      BY <1>2, <2>1 DEF Ver, DirectoryVersion, EntryFor
    <3>2. Ver[f] = index.files[f].info.version /\ Ver[f] \in Nat
      BY <1>1, <2>1, ShownFacts
    <3> QED
      BY <3>1, <3>2 DEF Directory!Absent
  <2>2. CASE f \notin DOMAIN index.files
    BY <1>1, <1>2, <2>2, ShownFacts DEF Ver, DirectoryVersion, EntryFor
  <2> QED
    BY <2>1, <2>2
<1>6. Lock[f].firm => Lock[f].holder = p
  BY <1>1 DEF Lock, DirectoryLock, LeaseBlocks
<1>7. Ver' = [Ver EXCEPT ![f] = IF Ver[f] = Directory!Absent THEN 0 ELSE Ver[f]]
  BY <1>3, <1>5 DEF Ver, DirectoryVersion
<1>8. Lock' = [Lock EXCEPT ![f] = [holder |-> p, firm |-> TRUE]]
  <2>1. Lock' = [g \in Files |-> Lock'[g]] /\ Lock = [g \in Files |-> Lock[g]]
    BY DEF Lock, DirectoryLock
  <2> DEFINE taken == [holder |-> p, firm |-> TRUE]
  <2>2. Lock'[f] = taken
    BY <1>4
  <2> HIDE DEF taken
  <2>3. Lock' = [Lock EXCEPT ![f] = taken]
    BY <1>3, <2>1, <2>2
  <2> QED
    BY <2>3 DEF taken
<1> QED
  BY <1>6, <1>7, <1>8 DEF Directory!Acquire, Ver, Lock

(* Deleting the last copy forgets the file; deleting another shows nothing. *)
LEMMA DeleteRefines ==
    ASSUME Sound, NEW p \in Peers, NEW f \in Files, Delete(p, f)
    PROVE  \E S \in SUBSET Files : Directory!Forget(S)
<1> DEFINE S == DOMAIN index.files \ DOMAIN index'.files
<1>1. /\ index' = DropHost(index, p, f)
      /\ DOMAIN index'.files \subseteq DOMAIN index.files
      /\ \A g \in DOMAIN index'.files :
            /\ index'.files[g].info = index.files[g].info
            /\ index'.files[g].lease = index.files[g].lease
  BY DEF Delete, DropHost, KeepHosts
<1>2. \A g \in Files : g \notin S => Ver'[g] = Ver[g] /\ Lock'[g] = Lock[g]
  BY <1>1, ShownSame
<1>3. S \in SUBSET Files
  BY DEF Sound, SoundIndex, IsIndex
<1> QED
  BY <1>2, <1>3, ForgetsSome

(* A sweep forgets the files whose last hosts it removes.                  *)
LEMMA SweepRefines ==
    ASSUME Sound, Sweep
    PROVE  \E S \in SUBSET Files : Directory!Forget(S)
<1> DEFINE S == DOMAIN index.files \ DOMAIN index'.files
<1>1. /\ DOMAIN index'.files \subseteq DOMAIN index.files
      /\ \A g \in DOMAIN index'.files :
            /\ index'.files[g].info = index.files[g].info
            /\ index'.files[g].lease = index.files[g].lease
  BY DEF Sweep, Prune, KeepHosts
<1>2. \A g \in Files : g \notin S => Ver'[g] = Ver[g] /\ Lock'[g] = Lock[g]
  BY <1>1, ShownSame
<1>3. S \in SUBSET Files
  BY DEF Sound, SoundIndex, IsIndex
<1> QED
  BY <1>2, <1>3, ForgetsSome

(* Time weakens locks and does nothing else.                               *)
LEMMA TickRefines ==
    ASSUME Sound, Tick
    PROVE  Directory!Lapse
<1>1. /\ SoundIndex(index) /\ SoundIndex(index')
      /\ DOMAIN index'.files = DOMAIN index.files
      /\ \A g \in DOMAIN index.files :
            /\ index'.files[g].info = index.files[g].info
            /\ index'.files[g].lease.holder = index.files[g].lease.holder
            /\ index'.files[g].lease.left = RunDown(index.files[g].lease.left)
  BY ElapseSound DEF Sound, Tick, Elapse, WithLease
<1>2. Ver' = Ver
  BY <1>1 DEF Ver, DirectoryVersion
<1>3. Lock' \in [Files -> Directory!Locks]
  <2>1. \A g \in DOMAIN index'.files : index'.files[g].lease \in Leases
    BY <1>1 DEF SoundIndex, IsIndex, Entries
  <2> QED
    BY <2>1 DEF Lock, DirectoryLock, Leases, Directory!Locks,
                Directory!Nobody, NoHolder
<1>4. ASSUME NEW g \in Files PROVE Lock'[g] \in Directory!Weaker(Lock[g])
  <2>1. CASE g \notin DOMAIN index.files
    BY <1>1, <2>1 DEF Lock, DirectoryLock, Directory!Weaker
  <2>2. CASE g \in DOMAIN index.files
    <3> DEFINE l == index.files[g].lease
               m == index'.files[g].lease
    <3>1. l.left \in Expired .. LeaseTerm /\ m.left = RunDown(l.left)
          /\ m.holder = l.holder
      BY <1>1, <2>2, ShownFacts DEF Leases
    <3>2. CASE l.left = Expired \/ l.left = 0
      <4>1. ~(m.left >= 0)
        BY <3>1, <3>2 DEF RunDown, Expired
      <4>2. Lock'[g] = Directory!Unlocked
        BY <1>1, <4>1 DEF Lock, DirectoryLock, Directory!Unlocked,
                          Directory!Nobody, NoHolder
      <4> QED
        BY <4>2 DEF Directory!Weaker
    <3>3. CASE l.left > 0
      <4>1. m.left >= 0
        BY <3>1, <3>3, IndexAssumption DEF RunDown, Expired
      <4>2. Lock[g] = [holder |-> l.holder, firm |-> TRUE]
        <5>1. Lock[g] = [holder |-> l.holder, firm |-> l.left > 0]
          BY <2>2, <3>1, <3>3, IndexAssumption DEF Lock, DirectoryLock, Expired
        <5>2. (l.left > 0) = TRUE
          BY <3>3
        <5> QED
          BY <5>1, <5>2, Zenon
      <4>3. Lock'[g] = [holder |-> l.holder, firm |-> m.left > 0]
        BY <1>1, <2>2, <3>1, <4>1 DEF Lock, DirectoryLock
      <4>4. CASE m.left > 0
        BY <4>2, <4>3, <4>4 DEF Directory!Weaker
      <4>5. CASE ~(m.left > 0)
        <5>1. Lock'[g] = [holder |-> l.holder, firm |-> FALSE]
          <6>1. (m.left > 0) = FALSE
            BY <4>5
          <6> QED
            BY <4>3, <6>1, Zenon
        <5>2. Lock[g].holder = l.holder
          BY <4>2
        <5> QED
          BY <5>1, <5>2 DEF Directory!Weaker
      <4> QED
        BY <4>4, <4>5
    <3> QED
      BY <3>1, <3>2, <3>3, IndexAssumption DEF Expired
  <2> QED
    BY <2>1, <2>2
<1> QED
  BY <1>2, <1>3, <1>4 DEF Directory!Lapse, Ver, Lock

(* Every step of the server is a step of the directory or none.            *)
LEMMA NextRefines ==
    ASSUME RegisterVersions = {0}, Sound, Sound', [Next]_vars
    PROVE  [Directory!Next]_(Directory!dvars)
<1>1. ASSUME NEW p \in Peers, NEW cat \in RegisterCatalogues, Register(p, cat)
      PROVE  Directory!Next
  BY <1>1, RegisterRefines DEF Directory!Next
<1>2. ASSUME NEW p \in Peers, Heartbeat(p)
      PROVE  UNCHANGED Directory!dvars
  <2>1. index'.files = index.files
    BY <1>2 DEF Heartbeat, Refresh
  <2> QED
    BY <2>1, ShownSame, AllSame
<1>3. ASSUME NEW p \in Peers, NEW f \in Files, NEW info \in Infos,
             NEW stamp \in Stamps, Announce(p, f, info, stamp)
      PROVE  [Directory!Next]_(Directory!dvars)
  BY <1>3, AnnounceRefines
<1>4. ASSUME NEW p \in Peers, NEW f \in Files, RequestLease(p, f)
      PROVE  Directory!Next
  BY <1>4, RequestLeaseRefines DEF Directory!Next
<1>5. ASSUME NEW p \in Peers, NEW f \in Files, Delete(p, f)
      PROVE  Directory!Next
  BY <1>5, DeleteRefines DEF Directory!Next
<1>6. CASE Sweep
  BY <1>6, SweepRefines DEF Directory!Next
<1>7. CASE Tick
  BY <1>7, TickRefines DEF Directory!Next
<1>8. CASE Restart
  <2>1. DOMAIN index'.files = {}
    BY <1>8 DEF Restart, EmptyIndex
  <2>2. Directory!Forget(Files)
    BY <2>1, ForgetsSome
  <2> QED
    BY <2>2 DEF Directory!Next
<1>9. CASE UNCHANGED vars
  <2>1. index' = index
    BY <1>9 DEF vars
  <2> QED
    BY <2>1, ShownSame, AllSame
<1> QED
  BY <1>1, <1>2, <1>3, <1>4, <1>5, <1>6, <1>7, <1>8, <1>9 DEF Next

(* If clients register at version 0, a listed version is raised only under *)
(* the lease, and a lease in force passes to another peer only after the   *)
(* file was forgotten (server.go:302-332, 407-414).                        *)
THEOREM PrimaryImplementsDirectory ==
    ASSUME RegisterVersions = {0}
    PROVE  Spec => ImplementsDirectory
<1>1. Sound /\ Sound' /\ [Next]_vars => [Directory!Next]_(Directory!dvars)
  BY NextRefines
<1> QED
  BY <1>1, InitRefines, AlwaysSound, PTL DEF Spec, ImplementsDirectory,
                                             Directory!Spec
=============================================================================
