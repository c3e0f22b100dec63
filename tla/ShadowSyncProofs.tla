-------------------------- MODULE ShadowSyncProofs --------------------------
(***************************************************************************)
(* With ideal delivery the shadow can stand in for the primary: for every  *)
(* copy that the primary knows of a peer in its TTL, the last operation in *)
(* flight that is about it says so, or the shadow has it already.          *)
(***************************************************************************)
EXTENDS ShadowSync, PrimaryServerProofs, SequenceTheorems, FiniteSetTheorems

-----------------------------------------------------------------------------
(* What an operation in flight says about the copy of f at p.              *)
Touches(op, p, f) ==
    /\ op.peer = p
    /\ \/ op.kind = "register" /\ f \in DOMAIN op.list
       \/ op.kind \in {"announce", "delete"} /\ op.file = f
       \/ op.kind = "prune"

Gives(op, p, f, v) ==
    /\ op.peer = p
    /\ \/ op.kind = "register" /\ f \in DOMAIN op.list /\ op.list[f].version = v
       \/ op.kind = "announce" /\ op.file = f /\ op.info.version = v

Renews(op, p) == op.peer = p /\ op.kind \in {"register", "announce", "heartbeat"}

(* The last operation of ops about the copy gives its version.             *)
UnderWay(ix, ops, p, f) ==
    \E i \in 1 .. Len(ops) :
        /\ Gives(ops[i], p, f, ix.held[p][f])
        /\ \A j \in 1 .. Len(ops) : j > i => ~Touches(ops[j], p, f)

(* No operation is about it, and the shadow mir has it and lists p.  It    *)
(* does not think that p is older than it is, except that it has still to  *)
(* receive the report that made p younger.                                 *)
Settled(ix, mir, ops, p, f) ==
    /\ \A i \in 1 .. Len(ops) : ~Touches(ops[i], p, f)
    /\ mir.held[p][f] = ix.held[p][f]
    /\ f \in DOMAIN mir.files /\ p \in mir.files[f].hosts
    /\ mir.seen[p] \in 0 .. PeerTTL
    /\ mir.seen[p] <= ix.seen[p] \/ \E i \in 1 .. Len(ops) : Renews(ops[i], p)

Covered(ix, mir, ops, p, f) ==
    UnderWay(ix, ops, p, f) \/ Settled(ix, mir, ops, p, f)

CoveredWhileIdeal ==
    ideal =>
        \A p \in Peers \ apart, f \in Files :
            index.seen[p] <= PeerTTL /\ index.held[p][f] # NoCopy =>
                Covered(index, mirror, flight, p, f)

-----------------------------------------------------------------------------
(* Sequences of operations.                                                *)

(* Taking an element out of a sequence.                                    *)
LEMMA RemoveAtFacts ==
    ASSUME NEW S, NEW s \in Seq(S), NEW i \in 1 .. Len(s)
    PROVE  /\ RemoveAt(s, i) \in Seq(S)
           /\ Len(RemoveAt(s, i)) = Len(s) - 1
           /\ i = 1 => \A j \in 1 .. Len(s) - 1 : RemoveAt(s, i)[j] = s[j + 1]
<1> DEFINE front == SubSeq(s, 1, i - 1)
           back  == SubSeq(s, i + 1, Len(s))
<1>1. Len(s) \in Nat /\ \A j \in 1 .. Len(s) : s[j] \in S
  BY ElementOfSeq, LenProperties
<1>2. /\ front \in Seq(S) /\ Len(front) = i - 1
  <2>1. \A j \in 1 .. i - 1 : s[j] \in S
    BY <1>1
  <2>2. /\ SubSeq(s, 1, i - 1) \in Seq(S)
        /\ Len(SubSeq(s, 1, i - 1)) = IF 1 <= i - 1 THEN (i - 1) - 1 + 1 ELSE 0
    BY <1>1, <2>1, SubSeqProperties
  <2> QED
    BY <1>1, <2>2
<1>3. /\ back \in Seq(S) /\ Len(back) = Len(s) - i
      /\ \A j \in 1 .. Len(s) - i : back[j] = s[i + j]
  <2>1. \A j \in i + 1 .. Len(s) : s[j] \in S
    BY <1>1
  <2>2. /\ SubSeq(s, i + 1, Len(s)) \in Seq(S)
        /\ Len(SubSeq(s, i + 1, Len(s))) =
              IF i + 1 <= Len(s) THEN Len(s) - (i + 1) + 1 ELSE 0
        /\ \A j \in 1 .. Len(s) - (i + 1) + 1 :
              SubSeq(s, i + 1, Len(s))[j] = s[(i + 1) + j - 1]
    BY <1>1, <2>1, SubSeqProperties
  <2> QED
    BY <1>1, <2>2
<1> HIDE DEF front, back
<1>4. /\ front \o back \in Seq(S) /\ Len(front \o back) = Len(front) + Len(back)
      /\ \A j \in 1 .. Len(front) + Len(back) :
            (front \o back)[j] = IF j <= Len(front) THEN front[j]
                                                    ELSE back[j - Len(front)]
  BY <1>2, <1>3, ConcatProperties
<1>5. RemoveAt(s, i) = front \o back
  BY DEF RemoveAt, front, back
<1>6. i = 1 => \A j \in 1 .. Len(s) - 1 : (front \o back)[j] = s[j + 1]
  BY <1>1, <1>2, <1>3, <1>4
<1>7. Len(front \o back) = Len(s) - 1
  BY <1>1, <1>2, <1>3, <1>4
<1> QED
  BY <1>4, <1>5, <1>6, <1>7

(* Prunes are sent one for each stale peer, in some order.                 *)
LEMMA PruneList ==
    ASSUME NEW gone \in SUBSET Peers
    PROVE  SetToSeq([kind : {"prune"}, peer : gone]) \in Seq([kind : {"prune"}, peer : gone])
<1> DEFINE ops == [kind : {"prune"}, peer : gone]
           g   == [p \in gone |-> [kind |-> "prune", peer |-> p]]
<1>1. IsFiniteSet(gone)
  BY SyncAssumption, FS_Subset
<1>2. g \in Surjection(gone, ops)
  <2>1. g \in [gone -> ops]
    OBVIOUS
  <2>2. \A o \in ops : \E p \in gone : g[p] = o
    <3> TAKE o \in ops
    <3>1. o.peer \in gone /\ o = [kind |-> "prune", peer |-> o.peer]
      OBVIOUS
    <3> QED
      BY <3>1
  <2> HIDE DEF g
  <2> QED
    BY <2>1, <2>2 DEF Surjection
<1> HIDE DEF ops, g
<1>3. IsFiniteSet(ops)
  BY <1>1, <1>2, FS_Surjection
<1>4. Cardinality(ops) \in Nat /\ ExistsBijection(1 .. Cardinality(ops), ops)
  BY <1>3, FS_CardinalityType
<1> DEFINE size == Cardinality(ops)
<1>5. PICK b \in [1 .. size -> ops] : IsInjective(b)
  BY <1>4 DEF ExistsBijection, Bijection, Injection
<1> HIDE DEF size
<1>6. SetToSeq(ops) = CHOOSE c \in [1 .. size -> ops] : IsInjective(c)
  BY DEF SetToSeq, size
<1>7. SetToSeq(ops) \in [1 .. size -> ops]
  BY <1>5, <1>6, Zenon
<1>8. size \in Nat
  BY <1>4 DEF size
<1>9. SetToSeq(ops) \in Seq(ops)
  BY <1>7, <1>8, SeqDef
<1> QED
  BY <1>9 DEF ops

(* What is sent keeps a copy covered that it is not about, and a report    *)
(* that makes its peer younger is among what is sent.                      *)
LEMMA SendKeepsCovered ==
    ASSUME NEW S, NEW ops \in Seq(S), NEW more \in Seq(S),
           NEW ix, NEW new, NEW mir, NEW p, NEW f,
           Covered(ix, mir, ops, p, f),
           new.held[p][f] = ix.held[p][f],
           \/ new.seen[p] = ix.seen[p]
           \/ \E i \in 1 .. Len(more) : Renews(more[i], p),
           \A i \in 1 .. Len(more) : ~Touches(more[i], p, f)
    PROVE  Covered(new, mir, ops \o more, p, f)
<1> DEFINE all == ops \o more
<1>1. /\ Len(ops) \in Nat /\ Len(more) \in Nat
      /\ Len(all) = Len(ops) + Len(more)
      /\ \A i \in 1 .. Len(ops) + Len(more) :
            all[i] = IF i <= Len(ops) THEN ops[i] ELSE more[i - Len(ops)]
  BY ConcatProperties, LenProperties
<1> HIDE DEF all
<1>2. \A i \in 1 .. Len(ops) : i \in 1 .. Len(all) /\ all[i] = ops[i]
  BY <1>1
<1>3. \A i \in 1 .. Len(more) : /\ Len(ops) + i \in 1 .. Len(all)
                                /\ all[Len(ops) + i] = more[i]
  BY <1>1
<1>4. \A i \in 1 .. Len(all) :
         \/ i \in 1 .. Len(ops)
         \/ i > Len(ops) /\ i - Len(ops) \in 1 .. Len(more) /\ all[i] = more[i - Len(ops)]
  BY <1>1
<1>5. CASE UnderWay(ix, ops, p, f)
  <2>1. PICK i \in 1 .. Len(ops) :
           /\ Gives(ops[i], p, f, ix.held[p][f])
           /\ \A j \in 1 .. Len(ops) : j > i => ~Touches(ops[j], p, f)
    BY <1>5 DEF UnderWay
  <2>2. Gives(all[i], p, f, new.held[p][f])
    BY <1>2, <2>1
  <2>3. ASSUME NEW j \in 1 .. Len(all), j > i PROVE ~Touches(all[j], p, f)
    BY <1>2, <1>4, <2>1, <2>3
  <2>4. UnderWay(new, all, p, f)
    BY <1>2, <2>2, <2>3 DEF UnderWay
  <2> QED
    BY <2>4 DEF Covered, all
<1>6. CASE Settled(ix, mir, ops, p, f)
  <2>1. \A i \in 1 .. Len(all) : ~Touches(all[i], p, f)
    BY <1>2, <1>4, <1>6 DEF Settled
  <2>2. mir.seen[p] <= new.seen[p] \/ \E i \in 1 .. Len(all) : Renews(all[i], p)
    <3>1. CASE \E i \in 1 .. Len(more) : Renews(more[i], p)
      BY <1>3, <3>1
    <3>2. CASE new.seen[p] = ix.seen[p]
      BY <1>2, <1>6, <3>2 DEF Settled
    <3> QED
      BY <3>1, <3>2
  <2>3. Settled(new, mir, all, p, f)
    BY <1>6, <2>1, <2>2 DEF Settled
  <2> QED
    BY <2>3 DEF Covered, all
<1> QED
  BY <1>5, <1>6 DEF Covered

(* The report of a copy covers it.                                         *)
LEMMA ReportCovers ==
    ASSUME NEW S, NEW ops \in Seq(S), NEW op \in S,
           NEW ix, NEW mir, NEW p, NEW f,
           Gives(op, p, f, ix.held[p][f])
    PROVE  Covered(ix, mir, ops \o <<op>>, p, f)
<1> DEFINE all == ops \o <<op>>
<1>1. /\ Len(ops) \in Nat /\ Len(all) = Len(ops) + 1
      /\ all[Len(ops) + 1] = op
  BY ConcatProperties, LenProperties
<1> HIDE DEF all
<1>2. UnderWay(ix, all, p, f)
  BY <1>1 DEF UnderWay
<1> QED
  BY <1>2 DEF Covered, all

-----------------------------------------------------------------------------
(* What the shadow makes of one operation: a copy it is about it gets or   *)
(* loses, and every other copy stays, of a peer that does not grow older.  *)
Applied(op, mir, new) ==
    \A p \in Peers, f \in Files :
        /\ \A v : Gives(op, p, f, v) =>
              /\ new.held[p][f] = v /\ new.seen[p] = 0
              /\ f \in DOMAIN new.files /\ p \in new.files[f].hosts
        /\ ~Touches(op, p, f) =>
              /\ new.held[p][f] = mir.held[p][f]
              /\ f \in DOMAIN mir.files /\ p \in mir.files[f].hosts =>
                    f \in DOMAIN new.files /\ p \in new.files[f].hosts
              /\ new.seen[p] = mir.seen[p] \/ new.seen[p] = 0
              /\ Renews(op, p) /\ mir.seen[p] # NotListed => new.seen[p] = 0

LEMMA RegisterApplied ==
    ASSUME NEW mir, IsIndex(mir), NEW p \in Peers, NEW cat \in Catalogues,
           NEW op, op.kind = "register", op.peer = p, op.list = cat
    PROVE  /\ IsIndex(ApplyRegister(mir, p, cat))
           /\ Applied(op, mir, ApplyRegister(mir, p, cat))
<1> DEFINE new == ApplyRegister(mir, p, cat)
<1>1. /\ IsIndex(new)
      /\ DOMAIN new.files = DOMAIN mir.files \cup DOMAIN cat
      /\ new.seen[p] = 0
      /\ \A r \in Peers : r # p => /\ new.seen[r] = mir.seen[r]
                                   /\ new.held[r] = mir.held[r]
      /\ \A f \in Files : f \notin DOMAIN cat =>
            /\ new.held[p][f] = mir.held[p][f]
            /\ f \in DOMAIN mir.files => new.files[f] = mir.files[f]
      /\ \A f \in DOMAIN cat :
            /\ new.held[p][f] = cat[f].version
            /\ new.files[f] = Report(EntryFor(mir, f, cat[f]), p, cat[f])
  BY RegisterFacts
<1>2. DOMAIN cat \subseteq Files /\ \A f \in DOMAIN cat : cat[f] \in Infos
  BY DEF Catalogues
<1>3. \A f \in DOMAIN cat :
         new.files[f].hosts =
               (IF f \in DOMAIN mir.files THEN mir.files[f].hosts ELSE {}) \cup {p}
  BY <1>1, <1>2, EntryForFacts, ReportFacts
<1> HIDE DEF new
<1>4. ASSUME NEW r \in Peers, NEW f \in Files, NEW v, Gives(op, r, f, v)
      PROVE  /\ new.held[r][f] = v /\ new.seen[r] = 0
             /\ f \in DOMAIN new.files /\ r \in new.files[f].hosts
  BY <1>1, <1>3, <1>4 DEF Gives
<1>5. ASSUME NEW r \in Peers, NEW f \in Files, ~Touches(op, r, f)
      PROVE  /\ new.held[r][f] = mir.held[r][f]
             /\ f \in DOMAIN mir.files /\ r \in mir.files[f].hosts =>
                   f \in DOMAIN new.files /\ r \in new.files[f].hosts
             /\ new.seen[r] = mir.seen[r] \/ new.seen[r] = 0
             /\ Renews(op, r) /\ mir.seen[r] # NotListed => new.seen[r] = 0
  <2>1. r # p \/ f \notin DOMAIN cat
    BY <1>5 DEF Touches
  <2>2. r # p => ~Renews(op, r)
    BY DEF Renews
  <2> QED
    BY <1>1, <1>3, <2>1, <2>2
<1>6. Applied(op, mir, new)
  BY <1>4, <1>5 DEF Applied
<1> QED
  BY <1>1, <1>6 DEF new

LEMMA AnnounceApplied ==
    ASSUME NEW mir, IsIndex(mir), NEW p \in Peers, NEW f \in Files, NEW info \in Infos,
           NEW op, op.kind = "announce", op.peer = p, op.file = f, op.info = info
    PROVE  /\ IsIndex(ApplyAnnounce(mir, p, f, info, 0))
           /\ Applied(op, mir, ApplyAnnounce(mir, p, f, info, 0))
<1> DEFINE cat == OneFile(f, info)
           reg == ApplyRegister(mir, p, cat)
           like == [kind |-> "register", peer |-> p, list |-> cat]
<1>1. 0 \in Ages
  BY IndexAssumption DEF Ages
<1>2. /\ cat \in Catalogues
      /\ ApplyAnnounce(mir, p, f, info, 0) = Dated(reg, p, 0)
  BY <1>1, AnnounceFacts
<1>3. DOMAIN cat = {f} /\ cat[f] = info
  BY DEF OneFile
<1>4. like.kind = "register" /\ like.peer = p /\ like.list = cat
  OBVIOUS
<1> HIDE DEF cat, like
<1>5. IsIndex(reg) /\ Applied(like, mir, reg)
  BY <1>2, <1>4, RegisterApplied
<1>6. reg.seen[p] = 0
  BY <1>2, RegisterFacts
<1> HIDE DEF reg
<1>7. Dated(reg, p, 0) = reg
  BY <1>5, <1>6 DEF Dated, IsIndex
<1>8. \A r, g, v : /\ Gives(op, r, g, v) <=> Gives(like, r, g, v)
                   /\ Touches(op, r, g) <=> Touches(like, r, g)
                   /\ Renews(op, r) <=> Renews(like, r)
  BY <1>3, <1>4 DEF Gives, Touches, Renews
<1>9. Applied(op, mir, reg)
  BY <1>5, <1>8 DEF Applied
<1> QED
  BY <1>2, <1>5, <1>7, <1>9

LEMMA PruneApplied ==
    ASSUME NEW mir, IsIndex(mir), NEW p \in Peers,
           NEW op, op.kind = "prune", op.peer = p
    PROVE  /\ IsIndex(Shadow!ForgetPeer(mir, p))
           /\ Applied(op, mir, Shadow!ForgetPeer(mir, p))
<1> DEFINE new == Shadow!ForgetPeer(mir, p)
<1>1. /\ new = [seen |-> new.seen, held |-> new.held, files |-> new.files]
      /\ new.seen = [mir.seen EXCEPT ![p] = NotListed]
      /\ new.held = [mir.held EXCEPT ![p] = [f \in Files |-> NoCopy]]
      /\ new.files = mir.files
  BY DEF Shadow!ForgetPeer, Shadow!NotListed, Shadow!NoCopy, NotListed, NoCopy
<1> HIDE DEF new
<1>2. IsIndex(new)
  BY <1>1 DEF IsIndex
<1>3. \A r \in Peers : r # p => /\ new.held[r] = mir.held[r]
                                /\ new.seen[r] = mir.seen[r]
  BY <1>1 DEF IsIndex
<1>4. Applied(op, mir, new)
  BY <1>1, <1>3 DEF Applied, Gives, Touches, Renews
<1> QED
  BY <1>2, <1>4 DEF new

LEMMA HeartbeatApplied ==
    ASSUME NEW mir, IsIndex(mir), NEW p \in Peers,
           NEW op, op.kind = "heartbeat", op.peer = p
    PROVE  IsIndex(Refresh(mir, p)) /\ Applied(op, mir, Refresh(mir, p))
<1> DEFINE new == Refresh(mir, p)
<1>1. /\ new = [seen |-> new.seen, held |-> new.held, files |-> new.files]
      /\ new.seen = IF p \in Listed(mir) THEN [mir.seen EXCEPT ![p] = 0] ELSE mir.seen
      /\ new.held = mir.held /\ new.files = mir.files
  BY DEF Refresh
<1> HIDE DEF new
<1>2. /\ new.seen \in [Peers -> Ages \cup {NotListed}]
      /\ \A r \in Peers : /\ new.seen[r] = mir.seen[r] \/ new.seen[r] = 0
                          /\ r = p /\ mir.seen[r] # NotListed => new.seen[r] = 0
  BY <1>1, IndexAssumption DEF IsIndex, Ages, Listed
<1>3. IsIndex(new)
  BY <1>1, <1>2 DEF IsIndex
<1>4. Applied(op, mir, new)
  BY <1>1, <1>2 DEF Applied, Gives, Touches, Renews
<1> QED
  BY <1>3, <1>4 DEF new

LEMMA DeleteApplied ==
    ASSUME NEW mir, IsIndex(mir), NEW p \in Peers, NEW f \in Files,
           NEW op, op.kind = "delete", op.peer = p, op.file = f
    PROVE  /\ IsIndex(Shadow!ForgetHost(mir, p, f))
           /\ Applied(op, mir, Shadow!ForgetHost(mir, p, f))
<1> DEFINE new == Shadow!ForgetHost(mir, p, f)
<1>0. \A r \in Peers, g \in Files :
         /\ ~(\E v : Gives(op, r, g, v))
         /\ Touches(op, r, g) <=> r = p /\ g = f
         /\ ~Renews(op, r)
  BY DEF Gives, Touches, Renews
<1>1. CASE f \in DOMAIN mir.files
  <2>1. new = DropHost(mir, p, f)
    BY <1>1 DEF Shadow!ForgetHost, Shadow!DropHost, Shadow!KeepHosts, Shadow!NoCopy,
                DropHost, KeepHosts, NoCopy
  <2> HIDE DEF new
  <2>2. /\ IsIndex(new)
        /\ new.seen = mir.seen
        /\ \A r \in Peers, g \in Files :
              ~(r = p /\ g = f) => new.held[r][g] = mir.held[r][g]
        /\ DOMAIN new.files = {h \in DOMAIN mir.files :
                                  h = f => mir.files[f].hosts \ {p} # {}}
        /\ f \in DOMAIN new.files => new.files[f].hosts = mir.files[f].hosts \ {p}
        /\ \A g \in DOMAIN new.files : g # f => new.files[g] = mir.files[g]
    BY <1>1, <2>1, DropHostFacts
  <2>3. ASSUME NEW r \in Peers, NEW g \in Files, ~(r = p /\ g = f),
               g \in DOMAIN mir.files, r \in mir.files[g].hosts
        PROVE  g \in DOMAIN new.files /\ r \in new.files[g].hosts
    <3>1. CASE g = f
      BY <2>2, <2>3, <3>1
    <3>2. CASE g # f
      BY <2>2, <2>3, <3>2
    <3> QED
      BY <3>1, <3>2
  <2>4. Applied(op, mir, new)
    BY <1>0, <2>2, <2>3 DEF Applied
  <2> QED
    BY <2>2, <2>4 DEF new
<1>2. CASE f \notin DOMAIN mir.files
  <2>1. /\ new = [seen |-> new.seen, held |-> new.held, files |-> new.files]
        /\ new.seen = mir.seen
        /\ new.held = [mir.held EXCEPT ![p] = [mir.held[p] EXCEPT ![f] = NoCopy]]
        /\ new.files = mir.files
    BY <1>2 DEF Shadow!ForgetHost, Shadow!NoCopy, NoCopy
  <2> HIDE DEF new
  <2>2. /\ IsIndex(new)
        /\ \A r \in Peers, g \in Files :
              ~(r = p /\ g = f) => new.held[r][g] = mir.held[r][g]
    BY <2>1 DEF IsIndex
  <2>3. Applied(op, mir, new)
    BY <1>0, <2>1, <2>2 DEF Applied
  <2> QED
    BY <2>2, <2>3 DEF new
<1> QED
  BY <1>1, <1>2

(* The shadow keeps an index of the same form as the primary's.            *)
LEMMA ShadowForms ==
    /\ Shadow!IsIndex(mirror) = IsIndex(mirror)
    /\ Shadow!EmptyIndex = EmptyIndex
    /\ Shadow!Elapse(mirror) = Elapse(mirror)
    /\ Shadow!Prune(mirror, Shadow!StalePeers(mirror)) = Prune(mirror, StalePeers(mirror))
    /\ Shadow!Lists = RegisterCatalogues
<1>1. Shadow!IsIndex(mirror) = IsIndex(mirror)
  BY DEF Shadow!IsIndex, Shadow!Ages, Shadow!NotListed, Shadow!NoCopy, Shadow!Entries,
         Shadow!Infos, Shadow!Leases, Shadow!NoHolder, Shadow!Expired,
         IsIndex, Ages, NotListed, NoCopy, Entries, Infos, Leases, NoHolder, Expired
<1>2. Shadow!EmptyIndex = EmptyIndex
  BY DEF Shadow!EmptyIndex, Shadow!NotListed, Shadow!NoCopy, Shadow!NoLease,
         Shadow!NoHolder, Shadow!Expired,
         EmptyIndex, NotListed, NoCopy, NoLease, NoHolder, Expired
<1>3. Shadow!Elapse(mirror) = Elapse(mirror)
  BY DEF Shadow!Elapse, Shadow!Older, Shadow!RunDown, Shadow!WithLease, Shadow!NotListed,
         Shadow!Expired, Elapse, Older, RunDown, WithLease, NotListed, Expired
<1>4. Shadow!StalePeers(mirror) = StalePeers(mirror)
  BY DEF Shadow!StalePeers, Shadow!Listed, Shadow!NotListed, StalePeers, Listed, NotListed
<1>5. \A gone : Shadow!Prune(mirror, gone) = Prune(mirror, gone)
  BY DEF Shadow!Prune, Shadow!Leaving, Shadow!KeepHosts, Shadow!NotListed, Shadow!NoCopy,
         Prune, Leaving, KeepHosts, NotListed, NoCopy
<1>6. Shadow!Lists = RegisterCatalogues
  BY DEF Shadow!Lists, Shadow!Catalogues, Shadow!Infos, RegisterCatalogues, Catalogues, Infos
<1> QED
  BY <1>1, <1>2, <1>3, <1>4, <1>5, <1>6

(* handleSync, kind by kind.                                               *)
LEMMA SyncApplied ==
    ASSUME IsIndex(mirror), NEW op \in Shadow!SyncOps, Shadow!Sync(op)
    PROVE  IsIndex(mirror') /\ Applied(op, mirror, mirror')
<1>1. CASE /\ op.kind = "register"
           /\ mirror' = Shadow!ApplyRegister(mirror, op.peer, op.list)
  <2>1. op.peer \in Peers /\ op.list \in Catalogues
    BY <1>1, ShadowForms DEF Shadow!SyncOps, RegisterCatalogues
  <2>2. mirror' = ApplyRegister(mirror, op.peer, op.list)
    BY <1>1 DEF Shadow!ApplyRegister, Shadow!Report, Shadow!EntryFor, Shadow!NoLease,
                Shadow!NoHolder, Shadow!Expired,
                ApplyRegister, Report, EntryFor, NoLease, NoHolder, Expired
  <2> QED
    BY <1>1, <2>1, <2>2, RegisterApplied
<1>2. CASE /\ op.kind = "announce"
           /\ mirror' = Shadow!ApplyAnnounce(mirror, op.peer, op.file, op.info, op.stamp)
  <2>1. /\ op.peer \in Peers /\ op.file \in Files
        /\ op.info \in Infos /\ op.stamp = 0
    BY <1>2, SyncAssumption DEF Shadow!SyncOps, Shadow!Infos, Infos
  <2>2. mirror' = ApplyAnnounce(mirror, op.peer, op.file, op.info, 0)
    BY <1>2, <2>1
       DEF Shadow!ApplyAnnounce, Shadow!Report, Shadow!EntryFor, Shadow!NoLease,
           Shadow!NoHolder, Shadow!Expired,
           ApplyAnnounce, Report, EntryFor, NoLease, NoHolder, Expired
  <2> QED
    BY <1>2, <2>1, <2>2, AnnounceApplied
<1>3. CASE op.kind = "prune" /\ mirror' = Shadow!ForgetPeer(mirror, op.peer)
  <2>1. op.peer \in Peers
    BY <1>3 DEF Shadow!SyncOps
  <2> QED
    BY <1>3, <2>1, PruneApplied
<1>4. CASE op.kind = "heartbeat" /\ mirror' = Shadow!Refresh(mirror, op.peer)
  <2>1. op.peer \in Peers
    BY <1>4 DEF Shadow!SyncOps
  <2>2. mirror' = Refresh(mirror, op.peer)
    BY <1>4 DEF Shadow!Refresh, Shadow!Listed, Shadow!NotListed, Refresh, Listed, NotListed
  <2> QED
    BY <1>4, <2>1, <2>2, HeartbeatApplied
<1>5. CASE op.kind = "delete" /\ mirror' = Shadow!ForgetHost(mirror, op.peer, op.file)
  <2>1. op.peer \in Peers /\ op.file \in Files
    BY <1>5 DEF Shadow!SyncOps
  <2> QED
    BY <1>5, <2>1, DeleteApplied
<1> QED
  BY <1>1, <1>2, <1>3, <1>4, <1>5 DEF Shadow!Sync

-----------------------------------------------------------------------------
(* What each step does to a covered copy.                                  *)

(* The first operation in flight is delivered.                             *)
LEMMA DeliveryKeepsCovered ==
    ASSUME NEW S, NEW ops \in Seq(S), Len(ops) >= 1,
           NEW ix, NEW mir, NEW new, Applied(ops[1], mir, new),
           NEW p \in Peers, NEW f \in Files, ix.seen[p] \in Nat,
           Covered(ix, mir, ops, p, f)
    PROVE  Covered(ix, new, RemoveAt(ops, 1), p, f)
<1> DEFINE rest == RemoveAt(ops, 1)
           op   == ops[1]
<1>1. /\ Len(ops) \in Nat /\ Len(rest) = Len(ops) - 1
      /\ \A i \in 1 .. Len(ops) - 1 : rest[i] = ops[i + 1]
  BY RemoveAtFacts, LenProperties
<1> HIDE DEF rest
<1>2. ASSUME NEW i \in 1 .. Len(ops), i # 1
      PROVE  i - 1 \in 1 .. Len(rest) /\ rest[i - 1] = ops[i]
  BY <1>1, <1>2
<1>3. ASSUME NEW i \in 1 .. Len(rest)
      PROVE  i + 1 \in 1 .. Len(ops) /\ rest[i] = ops[i + 1]
  BY <1>1
<1>4. CASE UnderWay(ix, ops, p, f)
  <2>1. PICK i \in 1 .. Len(ops) :
           /\ Gives(ops[i], p, f, ix.held[p][f])
           /\ \A j \in 1 .. Len(ops) : j > i => ~Touches(ops[j], p, f)
    BY <1>4 DEF UnderWay
  <2>2. CASE i = 1
    <3>1. /\ new.held[p][f] = ix.held[p][f] /\ new.seen[p] = 0
          /\ f \in DOMAIN new.files /\ p \in new.files[f].hosts
      BY <2>1, <2>2 DEF Applied
    <3>2. \A j \in 1 .. Len(rest) : ~Touches(rest[j], p, f)
      BY <1>3, <2>1, <2>2
    <3>3. Settled(ix, new, rest, p, f)
      BY <3>1, <3>2, IndexAssumption DEF Settled
    <3> QED
      BY <3>3 DEF Covered, rest
  <2>3. CASE i # 1
    <3>1. i - 1 \in 1 .. Len(rest) /\ Gives(rest[i - 1], p, f, ix.held[p][f])
      BY <1>2, <2>1, <2>3
    <3>2. \A j \in 1 .. Len(rest) : j > i - 1 => ~Touches(rest[j], p, f)
      BY <1>3, <2>1
    <3>3. UnderWay(ix, rest, p, f)
      BY <3>1, <3>2 DEF UnderWay
    <3> QED
      BY <3>3 DEF Covered, rest
  <2> QED
    BY <2>2, <2>3
<1>5. CASE Settled(ix, mir, ops, p, f)
  <2>1. ~Touches(op, p, f) /\ mir.seen[p] \in 0 .. PeerTTL
    BY <1>1, <1>5 DEF Settled
  <2>2. /\ new.held[p][f] = ix.held[p][f]
        /\ f \in DOMAIN new.files /\ p \in new.files[f].hosts
        /\ new.seen[p] = mir.seen[p] \/ new.seen[p] = 0
        /\ Renews(op, p) /\ mir.seen[p] # NotListed => new.seen[p] = 0
    BY <1>5, <2>1 DEF Applied, Settled
  <2>3. new.seen[p] \in 0 .. PeerTTL
    BY <2>1, <2>2, IndexAssumption
  <2>4. \A j \in 1 .. Len(rest) : ~Touches(rest[j], p, f)
    BY <1>3, <1>5 DEF Settled
  <2>5. new.seen[p] <= ix.seen[p] \/ \E i \in 1 .. Len(rest) : Renews(rest[i], p)
    <3>1. CASE Renews(op, p)
      BY <2>1, <2>2, <3>1 DEF NotListed
    <3>2. CASE ~Renews(op, p) /\ \E i \in 1 .. Len(ops) : Renews(ops[i], p)
      BY <1>2, <3>2
    <3>3. CASE mir.seen[p] <= ix.seen[p]
      BY <2>1, <2>2, <3>3
    <3> QED
      BY <1>5, <3>1, <3>2, <3>3 DEF Settled
  <2>6. Settled(ix, new, rest, p, f)
    BY <2>2, <2>3, <2>4, <2>5 DEF Settled
  <2> QED
    BY <2>6 DEF Covered, rest
<1> QED
  BY <1>4, <1>5 DEF Covered

(* Nothing is in flight and both servers grow one unit older.              *)
LEMMA TimeKeepsCovered ==
    ASSUME NEW ix, IsIndex(ix), NEW mir, IsIndex(mir),
           NEW p \in Peers, NEW f \in Files, ix.seen[p] # NotListed,
           Elapse(ix).seen[p] <= PeerTTL, Covered(ix, mir, <<>>, p, f)
    PROVE  Covered(Elapse(ix), Elapse(mir), <<>>, p, f)
<1>1. Len(<<>>) = 0
  BY EmptySeq
<1>2. Settled(ix, mir, <<>>, p, f) /\ mir.seen[p] <= ix.seen[p]
  BY <1>1 DEF Covered, UnderWay, Settled
<1>3. ix.seen[p] \in 0 .. AgeCap /\ mir.seen[p] \in 0 .. PeerTTL
  BY <1>2 DEF Settled, IsIndex, Ages
<1>4. /\ Elapse(ix).seen[p] = Older(ix.seen[p])
      /\ Elapse(mir).seen[p] = Older(mir.seen[p])
  BY DEF Elapse
<1>5. Older(mir.seen[p]) \in 0 .. PeerTTL /\ Older(mir.seen[p]) <= Older(ix.seen[p])
  <2>1. ASSUME NEW a \in 0 .. AgeCap, NEW b \in 0 .. PeerTTL, b <= a, Older(a) <= PeerTTL
        PROVE  Older(b) \in 0 .. PeerTTL /\ Older(b) <= Older(a)
    BY <2>1, IndexAssumption DEF Older, NotListed
  <2>2. Older(ix.seen[p]) <= PeerTTL
    BY <1>4
  <2> QED
    BY <1>2, <1>3, <2>1, <2>2
<1>6. /\ Elapse(ix).held = ix.held /\ Elapse(mir).held = mir.held
      /\ DOMAIN Elapse(mir).files = DOMAIN mir.files
      /\ \A g \in DOMAIN mir.files : Elapse(mir).files[g].hosts = mir.files[g].hosts
  BY ElapseFacts
<1>7. Settled(Elapse(ix), Elapse(mir), <<>>, p, f)
  BY <1>1, <1>2, <1>4, <1>5, <1>6 DEF Settled
<1> QED
  BY <1>7 DEF Covered

(* The shadow sweeps: a covered copy is of a peer that is not stale.       *)
LEMMA ShadowSweepKeepsCovered ==
    ASSUME NEW mir, IsIndex(mir), NEW ops, NEW ix, NEW p \in Peers, NEW f \in Files,
           Covered(ix, mir, ops, p, f)
    PROVE  Covered(ix, Prune(mir, StalePeers(mir)), ops, p, f)
<1> DEFINE new == Prune(mir, StalePeers(mir))
<1>1. CASE UnderWay(ix, ops, p, f)
  BY <1>1 DEF Covered
<1>2. CASE Settled(ix, mir, ops, p, f)
  <2>1. StalePeers(mir) \in SUBSET Peers
    BY DEF StalePeers, Listed
  <2>2. p \notin StalePeers(mir)
    BY <1>2, IndexAssumption DEF Settled, StalePeers
  <2>3. p \notin Leaving(mir, StalePeers(mir), f)
    BY <2>2 DEF Leaving
  <2>p. /\ new.seen = [r \in Peers |-> IF r \in StalePeers(mir) THEN NotListed
                                                              ELSE mir.seen[r]]
        /\ new.held = [r \in Peers |-> IF r \in StalePeers(mir)
                                         THEN [g \in Files |-> NoCopy] ELSE mir.held[r]]
        /\ DOMAIN new.files =
              {g \in DOMAIN mir.files :
                  \/ Leaving(mir, StalePeers(mir), g) = {}
                  \/ mir.files[g].hosts \ Leaving(mir, StalePeers(mir), g) # {}}
        /\ \A g \in DOMAIN new.files :
              new.files[g].hosts = mir.files[g].hosts \ Leaving(mir, StalePeers(mir), g)
    BY <2>1, PruneFacts
  <2> HIDE DEF new
  <2>4. /\ new.seen[p] = mir.seen[p] /\ new.held[p] = mir.held[p]
        /\ f \in DOMAIN mir.files =>
              (mir.files[f].hosts \ Leaving(mir, StalePeers(mir), f) # {}
                  => f \in DOMAIN new.files)
        /\ f \in DOMAIN new.files =>
              new.files[f].hosts = mir.files[f].hosts \ Leaving(mir, StalePeers(mir), f)
    BY <2>2, <2>p
  <2>5. f \in DOMAIN new.files /\ p \in new.files[f].hosts
    BY <1>2, <2>3, <2>4 DEF Settled
  <2>6. Settled(ix, new, ops, p, f)
    BY <1>2, <2>4, <2>5 DEF Settled
  <2> QED
    BY <2>6 DEF Covered, new
<1> QED
  BY <1>1, <1>2 DEF Covered

-----------------------------------------------------------------------------
(* The inductive invariant.                                                *)
SyncInv == Sound /\ SyncTypeOK /\ CoveredWhileIdeal

(* The primary's part of a step is a step of the primary, except that time *)
(* passes for the index of a dead one, too.                                *)
LEMMA SyncKeepsSound == Sound /\ [SyncNext]_allVars => Sound'
<1> SUFFICES ASSUME Sound, [SyncNext]_allVars PROVE Sound'
  OBVIOUS
<1>a. ASSUME Next PROVE Sound'
  BY <1>a, NextSound
<1>b. ASSUME UNCHANGED vars PROVE Sound'
  BY <1>b, NextSound
<1>1. ASSUME NEW p \in Peers, NEW cat \in RegisterCatalogues, SyncedRegister(p, cat)
      PROVE  Sound'
  BY <1>1, <1>a DEF SyncedRegister, Next
<1>2. ASSUME NEW p \in Peers, SyncedHeartbeat(p) PROVE Sound'
  BY <1>2, <1>a DEF SyncedHeartbeat, Next
<1>3. ASSUME NEW p \in Peers, NEW f \in Files, NEW info \in Infos,
             SyncedAnnounce(p, f, info)
      PROVE  Sound'
  <2>1. Announce(p, f, info, 0) /\ 0 \in Stamps
    BY <1>3, SyncAssumption DEF SyncedAnnounce
  <2> QED
    BY <2>1, <1>a DEF Next
<1>4. ASSUME NEW p \in Peers, NEW f \in Files,
             SyncedDelete(p, f) \/ RefusedDelete(p, f) \/ Unsynced(p, f)
      PROVE  Sound'
  <2>1. CASE SyncedDelete(p, f)
    BY <2>1, <1>a DEF SyncedDelete, Next
  <2>2. CASE RefusedDelete(p, f)
    BY <2>2, <1>b DEF RefusedDelete
  <2>3. CASE Unsynced(p, f)
    BY <2>3, <1>a DEF Unsynced, Next
  <2> QED
    BY <1>4, <2>1, <2>2, <2>3
<1>13. ASSUME NEW op \in Shadow!SyncOps, Blocked(op) PROVE Sound'
  BY <1>13, <1>b DEF Blocked
<1>5. CASE SyncedSweep
  BY <1>5, <1>a DEF SyncedSweep, Next
<1>6. CASE PrimaryDies
  BY <1>6, <1>b DEF PrimaryDies
<1>7. CASE PrimaryStarts
  BY <1>7, <1>a DEF PrimaryStarts, Next
<1>8. CASE \E i \in 1 .. Len(flight) : Deliver(i) \/ Lose(i)
  BY <1>8, <1>b DEF Deliver, Lose
<1>9. CASE TimePasses
  <2>1. CASE Tick
    BY <2>1, <1>a DEF Next
  <2>2. CASE index' = Elapse(index) /\ UNCHANGED <<queue, mu, clock>>
    <3>1. SoundIndex(index')
      BY <2>2, ElapseSound DEF Sound
    <3>2. TypeOK'
      BY <2>2, <3>1 DEF Sound, SoundIndex, TypeOK, clock
    <3>3. Listed(index') = Listed(index)
      BY <2>2, ElapseFacts DEF Sound, SoundIndex, Listed
    <3>4. TasksWellPlaced(index', queue')
      BY <2>2, <3>3 DEF Sound, TasksWellPlaced
    <3> QED
      BY <3>1, <3>2, <3>4 DEF Sound
  <2> QED
    BY <1>9, <2>1, <2>2 DEF TimePasses
<1>10. CASE ShadowSweep
  BY <1>10, <1>b DEF ShadowSweep
<1>11. CASE ShadowRestart
  BY <1>11, <1>b DEF ShadowRestart
<1>12. CASE UNCHANGED allVars
  BY <1>12, <1>b DEF allVars
<1> QED
  BY <1>1, <1>2, <1>3, <1>4, <1>5, <1>6, <1>7, <1>8, <1>9, <1>10, <1>11, <1>12, <1>13
     DEF SyncNext

(* Sending keeps what is in flight a sequence of operations.               *)
LEMMA SendTypes ==
    ASSUME SyncTypeOK, NEW ops \in Seq(Shadow!SyncOps), Send(ops)
    PROVE  /\ flight' \in Seq(Shadow!SyncOps) /\ Len(flight') <= FlightCap
           /\ flight' = flight \o ops
BY ConcatProperties DEF SyncTypeOK, Send

(* The operations that a primary's step sends are operations of /sync.     *)
LEMMA SentOps ==
    /\ \A p \in Peers, cat \in RegisterCatalogues :
          <<[kind |-> "register", peer |-> p, list |-> cat]>> \in Seq(Shadow!SyncOps)
    /\ \A p \in Peers : <<[kind |-> "heartbeat", peer |-> p]>> \in Seq(Shadow!SyncOps)
    /\ \A p \in Peers, f \in Files, info \in Infos :
          <<[kind |-> "announce", peer |-> p, file |-> f, info |-> info, stamp |-> 0]>>
              \in Seq(Shadow!SyncOps)
    /\ \A p \in Peers, f \in Files :
          <<[kind |-> "delete", peer |-> p, file |-> f]>> \in Seq(Shadow!SyncOps)
    /\ \A gone \in SUBSET Peers :
          SetToSeq([kind : {"prune"}, peer : gone]) \in Seq(Shadow!SyncOps)
<1>1. ASSUME NEW p \in Peers, NEW cat \in RegisterCatalogues
      PROVE  [kind |-> "register", peer |-> p, list |-> cat] \in Shadow!SyncOps
  BY ShadowForms DEF Shadow!SyncOps
<1>2. ASSUME NEW p \in Peers
      PROVE  [kind |-> "heartbeat", peer |-> p] \in Shadow!SyncOps
  BY DEF Shadow!SyncOps
<1>3. ASSUME NEW p \in Peers, NEW f \in Files, NEW info \in Infos
      PROVE  [kind |-> "announce", peer |-> p, file |-> f, info |-> info, stamp |-> 0]
                \in Shadow!SyncOps
  BY SyncAssumption DEF Shadow!SyncOps, Shadow!Infos, Infos
<1>4. ASSUME NEW p \in Peers, NEW f \in Files
      PROVE  [kind |-> "delete", peer |-> p, file |-> f] \in Shadow!SyncOps
  BY DEF Shadow!SyncOps
<1>5. ASSUME NEW gone \in SUBSET Peers
      PROVE  SetToSeq([kind : {"prune"}, peer : gone]) \in Seq(Shadow!SyncOps)
  <2>1. [kind : {"prune"}, peer : gone] \subseteq Shadow!SyncOps
    BY DEF Shadow!SyncOps
  <2>2. SetToSeq([kind : {"prune"}, peer : gone]) \in Seq([kind : {"prune"}, peer : gone])
    BY PruneList
  <2> QED
    BY <2>1, <2>2, SeqMonotonic
<1>6. ASSUME NEW op \in Shadow!SyncOps PROVE <<op>> \in Seq(Shadow!SyncOps)
  OBVIOUS
<1>7. \A p \in Peers, cat \in RegisterCatalogues :
         <<[kind |-> "register", peer |-> p, list |-> cat]>> \in Seq(Shadow!SyncOps)
  BY <1>1, <1>6
<1>8. \A p \in Peers : <<[kind |-> "heartbeat", peer |-> p]>> \in Seq(Shadow!SyncOps)
  BY <1>2, <1>6
<1>9. \A p \in Peers, f \in Files, info \in Infos :
         <<[kind |-> "announce", peer |-> p, file |-> f, info |-> info, stamp |-> 0]>>
             \in Seq(Shadow!SyncOps)
  BY <1>3, <1>6
<1>10. \A p \in Peers, f \in Files :
          <<[kind |-> "delete", peer |-> p, file |-> f]>> \in Seq(Shadow!SyncOps)
  BY <1>4, <1>6
<1> QED
  BY <1>5, <1>7, <1>8, <1>9, <1>10, Zenon

(* A step that sends one operation keeps a copy covered that neither the   *)
(* step nor the operation is about.                                        *)
LEMMA SendKeepsCopy ==
    ASSUME SyncInv, ideal, mirror' = mirror,
           NEW op, <<op>> \in Seq(Shadow!SyncOps), flight' = flight \o <<op>>,
           NEW p \in Peers \ apart, NEW f \in Files,
           index.seen[p] <= PeerTTL, index.held[p][f] # NoCopy,
           index'.held[p][f] = index.held[p][f],
           index'.seen[p] = index.seen[p] \/ Renews(op, p),
           ~Touches(op, p, f)
    PROVE  Covered(index', mirror', flight', p, f)
<1> DEFINE more == <<op>>
<1>1. Covered(index, mirror, flight, p, f) /\ flight \in Seq(Shadow!SyncOps)
  BY DEF SyncInv, CoveredWhileIdeal, SyncTypeOK
<1>2. Len(more) = 1 /\ more[1] = op /\ more \in Seq(Shadow!SyncOps)
  OBVIOUS
<1> HIDE DEF more
<1>3. /\ index'.seen[p] = index.seen[p] \/ \E i \in 1 .. Len(more) : Renews(more[i], p)
      /\ \A i \in 1 .. Len(more) : ~Touches(more[i], p, f)
  BY <1>2
<1>4. Covered(index', mirror, flight \o more, p, f)
  BY <1>1, <1>2, <1>3, SendKeepsCovered
<1> QED
  BY <1>4 DEF more

(* A peer that reports and is not set apart was not stale.                 *)
LEMMA ReporterNotStale ==
    ASSUME Sound, NEW p \in Peers, NEW f \in Files, Reported(p), p \notin apart',
           index.held[p][f] # NoCopy
    PROVE  p \in Peers \ apart /\ index.seen[p] <= PeerTTL
<1>1. p \notin StalePeers(index) /\ p \notin apart
  BY DEF Reported
<1>2. index.seen[p] # NotListed /\ index.seen[p] \in Ages \cup {NotListed}
  BY DEF Sound, SoundIndex, MapsAgree, IsIndex
<1> QED
  BY <1>1, <1>2, IndexAssumption DEF StalePeers, Listed, Ages

(* Reports: a registration, a heartbeat, an announce.                      *)
LEMMA RegisterKeepsCovered ==
    ASSUME SyncInv, NEW p \in Peers, NEW cat \in RegisterCatalogues, SyncedRegister(p, cat)
    PROVE  CoveredWhileIdeal'
<1> DEFINE op == [kind |-> "register", peer |-> p, list |-> cat]
<1>1. Sound /\ IsIndex(index) /\ cat \in Catalogues
  BY DEF SyncInv, Sound, SoundIndex, RegisterCatalogues
<1>2. index' = ApplyRegister(index, p, cat)
  BY DEF SyncedRegister, Register
<1>3. /\ \A r \in Peers : r # p => /\ index'.seen[r] = index.seen[r]
                                   /\ index'.held[r] = index.held[r]
      /\ \A f \in Files : f \notin DOMAIN cat => index'.held[p][f] = index.held[p][f]
      /\ \A f \in DOMAIN cat : index'.held[p][f] = cat[f].version
  BY <1>1, <1>2, RegisterFacts
<1>4. /\ <<op>> \in Seq(Shadow!SyncOps) /\ flight' = flight \o <<op>>
      /\ mirror' = mirror /\ ideal' = ideal /\ flight \in Seq(Shadow!SyncOps)
  BY SentOps DEF SyncedRegister, shadowVars, Send, SyncInv, SyncTypeOK
<1>5. op.kind = "register" /\ op.peer = p /\ op.list = cat
  OBVIOUS
<1>6. op \in Shadow!SyncOps
  BY ShadowForms DEF Shadow!SyncOps
<1> HIDE DEF op
<1>7. /\ Renews(op, p)
      /\ \A r \in Peers, f \in Files : r # p \/ f \notin DOMAIN cat => ~Touches(op, r, f)
  BY <1>5 DEF Renews, Touches
<1>8. ASSUME ideal', NEW q \in Peers \ apart', NEW f \in Files,
             index'.seen[q] <= PeerTTL, index'.held[q][f] # NoCopy
      PROVE  Covered(index', mirror', flight', q, f)
  <2>1. CASE q # p
    <3>1. q \in Peers \ apart
      BY <1>8, <2>1 DEF SyncedRegister, Reported
    <3> QED
      BY <1>3, <1>4, <1>7, <1>8, <2>1, <3>1, SendKeepsCopy
  <2>2. CASE q = p /\ f \in DOMAIN cat
    <3>1. Gives(op, p, f, index'.held[p][f])
      BY <1>3, <1>5, <2>2 DEF Gives
    <3>2. Covered(index', mirror', flight \o <<op>>, p, f)
      BY <1>4, <1>6, <3>1, ReportCovers
    <3> QED
      BY <1>4, <2>2, <3>2
  <2>3. CASE q = p /\ f \notin DOMAIN cat
    <3>1. index'.held[p][f] = index.held[p][f] /\ index.held[p][f] # NoCopy
      BY <1>3, <1>8, <2>3
    <3>2. Reported(p)
      BY <2>3, <3>1 DEF SyncedRegister
    <3>3. p \in Peers \ apart /\ index.seen[p] <= PeerTTL
      BY <1>1, <1>8, <2>3, <3>1, <3>2, ReporterNotStale
    <3> QED
      BY <1>4, <1>7, <1>8, <2>3, <3>1, <3>3, SendKeepsCopy
  <2> QED
    BY <2>1, <2>2, <2>3
<1> QED
  BY <1>8 DEF CoveredWhileIdeal

LEMMA HeartbeatKeepsCovered ==
    ASSUME SyncInv, NEW p \in Peers, SyncedHeartbeat(p)
    PROVE  CoveredWhileIdeal'
<1> DEFINE op == [kind |-> "heartbeat", peer |-> p]
<1>1. Sound /\ IsIndex(index)
  BY DEF SyncInv, Sound, SoundIndex
<1>2. /\ index'.held = index.held
      /\ \A r \in Peers : r # p => index'.seen[r] = index.seen[r]
  BY <1>1 DEF SyncedHeartbeat, Heartbeat, Refresh, IsIndex
<1>3. /\ <<op>> \in Seq(Shadow!SyncOps) /\ flight' = flight \o <<op>>
      /\ mirror' = mirror /\ ideal' = ideal
  BY SentOps DEF SyncedHeartbeat, shadowVars, Send
<1>4. /\ Renews(op, p)
      /\ \A r \in Peers, f \in Files : ~Touches(op, r, f)
  BY DEF Renews, Touches
<1> HIDE DEF op
<1>5. ASSUME ideal', NEW q \in Peers \ apart', NEW f \in Files,
             index'.seen[q] <= PeerTTL, index'.held[q][f] # NoCopy
      PROVE  Covered(index', mirror', flight', q, f)
  <2>1. Reported(p)
    BY DEF SyncedHeartbeat
  <2>2. CASE q # p
    <3>1. q \in Peers \ apart
      BY <1>5, <2>1 DEF Reported
    <3> QED
      BY <1>2, <1>3, <1>4, <1>5, <2>2, <3>1, SendKeepsCopy
  <2>3. CASE q = p
    <3>1. p \in Peers \ apart /\ index.seen[p] <= PeerTTL
      BY <1>1, <1>2, <1>5, <2>1, <2>3, ReporterNotStale
    <3> QED
      BY <1>2, <1>3, <1>4, <1>5, <2>3, <3>1, SendKeepsCopy
  <2> QED
    BY <2>2, <2>3
<1> QED
  BY <1>5 DEF CoveredWhileIdeal

LEMMA AnnounceKeepsCovered ==
    ASSUME SyncInv, NEW p \in Peers, NEW g \in Files, NEW info \in Infos,
           SyncedAnnounce(p, g, info)
    PROVE  CoveredWhileIdeal'
<1> DEFINE op == [kind |-> "announce", peer |-> p, file |-> g, info |-> info, stamp |-> 0]
<1>1. Sound /\ IsIndex(index)
  BY DEF SyncInv, Sound, SoundIndex
<1>2. /\ \A r \in Peers : r # p => /\ index'.seen[r] = index.seen[r]
                                   /\ index'.held[r] = index.held[r]
      /\ index'.held[p][g] = info.version
      /\ \A f \in Files : f # g => index'.held[p][f] = index.held[p][f]
  BY <1>1 DEF SyncedAnnounce, Announce, ApplyAnnounce, IsIndex
<1>3. /\ <<op>> \in Seq(Shadow!SyncOps) /\ flight' = flight \o <<op>>
      /\ mirror' = mirror /\ ideal' = ideal /\ flight \in Seq(Shadow!SyncOps)
  BY SentOps DEF SyncedAnnounce, shadowVars, Send, SyncInv, SyncTypeOK
<1>4. /\ Renews(op, p)
      /\ \A r \in Peers, f \in Files : r # p \/ f # g => ~Touches(op, r, f)
      /\ Gives(op, p, g, info.version)
  BY DEF Renews, Touches, Gives
<1>5. op \in Shadow!SyncOps
  BY SyncAssumption DEF Shadow!SyncOps, Shadow!Infos, Infos
<1> HIDE DEF op
<1>6. ASSUME ideal', NEW q \in Peers \ apart', NEW f \in Files,
             index'.seen[q] <= PeerTTL, index'.held[q][f] # NoCopy
      PROVE  Covered(index', mirror', flight', q, f)
  <2>1. Reported(p)
    BY DEF SyncedAnnounce
  <2>2. CASE q # p
    <3>1. q \in Peers \ apart
      BY <1>6, <2>1 DEF Reported
    <3> QED
      BY <1>2, <1>3, <1>4, <1>6, <2>2, <3>1, SendKeepsCopy
  <2>3. CASE q = p /\ f = g
    <3>1. Covered(index', mirror', flight \o <<op>>, p, g)
      BY <1>2, <1>3, <1>4, <1>5, ReportCovers
    <3> QED
      BY <1>3, <2>3, <3>1
  <2>4. CASE q = p /\ f # g
    <3>1. p \in Peers \ apart /\ index.seen[p] <= PeerTTL
      BY <1>1, <1>2, <1>6, <2>1, <2>4, ReporterNotStale
    <3> QED
      BY <1>2, <1>3, <1>4, <1>6, <2>4, <3>1, SendKeepsCopy
  <2> QED
    BY <2>2, <2>3, <2>4
<1> QED
  BY <1>6 DEF CoveredWhileIdeal

(* Deletes: one the primary carries out and one it refuses.                *)
LEMMA DeleteKeepsCovered ==
    ASSUME SyncInv, NEW p \in Peers, NEW g \in Files,
           SyncedDelete(p, g) \/ RefusedDelete(p, g)
    PROVE  CoveredWhileIdeal'
<1> DEFINE op == [kind |-> "delete", peer |-> p, file |-> g]
<1>1. /\ <<op>> \in Seq(Shadow!SyncOps) /\ flight' = flight \o <<op>>
      /\ mirror' = mirror /\ ideal' = ideal /\ apart' = apart
  BY SentOps DEF SyncedDelete, RefusedDelete, shadowVars, history, Send
<1>2. \A r \in Peers, f \in Files : Touches(op, r, f) <=> r = p /\ f = g
  BY DEF Touches
<1> HIDE DEF op
<1>3. /\ index'.seen = index.seen
      /\ index'.held[p][g] = NoCopy
      /\ \A r \in Peers, f \in Files :
            ~(r = p /\ f = g) => index'.held[r][f] = index.held[r][f]
  <2>1. IsIndex(index) /\ MapsAgree(index)
    BY DEF SyncInv, Sound, SoundIndex
  <2>2. CASE SyncedDelete(p, g)
    BY <2>1, <2>2, DropHostFacts DEF SyncedDelete, Delete
  <2>3. CASE RefusedDelete(p, g)
    <3>1. index.held[p][g] = NoCopy /\ index' = index
      BY <2>1, <2>3 DEF RefusedDelete, MapsAgree, vars
    <3> QED
      BY <3>1
  <2> QED
    BY <2>2, <2>3
<1>4. ASSUME ideal', NEW q \in Peers \ apart', NEW f \in Files,
             index'.seen[q] <= PeerTTL, index'.held[q][f] # NoCopy
      PROVE  Covered(index', mirror', flight', q, f)
  <2>1. ~(q = p /\ f = g)
    BY <1>3, <1>4
  <2> QED
    BY <1>1, <1>2, <1>3, <1>4, <2>1, SendKeepsCopy
<1> QED
  BY <1>4 DEF CoveredWhileIdeal

(* The primary's sweep sends prunes of the peers it removes, all stale.    *)
LEMMA SweepKeepsCovered ==
    ASSUME SyncInv, SyncedSweep
    PROVE  CoveredWhileIdeal'
<1> DEFINE gone == StalePeers(index)
           more == SetToSeq([kind : {"prune"}, peer : gone])
<1>1. IsIndex(index) /\ gone \in SUBSET Peers /\ flight \in Seq(Shadow!SyncOps)
  BY DEF SyncInv, Sound, SoundIndex, StalePeers, Listed, SyncTypeOK
<1>2. /\ more \in Seq(Shadow!SyncOps)
      /\ more \in Seq([kind : {"prune"}, peer : gone])
      /\ flight' = flight \o more
      /\ mirror' = mirror /\ ideal' = ideal /\ apart' = apart \ gone
  BY <1>1, SentOps, PruneList DEF SyncedSweep, shadowVars, Send
<1>3. /\ index'.seen = [r \in Peers |-> IF r \in gone THEN NotListed ELSE index.seen[r]]
      /\ index'.held = [r \in Peers |-> IF r \in gone THEN [h \in Files |-> NoCopy]
                                                      ELSE index.held[r]]
  BY <1>1, PruneFacts DEF SyncedSweep, Sweep
<1> HIDE DEF gone, more
<1>4. ASSUME NEW i \in 1 .. Len(more), NEW q \in Peers \ gone, NEW f
      PROVE  ~Touches(more[i], q, f)
  <2>1. more[i] \in [kind : {"prune"}, peer : gone]
    BY <1>2, ElementOfSeq
  <2> QED
    BY <2>1 DEF Touches
<1>5. ASSUME ideal', NEW q \in Peers \ apart', NEW f \in Files,
             index'.seen[q] <= PeerTTL, index'.held[q][f] # NoCopy
      PROVE  Covered(index', mirror', flight', q, f)
  <2>1. q \notin gone /\ q \in Peers \ apart
    BY <1>2, <1>3, <1>5
  <2>2. index'.seen[q] = index.seen[q] /\ index'.held[q][f] = index.held[q][f]
    BY <1>3, <2>1
  <2>3. Covered(index, mirror, flight, q, f)
    BY <1>2, <1>5, <2>1, <2>2 DEF SyncInv, CoveredWhileIdeal
  <2>4. \A i \in 1 .. Len(more) : ~Touches(more[i], q, f)
    BY <1>4, <2>1
  <2>5. Covered(index', mirror, flight \o more, q, f)
    BY <1>1, <1>2, <2>2, <2>3, <2>4, SendKeepsCovered
  <2> QED
    BY <1>2, <2>5
<1> QED
  BY <1>5 DEF CoveredWhileIdeal

(* An operation arrives, in order as long as delivery is ideal.            *)
LEMMA DeliverKeepsCovered ==
    ASSUME SyncInv, NEW i \in 1 .. Len(flight), Deliver(i)
    PROVE  CoveredWhileIdeal'
<1>1. /\ IsIndex(mirror) /\ flight \in Seq(Shadow!SyncOps)
      /\ Sound /\ IsIndex(index) /\ MapsAgree(index)
  BY ShadowForms DEF SyncInv, SyncTypeOK, Shadow!ShadowTypeOK, Sound, SoundIndex
<1>2. /\ index' = index /\ apart' = apart /\ flight' = RemoveAt(flight, i)
      /\ ideal' => ideal /\ i = 1
  BY DEF Deliver, vars
<1>3. ASSUME ideal', NEW q \in Peers \ apart', NEW f \in Files,
             index'.seen[q] <= PeerTTL, index'.held[q][f] # NoCopy
      PROVE  Covered(index', mirror', flight', q, f)
  <2>1. flight[1] \in Shadow!SyncOps /\ i = 1 /\ Len(flight) >= 1
    BY <1>1, <1>2, <1>3, ElementOfSeq, LenProperties
  <2>2. Applied(flight[1], mirror, mirror')
    BY <1>1, <2>1, SyncApplied DEF Deliver
  <2>3. Covered(index, mirror, flight, q, f)
    BY <1>2, <1>3 DEF SyncInv, CoveredWhileIdeal
  <2>4. index.seen[q] \in Nat
    BY <1>1, <1>2, <1>3, IndexAssumption DEF MapsAgree, IsIndex, Ages
  <2>5. Covered(index, mirror', RemoveAt(flight, 1), q, f)
    BY <1>1, <2>1, <2>2, <2>3, <2>4, DeliveryKeepsCovered
  <2> QED
    BY <1>2, <2>1, <2>5
<1> QED
  BY <1>3 DEF CoveredWhileIdeal

(* Time passes for both servers, and delivery stays ideal only if nothing  *)
(* is in flight.                                                           *)
LEMMA TimeKeepsSettled ==
    ASSUME SyncInv, TimePasses
    PROVE  CoveredWhileIdeal'
<1>1. /\ IsIndex(mirror) /\ IsIndex(index) /\ MapsAgree(index)
  BY ShadowForms DEF SyncInv, SyncTypeOK, Shadow!ShadowTypeOK, Sound, SoundIndex
<1>2. /\ index' = Elapse(index) /\ mirror' = Elapse(mirror)
      /\ ideal' => ideal /\ flight = <<>>
      /\ flight' = flight /\ apart' = apart
  BY ShadowForms DEF TimePasses, Tick, Shadow!TickMirror
<1>3. index'.held = index.held
  BY <1>1, <1>2, ElapseFacts
<1>4. ASSUME ideal', NEW q \in Peers \ apart', NEW f \in Files,
             index'.seen[q] <= PeerTTL, index'.held[q][f] # NoCopy
      PROVE  Covered(index', mirror', flight', q, f)
  <2>1. index.held[q][f] # NoCopy /\ index.seen[q] # NotListed
    BY <1>1, <1>3, <1>4 DEF MapsAgree
  <2>2. index.seen[q] <= PeerTTL
    <3>1. index.seen[q] \in 0 .. AgeCap /\ index'.seen[q] = Older(index.seen[q])
      BY <1>1, <1>2, <2>1 DEF IsIndex, Ages, Elapse
    <3> QED
      BY <1>4, <2>1, <3>1, IndexAssumption DEF Older, NotListed
  <2>3. Covered(index, mirror, <<>>, q, f)
    BY <1>2, <1>4, <2>1, <2>2 DEF SyncInv, CoveredWhileIdeal
  <2>4. Covered(Elapse(index), Elapse(mirror), <<>>, q, f)
    BY <1>1, <1>2, <1>4, <2>1, <2>3, TimeKeepsCovered
  <2> QED
    BY <1>2, <1>4, <2>4
<1> QED
  BY <1>4 DEF CoveredWhileIdeal

(* What a locked-up primary forwards and never does is about no copy that  *)
(* has to be covered.                                                      *)
LEMMA BlockedKeepsCovered ==
    ASSUME SyncInv, NEW op \in Shadow!SyncOps, Blocked(op),
           op.kind \in {"register", "heartbeat", "delete"}
    PROVE  CoveredWhileIdeal'
<1>1. /\ <<op>> \in Seq(Shadow!SyncOps) /\ flight' = flight \o <<op>>
      /\ mirror' = mirror /\ ideal' = ideal /\ index' = index
  BY DEF Blocked, shadowVars, vars, Send
<1>2. /\ apart' = IF op.kind = "heartbeat" THEN apart ELSE apart \cup {op.peer}
  BY DEF Blocked
<1>3. ASSUME ideal', NEW q \in Peers \ apart', NEW f \in Files,
             index'.seen[q] <= PeerTTL, index'.held[q][f] # NoCopy
      PROVE  Covered(index', mirror', flight', q, f)
  <2>1. q \in Peers \ apart
    BY <1>2
  <2>2. ~Touches(op, q, f)
    BY <1>2 DEF Touches
  <2> QED
    BY <1>1, <1>3, <2>1, <2>2, SendKeepsCopy
<1> QED
  BY <1>3 DEF CoveredWhileIdeal

(* Every step keeps the shadow ready to stand in.                          *)
LEMMA NextKeepsCovered ==
    ASSUME SyncInv, [SyncNext]_allVars
    PROVE  CoveredWhileIdeal'
<1>a. ASSUME index'.held = index.held, index'.seen = index.seen,
             UNCHANGED <<mirror, flight, ideal, apart>>
      PROVE  CoveredWhileIdeal'
  BY <1>a DEF SyncInv, CoveredWhileIdeal, Covered, UnderWay, Settled
<1>1. ASSUME NEW p \in Peers, NEW cat \in RegisterCatalogues, SyncedRegister(p, cat)
      PROVE  CoveredWhileIdeal'
  BY <1>1, RegisterKeepsCovered
<1>2. ASSUME NEW p \in Peers, SyncedHeartbeat(p)
      PROVE  CoveredWhileIdeal'
  BY <1>2, HeartbeatKeepsCovered
<1>3. ASSUME NEW p \in Peers, NEW f \in Files, NEW info \in Infos,
             SyncedAnnounce(p, f, info)
      PROVE  CoveredWhileIdeal'
  BY <1>3, AnnounceKeepsCovered
<1>4. ASSUME NEW p \in Peers, NEW f \in Files,
             SyncedDelete(p, f) \/ RefusedDelete(p, f) \/ Unsynced(p, f)
      PROVE  CoveredWhileIdeal'
  <2>1. CASE SyncedDelete(p, f) \/ RefusedDelete(p, f)
    BY <2>1, DeleteKeepsCovered
  <2>2. CASE Unsynced(p, f)
    BY <2>2, <1>a DEF Unsynced, RequestLease, GrantLease, shadowVars, history
  <2> QED
    BY <1>4, <2>1, <2>2
<1>13. ASSUME NEW op \in Shadow!SyncOps, Blocked(op),
              op.kind \in {"register", "heartbeat", "delete"}
       PROVE  CoveredWhileIdeal'
  BY <1>13, BlockedKeepsCovered
<1>5. CASE SyncedSweep
  BY <1>5, SweepKeepsCovered
<1>6. CASE PrimaryDies
  BY <1>6, <1>a DEF PrimaryDies, vars, shadowVars, history
<1>7. CASE PrimaryStarts
  <2>1. \A p \in Peers, f \in Files : index'.held[p][f] = NoCopy
    BY <1>7 DEF PrimaryStarts, Restart, EmptyIndex
  <2> QED
    BY <2>1 DEF CoveredWhileIdeal
<1>8. ASSUME NEW i \in 1 .. Len(flight), Deliver(i) \/ Lose(i)
      PROVE  CoveredWhileIdeal'
  <2>1. CASE Deliver(i)
    BY <2>1, DeliverKeepsCovered
  <2>2. CASE Lose(i)
    BY <2>2 DEF Lose, CoveredWhileIdeal
  <2> QED
    BY <1>8, <2>1, <2>2
<1>9. CASE TimePasses
  BY <1>9, TimeKeepsSettled
<1>10. CASE ShadowSweep
  <2>1. /\ index' = index /\ mirror' = Prune(mirror, StalePeers(mirror))
        /\ flight' = flight /\ ideal' = ideal /\ apart' = apart
    BY <1>10, ShadowForms DEF ShadowSweep, Shadow!SweepMirror, vars, history
  <2>2. IsIndex(mirror)
    BY ShadowForms DEF SyncInv, SyncTypeOK, Shadow!ShadowTypeOK
  <2>3. ASSUME NEW p \in Peers, NEW f \in Files, Covered(index, mirror, flight, p, f)
        PROVE  Covered(index', mirror', flight', p, f)
    BY <2>1, <2>2, <2>3, ShadowSweepKeepsCovered
  <2> QED
    BY <2>1, <2>3 DEF SyncInv, CoveredWhileIdeal
<1>11. CASE ShadowRestart
  BY <1>11 DEF ShadowRestart, CoveredWhileIdeal
<1>12. CASE UNCHANGED allVars
  BY <1>12, <1>a DEF allVars, vars, shadowVars, history
<1> QED
  BY <1>1, <1>2, <1>3, <1>4, <1>5, <1>6, <1>7, <1>8, <1>9, <1>10, <1>11, <1>12, <1>13
     DEF SyncNext

-----------------------------------------------------------------------------
(* Every step of the shadow takes an index to an index.                    *)
LEMMA NextKeepsMirror ==
    ASSUME SyncTypeOK, [SyncNext]_allVars
    PROVE  Shadow!ShadowTypeOK'
<1>0. /\ IsIndex(mirror) /\ sinceMirrorSweep \in 0 .. SweepPeriod
      /\ flight \in Seq(Shadow!SyncOps)
  BY ShadowForms DEF SyncTypeOK, Shadow!ShadowTypeOK
<1>a. ASSUME IsIndex(mirror'), sinceMirrorSweep' \in 0 .. SweepPeriod
      PROVE  Shadow!ShadowTypeOK'
  BY <1>a DEF Shadow!ShadowTypeOK,
     Shadow!IsIndex, Shadow!Ages, Shadow!NotListed, Shadow!NoCopy, Shadow!Entries,
     Shadow!Infos, Shadow!Leases, Shadow!NoHolder, Shadow!Expired,
     IsIndex, Ages, NotListed, NoCopy, Entries, Infos, Leases, NoHolder, Expired
<1>1. ASSUME NEW i \in 1 .. Len(flight), Shadow!Sync(flight[i])
      PROVE  Shadow!ShadowTypeOK'
  <2>1. flight[i] \in Shadow!SyncOps
    BY <1>0, ElementOfSeq
  <2>2. IsIndex(mirror') /\ sinceMirrorSweep' = sinceMirrorSweep
    BY <1>0, <1>1, <2>1, SyncApplied DEF Shadow!Sync
  <2> QED
    BY <1>0, <1>a, <2>2
<1>2. CASE Shadow!SweepMirror
  <2>1. StalePeers(mirror) \in SUBSET Peers
    BY DEF StalePeers, Listed
  <2>2. IsIndex(Prune(mirror, StalePeers(mirror)))
    BY <1>0, <2>1, PruneFacts
  <2>3. mirror' = Prune(mirror, StalePeers(mirror))
    BY <1>2, ShadowForms DEF Shadow!SweepMirror
  <2>4. IsIndex(mirror')
    BY <2>2, <2>3
  <2> QED
    BY <1>2, <1>a, <2>4, ServerAssumption DEF Shadow!SweepMirror
<1>3. CASE Shadow!TickMirror
  <2>1. IsIndex(mirror')
    BY <1>0, <1>3, ShadowForms, ElapseFacts DEF Shadow!TickMirror
  <2>2. sinceMirrorSweep' \in 0 .. SweepPeriod
    BY <1>0, <1>3, ServerAssumption DEF Shadow!TickMirror
  <2> QED
    BY <1>a, <2>1, <2>2
<1>4. CASE Shadow!RestartMirror
  <2>1. IsIndex(mirror')
    BY <1>4, ShadowForms, EmptyIndexSound DEF Shadow!RestartMirror, SoundIndex
  <2> QED
    BY <1>4, <1>a, <2>1, ServerAssumption DEF Shadow!RestartMirror
<1>5. CASE UNCHANGED shadowVars
  BY <1>0, <1>5, <1>a DEF shadowVars
<1>6. \/ UNCHANGED shadowVars
      \/ \E i \in 1 .. Len(flight) : Shadow!Sync(flight[i])
      \/ Shadow!SweepMirror \/ Shadow!TickMirror \/ Shadow!RestartMirror
  BY DEF SyncNext, SyncedRegister, SyncedHeartbeat, SyncedAnnounce, SyncedDelete,
         RefusedDelete, Unsynced, Blocked, SyncedSweep, PrimaryDies, PrimaryStarts, Deliver, Lose,
         TimePasses, ShadowSweep, ShadowRestart, allVars
<1> QED
  BY <1>1, <1>2, <1>3, <1>4, <1>5, <1>6

(* Every variable keeps its type.                                          *)
LEMMA NextKeepsSyncType ==
    ASSUME SyncTypeOK, TypeOK', [SyncNext]_allVars
    PROVE  SyncTypeOK'
<1>0. /\ flight \in Seq(Shadow!SyncOps) /\ Len(flight) <= FlightCap
      /\ down \in BOOLEAN /\ ideal \in BOOLEAN /\ apart \subseteq Peers
  BY DEF SyncTypeOK
<1>1. Shadow!ShadowTypeOK'
  BY NextKeepsMirror
<1>a. ASSUME NEW ops \in Seq(Shadow!SyncOps), Send(ops), down' = down, ideal' = ideal,
             apart' \subseteq Peers
      PROVE  SyncTypeOK'
  BY <1>0, <1>1, <1>a, SendTypes DEF SyncTypeOK
<1>b. ASSUME flight' = flight, down' \in BOOLEAN, ideal' \in BOOLEAN, apart' \subseteq Peers
      PROVE  SyncTypeOK'
  BY <1>0, <1>1, <1>b DEF SyncTypeOK
<1>c. ASSUME NEW p \in Peers, Reported(p) PROVE apart' \subseteq Peers
  BY <1>0, <1>c DEF Reported
<1>2. ASSUME NEW p \in Peers, NEW cat \in RegisterCatalogues, SyncedRegister(p, cat)
      PROVE  SyncTypeOK'
  <2>1. apart' \subseteq Peers
    BY <1>0, <1>2, <1>c DEF SyncedRegister
  <2> QED
    BY <1>2, <1>a, <2>1, SentOps DEF SyncedRegister
<1>3. ASSUME NEW p \in Peers, SyncedHeartbeat(p) PROVE SyncTypeOK'
  BY <1>3, <1>a, <1>c, SentOps DEF SyncedHeartbeat
<1>4. ASSUME NEW p \in Peers, NEW f \in Files, NEW info \in Infos,
             SyncedAnnounce(p, f, info)
      PROVE  SyncTypeOK'
  BY <1>4, <1>a, <1>c, SentOps DEF SyncedAnnounce
<1>5. ASSUME NEW p \in Peers, NEW f \in Files, SyncedDelete(p, f) \/ RefusedDelete(p, f)
      PROVE  SyncTypeOK'
  BY <1>0, <1>5, <1>a, SentOps DEF SyncedDelete, RefusedDelete, history
<1>9. ASSUME NEW op \in Shadow!SyncOps, Blocked(op) PROVE SyncTypeOK'
  <2>1. op.peer \in Peers
    BY <1>9 DEF Shadow!SyncOps
  <2>2. apart' \subseteq Peers
    BY <1>0, <1>9, <2>1 DEF Blocked
  <2>3. <<op>> \in Seq(Shadow!SyncOps)
    BY <1>9
  <2> QED
    BY <1>9, <1>a, <2>2, <2>3 DEF Blocked
<1>6. CASE SyncedSweep
  <2>1. StalePeers(index) \in SUBSET Peers
    BY DEF StalePeers, Listed
  <2>2. SetToSeq([kind : {"prune"}, peer : StalePeers(index)]) \in Seq(Shadow!SyncOps)
    BY <2>1, SentOps
  <2> QED
    BY <1>0, <1>6, <1>a, <2>2 DEF SyncedSweep
<1>7. ASSUME NEW i \in 1 .. Len(flight), Deliver(i) \/ Lose(i)
      PROVE  SyncTypeOK'
  <2>1. /\ flight' = RemoveAt(flight, i)
        /\ down' = down /\ ideal' \in BOOLEAN /\ apart' = apart
    BY <1>0, <1>7 DEF Deliver, Lose
  <2>2. flight' \in Seq(Shadow!SyncOps) /\ Len(flight') = Len(flight) - 1
    BY <1>0, <2>1, RemoveAtFacts
  <2>3. Len(flight') <= FlightCap
    BY <1>0, <2>2, LenProperties, SyncAssumption
  <2> QED
    BY <1>0, <1>1, <2>1, <2>2, <2>3 DEF SyncTypeOK
<1>8. ASSUME \/ PrimaryDies \/ PrimaryStarts \/ TimePasses \/ ShadowSweep \/ ShadowRestart
             \/ \E p \in Peers, f \in Files : Unsynced(p, f)
             \/ UNCHANGED allVars
      PROVE  SyncTypeOK'
  <2>1. /\ flight' = flight /\ down' \in BOOLEAN
        /\ ideal' \in BOOLEAN /\ apart' \subseteq Peers
    BY <1>0, <1>8 DEF PrimaryDies, PrimaryStarts, TimePasses, ShadowSweep, ShadowRestart,
                      Unsynced, allVars, history
  <2> QED
    BY <1>b, <2>1
<1> QED
  BY <1>2, <1>3, <1>4, <1>5, <1>6, <1>7, <1>8, <1>9 DEF SyncNext

(* Both servers start empty.                                               *)
LEMMA SyncStarts == SyncInit => SyncInv
<1> SUFFICES ASSUME SyncInit PROVE SyncInv
  OBVIOUS
<1>1. Sound
  BY InitSound DEF SyncInit
<1>2. IsIndex(mirror)
  BY ShadowForms, EmptyIndexSound DEF SyncInit, Shadow!Init, SoundIndex
<1>3. Shadow!ShadowTypeOK
  BY <1>2, ShadowForms, ServerAssumption DEF SyncInit, Shadow!Init, Shadow!ShadowTypeOK
<1>4. SyncTypeOK
  <2>1. <<>> \in Seq(Shadow!SyncOps) /\ Len(<<>>) = 0
    BY EmptySeq
  <2>2. flight \in Seq(Shadow!SyncOps) /\ Len(flight) <= FlightCap
    BY <2>1, SyncAssumption DEF SyncInit
  <2> QED
    BY <1>1, <1>3, <2>2 DEF SyncInit, SyncTypeOK, Sound
<1>5. CoveredWhileIdeal
  BY DEF SyncInit, Init, EmptyIndex, CoveredWhileIdeal
<1> QED
  BY <1>1, <1>4, <1>5 DEF SyncInv

THEOREM SyncAlwaysSound == SyncSpec => []SyncInv
<1>1. SyncInv /\ [SyncNext]_allVars => SyncInv'
  BY SyncKeepsSound, NextKeepsSyncType, NextKeepsCovered DEF SyncInv, Sound
<1> QED
  BY <1>1, SyncStarts, PTL DEF SyncSpec

(* The variables of both servers, the operations in flight and the         *)
(* histories keep their types, for any peers, files, versions and          *)
(* intervals (server.go:31-44, 141-230).                                   *)
THEOREM SyncTypeCorrect == SyncSpec => []SyncTypeOK
<1>1. SyncInv => SyncTypeOK
  BY DEF SyncInv
<1> QED
  BY <1>1, SyncAlwaysSound, PTL

(* Once everything has arrived, in order and in time, the shadow knows the *)
(* copies that the primary knows, or knew when it died, of every peer that *)
(* reported within the TTL and is not set apart, at their versions, and a  *)
(* look-up that is answered finds them: in any finite fleet, also after a  *)
(* panic has locked the primary up (server.go:84-91, 157-230, 358-378;     *)
(* client.go:46-105).                                                      *)
THEOREM ShadowAlwaysCoversPrimary == SyncSpec => []ShadowCoversPrimary
<1>1. SyncInv => ShadowCoversPrimary
  <2> SUFFICES ASSUME SyncInv, ideal, flight = <<>>,
                      NEW p \in Listed(index) \ apart, NEW f \in Files,
                      index.seen[p] <= PeerTTL, index.held[p][f] # NoCopy
               PROVE  /\ mirror.held[p][f] = index.held[p][f]
                      /\ Answered => p \in LookUp(f)
    BY DEF ShadowCoversPrimary
  <2>1. p \in Peers \ apart /\ MapsAgree(index)
    BY DEF Listed, SyncInv, Sound, SoundIndex
  <2>2. Covered(index, mirror, <<>>, p, f)
    BY <2>1 DEF SyncInv, CoveredWhileIdeal
  <2>3. Settled(index, mirror, <<>>, p, f)
    BY <2>2, EmptySeq DEF Covered, UnderWay
  <2>4. p \in Hosts(index, f) /\ p \in Hosts(mirror, f)
    BY <2>1, <2>3 DEF MapsAgree, Hosts, Settled
  <2> QED
    BY <2>3, <2>4 DEF Settled, LookUp
<1> QED
  BY <1>1, SyncAlwaysSound, PTL
=============================================================================
