------------------------ MODULE SharedFolderProofs --------------------------
(***************************************************************************)
(* Safety of a shared directory, for any number of pulls and downloads,    *)
(* any texts and any length: while no two pulls write at the same time, a  *)
(* pull installs what it hashed and a download is one text.                *)
(***************************************************************************)
EXTENDS SharedFolder, FiniteSetTheorems, SequenceTheorems, TLAPS

-----------------------------------------------------------------------------
(* The inductive invariant.                                                *)

(* The two names never share an inode.                                     *)
NamesApart == final # Absent => final # part

(* A pull that writes alone has the .part name, and what it was sent so    *)
(* far is the text there.                                                  *)
LoneWriter ==
    ~overlap =>
        \A k \in Pulls : Writing(k) =>
            /\ \A j \in Pulls : Writing(j) => j = k
            /\ part = pull[k].inode
            /\ data[part] = Written(pull[k].got)

(* Nobody writes into an inode that a download which is followed reads,    *)
(* and what it has got so far is what the file began with when opened.     *)
ReadersTrue ==
    \A r \in Readers : Reading(r) =>
        /\ ~overlap
        /\ reader[r].inode # part
        /\ data[reader[r].inode] = reader[r].opened
        /\ \A b \in 1 .. Len(reader[r].got) : reader[r].got[b] = reader[r].opened[b]

FolderInv == TypeOK /\ NamesApart /\ LoneWriter /\ ReadersTrue

-----------------------------------------------------------------------------
(* What the types say.                                                     *)
Wanted   == Whole \cup {NoHash}
Calls    == {NoPull}
              \cup [step : {"answered"}, want : Wanted]
              \cup [step : {"copying", "verified"}, want : Wanted,
                    inode : Inodes, got : Streams]
Sendings == {NoRead, Spoilt}
              \cup [step : {"reading"}, inode : Inodes, got : Streams, opened : Texts]

(* A call that writes has an inode and what it got.                        *)
LEMMA CallFacts ==
    ASSUME NEW c \in Calls
    PROVE  /\ c.step = "answered" => c.want \in Wanted
           /\ c.step \in {"copying", "verified"} =>
                 /\ c \in [step : {"copying", "verified"}, want : Wanted,
                           inode : Inodes, got : Streams]
                 /\ c.want \in Wanted /\ c.inode \in Inodes /\ c.got \in Streams
BY DEF Calls, NoPull

(* A download that is followed has an inode, what it got and the text.     *)
LEMMA SendingFacts ==
    ASSUME NEW c \in Sendings, c.step = "reading"
    PROVE  /\ c \in [step : {"reading"}, inode : Inodes, got : Streams, opened : Texts]
           /\ c.inode \in Inodes /\ c.got \in Streams /\ c.opened \in Texts
BY DEF Sendings, NoRead, Spoilt

(* A stream is a short sequence, and grows by one block.                   *)
LEMMA StreamFacts ==
    /\ <<>> \in Streams
    /\ \A s \in Streams :
          /\ Len(s) \in 0 .. Length /\ DOMAIN s = 1 .. Len(s)
          /\ \A c \in Letters \cup {Hole} : Len(s) < Length =>
                /\ Append(s, c) \in Streams
                /\ Len(Append(s, c)) = Len(s) + 1
                /\ \A b \in 1 .. Len(s) : Append(s, c)[b] = s[b]
                /\ Append(s, c)[Len(s) + 1] = c
<1> DEFINE X == Letters \cup {Hole}
<1>0. Length \in Nat
  BY FolderAssumption
<1>1. <<>> \in Streams
  <2>1. <<>> \in [1 .. 0 -> X]
    OBVIOUS
  <2> QED
    BY <1>0, <2>1 DEF Streams
<1>2. ASSUME NEW s \in Streams
      PROVE  s \in Seq(X) /\ Len(s) \in 0 .. Length /\ DOMAIN s = 1 .. Len(s)
  <2>1. PICK n \in 0 .. Length : s \in [1 .. n -> X]
    BY DEF Streams
  <2>2. s \in Seq(X) /\ Len(s) = n
    BY <1>0, <2>1
  <2> QED
    BY <2>1, <2>2
<1>3. ASSUME NEW s \in Streams, NEW c \in X, Len(s) < Length
      PROVE  /\ Append(s, c) \in Streams
             /\ Len(Append(s, c)) = Len(s) + 1
             /\ \A b \in 1 .. Len(s) : Append(s, c)[b] = s[b]
             /\ Append(s, c)[Len(s) + 1] = c
  <2>1. s \in Seq(X) /\ Len(s) \in Nat
    BY <1>0, <1>2
  <2>2. /\ Append(s, c) \in [1 .. Len(s) + 1 -> X]
        /\ Len(Append(s, c)) = Len(s) + 1
        /\ \A b \in 1 .. Len(s) : Append(s, c)[b] = s[b]
        /\ Append(s, c)[Len(s) + 1] = c
    <3> HIDE DEF X
    <3>1. /\ Append(s, c) \in Seq(X)
          /\ Len(Append(s, c)) = Len(s) + 1
          /\ \A b \in 1 .. Len(s) : Append(s, c)[b] = s[b]
          /\ Append(s, c)[Len(s) + 1] = c
      BY <2>1, AppendProperties
    <3>2. Append(s, c) \in [1 .. Len(Append(s, c)) -> X]
      BY <3>1, LenProperties
    <3> QED
      BY <3>1, <3>2
  <2>3. Len(s) + 1 \in 0 .. Length
    BY <1>0, <1>3, <2>1
  <2> QED
    BY <2>2, <2>3 DEF Streams
<1> QED
  BY <1>1, <1>2, <1>3

(* Writing the next block where a stream was written writes the longer     *)
(* stream.                                                                 *)
LEMMA WrittenFacts ==
    /\ Empty \in Texts /\ Written(<<>>) = Empty
    /\ \A s \in Streams, c \in Letters : Len(s) < Length =>
          [Written(s) EXCEPT ![Len(s) + 1] = c] = Written(Append(s, c))
<1>1. Empty \in Texts /\ Written(<<>>) = Empty
  BY DEF Empty, Texts, Written
<1>2. ASSUME NEW s \in Streams, NEW c \in Letters, Len(s) < Length
      PROVE  [Written(s) EXCEPT ![Len(s) + 1] = c] = Written(Append(s, c))
  <2> DEFINE t == Append(s, c)
  <2>1. /\ Len(s) \in Nat /\ DOMAIN s = 1 .. Len(s)
        /\ t \in Streams /\ Len(t) = Len(s) + 1
        /\ DOMAIN t = 1 .. Len(s) + 1
        /\ \A b \in 1 .. Len(s) : t[b] = s[b]
        /\ t[Len(s) + 1] = c
    <3>1. c \in Letters \cup {Hole}
      OBVIOUS
    <3>2. t \in Streams /\ Len(t) = Len(s) + 1
      BY <1>2, <3>1, StreamFacts
    <3> QED
      BY <1>2, <3>1, <3>2, StreamFacts
  <2> HIDE DEF t
  <2>2. \A b \in Blocks : b \in DOMAIN t <=> b \in DOMAIN s \/ b = Len(s) + 1
    BY <2>1 DEF Blocks
  <2>3. \A b \in Blocks : [Written(s) EXCEPT ![Len(s) + 1] = c][b] = Written(t)[b]
    BY <2>1, <2>2 DEF Written
  <2> QED
    BY <2>3 DEF Written, t
<1> QED
  BY <1>1, <1>2

-----------------------------------------------------------------------------
(* Inodes.                                                                 *)

(* The values that a function takes on a finite set are no more than the   *)
(* set has members.                                                        *)
LEMMA ValuesBound ==
    ASSUME NEW S, IsFiniteSet(S), NEW g, NEW V, V = {g[x] : x \in S}
    PROVE  IsFiniteSet(V) /\ Cardinality(V) <= Cardinality(S)
<1> DEFINE h == [x \in S |-> g[x]]
<1>1. h \in Surjection(S, V)
  BY DEF Surjection
<1> QED
  BY <1>1, FS_Surjection

(* While a pull that is not writing looks for an inode for its .part name, *)
(* there is one that is not in use.                                        *)
LEMMA FreshIsFree ==
    ASSUME TypeOK, part = Absent, NEW k \in Pulls, ~Writing(k)
    PROVE  Fresh \in Inodes /\ Fresh \notin InUse
<1> DEFINE writers == {j \in Pulls : Writing(j)}
           readers == {r \in Readers : Reading(r)}
           written == {pull[j].inode : j \in writers}
           read    == {reader[r].inode : r \in readers}
<1>1. /\ IsFiniteSet(writers)
      /\ Cardinality(writers) \in Nat /\ Cardinality(Pulls) \in Nat
      /\ Cardinality(writers) <= Cardinality(Pulls) - 1
  <2>1. writers \subseteq Pulls \ {k}
    OBVIOUS
  <2>2. /\ IsFiniteSet(Pulls \ {k})
        /\ Cardinality(Pulls \ {k}) = Cardinality(Pulls) - 1
    BY FolderAssumption, FS_RemoveElement
  <2> HIDE DEF writers
  <2>3. IsFiniteSet(writers) /\ Cardinality(writers) <= Cardinality(Pulls \ {k})
    BY <2>1, <2>2, FS_Subset
  <2> QED
    BY <2>2, <2>3, FolderAssumption, FS_CardinalityType
<1>2. /\ IsFiniteSet(readers)
      /\ Cardinality(readers) \in Nat /\ Cardinality(Readers) \in Nat
      /\ Cardinality(readers) <= Cardinality(Readers)
  BY FolderAssumption, FS_Subset, FS_CardinalityType
<1>3. IsFiniteSet(written) /\ Cardinality(written) <= Cardinality(writers)
  <2> DEFINE g == [j \in Pulls |-> pull[j].inode]
  <2>1. written = {g[j] : j \in writers}
    OBVIOUS
  <2> HIDE DEF g, writers, written
  <2> QED
    BY <1>1, <2>1, ValuesBound
<1>4. IsFiniteSet(read) /\ Cardinality(read) <= Cardinality(readers)
  <2> DEFINE g == [r \in Readers |-> reader[r].inode]
  <2>1. read = {g[r] : r \in readers}
    OBVIOUS
  <2> HIDE DEF g, readers, read
  <2> QED
    BY <1>2, <2>1, ValuesBound
<1> HIDE DEF writers, readers, written, read
<1>5. /\ IsFiniteSet(written \cup read)
      /\ Cardinality(written \cup read) <= Cardinality(written) + Cardinality(read)
  <2>1. IsFiniteSet(written \cap read)
    BY <1>3, FS_Intersection
  <2>2. Cardinality(written \cap read) \in Nat /\ Cardinality(written) \in Nat
        /\ Cardinality(read) \in Nat
    BY <1>3, <1>4, <2>1, FS_CardinalityType
  <2>3. /\ IsFiniteSet(written \cup read)
        /\ Cardinality(written \cup read)
             = Cardinality(written) + Cardinality(read) - Cardinality(written \cap read)
    BY <1>3, <1>4, FS_Union
  <2> QED
    BY <2>2, <2>3
<1>6. /\ IsFiniteSet((written \cup read) \cup {final})
      /\ Cardinality((written \cup read) \cup {final}) <= Cardinality(written \cup read) + 1
  <2>1. Cardinality(written \cup read) \in Nat
    BY <1>5, FS_CardinalityType
  <2>2. /\ IsFiniteSet((written \cup read) \cup {final})
        /\ Cardinality((written \cup read) \cup {final})
             = IF final \in written \cup read THEN Cardinality(written \cup read)
                                             ELSE Cardinality(written \cup read) + 1
    <3> DEFINE both == written \cup read
    <3> HIDE DEF both
    <3>1. /\ IsFiniteSet(both \cup {final})
          /\ Cardinality(both \cup {final})
               = IF final \in both THEN Cardinality(both) ELSE Cardinality(both) + 1
      BY <1>5, FS_AddElement DEF both
    <3> QED
      BY <3>1 DEF both
  <2> QED
    BY <2>1, <2>2
<1>7. Cardinality((written \cup read) \cup {final}) < Cardinality(Inodes)
  <2>1. /\ Cardinality(written) \in Nat /\ Cardinality(read) \in Nat
        /\ Cardinality(written \cup read) \in Nat /\ Cardinality(Inodes) \in Nat
        /\ Cardinality((written \cup read) \cup {final}) \in Nat
    BY <1>3, <1>4, <1>5, <1>6, FolderAssumption, FS_CardinalityType
  <2> QED
    BY <1>1, <1>2, <1>3, <1>4, <1>5, <1>6, <2>1, FolderAssumption
<1>8. ~(Inodes \subseteq (written \cup read) \cup {final})
  <2> SUFFICES ASSUME Inodes \subseteq (written \cup read) \cup {final}
               PROVE  FALSE
    OBVIOUS
  <2>1. Cardinality(Inodes) <= Cardinality((written \cup read) \cup {final})
    BY <1>6, FS_Subset
  <2>2. Cardinality(Inodes) \in Nat /\ Cardinality((written \cup read) \cup {final}) \in Nat
    BY <1>6, FolderAssumption, FS_CardinalityType
  <2> QED
    BY <1>7, <2>1, <2>2
<1>9. InUse = {final, part} \cup written \cup read
  BY DEF InUse, writers, readers, written, read
<1>10. \E i \in Inodes : i \notin InUse
  BY <1>8, <1>9, FolderAssumption
<1> QED
  BY <1>10 DEF Fresh

-----------------------------------------------------------------------------
(* The steps.                                                              *)

(* The types, by the names above.                                          *)
LEMMA Types ==
    TypeOK <=> /\ final \in Inodes \cup {Absent}
               /\ part \in Inodes \cup {Absent}
               /\ data \in [Inodes -> Texts]
               /\ pull \in [Pulls -> Calls]
               /\ reader \in [Readers -> Sendings]
               /\ overlap \in BOOLEAN
BY DEF TypeOK, Calls, Sendings, Wanted

(* And after a step.                                                       *)
LEMMA TypesAfter ==
    ASSUME final' \in Inodes \cup {Absent}, part' \in Inodes \cup {Absent},
           data' \in [Inodes -> Texts], pull' \in [Pulls -> Calls],
           reader' \in [Readers -> Sendings], overlap' \in BOOLEAN
    PROVE  TypeOK'
BY DEF TypeOK, Calls, Sendings, Wanted

(* The directory starts empty.                                             *)
LEMMA InitInv == Init => FolderInv
<1> SUFFICES ASSUME Init PROVE FolderInv
  OBVIOUS
<1>1. TypeOK
  <2>1. data \in [Inodes -> Texts]
    BY WrittenFacts DEF Init
  <2>2. pull \in [Pulls -> Calls] /\ reader \in [Readers -> Sendings]
    BY DEF Init, Calls, Sendings
  <2> QED
    BY <2>1, <2>2, Types DEF Init
<1>2. NamesApart /\ LoneWriter
  BY DEF Init, NamesApart, LoneWriter, Writing, NoPull
<1>3. ReadersTrue
  BY DEF Init, ReadersTrue, Reading, NoRead
<1> QED
  BY <1>1, <1>2, <1>3 DEF FolderInv

(* Reclaiming leaves what is still in use.                                 *)
LEMMA ReclaimKeeps ==
    ASSUME TypeOK, Reclaim
    PROVE  /\ data' \in [Inodes -> Texts]
           /\ \A i \in Inodes : i \in InUse' => data'[i] = data[i]
BY WrittenFacts DEF Reclaim, TypeOK

(* What a download that goes on relies on.                                 *)
LEMMA ReadersKept ==
    ASSUME FolderInv, overlap' => overlap, part' \in {part, Absent},
           \A r \in Readers : Reading(r)' =>
               /\ reader'[r] = reader[r]
               /\ data'[reader[r].inode] = data[reader[r].inode]
    PROVE  ReadersTrue'
<1> SUFFICES ASSUME NEW r \in Readers, Reading(r)'
             PROVE  /\ ~overlap'
                    /\ reader'[r].inode # part'
                    /\ data'[reader'[r].inode] = reader'[r].opened
                    /\ \A b \in 1 .. Len(reader'[r].got) :
                          reader'[r].got[b] = reader'[r].opened[b]
  BY DEF ReadersTrue
<1>1. Reading(r)
  BY DEF Reading
<1>2. reader[r].inode \in Inodes
  BY <1>1, Types, SendingFacts DEF FolderInv, Reading
<1>3. reader[r].inode # Absent
  BY <1>2, FolderAssumption
<1> QED
  BY <1>1, <1>3 DEF FolderInv, ReadersTrue

(* A source answers.                                                       *)
LEMMA AnsweredInv ==
    ASSUME FolderInv, NEW k \in Pulls, Answered(k) PROVE FolderInv'
<1>1. PICK want \in Wanted :
         pull' = [pull EXCEPT ![k] = [step |-> "answered", want |-> want]]
  BY DEF Answered, Wanted
<1>2. /\ pull \in [Pulls -> Calls] /\ TypeOK
      /\ UNCHANGED <<final, part, data, reader, overlap>>
  BY Types DEF FolderInv, Answered
<1>3. pull' \in [Pulls -> Calls]
  BY <1>1, <1>2 DEF Calls
<1>4. TypeOK'
  <2>1. final \in Inodes \cup {Absent} /\ part \in Inodes \cup {Absent}
    BY <1>2, Types
  <2>2. data \in [Inodes -> Texts] /\ reader \in [Readers -> Sendings] /\ overlap \in BOOLEAN
    BY <1>2, Types
  <2> QED
    BY <1>2, <1>3, <2>1, <2>2, TypesAfter
<1>5. \A j \in Pulls : Writing(j)' => Writing(j) /\ pull'[j] = pull[j]
  BY <1>1, <1>2 DEF Writing
<1>6. LoneWriter' /\ NamesApart'
  BY <1>2, <1>5 DEF FolderInv, LoneWriter, NamesApart
<1>7. ReadersTrue'
  BY <1>2, ReadersKept
<1> QED
  BY <1>4, <1>6, <1>7 DEF FolderInv

(* A pull begins to write, alone or not.                                   *)
LEMMA CreateInv ==
    ASSUME FolderInv, NEW k \in Pulls, Create(k) PROVE FolderInv'
<1>1. /\ TypeOK /\ data \in [Inodes -> Texts] /\ pull \in [Pulls -> Calls]
      /\ reader \in [Readers -> Sendings] /\ part \in Inodes \cup {Absent}
      /\ final \in Inodes \cup {Absent} /\ NamesApart /\ LoneWriter /\ ReadersTrue
  BY Types DEF FolderInv
<1>2. /\ pull[k].step = "answered" /\ pull[k].want \in Wanted /\ ~Writing(k)
  BY <1>1, CallFacts DEF Create, Writing
<1>3. part' \in Inodes /\ final' = final /\ (final # Absent => part' # final)
  <2>1. CASE part = Absent
    BY <1>1, <1>2, <2>1, FreshIsFree DEF Create, InUse
  <2>2. CASE part # Absent
    BY <1>1, <2>2 DEF Create, NamesApart
  <2> QED
    BY <2>1, <2>2
<1>4. ASSUME NEW r \in Readers, Reading(r)
      PROVE  reader[r].inode \in Inodes /\ reader[r].inode # part'
  <2>0. reader[r].inode \in Inodes
    BY <1>1, <1>4, SendingFacts DEF Reading
  <2>1. CASE part = Absent
    BY <1>1, <1>2, <1>4, <2>0, <2>1, FreshIsFree DEF Create, InUse
  <2>2. CASE part # Absent
    BY <1>1, <1>4, <2>0, <2>2 DEF Create, ReadersTrue
  <2> QED
    BY <2>1, <2>2
<1> DEFINE call == [step |-> "copying", want |-> pull[k].want, inode |-> part', got |-> <<>>]
<1>5. call \in Calls /\ pull' = [pull EXCEPT ![k] = call]
  BY <1>2, <1>3, StreamFacts DEF Create, Calls
<1>6. data' = [data EXCEPT ![part'] = Empty] /\ data' \in [Inodes -> Texts]
  BY <1>1, <1>3, WrittenFacts DEF Create
<1>7. /\ overlap' = (\E j \in Pulls \ {k} : Writing(j))
      /\ \A r \in Readers : reader'[r] = IF overlap' /\ Reading(r) THEN Spoilt ELSE reader[r]
      /\ reader' \in [Readers -> Sendings]
  BY <1>1 DEF Create, Sendings
<1>8. TypeOK'
  <2>1. pull' \in [Pulls -> Calls]
    BY <1>1, <1>5
  <2>2. overlap' \in BOOLEAN
    BY <1>7
  <2> QED
    BY <1>1, <1>3, <1>6, <1>7, <2>1, <2>2, TypesAfter
<1>9. NamesApart'
  BY <1>3 DEF NamesApart
<1>10. LoneWriter'
  <2> SUFFICES ASSUME ~overlap', NEW i \in Pulls, Writing(i)'
               PROVE  /\ \A j \in Pulls : Writing(j)' => j = i
                      /\ part' = pull'[i].inode
                      /\ data'[part'] = Written(pull'[i].got)
    BY DEF LoneWriter
  <2>1. \A j \in Pulls : Writing(j)' => j = k
    BY <1>1, <1>5, <1>7 DEF Writing
  <2>2. pull'[k] = call
    BY <1>1, <1>5
  <2>3. data'[part'] = Empty
    BY <1>1, <1>3, <1>6
  <2> QED
    BY <2>1, <2>2, <2>3, WrittenFacts
<1>11. ReadersTrue'
  <2> SUFFICES ASSUME NEW r \in Readers, Reading(r)'
               PROVE  /\ ~overlap'
                      /\ reader'[r].inode # part'
                      /\ data'[reader'[r].inode] = reader'[r].opened
                      /\ \A b \in 1 .. Len(reader'[r].got) :
                            reader'[r].got[b] = reader'[r].opened[b]
    BY DEF ReadersTrue
  <2>1. ~overlap' /\ reader'[r] = reader[r] /\ Reading(r)
    BY <1>7 DEF Reading, Spoilt
  <2>2. reader[r].inode \in Inodes /\ reader[r].inode # part'
    BY <1>4, <2>1
  <2>3. data'[reader[r].inode] = data[reader[r].inode]
    BY <1>1, <1>6, <2>2
  <2> QED
    BY <1>1, <2>1, <2>2, <2>3 DEF ReadersTrue
<1> QED
  BY <1>8, <1>9, <1>10, <1>11 DEF FolderInv

(* A download opens the file: nobody mixes texts, so nobody writes there.  *)
LEMMA OpenInv ==
    ASSUME FolderInv, NEW r \in Readers, Open(r) PROVE FolderInv'
<1>1. /\ TypeOK /\ data \in [Inodes -> Texts] /\ reader \in [Readers -> Sendings]
      /\ final \in Inodes /\ NamesApart /\ LoneWriter /\ ReadersTrue
      /\ UNCHANGED <<final, part, data, pull, overlap>>
  BY Types DEF FolderInv, Open
<1> DEFINE call == [step |-> "reading", inode |-> final, got |-> <<>>, opened |-> data[final]]
<1>2. /\ call \in Sendings /\ Spoilt \in Sendings
      /\ reader' = [reader EXCEPT ![r] = IF overlap THEN Spoilt ELSE call]
  BY <1>1, StreamFacts DEF Open, Sendings
<1>3. TypeOK'
  <2>1. reader' \in [Readers -> Sendings]
    BY <1>1, <1>2
  <2>2. part \in Inodes \cup {Absent} /\ pull \in [Pulls -> Calls] /\ overlap \in BOOLEAN
    BY <1>1, Types
  <2> QED
    BY <1>1, <2>1, <2>2, TypesAfter
<1>4. NamesApart' /\ LoneWriter'
  BY <1>1 DEF NamesApart, LoneWriter, Writing
<1>5. ReadersTrue'
  <2> SUFFICES ASSUME NEW q \in Readers, Reading(q)'
               PROVE  /\ ~overlap'
                      /\ reader'[q].inode # part'
                      /\ data'[reader'[q].inode] = reader'[q].opened
                      /\ \A b \in 1 .. Len(reader'[q].got) :
                            reader'[q].got[b] = reader'[q].opened[b]
    BY DEF ReadersTrue
  <2>1. CASE q = r
    <3>1. ~overlap /\ reader'[q] = call
      BY <1>1, <1>2, <2>1 DEF Reading, Spoilt
    <3>2. final # part
      BY <1>1, FolderAssumption DEF NamesApart
    <3> QED
      BY <1>1, <3>1, <3>2
  <2>2. CASE q # r
    <3>1. reader'[q] = reader[q] /\ Reading(q)
      BY <1>1, <1>2, <2>2 DEF Reading
    <3> QED
      BY <1>1, <3>1 DEF ReadersTrue
  <2> QED
    BY <2>1, <2>2
<1> QED
  BY <1>3, <1>4, <1>5 DEF FolderInv

(* A download gets the next block of the text it opened.                   *)
LEMMA ReadInv ==
    ASSUME FolderInv, NEW r \in Readers, Read(r) PROVE FolderInv'
<1>1. /\ TypeOK /\ data \in [Inodes -> Texts] /\ reader \in [Readers -> Sendings]
      /\ NamesApart /\ LoneWriter /\ ReadersTrue
      /\ UNCHANGED <<final, part, data, pull, overlap>>
  BY Types DEF FolderInv, Read
<1> DEFINE was  == reader[r]
           next == data[was.inode][Len(was.got) + 1]
<1>2. /\ was \in [step : {"reading"}, inode : Inodes, got : Streams, opened : Texts]
      /\ was.inode \in Inodes /\ was.got \in Streams /\ was.opened \in Texts
      /\ Reading(r) /\ Len(was.got) < Length
  BY <1>1, SendingFacts DEF Read, Reading
<1>3. /\ Len(was.got) \in Nat /\ Len(was.got) + 1 \in Blocks
      /\ next \in Letters \cup {Hole} /\ next = was.opened[Len(was.got) + 1]
  <2>1. Len(was.got) \in Nat /\ Len(was.got) + 1 \in Blocks
    BY <1>2, StreamFacts, FolderAssumption DEF Blocks
  <2>2. data[was.inode] = was.opened
    BY <1>1, <1>2 DEF ReadersTrue
  <2> QED
    BY <1>2, <2>1, <2>2 DEF Texts
<1> DEFINE more == Append(was.got, next)
<1> HIDE DEF next
<1>4. /\ more \in Streams /\ Len(more) = Len(was.got) + 1
      /\ \A b \in 1 .. Len(was.got) : more[b] = was.got[b]
      /\ more[Len(was.got) + 1] = next
  BY <1>2, <1>3, StreamFacts
<1>5. reader' = [reader EXCEPT ![r] = [was EXCEPT !.got = more]]
  BY <1>1 DEF Read, next
<1> HIDE DEF more
<1>6. /\ reader'[r].inode = was.inode /\ reader'[r].opened = was.opened
      /\ reader'[r].got = more /\ [was EXCEPT !.got = more] \in Sendings
      /\ reader'[r].step = "reading"
  BY <1>1, <1>2, <1>4, <1>5 DEF Sendings
<1>7. TypeOK'
  <2>1. reader' \in [Readers -> Sendings]
    BY <1>1, <1>5, <1>6
  <2>2. /\ part \in Inodes \cup {Absent} /\ final \in Inodes \cup {Absent}
        /\ pull \in [Pulls -> Calls] /\ overlap \in BOOLEAN
    BY <1>1, Types
  <2> QED
    BY <1>1, <2>1, <2>2, TypesAfter
<1>8. NamesApart' /\ LoneWriter'
  BY <1>1 DEF NamesApart, LoneWriter, Writing
<1>9. ReadersTrue'
  <2> SUFFICES ASSUME NEW q \in Readers, Reading(q)'
               PROVE  /\ ~overlap'
                      /\ reader'[q].inode # part'
                      /\ data'[reader'[q].inode] = reader'[q].opened
                      /\ \A b \in 1 .. Len(reader'[q].got) :
                            reader'[q].got[b] = reader'[q].opened[b]
    BY DEF ReadersTrue
  <2>1. CASE q = r
    <3>1. /\ ~overlap /\ was.inode # part /\ data[was.inode] = was.opened
          /\ \A b \in 1 .. Len(was.got) : was.got[b] = was.opened[b]
      BY <1>1, <1>2 DEF ReadersTrue
    <3>2. \A b \in 1 .. Len(more) : more[b] = was.opened[b]
      BY <1>3, <1>4, <3>1
    <3> QED
      BY <1>1, <1>6, <2>1, <3>1, <3>2
  <2>2. CASE q # r
    <3>1. reader'[q] = reader[q] /\ Reading(q)
      BY <1>1, <1>5, <2>2 DEF Reading
    <3> QED
      BY <1>1, <3>1 DEF ReadersTrue
  <2> QED
    BY <2>1, <2>2
<1> QED
  BY <1>7, <1>8, <1>9 DEF FolderInv

(* Steps after which nobody writes or reads who did not before: a pull or  *)
(* a download ends, or the file goes.                                      *)
LEMMA EndInv ==
    ASSUME FolderInv, Reclaim,
           pull' \in [Pulls -> Calls], reader' \in [Readers -> Sendings],
           \A k \in Pulls : Writing(k)' => Writing(k) /\ pull'[k] = pull[k],
           \A r \in Readers : Reading(r)' => reader'[r] = reader[r],
           overlap' \in BOOLEAN, overlap' => overlap,
           ~overlap' => ~overlap \/ ~(\E k \in Pulls : Writing(k)'),
           final' \in {final, part, Absent}, part' \in {part, Absent},
           part' = part => final' \in {final, Absent},
           part' # part /\ ~overlap => ~(\E k \in Pulls : Writing(k)')
    PROVE  FolderInv'
<1>1. /\ TypeOK /\ data \in [Inodes -> Texts] /\ pull \in [Pulls -> Calls]
      /\ reader \in [Readers -> Sendings] /\ part \in Inodes \cup {Absent}
      /\ final \in Inodes \cup {Absent} /\ NamesApart /\ LoneWriter /\ ReadersTrue
  BY Types DEF FolderInv
<1>2. data' \in [Inodes -> Texts] /\ \A i \in Inodes : i \in InUse' => data'[i] = data[i]
  BY <1>1, ReclaimKeeps
<1>3. TypeOK'
  BY <1>1, <1>2, TypesAfter
<1>4. NamesApart'
  BY <1>1, FolderAssumption DEF NamesApart
<1>5. LoneWriter'
  <2> SUFFICES ASSUME ~overlap', NEW i \in Pulls, Writing(i)'
               PROVE  /\ \A j \in Pulls : Writing(j)' => j = i
                      /\ part' = pull'[i].inode
                      /\ data'[part'] = Written(pull'[i].got)
    BY DEF LoneWriter
  <2>1. ~overlap /\ part' = part /\ Writing(i) /\ pull'[i] = pull[i]
    OBVIOUS
  <2>2. pull[i].inode \in Inodes
    BY <1>1, <2>1, CallFacts DEF Writing
  <2>3. /\ \A j \in Pulls : Writing(j) => j = i
        /\ part = pull[i].inode /\ data[part] = Written(pull[i].got)
    BY <1>1, <2>1 DEF LoneWriter
  <2>4. part \in InUse'
    BY <2>1 DEF InUse
  <2>5. data'[part] = data[part]
    BY <1>2, <2>2, <2>3, <2>4
  <2> QED
    BY <2>1, <2>3, <2>5
<1>6. ReadersTrue'
  <2>1. ASSUME NEW r \in Readers, Reading(r)'
        PROVE  data'[reader[r].inode] = data[reader[r].inode]
    <3>1. reader'[r] = reader[r] /\ Reading(r)
      BY <2>1 DEF Reading
    <3>2. reader[r].inode \in Inodes
      BY <1>1, <3>1, SendingFacts DEF Reading
    <3>3. reader[r].inode \in InUse'
      BY <2>1, <3>1 DEF InUse
    <3> QED
      BY <1>2, <3>2, <3>3
  <2> QED
    BY <2>1, ReadersKept
<1> QED
  BY <1>3, <1>4, <1>5, <1>6 DEF FolderInv

(* A pull ends: its hash is wrong, it renames, or it is given up.          *)
LEMMA PullEndsInv ==
    ASSUME FolderInv, NEW k \in Pulls, Mismatch(k) \/ Rename(k) \/ Abandon(k)
    PROVE  FolderInv'
<1>1. /\ pull \in [Pulls -> Calls] /\ reader \in [Readers -> Sendings]
      /\ overlap \in BOOLEAN /\ LoneWriter
  BY Types DEF FolderInv
<1>2. /\ pull' = [pull EXCEPT ![k] = NoPull] /\ reader' = reader /\ Reclaim /\ Settle
  BY DEF Mismatch, Rename, Abandon
<1>3. pull' \in [Pulls -> Calls]
  BY <1>1, <1>2 DEF Calls
<1>4. \A j \in Pulls : Writing(j)' => j # k /\ Writing(j) /\ pull'[j] = pull[j]
  BY <1>1, <1>2 DEF Writing, NoPull
<1>5. /\ overlap' \in BOOLEAN /\ (overlap' => overlap)
      /\ (~overlap' => ~overlap \/ ~(\E j \in Pulls : Writing(j)'))
  BY <1>1, <1>2 DEF Settle
<1>6. /\ final' \in {final, part} /\ part' \in {part, Absent}
      /\ part' = part => final' = final
      /\ part' # part => Writing(k)
  BY DEF Mismatch, Rename, Abandon, Writing
<1>7. part' # part /\ ~overlap => ~(\E j \in Pulls : Writing(j)')
  BY <1>1, <1>4, <1>6 DEF LoneWriter
<1> QED
  BY <1>1, <1>2, <1>3, <1>4, <1>5, <1>6, <1>7, EndInv

(* A download ends.                                                        *)
LEMMA CloseInv ==
    ASSUME FolderInv, NEW r \in Readers, Close(r) PROVE FolderInv'
<1>1. /\ pull \in [Pulls -> Calls] /\ reader \in [Readers -> Sendings]
      /\ overlap \in BOOLEAN
  BY Types DEF FolderInv
<1>2. /\ UNCHANGED <<final, part, pull, overlap>> /\ Reclaim
      /\ reader' = [reader EXCEPT ![r] = NoRead]
  BY DEF Close
<1>3. reader' \in [Readers -> Sendings]
  BY <1>1, <1>2 DEF Sendings
<1>4. \A q \in Readers : Reading(q)' => reader'[q] = reader[q]
  BY <1>1, <1>2 DEF Reading, NoRead
<1>5. \A k \in Pulls : Writing(k)' => Writing(k) /\ pull'[k] = pull[k]
  BY <1>2 DEF Writing
<1> QED
  BY <1>1, <1>2, <1>3, <1>4, <1>5, EndInv

(* The file is deleted.                                                    *)
LEMMA RemoveInv ==
    ASSUME FolderInv, Remove PROVE FolderInv'
<1>1. /\ pull \in [Pulls -> Calls] /\ reader \in [Readers -> Sendings]
      /\ overlap \in BOOLEAN
  BY Types DEF FolderInv
<1>2. /\ UNCHANGED <<part, pull, reader, overlap>> /\ Reclaim /\ final' = Absent
  BY DEF Remove
<1>3. \A k \in Pulls : Writing(k)' => Writing(k) /\ pull'[k] = pull[k]
  BY <1>2 DEF Writing
<1> QED
  BY <1>1, <1>2, <1>3, EndInv

(* The user writes a text: not where a pull writes.                        *)
LEMMA EditInv ==
    ASSUME FolderInv, Edit PROVE FolderInv'
<1>1. /\ TypeOK /\ data \in [Inodes -> Texts] /\ pull \in [Pulls -> Calls]
      /\ reader \in [Readers -> Sendings] /\ part \in Inodes \cup {Absent}
      /\ final \in Inodes /\ NamesApart /\ LoneWriter /\ overlap \in BOOLEAN
      /\ UNCHANGED <<final, part, pull, overlap>>
  BY Types DEF FolderInv, Edit
<1>2. PICK text \in Whole : data' = [data EXCEPT ![final] = text]
  BY DEF Edit
<1>3. text \in Texts /\ final # part
  BY <1>1, FolderAssumption DEF Whole, Texts, NamesApart
<1>4. TypeOK'
  <2>1. data' \in [Inodes -> Texts]
    BY <1>1, <1>2, <1>3
  <2>2. reader' \in [Readers -> Sendings]
    BY <1>1 DEF Edit, Sendings
  <2> QED
    BY <1>1, <2>1, <2>2, TypesAfter
<1>5. NamesApart'
  BY <1>1 DEF NamesApart
<1>6. LoneWriter'
  <2> SUFFICES ASSUME ~overlap', NEW i \in Pulls, Writing(i)'
               PROVE  /\ \A j \in Pulls : Writing(j)' => j = i
                      /\ part' = pull'[i].inode
                      /\ data'[part'] = Written(pull'[i].got)
    BY DEF LoneWriter
  <2>1. ~overlap /\ \A j \in Pulls : Writing(j)' <=> Writing(j)
    BY <1>1 DEF Writing
  <2>2. /\ \A j \in Pulls : Writing(j) => j = i
        /\ part = pull[i].inode /\ data[part] = Written(pull[i].got)
    BY <1>1, <2>1 DEF LoneWriter
  <2>3. data'[part] = data[part]
    BY <1>1, <1>2, <1>3, <2>1, <2>2, CallFacts DEF Writing
  <2> QED
    BY <1>1, <2>1, <2>2, <2>3
<1>7. ReadersTrue'
  <2>1. ASSUME NEW r \in Readers, Reading(r)'
        PROVE  /\ reader'[r] = reader[r]
               /\ data'[reader[r].inode] = data[reader[r].inode]
    <3>1. reader'[r] = reader[r] /\ Reading(r) /\ reader[r].inode # final
      BY <2>1 DEF Edit, Reading, Spoilt
    <3>2. reader[r].inode \in Inodes
      BY <1>1, <3>1, SendingFacts DEF Reading
    <3> QED
      BY <1>1, <1>2, <3>1, <3>2
  <2> QED
    BY <1>1, <2>1, ReadersKept
<1> QED
  BY <1>4, <1>5, <1>6, <1>7 DEF FolderInv

(* The next block of a body is hashed and written.                         *)
LEMMA CopyInv ==
    ASSUME FolderInv, NEW k \in Pulls, Copy(k) PROVE FolderInv'
<1>1. /\ TypeOK /\ data \in [Inodes -> Texts] /\ pull \in [Pulls -> Calls]
      /\ reader \in [Readers -> Sendings] /\ part \in Inodes \cup {Absent}
      /\ final \in Inodes \cup {Absent} /\ overlap \in BOOLEAN
      /\ NamesApart /\ LoneWriter /\ ReadersTrue
      /\ UNCHANGED <<final, part, reader, overlap>>
  BY Types DEF FolderInv, Copy
<1>2. PICK c \in Letters :
         /\ pull' = [pull EXCEPT ![k].got = Append(@, c)]
         /\ data' = [data EXCEPT ![pull[k].inode][Len(pull[k].got) + 1] = c]
  BY DEF Copy
<1> DEFINE call == pull[k]
           next == Len(call.got) + 1
           more == Append(call.got, c)
<1>3. /\ call \in [step : {"copying", "verified"}, want : Wanted,
                   inode : Inodes, got : Streams]
      /\ call.inode \in Inodes /\ call.got \in Streams /\ Len(call.got) < Length
      /\ Writing(k)
  BY <1>1, CallFacts DEF Copy, Writing
<1>4. next \in Blocks
  BY <1>3, StreamFacts, FolderAssumption DEF Blocks
<1>5. /\ more \in Streams
      /\ [Written(call.got) EXCEPT ![next] = c] = Written(more)
  BY <1>3, StreamFacts, WrittenFacts
<1> HIDE DEF more
<1>6. /\ pull' = [pull EXCEPT ![k] = [call EXCEPT !.got = more]]
      /\ [call EXCEPT !.got = more] \in Calls
      /\ [call EXCEPT !.got = more].got = more
      /\ [call EXCEPT !.got = more].inode = call.inode
  BY <1>1, <1>2, <1>3, <1>5 DEF Calls, more
<1>7. /\ data' \in [Inodes -> Texts]
      /\ data'[call.inode] = [data[call.inode] EXCEPT ![next] = c]
      /\ \A i \in Inodes \ {call.inode} : data'[i] = data[i]
  BY <1>1, <1>2, <1>3, <1>4 DEF Texts
<1>8. TypeOK'
  <2>1. pull' \in [Pulls -> Calls]
    BY <1>1, <1>6
  <2> QED
    BY <1>1, <1>7, <2>1, TypesAfter
<1>9. NamesApart'
  BY <1>1 DEF NamesApart
<1>10. LoneWriter'
  <2> SUFFICES ASSUME ~overlap', NEW i \in Pulls, Writing(i)'
               PROVE  /\ \A j \in Pulls : Writing(j)' => j = i
                      /\ part' = pull'[i].inode
                      /\ data'[part'] = Written(pull'[i].got)
    BY DEF LoneWriter
  <2>1. \A j \in Pulls : Writing(j)' => Writing(j)
    BY <1>1, <1>3, <1>6 DEF Writing
  <2>2. /\ \A j \in Pulls : Writing(j) => j = k
        /\ part = call.inode /\ data[part] = Written(call.got)
    BY <1>1, <1>3 DEF LoneWriter
  <2>3. i = k /\ pull'[k].inode = call.inode /\ pull'[k].got = more
    BY <1>1, <1>6, <2>1, <2>2
  <2> QED
    BY <1>1, <1>5, <1>7, <2>1, <2>2, <2>3
<1>11. ReadersTrue'
  <2>1. ASSUME NEW r \in Readers, Reading(r)'
        PROVE  data'[reader[r].inode] = data[reader[r].inode]
    <3>1. Reading(r) /\ ~overlap /\ reader[r].inode # part
      BY <1>1, <2>1 DEF ReadersTrue, Reading
    <3>2. reader[r].inode \in Inodes /\ part = call.inode
      BY <1>1, <1>3, <3>1, SendingFacts DEF Reading, LoneWriter
    <3> QED
      BY <1>7, <3>1, <3>2
  <2> QED
    BY <1>1, <2>1, ReadersKept
<1> QED
  BY <1>8, <1>9, <1>10, <1>11 DEF FolderInv

(* A body ends with the hash it was announced with.                        *)
LEMMA VerifyInv ==
    ASSUME FolderInv, NEW k \in Pulls, Verify(k) PROVE FolderInv'
<1>1. /\ TypeOK /\ data \in [Inodes -> Texts] /\ pull \in [Pulls -> Calls]
      /\ reader \in [Readers -> Sendings] /\ part \in Inodes \cup {Absent}
      /\ final \in Inodes \cup {Absent} /\ overlap \in BOOLEAN
      /\ NamesApart /\ LoneWriter /\ ReadersTrue
      /\ UNCHANGED <<final, part, data, reader, overlap>>
  BY Types DEF FolderInv, Verify
<1> DEFINE call == pull[k]
<1>2. /\ call \in [step : {"copying", "verified"}, want : Wanted,
                   inode : Inodes, got : Streams]
      /\ Writing(k)
  BY <1>1, CallFacts DEF Verify, Writing
<1>3. pull' = [pull EXCEPT ![k] = [call EXCEPT !.step = "verified"]]
  BY <1>1 DEF Verify
<1>4. [call EXCEPT !.step = "verified"] \in Calls
  BY <1>2 DEF Calls
<1>5. TypeOK'
  <2>1. pull' \in [Pulls -> Calls]
    BY <1>1, <1>3, <1>4
  <2> QED
    BY <1>1, <2>1, TypesAfter
<1>6. \A j \in Pulls : /\ Writing(j)' => Writing(j)
                       /\ Writing(j) => pull'[j].inode = pull[j].inode /\ pull'[j].got = pull[j].got
  BY <1>1, <1>2, <1>3 DEF Writing
<1>7. LoneWriter' /\ NamesApart'
  BY <1>1, <1>6 DEF LoneWriter, NamesApart
<1>8. ReadersTrue'
  BY <1>1, ReadersKept DEF Reading
<1> QED
  BY <1>5, <1>7, <1>8 DEF FolderInv

(* Every step keeps the invariant.                                         *)
LEMMA NextInv == FolderInv /\ [Next]_vars => FolderInv'
<1> SUFFICES ASSUME FolderInv, [Next]_vars PROVE FolderInv'
  OBVIOUS
<1>1. CASE UNCHANGED vars
  <2>1. UNCHANGED <<final, part, data, pull, reader, overlap>>
    BY <1>1 DEF vars
  <2>2. TypeOK'
    BY <2>1 DEF FolderInv, TypeOK
  <2>3. NamesApart' /\ LoneWriter'
    BY <2>1 DEF FolderInv, NamesApart, LoneWriter, Writing
  <2>4. ReadersTrue'
    BY <2>1 DEF FolderInv, ReadersTrue, Reading
  <2> QED
    BY <2>2, <2>3, <2>4 DEF FolderInv
<1>2. ASSUME NEW k \in Pulls,
             Answered(k) \/ Create(k) \/ Copy(k) \/ Verify(k)
               \/ Mismatch(k) \/ Rename(k) \/ Abandon(k)
      PROVE  FolderInv'
  BY <1>2, AnsweredInv, CreateInv, CopyInv, VerifyInv, PullEndsInv
<1>3. ASSUME NEW r \in Readers, Open(r) \/ Read(r) \/ Close(r)
      PROVE  FolderInv'
  BY <1>3, OpenInv, ReadInv, CloseInv
<1>4. CASE Edit \/ Remove
  BY <1>4, EditInv, RemoveInv
<1> QED
  BY <1>1, <1>2, <1>3, <1>4 DEF Next

LEMMA InvAlways == Spec => []FolderInv
<1> QED
  BY InitInv, NextInv, PTL DEF Spec

(* What this property says of a step.                                      *)
InstallsStep ==
    ~overlap =>
        /\ \A k \in Pulls : Rename(k) => Visible' = Written(pull[k].got)
        /\ (\A k \in Pulls : ~Rename(k)) => Visible' \in Whole \cup {Empty, Visible}

(* A pull that renames is the lone writer: what it puts under the file's   *)
(* name is the text of the .part file, which is what it was sent.          *)
LEMMA RenameInstalls ==
    ASSUME FolderInv, ~overlap, NEW k \in Pulls, Rename(k)
    PROVE  Visible' = Written(pull[k].got)
<1>1. /\ TypeOK /\ pull \in [Pulls -> Calls] /\ LoneWriter /\ Writing(k)
      /\ final' = (IF part = Absent THEN final ELSE part) /\ Reclaim
  BY Types DEF FolderInv, Rename, Writing
<1>2. pull[k].inode \in Inodes
  BY <1>1, CallFacts DEF Writing
<1>3. part = pull[k].inode /\ data[part] = Written(pull[k].got)
  BY <1>1 DEF LoneWriter
<1>4. final' = part /\ part \in Inodes /\ part # Absent
  BY <1>1, <1>2, <1>3, FolderAssumption
<1>5. data'[part] = data[part]
  BY <1>1, <1>4, ReclaimKeeps DEF InUse
<1> QED
  BY <1>3, <1>4, <1>5 DEF Visible

(* The inode behind a name that stays is not reclaimed.                    *)
LEMMA NameKept ==
    ASSUME FolderInv, Reclaim, final' = final PROVE Visible' = Visible
<1>1. TypeOK /\ final \in Inodes \cup {Absent}
  BY Types DEF FolderInv
<1>2. CASE final = Absent
  BY <1>2 DEF Visible
<1>3. CASE final # Absent
  <2>1. final \in Inodes /\ final \in InUse'
    BY <1>1, <1>3 DEF InUse
  <2>2. data'[final] = data[final]
    BY <1>1, <2>1, ReclaimKeeps
  <2> QED
    BY <1>3, <2>2 DEF Visible
<1> QED
  BY <1>2, <1>3

(* Every other step leaves what is seen, or makes it a text of the user's  *)
(* or nothing.                                                             *)
LEMMA OthersKeep ==
    ASSUME FolderInv, ~overlap, [Next]_vars, \A k \in Pulls : ~Rename(k)
    PROVE  Visible' \in Whole \cup {Empty, Visible}
<1>1. /\ TypeOK /\ data \in [Inodes -> Texts] /\ pull \in [Pulls -> Calls]
      /\ part \in Inodes \cup {Absent} /\ final \in Inodes \cup {Absent}
      /\ NamesApart /\ LoneWriter
  BY Types DEF FolderInv
<1>2. CASE UNCHANGED <<final, data>>
  BY <1>2 DEF Visible
<1>3. ASSUME NEW k \in Pulls, Create(k)
      PROVE  Visible' = Visible
  <2>1. pull[k].step = "answered" /\ ~Writing(k)
    BY <1>3 DEF Create, Writing
  <2>2. part' \in Inodes /\ (final # Absent => part' # final)
    BY <1>1, <1>3, <2>1, FreshIsFree DEF Create, InUse, NamesApart
  <2>3. final' = final /\ (final # Absent => data'[final] = data[final])
    BY <1>1, <1>3, <2>2 DEF Create
  <2> QED
    BY <2>3 DEF Visible
<1>4. ASSUME NEW k \in Pulls, Copy(k)
      PROVE  Visible' = Visible
  <2>1. Writing(k) /\ final' = final
    BY <1>4 DEF Copy, Writing
  <2>2. pull[k].inode = part /\ pull[k].inode \in Inodes
    BY <1>1, <2>1, CallFacts DEF LoneWriter, Writing
  <2>3. final # Absent => data'[final] = data[final]
    <3>1. PICK c \in Letters :
             data' = [data EXCEPT ![part][Len(pull[k].got) + 1] = c]
      BY <1>4, <2>2 DEF Copy
    <3> QED
      BY <1>1, <2>2, <3>1 DEF NamesApart
  <2> QED
    BY <2>1, <2>3 DEF Visible
<1>5. ASSUME NEW k \in Pulls, Mismatch(k) \/ Abandon(k)
      PROVE  Visible' = Visible
  <2>1. final' = final /\ Reclaim
    BY <1>5 DEF Mismatch, Abandon
  <2> QED
    BY <2>1, NameKept
<1>6. ASSUME NEW r \in Readers, Close(r)
      PROVE  Visible' = Visible
  <2>1. final' = final /\ Reclaim
    BY <1>6 DEF Close
  <2> QED
    BY <2>1, NameKept
<1>7. CASE Edit
  <2>1. final' = final /\ final \in Inodes /\ final # Absent
    BY <1>1, <1>7 DEF Edit
  <2>2. PICK text \in Whole : data' = [data EXCEPT ![final] = text]
    BY <1>7 DEF Edit
  <2>3. data'[final] = text
    BY <1>1, <2>1, <2>2
  <2> QED
    BY <2>1, <2>2, <2>3 DEF Visible
<1>8. CASE Remove
  BY <1>8 DEF Remove, Visible
<1>9. ASSUME NEW k \in Pulls, Answered(k) \/ Verify(k)
      PROVE  UNCHANGED <<final, data>>
  BY <1>9 DEF Answered, Verify
<1>10. ASSUME NEW r \in Readers, Open(r) \/ Read(r)
       PROVE  UNCHANGED <<final, data>>
  BY <1>10 DEF Open, Read
<1>11. CASE UNCHANGED vars
  BY <1>2, <1>11 DEF vars
<1> QED
  BY <1>2, <1>3, <1>4, <1>5, <1>6, <1>7, <1>8, <1>9, <1>10, <1>11 DEF Next

-----------------------------------------------------------------------------
(* The theorems.                                                           *)

(* The names, inodes, pulls and downloads of a directory always are of     *)
(* their types (client.go:307-423).                                        *)
THEOREM FolderTypeCorrect == Spec => []TypeOK
<1>1. FolderInv => TypeOK
  BY DEF FolderInv
<1> QED
  BY <1>1, InvAlways, PTL

(* A pull that writes alone installs what it hashed, whatever was left in  *)
(* the .part file, and nothing else but a text of the user's is seen under *)
(* the file's name (client.go:399-421).                                    *)
THEOREM PullsInstallWhatTheyHashed == Spec => InstallsWhatItHashed
<1>1. FolderInv /\ [Next]_vars => [InstallsStep]_vars
  BY RenameInstalls, OthersKeep DEF InstallsStep
<1>2. Spec => [][InstallsStep]_vars
  BY <1>1, InvAlways, PTL DEF Spec
<1> QED
  BY <1>2 DEF InstallsWhatItHashed, InstallsStep

(* A download that was sent to its end, and into whose file nobody wrote,  *)
(* is the text the file had when it was opened, whatever happened to the   *)
(* name (client.go:317-335).                                               *)
THEOREM DownloadsAreOneText == Spec => []DownloadIsOneText
<1>1. FolderInv => DownloadIsOneText
  <2> SUFFICES ASSUME FolderInv, NEW r \in Readers, Reading(r),
                      Len(reader[r].got) = Length
               PROVE  reader[r].got = reader[r].opened
    BY DEF DownloadIsOneText
  <2>1. reader[r].got \in Streams /\ reader[r].opened \in Texts
    BY Types, SendingFacts DEF FolderInv, Reading
  <2>2. PICK n \in 0 .. Length : reader[r].got \in [1 .. n -> Letters \cup {Hole}]
    BY <2>1 DEF Streams
  <2>3. DOMAIN reader[r].got = Blocks
    BY <2>1, StreamFacts DEF Blocks
  <2>4. \A b \in Blocks : reader[r].got[b] = reader[r].opened[b]
    BY DEF FolderInv, ReadersTrue, Blocks
  <2> QED
    BY <2>1, <2>2, <2>3, <2>4 DEF Texts
<1> QED
  BY <1>1, InvAlways, PTL
=============================================================================
