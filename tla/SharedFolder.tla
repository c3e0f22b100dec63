---------------------------- MODULE SharedFolder ----------------------------
(***************************************************************************)
(* One file of one peer's shared directory, at the grain of single reads   *)
(* and writes: pullFile and handleGetFile of client/client.go, with the    *)
(* user's editor and deletes.  A task goroutine of the serving process and *)
(* a get of a second process run pullFile at the same time on the same     *)
(* two names, the file's own and the one with ".part" appended.            *)
(*                                                                         *)
(* A name stands for an inode, and who has a file open keeps the inode     *)
(* whatever becomes of the name.  A text is a few blocks; Hole is a block  *)
(* that is not there, or was skipped by a write past the end.  The hash of *)
(* a text is the text.                                                     *)
(***************************************************************************)
EXTENDS Naturals, Sequences, FiniteSets

CONSTANTS
    Pulls,      \* slots for running pullFile calls
    Readers,    \* slots for running downloads from this peer
    Inodes,
    Letters,    \* what a block may hold
    Length,     \* bound: blocks in the longest text
    Hole, Absent, NoHash

(* There are inodes for the pulls, the downloads and the file's name, but  *)
(* for that of the pull that asks for a new one: one is always free.       *)
ASSUME FolderAssumption ==
    /\ Length \in Nat \ {0}
    /\ Hole \notin Letters
    /\ Absent \notin Inodes
    /\ IsFiniteSet(Pulls) /\ IsFiniteSet(Readers) /\ IsFiniteSet(Inodes)
    /\ Cardinality(Inodes) > Cardinality(Pulls) + Cardinality(Readers)

VARIABLES
    final,      \* the inode behind the file's name
    part,       \* the inode behind the name with ".part"
    data,       \* the text of each inode
    pull,       \* the pullFile calls
    reader,     \* the downloads
    overlap     \* two pulls have been writing at the same time since the
                \* last instant at which none was

vars == <<final, part, data, pull, reader, overlap>>

Blocks  == 1 .. Length
Texts   == [Blocks -> Letters \cup {Hole}]
Streams == UNION {[1 .. n -> Letters \cup {Hole}] : n \in 0 .. Length}
Empty   == [b \in Blocks |-> Hole]

(* The text of a file into which s was written from the start.             *)
Written(s) == [b \in Blocks |-> IF b \in DOMAIN s THEN s[b] ELSE Hole]

(* What a source may have hashed: texts that somebody saved as a whole.    *)
Whole == {[b \in Blocks |-> c] : c \in Letters}

NoPull == [step |-> "none"]
NoRead == [step |-> "none"]

(* A download into which somebody wrote: what it gets is not followed.     *)
Spoilt == [step |-> "spoilt"]

Reading(r) == reader[r].step = "reading"

Writing(k) == pull[k].step \in {"copying", "verified"}

(* In use: named by the directory or held open.  Others are reclaimed.     *)
InUse ==
    {final, part} \cup {pull[k].inode : k \in {j \in Pulls : Writing(j)}}
                  \cup {reader[r].inode : r \in {q \in Readers : Reading(q)}}

Fresh == CHOOSE i \in Inodes : i \notin InUse

Reclaim == data' = [i \in Inodes |-> IF i \in InUse' THEN data[i] ELSE Empty]

(* When the last pull has ended, no write is left that could mix texts.    *)
Settle == overlap' = (overlap /\ \E k \in Pulls : Writing(k)')

TypeOK ==
    /\ final \in Inodes \cup {Absent}
    /\ part \in Inodes \cup {Absent}
    /\ data \in [Inodes -> Texts]
    /\ pull \in [Pulls ->
          {NoPull}
            \cup [step : {"answered"}, want : Whole \cup {NoHash}]
            \cup [step : {"copying", "verified"}, want : Whole \cup {NoHash},
                  inode : Inodes, got : Streams]]
    /\ reader \in [Readers ->
          {NoRead, Spoilt}
            \cup [step : {"reading"}, inode : Inodes, got : Streams, opened : Texts]]
    /\ overlap \in BOOLEAN

Init ==
    /\ part = Absent
    /\ data = [i \in Inodes |-> Empty]
    /\ final = Absent
    /\ pull = [k \in Pulls |-> NoPull]
    /\ reader = [r \in Readers |-> NoRead]
    /\ overlap = FALSE

-----------------------------------------------------------------------------
(* pullFile.                                                               *)

(* The source answered 200, its body is still to come.                     *)
Answered(k) ==
    /\ pull[k] = NoPull
    /\ \E want \in Whole \cup {NoHash} :
          pull' = [pull EXCEPT ![k] = [step |-> "answered", want |-> want]]
    /\ UNCHANGED <<final, part, data, reader, overlap>>

(* Slips: a .part file that is there is not emptied; no .part file is used *)
(* and the body goes straight to the file's name.                          *)
CreateKeepsBlocks(k) ==
    /\ pull[k].step = "answered"
    /\ part' = IF part = Absent THEN Fresh ELSE part
    /\ pull' = [pull EXCEPT ![k] = [step |-> "copying", want |-> pull[k].want,
                                    inode |-> part', got |-> <<>>]]
    /\ overlap' = \E j \in Pulls \ {k} : Writing(j)
    /\ UNCHANGED <<final, data, reader>>

CreateInPlace(k) ==
    /\ pull[k].step = "answered"
    /\ final' = IF final = Absent THEN Fresh ELSE final
    /\ data' = [data EXCEPT ![final'] = Empty]
    /\ pull' = [pull EXCEPT ![k] = [step |-> "copying", want |-> pull[k].want,
                                    inode |-> final', got |-> <<>>]]
    /\ overlap' = \E j \in Pulls \ {k} : Writing(j)
    /\ UNCHANGED <<part, reader>>

(* os.Create: a .part file that is there is emptied, not replaced.         *)
Create(k) ==
    /\ pull[k].step = "answered"
    /\ part' = IF part = Absent THEN Fresh ELSE part
    /\ data' = [data EXCEPT ![part'] = Empty]
    /\ pull' = [pull EXCEPT ![k] = [step |-> "copying", want |-> pull[k].want,
                                    inode |-> part', got |-> <<>>]]
    /\ overlap' = \E j \in Pulls \ {k} : Writing(j)
    /\ reader' = [r \in Readers |->
                    IF overlap' /\ Reading(r) THEN Spoilt ELSE reader[r]]
    /\ UNCHANGED final

(* Slip: the body is not held to its length.                               *)
CopyUnbounded(k) ==
    /\ pull[k].step = "copying"
    /\ \E c \in Letters : pull' = [pull EXCEPT ![k].got = Append(@, c)]
    /\ UNCHANGED <<final, part, data, reader, overlap>>

(* io.Copy: the next block of the body goes to the hasher and to the file. *)
Copy(k) ==
    /\ pull[k].step = "copying" /\ Len(pull[k].got) < Length
    /\ \E c \in Letters :
          /\ pull' = [pull EXCEPT ![k].got = Append(@, c)]
          /\ data' = [data EXCEPT ![pull[k].inode][Len(pull[k].got) + 1] = c]
    /\ UNCHANGED <<final, part, reader, overlap>>

Matches(k) == pull[k].want \in {NoHash, Written(pull[k].got)}

(* The end of the body: the hash is right.                                 *)
Verify(k) ==
    /\ pull[k].step = "copying" /\ Matches(k)
    /\ pull' = [pull EXCEPT ![k].step = "verified"]
    /\ UNCHANGED <<final, part, data, reader, overlap>>

(* Or wrong: os.Remove takes the .part name, whoever made its file.        *)
Mismatch(k) ==
    /\ pull[k].step = "copying" /\ ~Matches(k)
    /\ pull' = [pull EXCEPT ![k] = NoPull]
    /\ part' = Absent
    /\ UNCHANGED <<final, reader>>
    /\ Reclaim /\ Settle

(* os.Rename, of whatever has the .part name by now, if anything has.      *)
Rename(k) ==
    /\ pull[k].step = "verified"
    /\ final' = IF part = Absent THEN final ELSE part
    /\ part' = Absent
    /\ pull' = [pull EXCEPT ![k] = NoPull]
    /\ UNCHANGED reader
    /\ Reclaim /\ Settle

(* An error, the 10 s timeout or the end of the process; .part stays.      *)
Abandon(k) ==
    /\ pull[k] # NoPull
    /\ pull' = [pull EXCEPT ![k] = NoPull]
    /\ UNCHANGED <<final, part, reader>>
    /\ Reclaim /\ Settle

-----------------------------------------------------------------------------
(* handleGetFile, and the user.                                            *)

Open(r) ==
    /\ reader[r] = NoRead
    /\ final # Absent
    /\ reader' = [reader EXCEPT ![r] =
                    IF overlap THEN Spoilt
                    ELSE [step |-> "reading", inode |-> final,
                          got |-> <<>>, opened |-> data[final]]]
    /\ UNCHANGED <<final, part, data, pull, overlap>>

Read(r) ==
    /\ Reading(r) /\ Len(reader[r].got) < Length
    /\ reader' = [reader EXCEPT ![r].got =
                    Append(@, data[reader[r].inode][Len(@) + 1])]
    /\ UNCHANGED <<final, part, data, pull, overlap>>

(* The whole text has been sent, or the downloader has gone.               *)
Close(r) ==
    /\ reader[r] # NoRead
    /\ reader' = [reader EXCEPT ![r] = NoRead]
    /\ UNCHANGED <<final, part, pull, overlap>>
    /\ Reclaim

(* The user's programs write a file in place; one that puts a new file in  *)
(* its place does what Rename does.                                        *)
Edit ==
    /\ final # Absent
    /\ \E text \in Whole : data' = [data EXCEPT ![final] = text]
    /\ reader' = [r \in Readers |->
                    IF Reading(r) /\ reader[r].inode = final THEN Spoilt
                                                           ELSE reader[r]]
    /\ UNCHANGED <<final, part, pull, overlap>>

(* The user, or the delete command. *)
Remove ==
    /\ final # Absent
    /\ final' = Absent
    /\ UNCHANGED <<part, pull, reader, overlap>>
    /\ Reclaim

Next ==
    \/ \E k \in Pulls : \/ Answered(k) \/ Create(k) \/ Copy(k)
                        \/ Verify(k) \/ Mismatch(k) \/ Rename(k) \/ Abandon(k)
    \/ \E r \in Readers : Open(r) \/ Read(r) \/ Close(r)
    \/ Edit \/ Remove

Spec == Init /\ [][Next]_vars

-----------------------------------------------------------------------------
Visible == IF final = Absent THEN Empty ELSE data[final]

(* A pull that comes to its end puts exactly what it hashed under the      *)
(* file's name, whatever broken pulls and killed processes left behind in  *)
(* the .part file; and nothing else but a whole text of the user's is ever *)
(* seen there.  Two pulls that write at the same time can break both, each *)
(* having verified its own text (client.go:399-421).                       *)
InstallsWhatItHashed ==
    [][~overlap =>
          /\ \A k \in Pulls : Rename(k) => Visible' = Written(pull[k].got)
          /\ (\A k \in Pulls : ~Rename(k)) => Visible' \in Whole \cup {Empty, Visible}]_vars

(* A download that was sent to its end is the text that the file had when  *)
(* it was opened, even if a pull has installed another one meanwhile or    *)
(* the file is gone, unless the user wrote into it or two pulls wrote at   *)
(* the same time (client.go:317-335).                                      *)
DownloadIsOneText ==
    \A r \in Readers :
        Reading(r) /\ Len(reader[r].got) = Length
            => reader[r].got = reader[r].opened
=============================================================================
