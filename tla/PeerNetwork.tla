---------------------------- MODULE PeerNetwork -----------------------------
(***************************************************************************)
(* The primary and its peers: the background loop, the replication pulls   *)
(* and the get, update and delete commands of client/client.go, over the   *)
(* peers' shared directories.                                              *)
(*                                                                         *)
(* One Tick is one heartbeat interval.  A call to the primary is one step  *)
(* with the handler's; between its calls a peer can be overtaken by        *)
(* anybody, itself included.  A pull is one step: SharedFolder.tla is      *)
(* about its inside.                                                       *)
(***************************************************************************)
EXTENDS PrimaryServer

CONSTANTS
    Seeds,          \* peers that have every file when the network starts
    Limit,          \* bound: how often the users give each command
    Faults,         \* the faults that can happen, each of them once
    MaxTrouble      \* bound: commands and faults in all

(* Contents are numbered as they come into being, after NoHash.            *)
NoFile   == -1
Original == 1

(* Hosts and queued adds stay within the factor for this many peers, and   *)
(* no planning pass panics: LocksUpOnlyInACrowd.                           *)
ASSUME NetworkAssumption ==
    /\ IsFiniteSet(Peers) /\ Cardinality(Peers) <= ReplicationFactor + 1
    /\ NoFile \notin Files
    /\ Seeds \subseteq Peers
    /\ Limit \in [{"get", "update", "delete"} -> Nat]
    /\ NoHash = 0 /\ Hashes = 0 .. Limit["update"] + 1
    /\ Faults \subseteq {"peer", "primary", "heartbeat", "register", "write", "pull"}
    /\ RegisterVersions = {0} /\ 0 \in Stamps

VARIABLES
    disk,       \* the content of each file in each peer's directory
    loop,       \* where each peer's background loop is
    jobs,       \* goroutines of processTasks, and the gets
    command,    \* the update or delete that runs at each peer
    given,      \* how often each command was given
    stamps,     \* versions that updates have taken from their clocks
    faults,     \* the faults so far
    suspect     \* history: <<peer, file>> where operations overlapped, or
                \* one ended between the file and the primary

pvars == <<disk, loop, jobs, command, given, stamps, faults, suspect>>
nvars == <<vars, pvars>>

Down    == [at |-> "down"]       \* not running
Due     == [at |-> "due"]        \* about to send a heartbeat
Waiting == [at |-> "waiting"]    \* for the next one

(* About to scan its directory, and then to register what it found; retry  *)
(* is whether a registration that fails is tried a second time.            *)
Joining(retry)      == [at |-> "joining", retry |-> retry]
Scanned(cat, retry) == [at |-> "scanned", cat |-> cat, retry |-> retry]

Idle == [op |-> "none", file |-> NoFile]

Up(p) == loop[p] # Down

Job(t) == [task |-> t, pulled |-> FALSE]

(* What goes on at p about f.                                              *)
Activities(p, f) ==
    {j \in jobs : j.task.to = p /\ j.task.file = f}
        \cup {c \in {command[p]} : c.file = f}
        \cup {l \in {loop[p]} : l.at = "scanned" /\ f \in DOMAIN l.cat}

(* p's directory has changed and the primary has not been told.            *)
Unsettled(p, f) ==
    \/ \E j \in jobs : j.pulled /\ j.task.to = p /\ j.task.file = f
    \/ command[p].file = f /\ command[p].op \in {"saved", "stamped", "erased"}

Overlaps == {pf \in Peers \X Files : \E a, b \in Activities(pf[1], pf[2]) : a # b}

Mark(pfs) == suspect' = suspect \cup pfs \cup Overlaps'

Trouble ==
    given["get"] + given["update"] + given["delete"] + Cardinality(faults)

Fault(kind) ==
    /\ kind \in Faults \ faults /\ Trouble < MaxTrouble
    /\ faults' = faults \cup {kind}

NetInit ==
    /\ Init
    /\ disk = [p \in Peers |-> [f \in Files |-> IF p \in Seeds THEN Original ELSE NoFile]]
    /\ loop = [p \in Peers |-> Joining(FALSE)]
    /\ jobs = {}
    /\ command = [p \in Peers |-> Idle]
    /\ given = [op \in DOMAIN Limit |-> 0]
    /\ stamps = {}
    /\ faults = {}
    /\ suspect = {}

-----------------------------------------------------------------------------
(* The background loop.                                                    *)

(* scanFiles: the Go client knows contents but no versions.                *)
Scan(p) ==
    /\ loop[p].at = "joining"
    /\ LET here == {f \in Files : disk[p][f] # NoFile}
       IN  loop' = [loop EXCEPT ![p] =
                      Scanned([f \in here |-> [version |-> 0, hash |-> disk[p][f]]],
                              @.retry)]
    /\ UNCHANGED <<vars, disk, jobs, command, given, stamps, faults>>
    /\ Mark({})

(* The reply has no tasks for files that p is listed as a host of.         *)
PostRegister(p) ==
    /\ loop[p].at = "scanned"
    /\ Register(p, loop[p].cat)
    /\ \E plan \in Plans(index') :
          /\ queue' = {t \in plan.queue : t.to # p}
          /\ jobs' = jobs \cup {Job(t) : t \in {u \in plan.queue :
                                    u.to = p /\ index'.held[p][u.file] = NoCopy}}
    /\ loop' = [loop EXCEPT ![p] = Waiting]
    /\ UNCHANGED <<disk, command, given, stamps, faults>>
    /\ Mark({})

(* The request is lost, or the reply with all that it carried.  After a    *)
(* heartbeat that asked for it the loop registers once more (133-148).     *)
RegisterLost(p) ==
    /\ loop[p].at = "scanned"
    /\ Fault("register")
    /\ Register(p, loop[p].cat) \/ UNCHANGED vars
    /\ loop' = [loop EXCEPT ![p] = IF @.retry THEN Joining(FALSE) ELSE Waiting]
    /\ UNCHANGED <<disk, jobs, command, given, stamps>>
    /\ Mark({})

(* processTasks starts a goroutine for each task of the reply.             *)
Beat(p) ==
    /\ loop[p] = Due
    /\ Heartbeat(p)
    /\ IF p \in Listed(index)
         THEN /\ jobs' = jobs \cup {Job(t) : t \in {u \in queue : u.to = p}}
              /\ loop' = [loop EXCEPT ![p] = Waiting]
         ELSE /\ loop' = [loop EXCEPT ![p] = Joining(TRUE)]
              /\ UNCHANGED jobs
    /\ UNCHANGED <<disk, command, given, stamps, faults>>
    /\ Mark({})

(* Slip: a failed heartbeat is left at that.                               *)
BeatLostIgnored(p) ==
    /\ loop[p] = Due
    /\ Fault("heartbeat")
    /\ Heartbeat(p) \/ UNCHANGED vars
    /\ loop' = [loop EXCEPT ![p] = Waiting]
    /\ UNCHANGED <<disk, jobs, command, given, stamps>>
    /\ Mark({})

(* A failed heartbeat is followed by a registration.                       *)
BeatLost(p) ==
    /\ loop[p] = Due
    /\ Fault("heartbeat")
    /\ Heartbeat(p) \/ UNCHANGED vars
    /\ loop' = [loop EXCEPT ![p] = Joining(FALSE)]
    /\ UNCHANGED <<disk, jobs, command, given, stamps>>
    /\ Mark({})

-----------------------------------------------------------------------------
(* Pulls.                                                                  *)

(* Slip: the hash of what was pulled is not compared with the task's.      *)
OffersUnverified(t) == Up(t.src) /\ disk[t.src][t.file] # NoFile

Offers(t) ==
    /\ Up(t.src)
    /\ disk[t.src][t.file] # NoFile
    /\ t.info.hash \in {NoHash, disk[t.src][t.file]}

(* pullFile; a job whose pull fails is over.                               *)
Pull(j) ==
    /\ ~j.pulled
    /\ IF Offers(j.task)
         THEN /\ disk' = [disk EXCEPT ![j.task.to][j.task.file] =
                                 disk[j.task.src][j.task.file]]
              /\ jobs' = (jobs \ {j}) \cup {[j EXCEPT !.pulled = TRUE]}
         ELSE /\ jobs' = jobs \ {j}
              /\ UNCHANGED disk
    /\ UNCHANGED <<vars, loop, command, given, stamps, faults>>
    /\ Mark({})

(* pullFile returns an error although the source offers the text: it takes *)
(* more than 10 s, the connection breaks, or the file cannot be created or *)
(* renamed.  The goroutine ends, and its task is nowhere any more.         *)
PullFails(j) ==
    /\ ~j.pulled /\ Offers(j.task)
    /\ Fault("pull")
    /\ jobs' = jobs \ {j}
    /\ UNCHANGED <<vars, disk, loop, command, given, stamps>>
    /\ Mark({})

(* The announce of what was pulled, by the task's info; 403 ends the job.  *)
AnnouncePull(j) ==
    /\ j.pulled
    /\ jobs' = jobs \ {j}
    /\ UNCHANGED <<disk, loop, command, given, stamps, faults>>
    /\ LET t == j.task
       IN  \/ Announce(t.to, t.file, t.info, 0) /\ Mark({})
           \/ /\ ~AnnounceAllowed(t.to, t.file, t.info)
              /\ UNCHANGED vars
              /\ Mark({<<t.to, t.file>>})

-----------------------------------------------------------------------------
(* Commands.  The user gives a peer one at a time.                         *)

Give(p, op) ==
    /\ Up(p) /\ command[p] = Idle
    /\ given[op] < Limit[op] /\ Trouble < MaxTrouble
    /\ given' = [given EXCEPT ![op] = @ + 1]

FirstHost(f) ==
    CHOOSE p \in index.files[f].hosts : \A r \in index.files[f].hosts : p <= r

(* Get pulls from the first host that /peers lists, whatever it holds.     *)
Get(p, f) ==
    /\ Give(p, "get")
    /\ f \in HostedFiles(index)
    /\ jobs' = jobs \cup {Job([to |-> p, file |-> f, info |-> index.files[f].info,
                               src |-> FirstHost(f)])}
    /\ UNCHANGED <<vars, disk, loop, command, stamps, faults>>
    /\ Mark({})

(* UpdateFile up to the editor; a file that is not here ends it.           *)
StartUpdate(p, f) ==
    /\ Give(p, "update")
    /\ RequestLease(p, f)
    /\ command' = [command EXCEPT ![p] = IF disk[p][f] = NoFile THEN Idle
                    ELSE [op |-> "edit", file |-> f, text |-> Original + given'["update"]]]
    /\ UNCHANGED <<disk, loop, jobs, stamps, faults>>
    /\ Mark({})

(* The editor writes the next content and exits.                           *)
Save(p) ==
    /\ command[p].op = "edit"
    /\ disk' = [disk EXCEPT ![p][command[p].file] = command[p].text]
    /\ command' = [command EXCEPT ![p].op = "saved"]
    /\ UNCHANGED <<vars, loop, jobs, given, stamps, faults>>
    /\ Mark({})

(* It exits with an error, and what it may have written is not announced.  *)
EditorFails(p) ==
    /\ command[p].op = "edit"
    /\ command' = [command EXCEPT ![p] = Idle]
    /\ UNCHANGED <<vars, loop, jobs, given, stamps, faults>>
    /\ LET f == command[p].file
       IN  \/ UNCHANGED disk /\ Mark({})
           \/ /\ disk' = [disk EXCEPT ![p][f] = command[p].text]
              /\ Mark({<<p, f>>})

(* Slip: the file is not hashed again after the edit.                      *)
StampKeepsHash(p) ==
    /\ command[p].op = "saved"
    /\ \E v \in Versions \ (stamps \cup {0}) :
          /\ stamps' = stamps \cup {v}
          /\ command' = [command EXCEPT ![p] =
                [op |-> "stamped", file |-> @.file, text |-> @.text,
                 info |-> [version |-> v, hash |-> Original]]]
    /\ UNCHANGED <<vars, disk, loop, jobs, given, faults>>
    /\ Mark({})

(* The hash of what is there now, and a time of this machine's clock.      *)
Stamp(p) ==
    /\ command[p].op = "saved"
    /\ LET f == command[p].file
       IN  IF disk[p][f] = NoFile
             THEN command' = [command EXCEPT ![p] = Idle] /\ UNCHANGED stamps
             ELSE \E v \in Versions \ (stamps \cup {0}) :
                     /\ stamps' = stamps \cup {v}
                     /\ command' = [command EXCEPT ![p] =
                           [op |-> "stamped", file |-> f, text |-> @.text,
                            info |-> [version |-> v, hash |-> disk[p][f]]]]
    /\ UNCHANGED <<vars, disk, loop, jobs, given, faults>>
    /\ Mark({})

Publishes(p) == Announce(p, command[p].file, command[p].info, 0)

Publish(p) ==
    /\ command[p].op = "stamped"
    /\ command' = [command EXCEPT ![p] = Idle]
    /\ UNCHANGED <<disk, loop, jobs, given, stamps, faults>>
    /\ \/ Publishes(p) /\ Mark({})
       \/ /\ ~AnnounceAllowed(p, command[p].file, command[p].info)
          /\ UNCHANGED vars
          /\ Mark({<<p, command[p].file>>})

(* DeleteFile asks /peers whether p is a host,                             *)
StartDelete(p, f) ==
    /\ Give(p, "delete")
    /\ f \in DOMAIN index.files /\ p \in index.files[f].hosts
    /\ command' = [command EXCEPT ![p] = [op |-> "delete", file |-> f]]
    /\ UNCHANGED <<vars, disk, loop, jobs, stamps, faults>>
    /\ Mark({})

(* and removes the file                                                    *)
EraseFile(p) ==
    /\ command[p].op = "delete"
    /\ disk' = [disk EXCEPT ![p][command[p].file] = NoFile]
    /\ command' = [command EXCEPT ![p].op = "erased"]
    /\ UNCHANGED <<vars, loop, jobs, given, stamps, faults>>
    /\ Mark({})

Deletes(p) == Delete(p, command[p].file)

(* before it tells the primary, which may no longer have it as a host.     *)
TellDeleted(p) ==
    /\ command[p].op = "erased"
    /\ command' = [command EXCEPT ![p] = Idle]
    /\ \/ Deletes(p)
       \/ /\ command[p].file \in DOMAIN index.files
                => p \notin index.files[command[p].file].hosts
          /\ UNCHANGED vars
    /\ UNCHANGED <<disk, loop, jobs, given, stamps, faults>>
    /\ Mark({})

-----------------------------------------------------------------------------
(* Faults.                                                                 *)

(* An announce or a delete does not reach the primary: doRequest tries the *)
(* shadow, which refuses it, and the operation ends there.                 *)
WriteLost ==
    /\ Fault("write")
    /\ UNCHANGED <<vars, disk, loop, given, stamps>>
    /\ \/ \E j \in jobs :
             /\ j.pulled
             /\ jobs' = jobs \ {j}
             /\ UNCHANGED command
             /\ Mark({<<j.task.to, j.task.file>>})
       \/ \E p \in Peers :
             /\ command[p].op \in {"stamped", "erased"}
             /\ command' = [command EXCEPT ![p] = Idle]
             /\ UNCHANGED jobs
             /\ Mark({<<p, command[p].file>>})

(* The machine of a peer stops; its directory stays.                       *)
Crash(p) ==
    /\ Up(p)
    /\ Fault("peer")
    /\ loop' = [loop EXCEPT ![p] = Down]
    /\ jobs' = {j \in jobs : j.task.to # p}
    /\ command' = [command EXCEPT ![p] = Idle]
    /\ UNCHANGED <<vars, disk, given, stamps>>
    /\ Mark({<<p, f>> : f \in {g \in Files : Unsettled(p, g)}})

(* It starts again.                                                        *)
Start(p) ==
    /\ loop[p] = Down
    /\ loop' = [loop EXCEPT ![p] = Joining(FALSE)]
    /\ UNCHANGED <<vars, disk, jobs, command, given, stamps, faults>>
    /\ Mark({})

CrashPrimary ==
    /\ Restart
    /\ Fault("primary")
    /\ UNCHANGED <<disk, loop, jobs, command, given, stamps>>
    /\ Mark({})

(* The heartbeat tickers fire, each loop having gone round since the last. *)
Interval ==
    /\ \A p \in Peers : loop[p] \in {Waiting, Down}
    /\ Tick
    /\ loop' = [p \in Peers |-> IF loop[p] = Waiting THEN Due ELSE loop[p]]
    /\ UNCHANGED <<disk, jobs, command, given, stamps, faults>>
    /\ Mark({})

NetSweep == Sweep /\ UNCHANGED pvars

-----------------------------------------------------------------------------
PeerStep(p) ==
    Start(p) \/ Scan(p) \/ PostRegister(p) \/ Beat(p)

JobStep(p) ==
    \E j \in jobs : j.task.to = p /\ (Pull(j) \/ AnnouncePull(j))

CommandStep(p) ==
    \/ \E f \in Files : Get(p, f) \/ StartUpdate(p, f) \/ StartDelete(p, f)
    \/ Save(p) \/ EditorFails(p) \/ Stamp(p) \/ Publish(p) \/ EraseFile(p) \/ TellDeleted(p)

NetNext ==
    \/ \E p \in Peers : \/ PeerStep(p) \/ JobStep(p) \/ CommandStep(p)
                        \/ RegisterLost(p) \/ BeatLost(p) \/ Crash(p)
    \/ \E j \in jobs : PullFails(j)
    \/ WriteLost \/ CrashPrimary \/ Interval \/ NetSweep

NetSpec == NetInit /\ [][NetNext]_nvars

(* Machines run and come back; users and faults owe nothing.               *)
FairNetSpec ==
    /\ NetSpec
    /\ WF_nvars(Interval) /\ WF_nvars(NetSweep)
    /\ \A p \in Peers : WF_nvars(PeerStep(p)) /\ WF_nvars(JobStep(p))

-----------------------------------------------------------------------------
Contents == Hashes \ {NoHash}

Loops == {Down, Due, Waiting}
           \cup {Joining(retry) : retry \in BOOLEAN}
           \cup {Scanned(cat, retry) : cat \in RegisterCatalogues, retry \in BOOLEAN}

Commands == {Idle}
              \cup [op : {"edit", "saved"}, file : Files, text : Contents]
              \cup [op : {"stamped"}, file : Files, text : Contents, info : Infos]
              \cup [op : {"delete", "erased"}, file : Files]

NetTypeOK ==
    /\ TypeOK
    /\ disk \in [Peers -> [Files -> Contents \cup {NoFile}]]
    /\ loop \in [Peers -> Loops]
    /\ jobs \subseteq [task : Tasks, pulled : BOOLEAN]
    /\ command \in [Peers -> Commands]
    /\ given \in [DOMAIN Limit -> Nat]
    /\ stamps \subseteq Versions
    /\ faults \subseteq Faults
    /\ suspect \subseteq Peers \X Files

(* Whom the primary lists as a host has the file, and whom it has on       *)
(* record at the advertised version of an updated file has the advertised  *)
(* content, unless operations on the file overlapped at that peer or one   *)
(* of them failed between the file and the primary (client.go:219-241,     *)
(* 245-300, 440-474).                                                      *)
ListingTrue ==
    \A p \in Peers : \A f \in HostedFiles(index) :
        p \in index.files[f].hosts /\ <<p, f>> \notin suspect /\ ~Unsettled(p, f) =>
            /\ disk[p][f] # NoFile
            /\ index.files[f].info.version \in {index.held[p][f]} \ {0}
                  => disk[p][f] = index.files[f].info.hash

Enough(f) == /\ f \in HostedFiles(index)
             /\ \/ Cardinality(index.files[f].hosts) >= ReplicationFactor
                \/ index.files[f].hosts = Peers

(* A copy that the planner has asked for is made in the end, although the  *)
(* peer that pulls or the one it pulls from may stop and come back, and    *)
(* a heartbeat or its reply may be lost, as long as nobody edits or        *)
(* deletes: each of these ends in a registration, which plans again.  A    *)
(* pull that fails while its source is up does not: its task is gone and   *)
(* a heartbeat plans none (client.go:128-155, 221-241; server.go:448-483,  *)
(* 542-680).                                                               *)
CopiesMade ==
    \A f \in Files :
        (\E t \in queue : t.file = f)
            ~> \/ Enough(f)
               \/ given["update"] + given["delete"] > 0
               \/ ~(faults \subseteq {"peer", "heartbeat"})

(* An update publishes the text that the user saved, unless another        *)
(* operation on the file ran at that peer meanwhile: a pull would have put *)
(* an older text in its place (client.go:260-292, 421).                    *)
UpdatePublishesEdit ==
    \A p \in Peers :
        command[p].op = "stamped" /\ <<p, command[p].file>> \notin suspect
            => command[p].info.hash = command[p].text

(* Every host has the advertised version, by the primary's records and in  *)
(* its directory.                                                          *)
AllCurrent(f) ==
    /\ f \in HostedFiles(index)
    /\ \A p \in index.files[f].hosts :
          /\ index.held[p][f] = index.files[f].info.version
          /\ disk[p][f] = index.files[f].info.hash

(* When an update has been published and hosts are asked to fetch it, all  *)
(* hosts have it in the end, if nothing fails and no second one comes.  It *)
(* may not if operations overlap at a peer: a pull that began before the   *)
(* update then announces the older version after it, the primary forgets   *)
(* who has the new one, and every task names a host without it             *)
(* (server.go:439, 571-608; client.go:221-241).                            *)
UpdateSpreads ==
    \A f \in Files :
        (\E t \in queue : t.file = f /\ t.info.version > 0)
            ~> \/ AllCurrent(f)
               \/ given["update"] + given["delete"] > 1
               \/ faults # {}
               \/ \E p \in Peers : <<p, f>> \in suspect
=============================================================================
