# Napster with replication: specification and proofs

A TLA+ model of the hybrid file-sharing system in `src/`: a primary server that
keeps an index of which peer hosts which version of which file, grants write
leases and plans replication; a shadow server that is fed the primary's changes;
and the Go peers, with their directories, their background loops, their pulls and
their users' commands. TLC checks the model on small instances;
TLAPS proves the main invariants of the primary, of the shadow and of a shared
directory, that the replication budget holds in small fleets, and that the primary
implements its abstract specification, for every number of peers, files, pulls and
downloads and for all intervals.

## 1. The system

| part | source | state it keeps | operations |
|---|---|---|---|
| primary: index and leases | `server/server.go` | `peers` (listed peers, `LastSeen`), `peerFiles` (versions each peer hosts), `files` (newest `FileInfo`, host set, lease) | `/register`, `/announce`, `/heartbeat`, `/lease`, `/delete`, `cleanupLoop`/`pruneStale` |
| primary: planner | `server/server.go` 542-680 | `queue` (replication tasks per peer), `startTime` | `planReplicationLocked`, called by register, announce and delete only |
| primary: look-ups | `server/server.go` 485-540 | none | `/search`, `/peers` |
| shadow | `server/server.go` 139-230 | the same index, no queue, no leases | `/sync` (register, announce, prune, heartbeat, delete), its own `cleanupLoop` |
| Go peer | `client/client.go` | the shared directory (files and their `.part` files), the task goroutines, the running command | register, heartbeat every 20 s, pull and announce, serve downloads, get, update, delete, failover |
| Python peer | `client.py` | the same, one thread for tasks | the same, with mtime versions and delete on the server first |
| start-up, address discovery, evaluation | `*/main.go`, `pkg/shared/net.go`, `eval.py` | none | none that change state of the running system |

How they interact. Peers call the primary over HTTP; a handler holds `s.mu` from
its first look at the maps to its last write, so handlers are atomic with respect
to each other and to the sweep. The primary never calls a peer: tasks wait in
`queue` until the peer's next register or heartbeat takes all of them at once. A
peer pulls from another peer and announces the result to the primary. Every
change of the primary is also sent to the shadow by a goroutine of its own, which
neither waits nor retries.

What is hard here:

* the three maps are edited by six code paths and must agree after any mix of them;
* planning mixes what is hosted with what is queued, and both change between passes;
  when they add up to too much, the code that trims the queue can index out of range
  and panic, which leaves a handler half done and, in `/register`, the mutex locked;
* leases live in the entry of a file and vanish with it; their two ends are compared
  differently by `/lease` (`Before`) and `/announce` (`After`);
* nothing is persisted, so a restart forgets leases, tasks and hosts while the peers
  go on with what they believe;
* silence, TTL and sweep: a stale peer leaves late, and takes entries and tasks with it;
* lost and reordered sync operations, lost responses that carried tasks;
* a peer's loop, its task goroutines, its user's command and its downloads work on the
  same files, with nothing between them but the directory.

What makes each part correct:

* index: the maps agree and name listed peers only; the advertised version is never
  behind a copy and never goes back; no entry without hosts except a leased placeholder;
* leases: versions rise only by the holder of a lease that has not run out, and a lease
  in force is not passed on;
* planner: tasks wait for listed peers, one per peer and file; hosts and queued copies
  stay within the replication factor; a register, announce or delete whose
  pass ends without a panic leaves, for each file that its sender hosts, no other outdated host without
  a task, and no add unqueued altogether while hosts are too few; only a crowd of peers can lock
  the server up;
* sweep: no peer is listed for longer than the TTL and one period after its last report,
  and none stays stale for ever;
* shadow: once the sync stream is drained, it knows every copy of every live peer that
  the primary knows, or knew when it died; whatever is lost or late, its own maps stay sound;
* peers: who is listed as a host has the file, at the content that was announced; an
  update publishes the text that was saved; a peer that reports is not pruned;
* directories: a file's name shows one whole text, the one whose hash was verified, and a
  download sends one text to its end;
* all together: copies that the planner asks for are made, and an update reaches every host,
  while peers stop and come back and calls are lost.

## 2. Modules

| module | models | builds on |
|---|---|---|
| `NapsterIndex` | the index as a value, and every edit of it as an operator | |
| `ReplicationPlanner` | `planReplicationLocked`: the queues a pass can leave, and when it panics | `NapsterIndex` |
| `PrimaryServer` | the primary as a state machine: handlers, sweep, time, restart; the properties | `ReplicationPlanner` |
| `LeasedDirectory` | abstract: versioned files and locks, nothing else | |
| `PeerTiming` | the clocks of the peers' background loops against the primary's TTL and sweep | `PrimaryServer` |
| `MCPrimary` | the intervals of the source for TLC | `PeerTiming` |
| `PeerNetwork` | the primary and its peers: loops, pulls, commands, directories, faults | `PrimaryServer` |
| `MCNetwork` | how often TLC's users give each command | `PeerNetwork` |
| `SharedFolder` | one file of one directory at the grain of reads, writes and renames | |
| `MCShadowSync` | how far TLC follows the two servers | `ShadowSync` |
| `MCSharedFolder` | its symmetry, for TLC | `SharedFolder` |
| `DocumentedClaims`, `NetworkClaims` | sentences of the README and of comments, which the code does not keep | `PrimaryServer`, `PeerNetwork` |
| `ShadowServer` | the shadow as a state machine: any operation of `/sync` at any time | `NapsterIndex` |
| `ShadowSync` | the primary, the operations in flight, the shadow, and look-ups that fail over | `PrimaryServer`, an instance of `ShadowServer` |
| `NapsterIndexProofs` | lemmas: what each edit of the index preserves | `NapsterIndex` |
| `PrimaryServerProofs` | the inductive invariant, the safety theorems, what it takes to lock the server up, and the replication budget of fleets of at most factor + 1 | `PrimaryServer`, `NapsterIndexProofs` |
| `DirectoryProofs` | the primary implements `LeasedDirectory` | `PrimaryServerProofs` |
| `PeerTimingProofs` | a peer that reports is not pruned | `PeerTiming`, `PrimaryServerProofs` |
| `PeerNetworkProofs` | what the primary lists is in the directories; the network runs the primary | `PeerNetwork`, `DirectoryProofs` |
| `ShadowProofs` | the inductive invariant of the shadow | `ShadowServer`, `NapsterIndexProofs` |
| `ShadowSyncProofs` | with ideal delivery the shadow covers the primary | `ShadowSync`, `PrimaryServerProofs` |
| `SharedFolderProofs` | the inductive invariant of a directory: pulls install what they hashed | `SharedFolder` |

### State and code

* `index.seen[p]` is the age of `s.peers[p].LastSeen`, or `NotListed`;
  `index.held[p][f]` is `s.peerFiles[p][f]`, or `NoCopy`;
  `index.files[f]` is `*s.files[f]`: `info` (version and hash; the name is `f`, the size
  goes with the hash), `hosts` (the keys of `fe.Peers`), `lease`. The domain of
  `index.files` is the set of keys of `s.files`.
* `queue` is `s.queue` as one set of tasks that each name the peer they wait for.
* `mu` is the mutex between handlers: `"free"`, or `"leaked"` by a panicking `/register`.
* `uptime` is the time since `startTime`, up to the grace period; `sinceSweep` the time
  since the ticker last fired.

Instants are kept relative to now, because every comparison in the code is with now:
a `LastSeen` is an age, an `Expiration` is the time left. `Tick` ages both.

Peer IDs are numbers in the order `sort.Strings` gives the IDs, which is what the
planner's choices depend on. Go's map order is a free choice: of the source peer among
the hosts of the latest version, and of the files a pass plans before it panics.

`Register`, `Heartbeat`, `Announce`, `RequestLease`, `Delete` are the handlers, whole:
`Register` applies the request, plans, and hands the peer its queue; `Delete` removes,
plans, then drops the deleter's own tasks. A request that the code refuses changes
nothing and is not an action. The peers are the environment: any well-formed request may
come from any peer at any time, so requests that are late, repeated, or sent by a peer
the server has forgotten are all among the behaviours. `Restart` is a crash at any time.

A pass of the planner treats the files one by one and independently, up to a panic;
`PlanOutcomes` says so, and each handler says what a panic skips: `Delete` its filter,
`Register` the emptying of the queue and the unlock. `Announce` has nothing after it.

`Stamps` are the ages of the `LastSeen` an announce may carry (the code keeps one that
is not zero); `RegisterVersions` the versions a `/register` may list: the Go client
always lists 0, the Python client the file's mtime.

### The shadow

`mirror` is the shadow's index, a value of the same shape as the primary's, and most of
`handleSync` is the operators of `NapsterIndex` again: `applyRegister` and `applyAnnounce`
do there what the primary's handlers do. Two operations are the shadow's own: `ForgetPeer`
(a prune that leaves `fe.Peers` alone) and `ForgetHost` (a delete without the primary's
checks). `SweepMirror` is its own cleanup loop.

`ShadowSync` puts both servers side by side. `flight` holds the operations between a
handler and the shadow's `handleSync`: `Deliver(i)` takes any of them, not only the first,
and `Lose(i)` drops one, since `syncToShadow` posts once from a goroutine of its own. A
handler sends in the same step in which it edits the index. In the code it starts the
goroutine a little before it locks, so that two handlers can send in one order and apply in
the other; in the model this is an overtaking. `RefusedDelete` is the request that the
primary answers with 404 or 403 and has already forwarded.

When a panic has left the primary's mutex locked, its handlers still send before they lock:
`Blocked(op)` is such a register, heartbeat or delete, which the shadow hears of and the primary
never serves. Announces, sweeps and look-ups wait, and the clients with them (`Answered`), until
somebody kills the process (`PrimaryDies`).

`ideal` and `apart` are history. `ideal` holds while every operation has arrived in order and
within the instant in which it was sent. `apart` are the peers of which the two servers may know
different copies. Most came back when they were stale already but not yet swept: the shadow's
ticker is not the primary's, so the shadow may have swept the peer, and it then ignores the
peer's heartbeats, while the primary answers `ok` and the peer has no reason to register again.
What such a peer holds reaches the shadow only when the peer registers. The others are the peers
whose register or delete was `Blocked`.

`down` says that the primary's process does not run. `index` is then a memory of what it
knew when it died, which grows older with the clock so that it can be compared with what the
shadow still has. `LookUp(f)` is what `doRequest` gets for a `GET`: the primary's answer, or
the shadow's when the primary does not answer. `PrimaryStarts` begins with an empty index; a
404 of the new primary is an answer, so the client does not ask the shadow any more.

### The peers

`PeerNetwork` adds to the primary, for each peer:

* `disk[p][f]`, the content of `f` in the directory of `p`, or `NoFile`. Contents are
  numbers that come up in order, one per update, and are their own hashes;
* `loop[p]`, the background loop: `Joining` (about to scan), `Scanned(cat)` (about to
  register what the scan found), `Waiting` (for the ticker), `Due` (the ticker fired), `Down`.
  The scan and the `/register` that lists it are two steps, so the directory can change between
  them. `retry` says that the registration follows a heartbeat that was answered with `ok:
  false`: if it fails, `heartbeatNow` returns the error and the loop registers once more;
* `jobs`, the goroutines that `processTasks` starts, and the `get` command, which also pulls
  and then announces: first `Pull`, then `AnnouncePull`;
* `command[p]`, the update or delete that the user of `p` runs. An update is `StartUpdate`
  (lease), `Save` or `EditorFails` (editor; what it saved before it failed stays in the directory and
  is announced by nobody), `Stamp` (hash and version), `Publish` (announce); a
  delete is `StartDelete` (look-up), `EraseFile`, `TellDeleted`.

A call to the primary is one step with its handler, which is atomic; what a peer does on its
own between two calls is a step of its own. `Pull` is one step too; what happens inside it is
the subject of `SharedFolder`. `stamps` keeps two updates from choosing one nanosecond;
versions are otherwise any number, as the clocks of the machines are not synchronised.

`Fault` makes six kinds of fault happen, each at most once: a peer stops (`Crash`; its directory
stays, and `Start` brings it back), the primary restarts (`CrashPrimary`), a heartbeat, a
registration, an announce or delete is lost, or a pull fails although its source is up and has
the text (`PullFails`; a pull from a peer that is down, or has another text, fails without it).
A lost heartbeat or registration may have been served: only its answer, with the tasks it
carried, is gone.

`jobs` is a set, so two goroutines of a peer with the same task are one. `Interval` fires all
heartbeat tickers together; in between, the loops go round in any order. `PeerTiming` has a ticker of
its own for each peer.

`suspect` is history: peers and files where two activities overlapped, or one ended
between its change of the directory and the call that reports it. For them the code has no
protection, and the properties exclude them by name. `Unsettled(p, f)` is the same while it
has not gone wrong: the directory has changed, the call is still to come.

`PeerTiming` leaves directories out and looks at time: `timer[p]` is the time until the
heartbeat ticker of `p` fires, `quiet[p]` how many rounds in a row did not get through. A
`Round` is a heartbeat, with the registration that may follow it.

### Inside a directory

`SharedFolder` is about one file: `final` is the inode behind its name, `part` the one behind
the name with `.part` appended, `data` the text of each inode, block by block. `pull[k]` is a
running `pullFile` (answered, copying, verified), `reader[r]` a running `handleGetFile`, with
what it got and the text that the file had when it was opened. `os.Create` empties the
`.part` file that is there and keeps its inode; `os.Rename` moves whatever has the `.part`
name by then; `os.Remove` after a mismatch removes whatever has it; an open file keeps its
inode. The user's programs write a whole text in place (`Edit`). `overlap` is history: two
pulls are writing at the same time, or were since an instant when none was. A reader of a
file that is written into is `Spoilt`: what it gets is not followed.

## 3. What the runs show

| run | checks | shows |
|---|---|---|
| `primary_faults` | `TypeOK IndexConsistent AdvertisesNewest NoAbandonedEntry QueueSound LocksUpOnlyInACrowd VersionNeverLowered` | maps, versions and queue stay sound through every mix of requests, sweeps, restarts, panics and a leaked mutex; the mutex leaks only while factor + 2 peers are listed |
| `primary_budget` | `QueueWithinFactor PassLeavesNoneShort` | with at most factor + 1 peers, hosts and queued adds stay within the factor; a register, announce or delete that is planned to the end leaves no file of its sender without the tasks it needs: each other host of an older version has one, and while hosts are too few some add is queued |
| `primary_times` | `TimingTypeOK ListedPeersFresh LivePeersKept StalePeersRemoved` | with the intervals of the source, a silent peer is listed for at most 45 s + 10 s, none stays stale for ever, and no sweep takes a peer whose loop runs, even if its last round was lost |
| `peer_network` | `NetTypeOK ListingTrue UpdatePublishesEdit CopiesMade UpdateSpreads ImplementsDirectory` | primary and peers together: the listing tells the truth about the directories, an update publishes what was saved, copies that were asked for are made unless a pull fails, an update reaches every host, and the primary is a leased directory to these clients |
| `shared_folder` | `TypeOK InstallsWhatItHashed DownloadIsOneText` | pulls, downloads, edits and deletes of one file: a pull installs what it verified, a download is one text |
| `shadow_any_order` | `ShadowTypeOK HoldingsShown EntriesHosted MirrorNeverLowered` | the shadow's maps stay sound whatever operations reach it, in whatever order |
| `shadow_sync` | `SyncTypeOK ShadowCoversPrimary` | with ideal delivery a look-up finds every copy of every fresh peer, also after a failover, peers set `apart` aside |
| `claim_one_lease` | violates `AtMostOneGrant` | a prune or delete forgets a lease that still runs (README.md:216) |
| `claim_trim` | violates `OverScheduledAddsTrimmed` | the trim panics when there are more hosts than the factor (server.go:616-617) |
| `claim_shadow_prune` | violates `PrunedPeersHidden` | a pruned peer still shows in the shadow's search (server.go:201-202) |
| `claim_replication` | violates `CopiesEnsured` | peers that register within the grace period and then only send heartbeats are never given a task (README.md:42) |
| `claim_lost_edit` | violates `LeasedEditPublished` | a pull of the old version replaces the text that the lease holder has just saved, which is then published as the new one (README.md:17) |

Bounds. One file is enough for what is checked: the handlers and the planner treat files
separately, and the proofs cover any number. Three peers and factor 1 in `primary_faults` are
the smallest instance with more hosts than the factor and a queued add, so panics and the leaked
mutex happen there, and with no fewer peers listed than all three: `LocksUpOnlyInACrowd` would
fail if a prune left the queue of a peer that it removes. `primary_budget` has factor 2 and
three peers, the case of the default factor with room for one more host; `QueueWithinFactor`
does not hold with more peers, which is the finding of `claim_trim`. `PassLeavesNoneShort` holds
in every fleet, for passes that no panic cuts short; a queued add that uses up allowance as a
duplicate (server.go:647), so that fewer copies than allowed are planned but not none, takes a
factor of 3, and is left to its theorem. Versions are 0 and 1 there; `Hashes` has one member in
these runs, since none of their properties tells contents apart.

`peer_network` has two peers with factor 2, one of which has the file at first, so that
replication is needed and stays within the bound of `primary_budget` (`NetworkAssumption`).
Two updates let both peers want the lease, and one version follow another; one get and one
delete bring the other ways in which a copy comes and goes. `MaxTrouble` allows two commands
or faults in all: every pair of them meets, in every order and at every point. One `Tick` is
one heartbeat interval of 20 s; a TTL of 2 and a lease of 3 are then the 45 and 60 s of
the code, and the sweep comes once per interval. `AgeCap`, contents and versions are as many as
the two updates can tell apart.

`shared_folder` has two pulls, since the second is what can go wrong, and one download; two
letters and two blocks make the texts of two versions, and mixtures of them. Four inodes are
one per pull, one for the download and one for the file's name, so a fresh one is always
there. Pulls, and letters, are interchangeable (symmetry).

`shadow_any_order` has two peers and two files, so that an operation on one is seen to leave
the others alone.

`shadow_sync` has three peers and factor 1, the fewest with which the primary can lock up.
`Followed` (`MCShadowSync`) says how far TLC goes: with one peer through everything, since what
the two servers know of a peer's copies (`held` and `seen`, all that `ShadowCoversPrimary` reads
while the primary serves) depends on that peer's own requests and on time, and on no other peer;
with three peers through one instant, which leads to a panic and to what is sent after it; and
with three peers through time when the primary is locked up or was killed then. It stops at
states with a lease, which the property does not depend on, and after delivery that was not
ideal, of which it says nothing. What TLC leaves out (three peers as time passes, while the
primary serves) is covered by the theorem. The TTL and the sweep period are longer than one
instant, so that one server sweeps while the other still has the peer. `FlightCap` is 2, enough
for one operation to overtake another. `claim_shadow_prune` has the same module with one peer
and no constraint.

`AgeCap` bounds ages: one that reached it grows no more. It is above the TTL, so no
comparison of the code is affected, and in `primary_times` above TTL + sweep period
(`BoundsKeepTimingsApart`), so that the first age that `ListedPeersFresh` excludes
is still told apart. `uptime` stops at the grace period, where the code stops looking.
`primary_times` counts in units of 5 s, which divides 45, 60, 20, 15 and 10 s, and has one
peer: ages, timers and sweeps of a peer depend on no other. The others
scale the intervals down and keep what matters: a lease can outlive the TTL (60 > 45
in the code; `claim_one_lease`), or run out before a sweep.

Fairness. `StalePeersRemoved` is checked under weak fairness of `TimeStep`, `TimelySweep` and
`Round`: time passes, `cleanupLoop` is a goroutine that waits for a ticker and for a mutex
that handlers hold for a bounded time, and a loop that runs serves its ticker. A round may
always be lost, other requests, stops and restarts have no fairness. When the mutex is leaked
the sweep blocks, and the property says so. `FairNetSpec` assumes that time passes and sweeps
come (`Interval`, `NetSweep`), and that each peer's loop and each peer's goroutines go on
(`PeerStep(p)`, which includes that a stopped peer is started again, and `JobStep(p)`): calls and
pulls in the code end by an answer or an error. Commands have no fairness: a user may leave the
editor open for ever, and no property needs that he closes it. Faults have none.

`CopiesMade` and `UpdateSpreads` start from a queued task: that a task is queued in the first
place is `CopiesEnsured`, which the code does not keep. Both name what releases the code from
its promise: further commands, and faults of other kinds than those that the code recovers from.
What `CopiesMade` shows is that a peer that stops, pulling or pulled from, and a lost heartbeat,
with all the tasks of its reply, each end in a registration, which plans again. A pull that
fails while its source is up does not: the goroutine logs the error, the task left the queue
when it was handed out, and heartbeats plan nothing (client.go:226-229), so the copy is not made
until somebody registers, announces or deletes. A pull that began before an update and is
announced after it makes the primary overwrite its record of who has the new version with an
older one (server.go:439); `UpdateSpreads` excludes files where operations overlapped for that
reason, and `hazards` in `PROJECT.json` names it.

The ticker fires on time in the model (`Tick` waits for the `Sweep` that is due), as
the freshness bound needs; a handler that held the mutex would delay it by as long.
`eval.py:326-336` waits for TTL + 5 s and then expects the peer to be gone; the bound
that the run establishes, and reaches, is TTL + 10 s, and `eval_log.txt` records that
test failing.

Deadlock is checked in all runs.

## 4. What is proved

The proofs assume what the modules state as assumptions (`IndexAssumption`,
`FactorAssumption`, `ServerAssumption`): peer numbers and versions are naturals, 0 is a
version, intervals are naturals, the lease term, factor and sweep period are positive,
the TTL is below `AgeCap`. Each other component adds its own:

* `FolderAssumption`: pulls, downloads and inodes are finite, and there are more inodes than
  pulls and downloads;
* `TimingAssumption`: the heartbeat period is positive. `LivePeersAreKept` also assumes
  `TwoRoundsFit`: two periods fit into the TTL (40 s into 45 s), and announces carry no
  `LastSeen` of their own (`client.go` sends none);
* `SyncAssumption`: there are finitely many peers, announces carry no `LastSeen`, and something can
  be in flight;
* `NetworkAssumption`: there are finitely many peers, at most factor + 1. More of them can panic the
  planner, and `PeerNetwork` leaves out what a peer does with a server that never answers again. Also
  that Go clients register at version 0, that contents are numbered after `NoHash` as updates make
  them, and that the name `NoFile` is nobody's.

The theorems that put a condition on the constants say so in an `ASSUME` of their own.

The primary. The invariants are not inductive one by one: a task is placed well because a sweep
removes tasks and peers together; hosts are never ahead because `peerFiles` and `fe.Peers`
agree; a prune leaves no entry without hosts because it finds, through `peerFiles`, all the
hosts that `fe.Peers` has. The inductive invariant is

    Sound == TypeOK /\ SoundIndex(index) /\ TasksWellPlaced(index, queue)

where `SoundIndex` joins `IsIndex`, `MapsAgree`, `NoneAhead` and `HostlessIsPlaceholder`.
`NapsterIndexProofs` proves once for each edit (`ApplyRegister`, `ApplyAnnounce`,
`Refresh`, `GrantLease`, `DropHost`, `Prune`, `Elapse`) that it takes a sound index to a
sound index and what it does to the listed peers. `PrimaryServerProofs` proves that a
planning pass keeps tasks well placed, panic or not, then one lemma per action, and
concludes:

* `TypeCorrect`, `IndexAlwaysConsistent`, `AlwaysAdvertisesNewest`,
  `NeverAbandonedEntry`, `QueueAlwaysSound`: the invariants of `primary_faults`, for all
  instances, with panics and leaked mutexes included;
* `VersionsNeverLowered`: the action property, from the same invariant;
* `AlwaysLocksUpOnlyInACrowd`: a pass panics over a file with more hosts than the factor and a task for
  one more peer; `MapsAgree` says that the hosts are listed, `TasksWellPlaced` that the waiting peer is,
  so at least factor + 2 peers are (`PanicNeedsCrowd`). After the panic nobody is listed or unlisted any
  more. There is no bound on the fleet: that only finitely many peers are listed is part of the invariant;
* `ListedPeersStayFresh`: the freshness bound, under the assumption that announces carry
  no `LastSeen` that is already older than the TTL (the clients in `src/` carry none). Its
  own inductive part is the bound itself with the type invariant;
* `PassesLeaveNoneShort`: what a planning pass achieves, for any finite fleet and factor. A host of an
  older version keeps the task it has or gets one; with fewer hosts than the factor, trimming leaves
  some of the queued adds, and when none is queued no duplicate can use up the allowance
  (`PlanFileMeetsNeeds`). It says nothing of the files that the sender has just deleted, because
  the replacement may be planned for the deleter itself and dropped (`hazards`), nor of passes
  that panic;
* `PrimaryImplementsDirectory` (`DirectoryProofs`): when clients register at version 0,
  each step of the primary is a step of `LeasedDirectory` or a stutter. `Announce` maps to
  `Publish`, `Enlist` or a stutter, `RequestLease` to `Acquire`, `Tick` to `Lapse`, and
  `Delete`, `Sweep` and `Restart` to `Forget` of the files that lost their entry. The
  assumption is needed: a registration with a newer version, as the Python client's mtimes
  allow, raises the version without a lease. `peer_network` checks the same refinement.

The budget. It assumes `SmallFleet` (`PrimaryServerProofs`): no more than factor + 1 peers
exist. Hosts and queued adds are added up by three parts of the code that do not look at each
other (a pass plans, an announce turns an add into a host, a heartbeat takes tasks away), so the
invariant, `Sound /\ InBudget`, follows them apart: `InBudget` says that hosts, and peers that
will be hosts when their tasks are done, are together within the factor while there are any of
the latter, that nothing is queued in the grace period, and that the mutex is free. If there
were more hosts than the factor, all peers of a small fleet would be hosts and nobody would be
left to wait: so the trim finds a slice of sufficient length (`TrimNeverFails`), and what it
leaves is no more than the allowance (`QueueStaysWithinFactor`; `FirstBound` is the lemma on the
first k of a sorted list). `claim_trim` shows that one more peer is too many.

For the shadow, the invariant is `SoundMirror`: `IsIndex`, `Shown` and `Hosted`. The
agreement of the maps does not hold there (a prune leaves hosts behind), but the half of
it that says that what `peerFiles` has is listed and shown is inductive with the other two:
a sweep keeps `Hosted` because it removes an entry only through the hosts it takes.
`ShadowProofs` has one lemma per operation, and from it `ShadowTypeCorrect`,
`HoldingsAlwaysShown`, `EntriesAlwaysHosted` and `MirrorVersionsNeverLowered`, for any stream
of operations.

Both servers. `ShadowCoversPrimary` speaks of the instant in which nothing is in flight; its
invariant has to say what the operations in flight are going to do. `CoveredWhileIdeal`: for
each copy that the primary has on record of a peer within the TTL that was not set `apart`,
either the last operation in flight that touches this copy gives its version (`UnderWay`), or
none touches it and the mirror has it already, with a peer no older than the primary's, or one
that an operation in flight will refresh (`Settled`). Delivery in order takes away the first
operation, which either was the last to touch the copy (`UnderWay` becomes `Settled`) or was
not. Time stands still while something is in flight, or delivery is no longer ideal; so the
mirror's sweep finds nobody old whom the primary has as young, and its prunes, which reach the
mirror as operations, concern peers beyond the TTL. A request that a locked-up primary keeps
waiting sets its peer apart, or is a heartbeat, which changes no copy. The result is
`ShadowAlwaysCoversPrimary`, with `SyncTypeCorrect`.

The timers. `HeardInTime` says how old a listed peer with a running loop can be: `seen + timer`
is at most `(quiet + 1) * HeartbeatPeriod`. Time moves both ends alike, a round that gets
through starts again at one period, and one that is lost adds a period. With `TwoRoundsFit`, a peer
with at most one lost round is within the TTL when the sweep looks: `LivePeersAreKept`.

The network. `ListingTrue` compares the primary's index with directories, and between them are
scans, replies, tasks, pulls and updates that are under way. The inductive invariant is

    NetInv == Sound /\ NetTypeOK /\ OverlapsNoted /\ VersionsTell /\ Faithful /\ ScansHashed /\ ListingTrue

`VersionsTell`: whatever info goes round (listed, in a task, in a job, stamped by an update), a
version other than 0 tells the content; it is inductive because an update takes a
version that no update has taken. `Faithful`: where nothing overlapped, what the operation under
way at a peer is about to report (the scan's catalogue, the pulled info, the saved text) is what
the directory has. This holds because there is one operation at a time for each peer and file
outside of `suspect` (`OneAtATime`, from `OverlapsNoted`), so nobody else wrote in between. A report
then makes a true listing: `ReportStep` uses `NoneAhead`, from `Sound`, for what the primary
keeps of its older record, and `QuietStep` is for all the steps that change no listing. One lemma
per action leads to `ListingAlwaysTrue`, `UpdatesPublishEdits` and `NetTypeCorrect`.

`NetworkRunsPrimary` proves `NetSpec => Spec`: every step of the network is a step of the
primary or leaves it alone. So the theorems about the server under any requests hold among these
peers; `NetworkImplementsDirectory` is the one whose extra assumption, registrations at version
0, the network discharges.

A directory. The invariant is `FolderInv`: `TypeOK`; the file's name and the `.part` name never share
an inode; a pull that writes alone has the inode of the `.part` name, and what it was sent so far is
the text there (`LoneWriter`); nobody writes into the inode that a followed download reads
(`ReadersTrue`). `LoneWriter` is what makes the rename of whatever has the name `.part` a rename of
what was hashed, and what makes `os.Create` safe on a file that a killed process left. It fails as
soon as two pulls write, which is why `overlap` is in the model. `FreshIsFree` counts: the inodes in
use by other pulls, by downloads and by the file's name are fewer than all inodes. The theorems are
`FolderTypeCorrect`, `PullsInstallWhatTheyHashed` and `DownloadsAreOneText`, for any number of pulls,
downloads, letters and blocks.

Only model-checked: the liveness properties `StalePeersRemoved`, `CopiesMade` and `UpdateSpreads`,
since liveness under fairness is beyond the prover. Every invariant and action property of the
passing runs is a theorem. What the code does not keep (`claim_*`) is shown by counterexample.

## 5. What is left out, and the plan

Not modelled:

* the Python peer (`client.py`) as a machine of its own. Its requests are among those of
  `PrimaryServer`, whose clients are free and register any of `RegisterVersions`. It registers
  mtimes in milliseconds where Go registers 0 and updates carry nanoseconds, so a model of its
  loop needs a clock that a handful of versions cannot stand for;
* what `/search` matches: it selects names by a substring, and changes nothing;
* names: a scan lists `.part` files too, which are then registered and replicated as files of
  their own (`hazards`); files of the model are those that users mean;
* two files at once in `PeerNetwork`. The one hazard that needs them: after a restart of the
  primary an announce lists a peer with that one file, heartbeats succeed from then on, and the
  peer's other files stay unknown until it registers for some other reason;
* the pull that follows a look-up on the shadow, and a server that accepts a connection and never
  answers (`http.DefaultClient` has no timeout);
* addresses and the `Peer` snapshots in `fe.Peers`, logging, HTTP and JSON, method and read-only
  checks, the unlocked read of `len(s.peers)` for a log line (server.go:79), the command lines,
  address discovery, and `eval.py`.

Next, in this order: the pull of `SharedFolder` against the one-step `Pull` of `PeerNetwork` (a
directory entry as a register that a pull sets at once); the whole-file register as an
abstract specification of downloads; a model of the Python peer's loop.
