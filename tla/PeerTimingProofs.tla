-------------------------- MODULE PeerTimingProofs --------------------------
(***************************************************************************)
(* The clocks of the primary and of its peers, for any number of peers and *)
(* any intervals: a sweep never removes a peer whose loop runs, as long as *)
(* two heartbeat periods fit into the TTL.                                 *)
(***************************************************************************)
EXTENDS PeerTiming, PrimaryServerProofs

(* What a peer sends carries no LastSeen of its own (client.go), and two   *)
(* rounds of 20 s fit into 45 s.                                           *)
TwoRoundsFit ==
    /\ Stamps = {0}
    /\ 2 * HeartbeatPeriod <= PeerTTL

-----------------------------------------------------------------------------
(* The inductive invariant.                                                *)

(* A loop that runs made its listed peer heard of, at the latest, when its *)
(* ticker last fired with success.                                         *)
HeardInTime ==
    \A p \in Peers :
        timer[p] # Stopped /\ quiet[p] < TooQuiet /\ p \in Listed(index) =>
            index.seen[p] + timer[p] <= (quiet[p] + 1) * HeartbeatPeriod

(* Only a success after a start begins the count of lost rounds.           *)
StoppedIsQuiet == \A p \in Peers : timer[p] = Stopped => quiet[p] = TooQuiet

TimingInv == Sound /\ TimingTypeOK /\ HeardInTime /\ StoppedIsQuiet

(* Every step of the timed system is a step of the primary or none.        *)
LEMMA TimingStepIsStep == [TimingNext]_tvars => [Next]_vars
<1> SUFFICES ASSUME [TimingNext]_tvars PROVE [Next]_vars
  OBVIOUS
<1>1. ASSUME NEW p \in Peers,
             StartLoop(p) \/ Round(p) \/ StopLoop(p) \/ OtherRequest(p)
      PROVE  [Next]_vars
  BY <1>1 DEF StartLoop, Round, StopLoop, OtherRequest, RegisterSomething, IsLost, Next
<1>2. CASE TimeStep
  BY <1>2 DEF TimeStep, Next
<1>3. CASE TimelySweep
  BY <1>3 DEF TimelySweep, Next
<1>4. CASE PrimaryRestart
  BY <1>4 DEF PrimaryRestart, Next
<1>5. CASE UNCHANGED tvars
  BY <1>5 DEF tvars
<1> QED
  BY <1>1, <1>2, <1>3, <1>4, <1>5 DEF TimingNext

(* What the variables range over.                                          *)
LEMMA TimingFacts ==
    ASSUME TimingInv
    PROVE  /\ timer \in [Peers -> {Stopped} \cup 0 .. HeartbeatPeriod]
           /\ quiet \in [Peers -> 0 .. TooQuiet]
           /\ index.seen \in [Peers -> Ages \cup {NotListed}]
           /\ HeartbeatPeriod \in Nat \ {0} /\ Stopped = -1 /\ TooQuiet = 2
           /\ NotListed = -1 /\ IsIndex(index) /\ HeardInTime
BY TimingAssumption
DEF TimingInv, TimingTypeOK, Sound, SoundIndex, IsIndex, Stopped, TooQuiet, NotListed

(* A request that reaches the primary leaves the age of who sends it at 0  *)
(* or as it was, and those of all others.                                  *)
LEMMA RequestAges ==
    ASSUME TimingInv, Stamps = {0}, NEW p \in Peers,
           \/ RegisterSomething(p) \/ Heartbeat(p) \/ OtherRequest(p)
    PROVE  \A r \in Peers :
              \/ index'.seen[r] = index.seen[r]
              \/ r = p /\ index'.seen[r] = 0
<1>1. index.seen \in [Peers -> Ages \cup {NotListed}]
  BY TimingFacts
<1>2. ASSUME NEW cat, Register(p, cat)
      PROVE  index'.seen = [index.seen EXCEPT ![p] = 0]
  BY <1>2 DEF Register, ApplyRegister
<1>3. CASE Heartbeat(p)
  BY <1>1, <1>3 DEF Heartbeat, Refresh
<1>4. ASSUME NEW f \in Files, NEW info \in Infos, NEW stamp \in Stamps,
             Announce(p, f, info, stamp)
      PROVE  index'.seen = [index.seen EXCEPT ![p] = 0]
  BY <1>4 DEF Announce, ApplyAnnounce
<1>5. ASSUME NEW f \in Files, RequestLease(p, f) \/ Delete(p, f)
      PROVE  index'.seen = index.seen
  BY <1>5 DEF RequestLease, GrantLease, Delete, DropHost
<1> QED
  BY <1>1, <1>2, <1>3, <1>4, <1>5 DEF RegisterSomething, OtherRequest

(* After a registration, and after a heartbeat of a listed peer, its age   *)
(* is 0.                                                                   *)
LEMMA ReportRenews ==
    ASSUME TimingInv, NEW p \in Peers,
           RegisterSomething(p) \/ (p \in Listed(index) /\ Heartbeat(p))
    PROVE  index'.seen[p] = 0
<1>1. index.seen \in [Peers -> Ages \cup {NotListed}]
  BY TimingFacts
<1>2. ASSUME NEW cat, Register(p, cat)
      PROVE  index'.seen[p] = 0
  BY <1>1, <1>2 DEF Register, ApplyRegister
<1>3. CASE p \in Listed(index) /\ Heartbeat(p)
  BY <1>1, <1>3 DEF Heartbeat, Refresh
<1> QED
  BY <1>2, <1>3 DEF RegisterSomething

(* Nobody is listed and no loop runs at first.                             *)
LEMMA InitTiming == TimingInit => TimingInv
<1> SUFFICES ASSUME TimingInit PROVE TimingInv
  OBVIOUS
<1>1. Sound
  BY InitSound DEF TimingInit
<1>2. TimingTypeOK
  BY <1>1 DEF TimingInit, TimingTypeOK, Sound, Stopped, TooQuiet
<1>3. HeardInTime /\ StoppedIsQuiet
  BY DEF TimingInit, HeardInTime, StoppedIsQuiet, Stopped
<1> QED
  BY <1>1, <1>2, <1>3 DEF TimingInv

(* The types of the timers.                                                *)
LEMMA NextTimingTypes ==
    Sound /\ TimingTypeOK /\ [TimingNext]_tvars => TimingTypeOK'
<1> SUFFICES ASSUME Sound, TimingTypeOK, [TimingNext]_tvars PROVE TimingTypeOK'
  OBVIOUS
<1>1. TypeOK'
  BY TimingStepIsStep, NextSound DEF Sound
<1>2. /\ timer \in [Peers -> {Stopped} \cup 0 .. HeartbeatPeriod]
      /\ quiet \in [Peers -> 0 .. TooQuiet]
      /\ HeartbeatPeriod \in Nat \ {0} /\ Stopped = -1 /\ TooQuiet = 2
  BY TimingAssumption DEF TimingTypeOK, Stopped, TooQuiet
<1>3. /\ timer' \in [Peers -> {Stopped} \cup 0 .. HeartbeatPeriod]
      /\ quiet' \in [Peers -> 0 .. TooQuiet]
  <2>1. ASSUME NEW p \in Peers, Rewind(p), GetsThrough(p) \/ IsLost(p)
        PROVE  <1>3!1 /\ <1>3!2
    BY <1>2, <2>1 DEF Rewind, GetsThrough, IsLost
  <2>2. ASSUME NEW p \in Peers, StopLoop(p)
        PROVE  <1>3!1 /\ <1>3!2
    BY <1>2, <2>2 DEF StopLoop
  <2>3. CASE TimeStep
    BY <1>2, <2>3 DEF TimeStep
  <2>4. CASE UNCHANGED <<timer, quiet>>
    BY <1>2, <2>4
  <2> QED
    BY <2>1, <2>2, <2>3, <2>4
    DEF TimingNext, StartLoop, Round, OtherRequest, TimelySweep, PrimaryRestart, tvars
<1> QED
  BY <1>1, <1>3 DEF TimingTypeOK

(* A loop that runs, and did not miss two rounds, is heard of in time.     *)
LEMMA NextHeard ==
    ASSUME Stamps = {0}, TimingInv, [TimingNext]_tvars PROVE HeardInTime'
<1> DEFINE H == HeartbeatPeriod
           Kept(r) == timer'[r] # Stopped /\ quiet'[r] < TooQuiet /\ r \in Listed(index')
                        => index'.seen[r] + timer'[r] <= (quiet'[r] + 1) * H
<1>1. /\ timer \in [Peers -> {Stopped} \cup 0 .. H]
      /\ quiet \in [Peers -> 0 .. TooQuiet]
      /\ index.seen \in [Peers -> Ages \cup {NotListed}]
      /\ H \in Nat \ {0} /\ Stopped = -1 /\ TooQuiet = 2
      /\ NotListed = -1 /\ HeardInTime
  BY TimingFacts
<1>2. AgeCap \in Nat /\ \A r \in Peers : index.seen[r] \in Int /\ timer[r] \in Int
                                         /\ quiet[r] \in Nat
  BY <1>1, IndexAssumption DEF Ages
<1> SUFFICES ASSUME NEW r \in Peers PROVE Kept(r)
  BY DEF HeardInTime
<1>3. ASSUME timer'[r] = timer[r], quiet'[r] = quiet[r], index'.seen[r] = index.seen[r]
      PROVE  Kept(r)
  BY <1>1, <1>3 DEF HeardInTime, Listed
<1>4. ASSUME timer'[r] \in {Stopped} \cup 0 .. H, quiet'[r] \in Nat, index'.seen[r] = 0
      PROVE  Kept(r)
  <2>1. quiet'[r] = 0 \/ quiet'[r] = 1 \/ ~(quiet'[r] < TooQuiet)
    BY <1>1, <1>4
  <2>2. timer'[r] # Stopped => timer'[r] <= H /\ timer'[r] \in Int
    BY <1>1, <1>4
  <2> QED
    BY <1>1, <1>4, <2>1, <2>2
<1>5. ASSUME NEW p \in Peers, StartLoop(p) \/ Round(p)
      PROVE  Kept(r)
  <2>1. Rewind(p)
    BY <1>5 DEF StartLoop, Round
  <2>2. CASE IsLost(p)
    <3>1. index'.seen[r] = index.seen[r]
      BY <2>2 DEF IsLost, vars
    <3>2. CASE r # p
      BY <1>1, <1>3, <2>1, <2>2, <3>1, <3>2 DEF Rewind, IsLost
    <3>3. CASE r = p /\ quiet'[r] < TooQuiet
      <4>1. quiet[r] = 0 /\ quiet'[r] = 1 /\ timer'[r] = H
        BY <1>1, <2>1, <2>2, <3>3 DEF Rewind, IsLost
      <4>2. Round(p)
        BY <1>1, <1>5, <3>3, <4>1 DEF TimingInv, StoppedIsQuiet, StartLoop
      <4>3. timer[r] = 0
        BY <3>3, <4>2 DEF Round
      <4> QED
        BY <1>1, <1>2, <3>1, <4>1, <4>3 DEF HeardInTime, Listed
    <3> QED
      BY <3>2, <3>3
  <2>3. CASE ~IsLost(p)
    <3>1. /\ GetsThrough(p)
          /\ RegisterSomething(p) \/ (p \in Listed(index) /\ Heartbeat(p))
      BY <1>5, <2>3 DEF StartLoop, Round
    <3>2. CASE r = p
      BY <1>1, <1>4, <2>1, <3>1, <3>2, ReportRenews DEF Rewind, GetsThrough
    <3>3. CASE r # p
      <4>1. index'.seen[r] = index.seen[r]
        BY <3>1, <3>3, RequestAges
      <4> QED
        BY <1>1, <1>3, <2>1, <3>1, <3>3, <4>1 DEF Rewind, GetsThrough
    <3> QED
      BY <3>2, <3>3
  <2> QED
    BY <2>2, <2>3
<1>6. ASSUME NEW p \in Peers, StopLoop(p)
      PROVE  Kept(r)
  <2>1. index'.seen[r] = index.seen[r]
    BY <1>6 DEF StopLoop, vars
  <2> QED
    BY <1>1, <1>3, <1>6, <2>1 DEF StopLoop
<1>7. ASSUME NEW p \in Peers, OtherRequest(p)
      PROVE  Kept(r)
  <2>1. timer' = timer /\ quiet' = quiet
    BY <1>7 DEF OtherRequest
  <2>2. index'.seen[r] = index.seen[r] \/ index'.seen[r] = 0
    BY <1>7, RequestAges
  <2> QED
    BY <1>1, <1>2, <1>3, <1>4, <2>1, <2>2
<1>8. CASE TimeStep
  <2>1. timer[r] # 0 /\ quiet' = quiet
        /\ timer'[r] = IF timer[r] = Stopped THEN Stopped ELSE timer[r] - 1
    BY <1>8 DEF TimeStep
  <2>2. index'.seen[r] = Older(index.seen[r])
    BY <1>8 DEF TimeStep, Tick, Elapse
  <2>3. r \in Listed(index') =>
           r \in Listed(index) /\ index'.seen[r] <= index.seen[r] + 1 /\ index'.seen[r] \in Int
    BY <1>1, <1>2, <2>2 DEF Listed, Older
  <2> QED
    BY <1>1, <1>2, <2>1, <2>3 DEF HeardInTime
<1>9. CASE TimelySweep
  <2>1. timer' = timer /\ quiet' = quiet
    BY <1>9 DEF TimelySweep
  <2>2. index'.seen[r] = index.seen[r] \/ r \notin Listed(index')
    BY <1>9 DEF TimelySweep, Sweep, Prune, Listed
  <2> QED
    BY <1>3, <2>1, <2>2
<1>10. CASE PrimaryRestart
  BY <1>10 DEF PrimaryRestart, Restart, EmptyIndex, Listed
<1>11. CASE UNCHANGED tvars
  BY <1>3, <1>11 DEF tvars, vars
<1> QED
  BY <1>5, <1>6, <1>7, <1>8, <1>9, <1>10, <1>11 DEF TimingNext

(* A stopped loop is quiet until a registration gets through.              *)
LEMMA NextQuiet == TimingInv /\ [TimingNext]_tvars => StoppedIsQuiet'
<1> SUFFICES ASSUME TimingInv, [TimingNext]_tvars, NEW r \in Peers, timer'[r] = Stopped
             PROVE  quiet'[r] = TooQuiet
  BY DEF StoppedIsQuiet
<1>1. /\ timer \in [Peers -> {Stopped} \cup 0 .. HeartbeatPeriod]
      /\ quiet \in [Peers -> 0 .. TooQuiet]
      /\ HeartbeatPeriod \in Nat \ {0} /\ Stopped = -1 /\ TooQuiet = 2
      /\ (timer[r] = Stopped => quiet[r] = TooQuiet)
  BY TimingFacts DEF TimingInv, StoppedIsQuiet
<1>2. ASSUME NEW p \in Peers, Rewind(p), GetsThrough(p) \/ IsLost(p)
      PROVE  quiet'[r] = TooQuiet
  BY <1>1, <1>2 DEF Rewind, GetsThrough, IsLost
<1>3. ASSUME NEW p \in Peers, StopLoop(p)
      PROVE  quiet'[r] = TooQuiet
  BY <1>1, <1>3 DEF StopLoop
<1>4. CASE TimeStep
  BY <1>1, <1>4 DEF TimeStep
<1>5. CASE UNCHANGED <<timer, quiet>>
  BY <1>1, <1>5
<1> QED
  BY <1>2, <1>3, <1>4, <1>5
  DEF TimingNext, StartLoop, Round, OtherRequest, TimelySweep, PrimaryRestart, tvars

(* The invariant holds at all times.                                       *)
LEMMA AlwaysTimed ==
    ASSUME Stamps = {0}
    PROVE  TimingSpec => []TimingInv
<1>1. TimingInv /\ [TimingNext]_tvars => TimingInv'
  <2>1. TimingInv /\ [TimingNext]_tvars => Sound'
    BY TimingStepIsStep, NextSound DEF TimingInv
  <2> QED
    BY <2>1, NextTimingTypes, NextHeard, NextQuiet DEF TimingInv
<1> QED
  BY <1>1, InitTiming, PTL DEF TimingSpec

-----------------------------------------------------------------------------
(* The theorems.                                                           *)

(* The primary, the tickers and the counts of lost rounds keep their types *)
(* (client.go:128-155).                                                    *)
THEOREM TimingTypeCorrect == TimingSpec => []TimingTypeOK
<1>1. TimingInit => Sound /\ TimingTypeOK
  BY InitTiming DEF TimingInv
<1>2. Sound /\ TimingTypeOK /\ [TimingNext]_tvars => (Sound /\ TimingTypeOK)'
  BY TimingStepIsStep, NextSound, NextTimingTypes
<1> QED
  BY <1>1, <1>2, PTL DEF TimingSpec

(* A peer whose loop runs is not pruned, even if its last round was lost,  *)
(* wherever its ticker and the server's stand to each other                *)
(* (client.go:137-138, server.go:62, 75-90).                               *)
THEOREM LivePeersAreKept ==
    ASSUME TwoRoundsFit
    PROVE  TimingSpec => LivePeersKept
<1> DEFINE Keeps ==
             Sweep => \A p \in Peers :
                timer[p] # Stopped /\ quiet[p] < TooQuiet /\ p \in Listed(index)
                    => p \in Listed(index')
<1>1. TimingInv => Keeps
  <2> SUFFICES ASSUME TimingInv, Sweep, NEW p \in Peers,
                      timer[p] # Stopped, quiet[p] < TooQuiet, p \in Listed(index)
               PROVE  p \in Listed(index')
    OBVIOUS
  <2>1. /\ timer[p] \in 0 .. HeartbeatPeriod /\ quiet[p] \in {0, 1}
        /\ index.seen[p] \in Ages
        /\ index.seen[p] + timer[p] <= (quiet[p] + 1) * HeartbeatPeriod
    BY TimingFacts DEF HeardInTime, Listed
  <2>2. index.seen[p] <= 2 * HeartbeatPeriod
    BY <2>1, TimingFacts, IndexAssumption DEF Ages
  <2>3. p \notin StalePeers(index)
    BY <2>1, <2>2, TimingFacts, IndexAssumption DEF StalePeers, TwoRoundsFit, Ages
  <2> QED
    BY <2>3 DEF Sweep, Prune, Listed
<1>2. TimingSpec => [][Keeps]_tvars
  <2>1. TimingSpec => []TimingInv
    BY AlwaysTimed DEF TwoRoundsFit
  <2> HIDE DEF Keeps
  <2> QED
    BY <1>1, <2>1, PTL
<1> QED
  BY <1>2 DEF LivePeersKept
=============================================================================
