----------------------------- MODULE PeerTiming -----------------------------
(***************************************************************************)
(* The primary and the clocks of its peers' background loops: who reports  *)
(* when, which reports get through, and whom the sweeps remove.  A round   *)
(* of the loop is a heartbeat and the registration that may follow it      *)
(* (client/client.go:128-155).  All other requests come at any time.       *)
(***************************************************************************)
EXTENDS PrimaryServer

CONSTANT HeartbeatPeriod    \* period of heartbeatTicker

ASSUME TimingAssumption == HeartbeatPeriod \in Nat \ {0}

VARIABLES
    timer,  \* time until the ticker of each peer fires, or Stopped
    quiet   \* history: rounds of each peer in a row that did not get through,
            \* up to TooQuiet, which it is until the first one does

tvars == <<vars, timer, quiet>>

Stopped  == -1
TooQuiet == 2

TimingInit ==
    /\ Init
    /\ timer = [p \in Peers |-> Stopped]
    /\ quiet = [p \in Peers |-> TooQuiet]

-----------------------------------------------------------------------------
GetsThrough(p) == quiet' = [quiet EXCEPT ![p] = 0]

IsLost(p) ==
    /\ UNCHANGED vars
    /\ quiet' = [quiet EXCEPT ![p] = IF @ < TooQuiet THEN @ + 1 ELSE @]

Rewind(p) == timer' = [timer EXCEPT ![p] = HeartbeatPeriod]

RegisterSomething(p) == \E cat \in RegisterCatalogues : Register(p, cat)

(* The loop registers before it starts its ticker.                         *)
StartLoop(p) ==
    /\ timer[p] = Stopped
    /\ Rewind(p)
    /\ \/ RegisterSomething(p) /\ GetsThrough(p)
       \/ IsLost(p)

(* A heartbeat that is lost, or answered by a server that does not know    *)
(* the peer, is followed by a registration, which may be lost as well.     *)
Round(p) ==
    /\ timer[p] = 0
    /\ Rewind(p)
    /\ \/ p \in Listed(index) /\ Heartbeat(p) /\ GetsThrough(p)
       \/ RegisterSomething(p) /\ GetsThrough(p)
       \/ IsLost(p)

StopLoop(p) ==
    /\ timer[p] # Stopped
    /\ timer' = [timer EXCEPT ![p] = Stopped]
    /\ quiet' = [quiet EXCEPT ![p] = TooQuiet]
    /\ UNCHANGED vars

(* Commands, and pulls, of a peer.                                         *)
OtherRequest(p) ==
    /\ \E f \in Files :
          \/ \E info \in Infos, stamp \in Stamps : Announce(p, f, info, stamp)
          \/ RequestLease(p, f)
          \/ Delete(p, f)
    /\ UNCHANGED <<timer, quiet>>

(* A ticker that fires is served before time goes on.                      *)
TimeStep ==
    /\ \A p \in Peers : timer[p] # 0
    /\ Tick
    /\ timer' = [p \in Peers |-> IF timer[p] = Stopped THEN Stopped ELSE timer[p] - 1]
    /\ UNCHANGED quiet

TimelySweep == Sweep /\ UNCHANGED <<timer, quiet>>

PrimaryRestart == Restart /\ UNCHANGED <<timer, quiet>>

TimingNext ==
    \/ \E p \in Peers : StartLoop(p) \/ Round(p) \/ StopLoop(p) \/ OtherRequest(p)
    \/ TimeStep
    \/ TimelySweep
    \/ PrimaryRestart

(* Time passes and the tickers, of peers and server, fire; nobody owes     *)
(* anything else, and any round may be lost.                               *)
TimingSpec ==
    /\ TimingInit /\ [][TimingNext]_tvars
    /\ WF_tvars(TimeStep) /\ WF_tvars(TimelySweep)
    /\ \A p \in Peers : WF_tvars(Round(p))

-----------------------------------------------------------------------------
TimingTypeOK ==
    /\ TypeOK
    /\ timer \in [Peers -> {Stopped} \cup 0 .. HeartbeatPeriod]
    /\ quiet \in [Peers -> 0 .. TooQuiet]

(* No sweep removes a peer whose loop runs, even if its last round was     *)
(* lost, wherever the two tickers and the sweep's stand to each other      *)
(* (client.go:137-138, server.go:75-90).                                   *)
LivePeersKept ==
    [][Sweep => \A p \in Peers :
          timer[p] # Stopped /\ quiet[p] < TooQuiet /\ p \in Listed(index)
              => p \in Listed(index')]_tvars
=============================================================================
