-------------------------- MODULE LeasedDirectory ---------------------------
(***************************************************************************)
(* What the primary promises its clients about versions and write leases,  *)
(* without hosts, heartbeats, sweeps or replication: a directory of        *)
(* versioned files in which a version only grows, and only by the hand of  *)
(* the one peer that has the file locked.  A lock can weaken at any time   *)
(* (its lease runs out), and a file can be forgotten at any time together  *)
(* with its lock (its last host left, or the server was restarted).        *)
(***************************************************************************)
EXTENDS Integers

CONSTANTS Peers, Files, Versions

VARIABLES
    version,    \* the advertised version of each file
    lock        \* who may raise it, and whether others are kept out

dvars == <<version, lock>>

Absent   == -1
Nobody   == 0
Unlocked == [holder |-> Nobody, firm |-> FALSE]
Locks    == [holder : Peers \cup {Nobody}, firm : BOOLEAN]

Init ==
    /\ version = [f \in Files |-> Absent]
    /\ lock = [f \in Files |-> Unlocked]

(* A firm lock keeps the others out; an unknown file appears at version 0. *)
Acquire(p, f) ==
    /\ lock[f].firm => lock[f].holder = p
    /\ lock' = [lock EXCEPT ![f] = [holder |-> p, firm |-> TRUE]]
    /\ version' = [version EXCEPT ![f] = IF @ = Absent THEN 0 ELSE @]

(* Time only ever takes a lock from firm to loose and from loose to none.  *)
Weaker(l) == {l, [holder |-> l.holder, firm |-> FALSE], Unlocked}

Lapse ==
    /\ lock' \in [Files -> Locks]
    /\ \A f \in Files : lock'[f] \in Weaker(lock[f])
    /\ UNCHANGED version

Publish(p, f, v) ==
    /\ version[f] # Absent /\ v > version[f]
    /\ lock[f].holder = p
    /\ version' = [version EXCEPT ![f] = v]
    /\ UNCHANGED lock

(* Files nobody knew are listed, at whatever version they come with.       *)
Enlist(S) ==
    /\ \A f \in S : version[f] = Absent
    /\ version' \in [Files -> Versions \cup {Absent}]
    /\ \A f \in Files : f \notin S => version'[f] = version[f]
    /\ UNCHANGED lock

Forget(S) ==
    /\ version' = [f \in Files |-> IF f \in S THEN Absent ELSE version[f]]
    /\ lock' = [f \in Files |-> IF f \in S THEN Unlocked ELSE lock[f]]

Next ==
    \/ \E p \in Peers, f \in Files : Acquire(p, f)
    \/ \E p \in Peers, f \in Files, v \in Versions : Publish(p, f, v)
    \/ \E S \in SUBSET Files : Enlist(S) \/ Forget(S)
    \/ Lapse

Spec == Init /\ [][Next]_dvars
=============================================================================
