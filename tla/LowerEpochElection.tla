------------------------ MODULE LowerEpochElection -------------------------
(***************************************************************************)
(* LowerEpochElection of election/lower_epoch.go at every process: in each   *)
(* round a process elects, among those whose heartbeats it has heard, the    *)
(* one with the lowest epoch, and waits longer after every change.          *)
(*                                                                         *)
(* Processes crash and start again; only the storage survives.  Heartbeats   *)
(* can be lost or late while the delay of the receiver is below StableDelay; *)
(* with that delay a round is long enough to hear every live process.        *)
(***************************************************************************)
EXTENDS Integers, FiniteSets

CONSTANTS
    Procs,          \* numbers; ranks are the numbers
    StableDelay,    \* bound: a delay, in units of delayDelta, that is enough
    MayCrash,       \* bound: the processes that crash
    MaxCrashes      \* bound: the number of crashes

VARIABLES
    up,         \* the processes that run
    stored,     \* the epoch in the storage, 0 if none
    epoch,      \* e.epoch
    leader,     \* e.leader
    candidates, \* e.candidates: the epoch heard from each process, 0 if none
    delay,      \* e.delay, in units of delayDelta
    awaited,    \* the processes the current round is long enough to hear
    inflight,   \* the newest heartbeat on its way, by receiver and sender
    crashes     \* the number of crashes so far

vars == <<up, stored, epoch, leader, candidates, delay, awaited, inflight, crashes>>

Nobody == [q \in Procs |-> 0]
Lowest(S) == CHOOSE p \in S : \A q \in S : p <= q

Init ==
    /\ up = {}
    /\ stored = [p \in Procs |-> 0]
    /\ epoch = [p \in Procs |-> 0]
    /\ leader = [p \in Procs |-> p]
    /\ candidates = [p \in Procs |-> Nobody]
    /\ delay = [p \in Procs |-> 0]
    /\ awaited = [p \in Procs |-> {}]
    /\ inflight = [p \in Procs |-> Nobody]
    /\ crashes = 0

\* sendEpochHeartbeat of p with epoch ep: its own arrives at once.
SendHeartbeat(p, ep) ==
    inflight' = [q \in Procs |-> IF q \in up' /\ q # p
                                 THEN [inflight[q] EXCEPT ![p] = ep] ELSE inflight[q]]

\* What Start leaves in the storage before Recovery reads it.
StoredAtStart(p) == 0

\* Start with Recovery and the first heartbeat of background.
Start(p) ==
    /\ p \notin up
    /\ up' = up \cup {p}
    /\ LET ep == StoredAtStart(p) + 1 IN
        /\ stored' = [stored EXCEPT ![p] = ep]
        /\ epoch' = [epoch EXCEPT ![p] = ep]
        /\ candidates' = [candidates EXCEPT ![p] = [Nobody EXCEPT ![p] = ep]]
        /\ SendHeartbeat(p, ep)
    /\ leader' = [leader EXCEPT ![p] = Lowest(Procs)]
    /\ delay' = [delay EXCEPT ![p] = 1]
    /\ UNCHANGED <<awaited, crashes>>

\* selectMinEpochLeader
SelectMinEpochLeader(p, c) ==
    LET heard == {q \in Procs : c[q] # 0} IN
        IF heard = {} THEN p
        ELSE Lowest({q \in heard : \A r \in heard : c[q] <= c[r]})

\* (A mutant: candidates are not cleared for the next round.)
TryElectionKeepsCandidates(p) ==
    /\ p \in up
    /\ awaited[p] = {}
    /\ leader' = [leader EXCEPT ![p] = SelectMinEpochLeader(p, candidates[p])]
    /\ delay' = IF leader' # leader /\ delay[p] < StableDelay
                THEN [delay EXCEPT ![p] = @ + 1] ELSE delay
    /\ awaited' = [awaited EXCEPT ![p] = IF delay'[p] = StableDelay THEN up \ {p} ELSE {}]
    /\ UNCHANGED <<up, stored, epoch, candidates, crashes>>
    /\ SendHeartbeat(p, epoch[p])

\* tryElection
TryElection(p) ==
    /\ p \in up
    /\ awaited[p] = {}
    /\ LET new == SelectMinEpochLeader(p, candidates[p])
           longer == new # leader[p] \/ candidates[p] = Nobody IN
        /\ leader' = [leader EXCEPT ![p] = new]
        /\ delay' = IF longer /\ delay[p] < StableDelay
                    THEN [delay EXCEPT ![p] = @ + 1] ELSE delay
    /\ candidates' = [candidates EXCEPT ![p] = [Nobody EXCEPT ![p] = epoch[p]]]
    /\ awaited' = [awaited EXCEPT ![p] = IF delay'[p] = StableDelay THEN up \ {p} ELSE {}]
    /\ UNCHANGED <<up, stored, epoch, crashes>>
    /\ SendHeartbeat(p, epoch[p])

\* handleHeartbeat: the highest epoch heard from a process counts.
Deliver(p, q) ==
    /\ p \in up
    /\ inflight[p][q] # 0
    /\ inflight' = [inflight EXCEPT ![p][q] = 0]
    /\ candidates' = IF candidates[p][q] >= inflight[p][q] THEN candidates
                     ELSE [candidates EXCEPT ![p][q] = inflight[p][q]]
    /\ awaited' = [awaited EXCEPT ![p] = @ \ {q}]
    /\ UNCHANGED <<up, stored, epoch, leader, delay, crashes>>

Lose(p, q) ==
    /\ delay[p] < StableDelay
    /\ inflight[p][q] # 0
    /\ inflight' = [inflight EXCEPT ![p][q] = 0]
    /\ UNCHANGED <<up, stored, epoch, leader, candidates, delay, awaited, crashes>>

\* Everything but the storage is gone.
Crash(p) ==
    /\ p \in up \cap MayCrash
    /\ crashes < MaxCrashes
    /\ crashes' = crashes + 1
    /\ up' = up \ {p}
    /\ inflight' = [inflight EXCEPT ![p] = Nobody]
    /\ awaited' = [q \in Procs |-> IF q = p THEN {} ELSE awaited[q] \ {p}]
    /\ UNCHANGED <<stored, epoch, leader, candidates, delay>>

Next ==
    \E p \in Procs :
        \/ Start(p) \/ TryElection(p) \/ Crash(p)
        \/ \E q \in Procs : Deliver(p, q) \/ Lose(p, q)

\* Timers fire again and again; a heartbeat sent again and again arrives.
Fairness ==
    \A p \in Procs :
        /\ WF_vars(TryElection(p))
        /\ \A q \in Procs \ {p} : SF_vars(Deliver(p, q))

Spec == Init /\ [][Next]_vars /\ Fairness

-----------------------------------------------------------------------------
(* Properties *)

\* All live processes trust the same live process, the one of the lowest epoch
\* and rank.  When crashes are over they do in the end, although heartbeats were
\* lost, came late or come from a process that has crashed since (tryElection,
\* selectMinEpochLeader, handleHeartbeat).
LeaderAgreed ==
    \A p \in up : leader[p] = SelectMinEpochLeader(p, [q \in Procs |->
                                    IF q \in up THEN epoch[q] ELSE 0])

=============================================================================
