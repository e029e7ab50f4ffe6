-------------------------- MODULE FailureDetection --------------------------
(***************************************************************************)
(* The perfect failure detector (failure/pfd.go) and the monarchical         *)
(* election above it (election/monarchical.go) at every process.            *)
(*                                                                         *)
(* Heartbeats of different rounds are not told apart: reqId is never read,   *)
(* so a late answer counts in the round in which it arrives.  The detector   *)
(* is perfect only if its interval is longer than a round trip: Synchronous. *)
(***************************************************************************)
EXTENDS Integers, FiniteSets

CONSTANTS
    Procs,          \* processes, numbered; a higher number is a higher rank
    Observers,      \* bound: the processes whose detectors and elections run
    Synchronous,    \* the timer never fires before the answers of the round
    MaxCrashes,     \* bound: the number of crashes
    None            \* no leader yet

VARIABLES
    crashed,    \* the processes that have stopped (Crash of the detector)
    alive,      \* pfd.alive
    detected,   \* pfd.detected
    requests,   \* heartbeat requests on their way, by the process that asks
    responses,  \* answers on their way, by the process that asked
    reports,    \* crashes detect has yet to report with OnCrash
    suspected,  \* e.suspected of the election
    leader      \* e.leader

detectorVars == <<alive, detected, requests, responses, reports>>
electionVars == <<suspected, leader>>
vars == <<crashed, detectorVars, electionVars>>

Highest(S) == CHOOSE p \in S : \A q \in S : p >= q

\* newPerfectFailureDetector: everybody counts as alive in the first
\* round (a mutant: nobody does).
FirstAliveNobody == {}
FirstAlive == Procs

Init ==
    /\ crashed = {}
    /\ alive = [p \in Procs |-> FirstAlive]
    /\ detected = [p \in Procs |-> {}]
    /\ requests = [p \in Procs |-> {}]
    /\ responses = [p \in Procs |-> {}]
    /\ reports = [p \in Procs |-> {}]
    /\ suspected = [p \in Procs |-> {}]
    /\ leader = [p \in Procs |-> None]

\* The timer of the round has run out.
TimerFires(p) ==
    Synchronous => (requests[p] \cup responses[p]) \ crashed = {}

\* The processes detect finds missing and has not reported before.
Missing(p) == Procs \ (alive[p] \cup detected[p] \cup {p})

\* detect up to the requests it sends; the one to itself is answered at once.
Detect(p) ==
    /\ p \notin crashed
    /\ reports[p] = {}
    /\ TimerFires(p)
    /\ detected' = [detected EXCEPT ![p] = @ \cup Missing(p)]
    /\ reports' = [reports EXCEPT ![p] = Missing(p)]
    /\ alive' = [alive EXCEPT ![p] = {p}]
    /\ requests' = [requests EXCEPT ![p] = @ \cup (Procs \ {p})]
    /\ UNCHANGED <<crashed, responses, electionVars>>

\* The end of detect: OnCrash of the election.
Report(p, q) ==
    /\ p \notin crashed
    /\ q \in reports[p]
    /\ reports' = [reports EXCEPT ![p] = @ \ {q}]
    /\ suspected' = [suspected EXCEPT ![p] = @ \cup {q}]
    /\ UNCHANGED <<crashed, alive, detected, requests, responses, leader>>

\* Deliver of a HeartbeatRequestMessage of p at q.
Answer(q, p) ==
    /\ q \notin crashed
    /\ q \in requests[p]
    /\ requests' = [requests EXCEPT ![p] = @ \ {q}]
    /\ responses' = [responses EXCEPT ![p] = @ \cup {q}]
    /\ UNCHANGED <<crashed, alive, detected, reports, electionVars>>

\* Deliver of a HeartbeatResponseMessage of q at p.
ReceiveAnswer(p, q) ==
    /\ p \notin crashed
    /\ q \in responses[p]
    /\ responses' = [responses EXCEPT ![p] = @ \ {q}]
    /\ alive' = [alive EXCEPT ![p] = @ \cup {q}]
    /\ UNCHANGED <<crashed, detected, requests, reports, electionVars>>

\* tryElection, from Start or from the ticker.  The receivers are told in
\* goroutines of their own (EpochChange lets them be told in any order).
TryElection(p) ==
    /\ p \notin crashed
    /\ Procs \ suspected[p] # {}
    /\ LET max == Highest(Procs \ suspected[p]) IN
        /\ max # leader[p]
        /\ leader' = [leader EXCEPT ![p] = max]
    /\ UNCHANGED <<crashed, detectorVars, suspected>>

Crash(p) ==
    /\ p \notin crashed
    /\ Cardinality(crashed) < MaxCrashes
    /\ crashed' = crashed \cup {p}
    /\ UNCHANGED <<detectorVars, electionVars>>

\* The detector's goroutine: a round, and the reports that end it.
Background(p) == Detect(p) \/ \E q \in Procs : Report(p, q)

Next ==
    \/ \E p \in Observers :
        \/ Background(p) \/ TryElection(p)
        \/ \E q \in Procs : Answer(q, p) \/ ReceiveAnswer(p, q)
    \/ \E p \in Procs : Crash(p)

\* Timers fire again and again, goroutines run, and heartbeats arrive.
Fairness ==
    \A p \in Observers :
        /\ WF_vars(TryElection(p))
        /\ WF_vars(Background(p))
        /\ WF_vars(\E q \in Procs : Answer(q, p))
        /\ \A q \in Procs : SF_vars(ReceiveAnswer(p, q))

Spec == Init /\ [][Next]_vars /\ Fairness

-----------------------------------------------------------------------------
(* Properties *)

\* No process is suspected that has not crashed: a round is never closed on a
\* process that has answered it (detect against Deliver).  Needs Synchronous.
StrongAccuracy == \A p \in Procs \ crashed : suspected[p] \subseteq crashed

\* All live processes trust the live process of the highest rank.  In the end
\* they do, however crashes, heartbeats and elections interleave (detect, OnCrash,
\* tryElection).  Needs Synchronous.
LeaderAgreed == \A p \in Observers \ crashed : leader[p] = Highest(Procs \ crashed)

\* Every live process suspects every crashed one.  In the end it does, also when
\* the timer is too short (detect): an old answer delays that by a round.
CrashesKnown == \A p \in Observers \ crashed : crashed \subseteq suspected[p]

=============================================================================
