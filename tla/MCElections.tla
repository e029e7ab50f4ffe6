---------------------------- MODULE MCElections -----------------------------
(***************************************************************************)
(* Instances of the leader elections for TLC: the monarchical election over   *)
(* the perfect failure detector, with a timer that is long enough            *)
(* ("synchronous") or not ("asynchronous"), and the lower epoch election     *)
(* ("lower epoch").  The variable system says which of them a behaviour is    *)
(* about; the variables of the other stay as they are in the beginning.      *)
(***************************************************************************)
EXTENDS Integers

CONSTANTS
    Systems,        \* the systems of the run
    Procs,          \* the processes of the synchronous system
    Observers,
    SyncCrashes,    \* bound: the number of its crashes
    MaxCrashes,     \* and of those of the others
    StableDelay,
    None

ASSUME ObserversAssumption == Observers \subseteq Procs

VARIABLES
    system,
    crashed, alive, detected, requests, responses, reports, suspected, leader,
    up, stored, epoch, elected, candidates, delay, awaited, inflight, crashes

detectionVars == <<crashed, alive, detected, requests, responses, reports, suspected, leader>>
lowerVars == <<up, stored, epoch, elected, candidates, delay, awaited, inflight, crashes>>
vars == <<system, detectionVars, lowerVars>>

Pair == 1 .. 2

Sync == INSTANCE FailureDetection WITH MaxCrashes <- SyncCrashes, Synchronous <- TRUE
Async == INSTANCE FailureDetection WITH Procs <- Pair, Observers <- Pair, Synchronous <- FALSE
Lower == INSTANCE LowerEpochElection WITH MayCrash <- {1}, leader <- elected

Init ==
    /\ system \in Systems
    /\ IF system = "asynchronous" THEN Async!Init ELSE Sync!Init
    /\ Lower!Init

Synchronously(A) == system = "synchronous" /\ A /\ UNCHANGED <<system, lowerVars>>
Asynchronously(A) == system = "asynchronous" /\ A /\ UNCHANGED <<system, lowerVars>>
InLower(A) == system = "lower epoch" /\ A /\ UNCHANGED <<system, detectionVars>>

Next == Synchronously(Sync!Next) \/ Asynchronously(Async!Next) \/ InLower(Lower!Next)

\* The fairness of the three systems.  A behaviour is about one of them, so one
\* condition serves an action of each.
Fairness ==
    \A p \in Procs :
        /\ WF_vars(\/ Synchronously(p \in Observers /\ Sync!TryElection(p))
                   \/ Asynchronously(p \in Pair /\ Async!TryElection(p))
                   \/ InLower(Lower!TryElection(p)))
        /\ WF_vars(\/ Synchronously(p \in Observers /\ Sync!Background(p))
                   \/ Asynchronously(p \in Pair /\ Async!Background(p)))
        /\ WF_vars(\/ Synchronously(p \in Observers /\ \E q \in Procs : Sync!Answer(q, p))
                   \/ Asynchronously(p \in Pair /\ \E q \in Pair : Async!Answer(q, p)))
        /\ \A q \in Procs \ {p} :
            SF_vars(\/ Synchronously(p \in Observers /\ Sync!ReceiveAnswer(p, q))
                    \/ Asynchronously(p \in Pair /\ q \in Pair /\ Async!ReceiveAnswer(p, q))
                    \/ InLower(Lower!Deliver(p, q)))

Spec == Init /\ [][Next]_vars /\ Fairness

-----------------------------------------------------------------------------
(* Properties *)

\* With a timer that is long enough no live process is suspected (detect).
StrongAccuracy == system = "synchronous" => Sync!StrongAccuracy

\* In the end every live process suspects the crashed ones, whether the timer of
\* the detector is long enough or not (detect), and all live processes of an
\* election with enough time trust the same live process (tryElection of both
\* elections, OnCrash, handleHeartbeat).
EventualLeader ==
    <>[](CASE system = "synchronous" -> Sync!CrashesKnown /\ Sync!LeaderAgreed
           [] system = "asynchronous" -> Async!CrashesKnown
           [] system = "lower epoch" -> Lower!LeaderAgreed)

=============================================================================
