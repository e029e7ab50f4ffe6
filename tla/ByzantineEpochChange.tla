------------------------ MODULE ByzantineEpochChange ------------------------
(***************************************************************************)
(* The rotating leader detector of election/byzantine.go and the epoch       *)
(* changer of consensus/failnoisy/byzantine/epoch_change.go that subscribes  *)
(* to it.                                                                   *)
(*                                                                         *)
(* Complaints and NEWEPOCH messages are handled in goroutines of their own:   *)
(* in any order.  So are the calls of OnNewLeader, made after the detector's *)
(* mutex is released.  Faulty processes may send anything to anybody.        *)
(***************************************************************************)
EXTENDS Integers, FiniteSets, Sequences

CONSTANTS
    Ranking,    \* the processes by rank
    Correct,    \* the processes that follow the protocol
    Faults,     \* faults
    MaxRound,   \* bound: the last round of a detector
    MaxEpoch,   \* bound: the last epoch that is asked for
    None        \* the zero process id

Members == {Ranking[i] : i \in DOMAIN Ranking}
N == Len(Ranking)
Rounds == 1 .. MaxRound

VARIABLES
    round, complains, complained,   \* the detector of each process
    notices,    \* rounds whose OnNewLeader is under way
    changer,    \* lastEpoch, nextEpoch, trusted and newEpoches of each process
    complaints, newEpochMsgs,       \* <<sender, number>> of messages sent
    lost,       \* messages a process has ignored because they came early
    complainers \* history: correct processes that complained by themselves

detector == <<round, complains, complained, notices>>
vars == <<detector, changer, complaints, newEpochMsgs, lost, complainers>>

\* selectLeader, CalcLeader
Leader(ts) == Ranking[((ts - 1) % N) + 1]

Init ==
    /\ round = [p \in Correct |-> 1]
    /\ complains = [p \in Correct |-> {}]
    /\ complained = [p \in Correct |-> FALSE]
    /\ notices = [p \in Correct |-> {1}]
    /\ changer = [p \in Correct |-> [lastEpoch |-> 1, nextEpoch |-> 1,
                                     trusted |-> None, newEpoches |-> {}]]
    /\ complaints = {} /\ newEpochMsgs = {}
    /\ lost = [p \in Correct |-> {}]
    /\ complainers = {}

-----------------------------------------------------------------------------
(* The detector *)

\* OnComplain about the current leader.
OnComplain(p) ==
    /\ ~complained[p]
    /\ round[p] < MaxRound
    /\ complained' = [complained EXCEPT ![p] = TRUE]
    /\ complaints' = complaints \cup {<<p, round[p]>>}
    /\ complainers' = complainers \cup {p}
    /\ UNCHANGED <<round, complains, notices, changer, newEpochMsgs, lost>>

\* More complaints than this make a process join, and leave the round (a mutant: one
\* fewer to join).
ComplainJoinFewer == Faults - 1
ComplainJoin == Faults
ComplainQuorum == 2 * Faults

\* A complaint or NEWEPOCH that comes before its time is ignored, for good.
Lose(p, kind, m) ==
    /\ <<kind, m>> \notin lost[p]
    /\ lost' = [lost EXCEPT ![p] = @ \cup {<<kind, m>>}]
    /\ UNCHANGED <<detector, changer, complaints, newEpochMsgs, complainers>>

\* handleComplaint of a later round.  One of an earlier round does nothing.
LoseComplaint(p, m) == m[2] > round[p] /\ Lose(p, "complain", m)

\* handleComplaint of the current round.
HandleComplaint(p, m) ==
    /\ m[2] = round[p]
    /\ m[1] \notin complains[p] /\ <<"complain", m>> \notin lost[p]
    /\ LET got == complains[p] \cup {m[1]} IN
        \/ /\ Cardinality(got) > ComplainJoin /\ ~complained[p]
           /\ complains' = [complains EXCEPT ![p] = got]
           /\ complained' = [complained EXCEPT ![p] = TRUE]
           /\ complaints' = complaints \cup {<<p, round[p]>>}
           /\ UNCHANGED <<round, notices>>
        \/ /\ complained[p] \/ Cardinality(got) <= ComplainJoin
           /\ Cardinality(got) <= ComplainQuorum
           /\ complains' = [complains EXCEPT ![p] = got]
           /\ UNCHANGED <<round, complained, notices, complaints>>
        \/ /\ complained[p] /\ Cardinality(got) > ComplainQuorum
           /\ round[p] < MaxRound
           /\ round' = [round EXCEPT ![p] = @ + 1]
           /\ complains' = [complains EXCEPT ![p] = {}]
           /\ complained' = [complained EXCEPT ![p] = FALSE]
           /\ notices' = [notices EXCEPT ![p] = @ \cup {round'[p]}]
           /\ UNCHANGED complaints
    /\ UNCHANGED <<changer, newEpochMsgs, lost, complainers>>

-----------------------------------------------------------------------------
(* The epoch changer: its goroutine's state is the record c *)

\* More NEWEPOCHs than this make a process join, and start the epoch (a mutant: as
\* many as to join).
NewEpochJoin == Faults
NewEpochQuorumJoin == Faults
NewEpochQuorum == 2 * Faults

CheckComplaint(c) ==
    IF c.nextEpoch = c.lastEpoch /\ c.trusted # Leader(c.lastEpoch)
    THEN [c EXCEPT !.nextEpoch = c.lastEpoch + 1] ELSE c

CheckQuorums(c) ==
    LET count == Cardinality(c.newEpoches)
        joined == IF count > NewEpochJoin /\ c.nextEpoch = c.lastEpoch
                  THEN [c EXCEPT !.nextEpoch = c.lastEpoch + 1] ELSE c
    IN  IF count > NewEpochQuorum /\ joined.nextEpoch > joined.lastEpoch
        THEN [joined EXCEPT !.lastEpoch = joined.nextEpoch, !.newEpoches = {}]
        ELSE joined

\* What background does after each event.
Settle(c) == CheckQuorums(CheckComplaint(c))

\* The process goes on as c2; what it has joined by then it has broadcast.
Become(p, c2) ==
    /\ c2.nextEpoch <= MaxEpoch
    /\ changer' = [changer EXCEPT ![p] = c2]
    /\ newEpochMsgs' = newEpochMsgs \cup
           {<<p, e>> : e \in (changer[p].nextEpoch + 1) .. c2.nextEpoch}

\* OnNewLeader and background's handling of it; the first leader is in the
\* channel since Init.
NewTrust(p, r) ==
    /\ r \in notices[p]
    /\ 1 \in notices[p] => r = 1
    /\ notices' = [notices EXCEPT ![p] = @ \ {r}]
    /\ Become(p, Settle([changer[p] EXCEPT !.trusted = Leader(r)]))
    /\ UNCHANGED <<round, complains, complained, complaints, lost, complainers>>

\* background's handling of a NEWEPOCH that is not for the next epoch.
LoseNewEpoch(p, m) == m[2] > changer[p].lastEpoch + 1 /\ Lose(p, "newepoch", m)

\* background's handling of a NEWEPOCH for the next epoch.
HandleNewEpoch(p, m) ==
    /\ m[2] = changer[p].lastEpoch + 1
    /\ m[1] \notin changer[p].newEpoches /\ <<"newepoch", m>> \notin lost[p]
    /\ Become(p, Settle(CheckQuorums([changer[p] EXCEPT !.newEpoches = @ \cup {m[1]}])))
    /\ UNCHANGED <<detector, complaints, lost, complainers>>

-----------------------------------------------------------------------------

FaultyMsgs == (Members \ Correct) \X (1 .. MaxEpoch)

DetectorNext ==
    \E p \in Correct :
        \/ OnComplain(p)
        \/ \E m \in complaints \cup FaultyMsgs : HandleComplaint(p, m)
        \/ \E m \in complaints : LoseComplaint(p, m)

ChangerNext ==
    \E p \in Correct :
        \/ \E r \in notices[p] : NewTrust(p, r)
        \/ \E m \in newEpochMsgs \cup FaultyMsgs : HandleNewEpoch(p, m)
        \/ \E m \in newEpochMsgs : LoseNewEpoch(p, m)

Next == DetectorNext \/ ChangerNext

Spec == Init /\ [][Next]_vars

\* The changers alone, with detectors that may rotate at any time: with
\* DetectorNext, for larger instances of each.
Rotate(p) ==
    /\ round[p] < MaxRound
    /\ round' = [round EXCEPT ![p] = @ + 1]
    /\ notices' = [notices EXCEPT ![p] = @ \cup {round'[p]}]
    /\ UNCHANGED <<complains, complained, changer, complaints, newEpochMsgs, lost, complainers>>

RotatedNext == ChangerNext \/ \E p \in Correct : Rotate(p)

-----------------------------------------------------------------------------
(* Properties *)

\* The faulty processes cannot change the leader alone: as long as no correct
\* process has complained, all stay with the first leader (handleComplaint).
NoRoundWithoutCorrect == complainers = {} => \A p \in Correct : round[p] = 1

\* Nor the epoch: as long as no detector has moved on, nobody leaves the first
\* epoch; the changer picks up the first leader when it is started and does not
\* take a leader it has not learnt yet for a wrong one (Init, checkComplaint).
\* Without faulty processes there is nobody to hurry it.
NoEpochWithoutCorrect ==
    (\A p \in Correct : round[p] = 1) => \A p \in Correct : changer[p].lastEpoch = 1

\* A correct process that starts an epoch leaves behind f + 1 correct ones that
\* ask for it, enough to make all the others ask too (checkQuorums).
EpochHasSupport ==
    \A p \in Correct, e \in 2 .. MaxEpoch :
        changer[p].lastEpoch >= e =>
            Cardinality({q \in Correct : <<q, e>> \in newEpochMsgs}) > Faults

\* The detector's twin: a round is left only with f + 1 correct complaints.
RoundHasSupport ==
    \A p \in Correct, r \in Rounds :
        round[p] > r =>
            Cardinality({q \in Correct : <<q, r>> \in complaints}) > Faults

=============================================================================
