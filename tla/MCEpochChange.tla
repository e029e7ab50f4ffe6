--------------------------- MODULE MCEpochChange ---------------------------
(***************************************************************************)
(* Instances of the epoch changers for TLC.  The variable system says which   *)
(* of them a behaviour is about; the variables of the other stay as they are  *)
(* in the beginning.                                                       *)
(*                                                                         *)
(*   "leader"     EpochChange; processes are named by their ranks, as in      *)
(*                cmd/consensuses/failnoisy/uniform                         *)
(*   "rotation"   ByzantineEpochChange, correct processes only               *)
(*   "detectors"  its detectors alone, with faulty processes                 *)
(*   "changers"   its changers alone, with faulty processes                  *)
(***************************************************************************)
EXTENDS EpochChange

CONSTANTS
    Systems,    \* the systems of the run
    Peers,      \* the processes of "rotation" by rank, all of them correct
    Ranking,    \* the processes of "detectors" and "changers" by rank
    Correct,    \* those of them that follow the protocol
    Faults,     \* how many they expect to be faulty
    MaxRounds,  \* bound: the last round of a detector in the first two
    MaxEpochs,  \* bound: the last round and epoch in "changers"
    a, b, c, z  \* processes, to make rankings of

Faulty == {Ranking[i] : i \in DOMAIN Ranking} \ Correct

ASSUME RankingAssumption ==
    /\ IsFiniteSet(Correct) /\ IsFiniteSet(Faulty)
    /\ Faults \in Nat /\ Cardinality(Faulty) <= Faults
ASSUME BoundsAssumption == MaxRounds \in Nat /\ MaxEpochs \in Nat

VARIABLES
    system,
    round, complains, complained, notices, changer, complaints, newEpochMsgs, lost, complainers

rotationVars == <<round, complains, complained, notices, changer, complaints, newEpochMsgs,
                  lost, complainers>>
mcVars == <<system, vars, rotationVars>>

MCRank == [p \in Procs |-> p]
MCPeers == <<a, b>>
MCRanking == <<a, b, c, z>>

Rotation == INSTANCE ByzantineEpochChange WITH
    Ranking <- Peers, Correct <- {Peers[i] : i \in DOMAIN Peers}, Faults <- 0,
    MaxRound <- MaxRounds, MaxEpoch <- MaxRounds + 1
Detectors == INSTANCE ByzantineEpochChange WITH
    MaxRound <- MaxRounds, MaxEpoch <- MaxRounds
Changers == INSTANCE ByzantineEpochChange WITH
    MaxRound <- MaxEpochs, MaxEpoch <- MaxEpochs

MCInit ==
    /\ system \in Systems
    /\ Init
    /\ IF system \in {"detectors", "changers"} THEN Changers!Init ELSE Rotation!Init

MCNext ==
    /\ UNCHANGED system
    /\ \/ system = "leader" /\ Next /\ UNCHANGED rotationVars
       \/ /\ UNCHANGED vars
          /\ \/ system = "rotation" /\ Rotation!Next
             \/ system = "detectors" /\ Detectors!DetectorNext
             \/ system = "changers" /\ Changers!RotatedNext

MCSpec == MCInit /\ [][MCNext]_mcVars

-----------------------------------------------------------------------------
(* Properties of the rotation *)

\* Faulty processes alone change neither the leader nor the epoch: rounds need a
\* complaint of a correct process (handleComplaint), epochs need a detector that has
\* moved on; a leader that the changer has not learnt yet is not taken for a wrong
\* one (Init, checkComplaint).
NoChangeWithoutCorrect ==
    /\ system = "detectors" => Detectors!NoRoundWithoutCorrect
    /\ system = "rotation" => Rotation!NoEpochWithoutCorrect

\* A round is left, and an epoch started, only with f + 1 correct processes that
\* ask for it, enough to make all the others join (handleComplaint, checkQuorums).
ChangesSupported ==
    /\ system = "detectors" => Detectors!RoundHasSupport
    /\ system = "changers" => Changers!EpochHasSupport

=============================================================================
