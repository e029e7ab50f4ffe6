------------------------ MODULE MCUniformConsensus ------------------------
(***************************************************************************)
(* Small instances of UniformConsensus for TLC.  The variable scenario says  *)
(* what clients propose and which epochs are announced in a behaviour.       *)
(***************************************************************************)
EXTENDS UniformConsensus

CONSTANT Scenarios      \* the scenarios of the run

VARIABLE scenario

\* Three processes named by their ranks.
MCProcs == 1 .. 3

\* Node.Init: the minimal rank leads epoch 0; LeaderBasedEpochChanger: the
\* timestamps of rank r are r + k * N with k > 0.
MCLeaderOf == [e \in Epochs |-> IF e = 0 THEN 1 ELSE ((e - 1) % 3) + 1]

PerProc(x, y, z) == [p \in MCProcs |-> CASE p = 1 -> x [] p = 2 -> y [] p = 3 -> z]

\* All that happens in one scenario or another.
MCWishes == PerProc({"a"}, {"a", "b"}, {"b"})
MCAnnounced == PerProc({6}, {5}, {5, 6})

\* One node leaves epoch 0, in which the others may decide, for an epoch it leads.
LeavingWishes == PerProc({"a"}, {"b"}, {})
LeavingAnnounced == PerProc({}, {5}, {})
Leaving == INSTANCE UniformConsensus WITH
    Wishes <- LeavingWishes, Announced <- LeavingAnnounced,
    MayStop <- {}

\* Epoch 0 against one later epoch with a quorum: its leader 1 never hears of epoch
\* 5, which nodes 2 and 3 start.
InitialWishes == PerProc({"a"}, {"b"}, {})
InitialAnnounced == PerProc({}, {5}, {5})
Initial == INSTANCE UniformConsensus WITH
    Wishes <- InitialWishes, Announced <- InitialAnnounced,
    MayStop <- {}

\* Two later epochs: epoch 0 is silent, its leader has nothing to propose; the
\* leaders of 5 and 6 propose different values.
LaterWishes == PerProc({}, {"a"}, {"b"})
LaterAnnounced == PerProc({6}, {5}, {5, 6})
Later == INSTANCE UniformConsensus WITH
    Wishes <- LaterWishes, Announced <- LaterAnnounced,
    MayStop <- {}

\* Two announcements at one node, which may stop, that come in any order, before
\* and after its decision.
OvertakingWishes == PerProc({"a"}, {}, {})
OvertakingAnnounced == PerProc({}, {}, {5, 6})
Overtaking == INSTANCE UniformConsensus WITH
    Wishes <- OvertakingWishes, Announced <- OvertakingAnnounced,
    MayStop <- {3}

MCInit == scenario \in Scenarios /\ Init

MCNext ==
    /\ UNCHANGED scenario
    /\ \/ scenario = "leaving" /\ Leaving!Next
       \/ scenario = "initial" /\ Initial!Next
       \/ scenario = "later" /\ Later!Next
       \/ scenario = "overtaking" /\ Overtaking!Next

MCSpec == MCInit /\ [][MCNext]_<<scenario, vars>>

=============================================================================
