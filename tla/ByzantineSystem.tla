-------------------------- MODULE ByzantineSystem --------------------------
(***************************************************************************)
(* What the Byzantine broadcasters of broadcaster/ have in common: one       *)
(* instance of a broadcast, with a sender, among correct and faulty          *)
(* processes, whose handlers may overlap because the links call Deliver from *)
(* many goroutines at once (32 readers for each connection of               *)
(* network/inmem.go, one for each stream of libp2p).                         *)
(***************************************************************************)
EXTENDS Integers, FiniteSets

CONSTANTS
    Correct, Byzantine,
    Faults,         \* b.faults
    Sender,         \* b.sender
    Values,         \* what Inner can hold
    Undecodable,    \* the values registry.Unmarshal refuses
    Readers,        \* bound: handlers that overlap at one process
    None

ASSUME ProcessAssumption ==
    /\ IsFiniteSet(Correct \cup Byzantine)
    /\ Correct \cap Byzantine = {}
    /\ Sender \in Correct \cup Byzantine
ASSUME FaultsAssumption == Faults \in Nat /\ Cardinality(Byzantine) <= Faults
ASSUME ValueAssumption == None \notin Values /\ Undecodable \subseteq Values
ASSUME ReadersAssumption == Readers \in Nat \ {0}

Processes == Correct \cup Byzantine

=============================================================================
