-------------------------- MODULE ConsensusSystems --------------------------
(***************************************************************************)
(* The randomized consensus, the coin it uses and the Byzantine consensus,    *)
(* side by side.  The variable system says which of them a behaviour is       *)
(* about; the variables of the others stay as they are in the beginning.     *)
(*                                                                         *)
(*   "pair", "unanimous"  randomized, as the constants Pair and Unanimous say *)
(*   "rounds", "late"     the coin, as the constants Full and Late say       *)
(*   "led"                Byzantine, with faulty processes                   *)
(*   "epochs"             Byzantine, two processes; the first leader's value  *)
(*                        is invalid, so that a second epoch follows          *)
(***************************************************************************)
EXTENDS Integers, FiniteSets

CONSTANTS
    Systems,            \* the systems of the run
    Pair, Unanimous,    \* records: what each process proposes, which of them stop,
                        \* crashFaults and a bound of the rounds
    Full, Late,         \* records: processes, faults, domain, rounds, reveals, and
                        \* the processes that stop
    XORBytes(_, _),
    Correct, Faulty, Faults, LedValues, Proposal, Leader, FaultyStates, Slow,  \* of "led"
    a, b,               \* the processes of "epochs"
    Nil, None

ASSUME VotersAssumption ==
    \A config \in {Pair, Unanimous} :
        LET proposed == {config.proposal[p] : p \in DOMAIN config.proposal} IN
        IsFiniteSet(DOMAIN config.proposal) /\ {Nil, None} \cap proposed = {}
ASSUME NilAssumption == Nil # None

ASSUME FlippersAssumption ==
    \A config \in {Full, Late} :
        IsFiniteSet(config.procs) /\ config.faults \in Nat /\ config.maxTs \in Nat

ASSUME LedAssumption ==
    /\ IsFiniteSet(Correct) /\ IsFiniteSet(Faulty) /\ Correct \cap Faulty = {}
    /\ Faults \in Nat /\ Cardinality(Faulty) <= Faults
    /\ Proposal \in [Correct -> LedValues] /\ None \notin LedValues
    /\ DOMAIN Leader \subseteq Nat

VARIABLES
    system,
    round, phase, proposal, vals, decision, output, phaseMsgs, decideMsgs, taken, flips,
    ts, held, buffered, value, commits, values, pendingReveals, done, passing, evts,
    coinFlips, msgs, delivered,
    epoch, state, inner, stopped, decidedOut, reads, sends, collectedMsgs, writes, accepts,
    complaints

randomizedVars == <<round, phase, proposal, vals, decision, output, phaseMsgs, decideMsgs,
                    taken, flips>>
coinVars == <<ts, held, buffered, value, commits, values, pendingReveals, done, passing, evts,
              coinFlips, msgs, delivered>>
byzantineVars == <<epoch, state, inner, stopped, decidedOut, reads, sends, collectedMsgs,
                   writes, accepts, complaints>>
vars == <<system, randomizedVars, coinVars, byzantineVars>>

Randomized(config) == INSTANCE RandomizedConsensus WITH
    Procs <- DOMAIN config.proposal, Proposal <- config.proposal,
    Stopped <- config.stopped, CrashFaults <- config.crashFaults, MaxRound <- config.rounds

Coin == INSTANCE CommitRevealCoin WITH
    Procs <- Full.procs, Faults <- Full.faults, Domain <- Full.domain,
    MaxTs <- Full.maxTs, MaxReveals <- Full.reveals, Stopped <- Full.stopped,
    flips <- coinFlips
LateCoin == INSTANCE CommitRevealCoin WITH
    Procs <- Late.procs, Faults <- Late.faults, Domain <- Late.domain,
    MaxTs <- Late.maxTs, MaxReveals <- Late.reveals, Stopped <- Late.stopped,
    flips <- coinFlips

Led == INSTANCE ByzantineConsensus WITH
    Values <- LedValues, Invalid <- {}, FaultyValues <- LedValues, Repeats <- FALSE,
    output <- decidedOut
Epochs == INSTANCE ByzantineConsensus WITH
    Correct <- {a, b}, Faulty <- {}, Faults <- 0, Values <- {"v", "x"}, Invalid <- {"x"},
    Proposal <- [p \in {a, b} |-> IF p = a THEN "x" ELSE "v"], Leader <- <<a, b>>,
    FaultyStates <- {}, FaultyValues <- {}, Repeats <- FALSE, Slow <- {},
    output <- decidedOut

Init ==
    /\ system \in Systems
    /\ IF system = "unanimous" THEN Randomized(Unanimous)!Init ELSE Randomized(Pair)!Init
    /\ IF system = "late" THEN LateCoin!Init ELSE Coin!Init
    /\ IF system = "led" THEN Led!Init ELSE Epochs!Init

InRandomized(s, A) == system = s /\ A /\ UNCHANGED <<system, coinVars, byzantineVars>>
InCoin(s, A) == system = s /\ A /\ UNCHANGED <<system, randomizedVars, byzantineVars>>
InByzantine(s, A) == system = s /\ A /\ UNCHANGED <<system, randomizedVars, coinVars>>

Next ==
    \/ InRandomized("pair", Randomized(Pair)!Next)
    \/ InRandomized("unanimous", Randomized(Unanimous)!Next)
    \/ InCoin("rounds", Coin!Next) \/ InCoin("late", LateCoin!Next)
    \/ InByzantine("led", Led!Next) \/ InByzantine("epochs", Epochs!Next)

\* Processes run and handle what they are sent.  It is asked for where something
\* is to happen in the end.
Fairness ==
    /\ \A p \in Full.procs : WF_vars(InCoin("rounds", Coin!Work(p)))
    /\ \A p \in {a, b} : WF_vars(InByzantine("epochs", Epochs!Handle(p)))

Spec == Init /\ [][Next]_vars /\ Fairness

-----------------------------------------------------------------------------
(* Properties *)

C == INSTANCE Consensus WITH
    Decidable <- {Pair.proposal[p] : p \in DOMAIN Pair.proposal} \cup LedValues,
    output <- IF system \in {"led", "epochs"} THEN decidedOut ELSE output

\* Both consensus nodes implement the abstract consensus: they decide once, alike,
\* and what the validator accepts (handleCoin, handleDecided; handleAccept, decide).
ImplementsConsensus == C!Spec

\* Phase-2 votes of a round are for one value (handlePhase1).
Phase2Agree ==
    /\ system = "pair" => Randomized(Pair)!Phase2Agree
    /\ system = "unanimous" => Randomized(Unanimous)!Phase2Agree

\* If all propose the same value then all vote for it, whatever late phase-1
\* messages do to a process that has gone on (handlePhase1, findMajorityValue).
UnanimousVotes == system = "unanimous" => Randomized(Unanimous)!UnanimousVotes

\* Nobody reveals a value before all others have committed theirs of the same
\* round, where none may be missing (onCommit, HandOver).
RevealAfterQuorum == system = "rounds" => Coin!RevealAfterQuorum

\* All get the same coin of a round when none is missing (aggregate).
CommonFlip == system = "rounds" => Coin!CommonFlip

\* Correct processes accept one value in an epoch (handleWrite).
AcceptsAgree == system = "led" => Led!AcceptsAgree

\* In the end every process has the coins of all rounds, and every process has
\* decided if a leader has collected a valid value (Deliver and onReveal of the
\* coin; handleCollected, handleWrite, handleAccept and startEpoch).
Termination ==
    <>[](/\ system = "rounds" => Coin!AllFlipped
         /\ system = "epochs" => Epochs!CollectedDecided)

=============================================================================
