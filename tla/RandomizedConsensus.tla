------------------------ MODULE RandomizedConsensus ------------------------
(***************************************************************************)
(* The randomized consensus of consensus/failsilent/randomized/node.go.      *)
(*                                                                         *)
(* Every event of a node is handled by its background goroutine, one at a    *)
(* time and in any order (each waits for the channel in a goroutine).  A      *)
(* phase message that is early is put into pendingPhase and looked at again  *)
(* later: here it simply has not been handled yet.  A process that crashes   *)
(* is one that takes no more steps, and of whose messages some never arrive. *)
(* The coin gives each process one of the proposals: neither of the coins of  *)
(* consensus/coin gives everybody the same one (module CommitRevealCoin).     *)
(***************************************************************************)
EXTENDS Integers, FiniteSets

CONSTANTS
    Procs,
    Proposal,       \* what each process proposes
    Stopped,        \* bound: the processes that stop once they have proposed
    CrashFaults,    \* n.crashFaults
    MaxRound,       \* bound: the last round of the model
    Nil,            \* a nil proposal
    None            \* no entry, no decision, no flip

Values == {Proposal[p] : p \in Procs}

VARIABLES
    round, phase, proposal, vals, decision,     \* the fields of each Node
    output,     \* what the node has put into its channel decided
    phaseMsgs,  \* phase messages broadcast
    decideMsgs, \* values of the decided messages broadcast
    taken,      \* phase messages a node has used up
    flips       \* the rounds whose coin is on its way to a node

nodeVars == <<round, phase, proposal, vals, decision>>
vars == <<nodeVars, output, phaseMsgs, decideMsgs, taken, flips>>

\* The size of a majority (a mutant: half is enough).
quorumWithoutOne == Cardinality(Procs) \div 2
quorum == Cardinality(Procs) \div 2 + 1
NoVals == [q \in Procs |-> None]
Rounds == 1 .. MaxRound

Init ==
    /\ round = [p \in Procs |-> 0]
    /\ phase = [p \in Procs |-> "init"]
    /\ proposal = [p \in Procs |-> Nil]
    /\ vals = [p \in Procs |-> NoVals]
    /\ decision = [p \in Procs |-> None]
    /\ output = [p \in Procs |-> None]
    /\ phaseMsgs = {} /\ decideMsgs = {}
    /\ taken = [p \in Procs |-> {}]
    /\ flips = [p \in Procs |-> {}]

\* makePhaseMsg; nth is the uuid, which tells a second vote from the first.
PhaseMsg(p, ph, r, v) ==
    [from |-> p, phase |-> ph, round |-> r, proposal |-> v,
     nth |-> Cardinality({m \in phaseMsgs : m.from = p /\ m.phase = ph /\ m.round = r})]

Received(w) == {q \in Procs : w[q] # None}

\* (A mutant: the threshold itself is not enough.)
MajorityValuesStrict(w, threshold) ==
    {v \in Values : Cardinality({q \in Procs : w[q] = v}) > threshold}

\* findMajorityValue: the values that occur at least threshold times.
MajorityValues(w, threshold) ==
    {v \in Values : LET n == Cardinality({q \in Procs : w[q] = v})
                    IN  n >= threshold /\ n > 0}

\* handlePropose; the reliable broadcast of the proposal feeds the coin only.
Propose(p) ==
    /\ phase[p] = "init"
    /\ proposal' = [proposal EXCEPT ![p] = Proposal[p]]
    /\ round' = [round EXCEPT ![p] = 1]
    /\ phase' = [phase EXCEPT ![p] = "phase1"]
    /\ phaseMsgs' = phaseMsgs \cup {PhaseMsg(p, "phase1", 1, Proposal[p])}
    /\ UNCHANGED <<vals, decision, output, decideMsgs, taken, flips>>

\* A phase message of the node's round is handled, or dropped, once.
Take(p, m) ==
    /\ m \in phaseMsgs \ taken[p]
    /\ m.round = round[p]
    /\ taken' = [taken EXCEPT ![p] = @ \cup {m}]
    /\ UNCHANGED <<round, decision, output, decideMsgs>>

\* The phases in which dropOrBuffered lets a phase-1 message through.
Phase1Handled(p) == phase[p] \in {"phase1", "phase0"}

DropPhase1(p, m) ==
    /\ m.phase = "phase1"
    /\ ~Phase1Handled(p)
    /\ Take(p, m)
    /\ UNCHANGED <<phase, proposal, vals, phaseMsgs, flips>>

HandlePhase1(p, m) ==
    /\ m.phase = "phase1"
    /\ Phase1Handled(p)
    /\ Take(p, m)
    /\ LET w == [vals[p] EXCEPT ![m.from] = m.proposal] IN
        \/ /\ decision[p] # None \/ Cardinality(Received(w)) < quorum
           /\ vals' = [vals EXCEPT ![p] = w]
           /\ UNCHANGED <<phase, proposal, phaseMsgs>>
        \/ /\ decision[p] = None /\ Cardinality(Received(w)) >= quorum
           /\ \E v \in IF MajorityValues(w, quorum) = {} THEN {Nil}
                       ELSE MajorityValues(w, quorum) :
               /\ proposal' = [proposal EXCEPT ![p] = v]
               /\ phaseMsgs' = phaseMsgs \cup {PhaseMsg(p, "phase2", round[p], v)}
           /\ vals' = [vals EXCEPT ![p] = NoVals]
           /\ phase' = [phase EXCEPT ![p] = "phase2"]
    /\ UNCHANGED flips

\* handlePhase2, and dropOrBuffered in phase 0, which still keeps the value.
HandlePhase2(p, m) ==
    /\ m.phase = "phase2"
    /\ phase[p] \in {"phase2", "phase0"}
    /\ Take(p, m)
    /\ vals' = [vals EXCEPT ![p][m.from] = m.proposal]
    /\ IF /\ phase[p] = "phase2"
          /\ decision[p] = None
          /\ Cardinality(Received(vals'[p])) >= Cardinality(Procs) - CrashFaults
       THEN /\ phase' = [phase EXCEPT ![p] = "phase0"]
            /\ flips' = [flips EXCEPT ![p] = @ \cup {round[p]}]
       ELSE UNCHANGED <<phase, flips>>
    /\ UNCHANGED <<proposal, phaseMsgs>>

\* How many equal phase-2 values handleCoin takes for a decision.
DecideThreshold == CrashFaults

\* handleCoin: decide, or go to the next round.
HandleCoin(p, r) ==
    /\ r \in flips[p]
    /\ flips' = [flips EXCEPT ![p] = @ \ {r}]
    /\ \/ /\ r # round[p]
          /\ UNCHANGED <<nodeVars, phaseMsgs, decideMsgs>>
       \/ /\ r = round[p]
          /\ \E v \in MajorityValues(vals[p], DecideThreshold) :
              /\ decision' = [decision EXCEPT ![p] = v]
              /\ decideMsgs' = decideMsgs \cup {v}
          /\ UNCHANGED <<round, phase, proposal, vals, phaseMsgs>>
       \/ /\ r = round[p] /\ r < MaxRound
          /\ MajorityValues(vals[p], DecideThreshold) = {}
          /\ \E v \in IF MajorityValues(vals[p], 1) = {} THEN Values
                      ELSE MajorityValues(vals[p], 1) :
              /\ proposal' = [proposal EXCEPT ![p] = v]
              /\ phaseMsgs' = phaseMsgs \cup {PhaseMsg(p, "phase1", r + 1, v)}
          /\ vals' = [vals EXCEPT ![p] = NoVals]
          /\ round' = [round EXCEPT ![p] = r + 1]
          /\ phase' = [phase EXCEPT ![p] = "phase1"]
          /\ UNCHANGED <<decision, decideMsgs>>
    /\ UNCHANGED <<output, taken>>

\* handleDecided and decide: the first decided message counts.
HandleDecided(p, v) ==
    /\ v \in decideMsgs
    /\ output[p] = None
    /\ decision' = [decision EXCEPT ![p] = v]
    /\ output' = [output EXCEPT ![p] = v]
    /\ UNCHANGED <<round, phase, proposal, vals, phaseMsgs, decideMsgs, taken, flips>>

Next ==
    \/ \E p \in Procs : Propose(p)
    \/ \E p \in Procs \ Stopped :
        \/ \E m \in phaseMsgs : DropPhase1(p, m) \/ HandlePhase1(p, m) \/ HandlePhase2(p, m)
        \/ \E r \in Rounds : HandleCoin(p, r)
        \/ \E v \in Values : HandleDecided(p, v)

Spec == Init /\ [][Next]_vars

-----------------------------------------------------------------------------
(* Properties *)

\* Once all have proposed the same value, every phase-2 vote carries it, also a
\* vote given after late phase-1 messages (handlePhase1, findMajorityValue).
UnanimousVotes ==
    \A v \in Values, m \in phaseMsgs :
        (\A p \in Procs : Proposal[p] = v) /\ m.phase = "phase2" => m.proposal = v

\* Two processes never vote for different values in phase 2 of a round: both
\* have seen a majority for it in phase 1 (handlePhase1).
Phase2Agree ==
    \A m, n \in phaseMsgs :
        /\ m.phase = "phase2" /\ n.phase = "phase2" /\ m.round = n.round
        /\ m.proposal # Nil /\ n.proposal # Nil
        => m.proposal = n.proposal

=============================================================================
