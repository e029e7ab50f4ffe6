-------------------------- MODULE ConsensusProofs ---------------------------
(***************************************************************************)
(* Proofs about RandomizedConsensus, CommitRevealCoin and ByzantineConsensus, *)
(* for any number of processes and any values.                               *)
(*                                                                         *)
(* Votes of the randomized consensus: whatever a process votes for in phase 2 *)
(* a majority has proposed in phase 1 of the round (Seconded), although late  *)
(* phase-1 messages are counted together with votes; and two majorities meet. *)
(*                                                                         *)
(* Accepts of the Byzantine consensus: a correct process writes once in an    *)
(* epoch, counts are of different writers (CountsOK), an accepted value was    *)
(* written by a quorum (WrittenByQuorum); and two quorums meet.              *)
(*                                                                         *)
(* The coin where nobody may be missing: a scheme is over when all            *)
(* commitments of its round are in, so none is left for the next scheme       *)
(* (FlipperOK), and values are those committed to (CommitsOK, FlipOK).        *)
(***************************************************************************)
EXTENDS ConsensusSystems, FiniteSetTheorems, TLAPS

-----------------------------------------------------------------------------
(* The votes of the randomized consensus *)

Voters(config) == DOMAIN config.proposal
Proposed(config) == {config.proposal[p] : p \in DOMAIN config.proposal}
Majority(config) == Cardinality(Voters(config)) \div 2 + 1

\* The assumption on the constants Pair and Unanimous.
VotingOK(config) == IsFiniteSet(Voters(config)) /\ {Nil, None} \cap Proposed(config) = {}

\* Those who propose v in phase 1 of round r, and when they are a majority.
Seconders(config, sent, v, r) ==
    {q \in Voters(config) : \E m \in sent :
        m.phase = "phase1" /\ m.round = r /\ m.from = q /\ m.proposal = v}
Seconded(config, sent, v, r) == Cardinality(Seconders(config, sent, v, r)) >= Majority(config)

MsgOK(config, m) ==
    /\ m.from \in Voters(config) /\ m.round \in Nat \ {0}
    /\ m.phase \in {"phase1", "phase2"}
    /\ m.proposal \in Proposed(config) \cup {Nil}

\* Phase-1 messages are one per process and round, votes are seconded, and where all
\* have proposed v there is no message for anything else.
SentOK(config, sent) ==
    /\ \A m \in sent : MsgOK(config, m)
    /\ \A m, n \in sent :
        m.phase = "phase1" /\ n.phase = "phase1" /\ m.from = n.from /\ m.round = n.round
            => m.proposal = n.proposal
    /\ \A m \in sent :
        m.phase = "phase2" /\ m.proposal # Nil => Seconded(config, sent, m.proposal, m.round)
    /\ \A v : Proposed(config) \subseteq {v} => \A m \in sent : m.proposal = v

\* What a process keeps are proposals of messages of its round.
KeptOK(config, w, sent, r) ==
    /\ w \in [Voters(config) -> Proposed(config) \cup {Nil, None}]
    /\ \A q \in Voters(config) :
        w[q] # None => \E m \in sent : m.from = q /\ m.round = r /\ m.proposal = w[q]

VotingInv(config) ==
    /\ round \in [Voters(config) -> Nat]
    /\ phase \in [Voters(config) -> {"init", "phase1", "phase2", "phase0"}]
    /\ vals \in [Voters(config) -> [Voters(config) -> Proposed(config) \cup {Nil, None}]]
    /\ SentOK(config, phaseMsgs)
    /\ \A p \in Voters(config) : KeptOK(config, vals[p], phaseMsgs, round[p])
    /\ \A m \in phaseMsgs : m.round <= round[m.from]
    /\ \A p \in Voters(config) : phase[p] = "init" => round[p] = 0

\* The operators of the instance.
LEMMA SameVoting ==
    ASSUME NEW config
    PROVE  /\ \A S : Randomized(config)!Cardinality(S) = Cardinality(S)
           /\ Randomized(config)!quorum = Majority(config)
           /\ Randomized(config)!Values = Proposed(config)
<1>1. \A S : Randomized(config)!Cardinality(S) = Cardinality(S)
  BY DEF Randomized!Cardinality, Cardinality
<1> QED BY <1>1 DEF Randomized!quorum, Randomized!Values, Majority, Voters, Proposed

\* The fields of a new message.
LEMMA NewMsg ==
    ASSUME NEW config, NEW p, NEW ph, NEW r, NEW v
    PROVE  LET m == Randomized(config)!PhaseMsg(p, ph, r, v)
           IN  m.from = p /\ m.phase = ph /\ m.round = r /\ m.proposal = v
  BY DEF Randomized!PhaseMsg

LEMMA MajorityIs ==
    ASSUME NEW config, VotingOK(config)
    PROVE  /\ Cardinality(Voters(config)) \in Nat
           /\ Majority(config) \in Nat \ {0}
           /\ Majority(config) + Majority(config) > Cardinality(Voters(config))
<1>1. Cardinality(Voters(config)) \in Nat BY FS_CardinalityType DEF VotingOK
<1> QED BY <1>1 DEF Majority

\* Some voters are finitely many, and more of them are not fewer.
LEMMA SomeVoters ==
    ASSUME NEW config, VotingOK(config), NEW S \in SUBSET Voters(config),
           NEW T \in SUBSET S
    PROVE  /\ IsFiniteSet(S) /\ Cardinality(S) \in Nat
           /\ Cardinality(T) \in Nat /\ Cardinality(T) <= Cardinality(S)
  BY FS_Subset, FS_CardinalityType DEF VotingOK

LEMMA SecondedGrows ==
    ASSUME NEW config, VotingOK(config), NEW sent, NEW more, sent \subseteq more, NEW v, NEW r,
           Seconded(config, sent, v, r)
    PROVE  Seconded(config, more, v, r)
<1>1. Seconders(config, sent, v, r) \subseteq Seconders(config, more, v, r)
  BY DEF Seconders
<1>2. Seconders(config, more, v, r) \subseteq Voters(config) BY DEF Seconders
<1>3. /\ Cardinality(Seconders(config, sent, v, r)) <= Cardinality(Seconders(config, more, v, r))
      /\ Cardinality(Seconders(config, sent, v, r)) \in Nat
      /\ Cardinality(Seconders(config, more, v, r)) \in Nat
  BY <1>1, <1>2, SomeVoters
<1> QED BY <1>3, MajorityIs DEF Seconded

LEMMA KeptGrows ==
    ASSUME NEW config, NEW w, NEW sent, NEW more, sent \subseteq more, NEW r,
           KeptOK(config, w, sent, r)
    PROVE  KeptOK(config, w, more, r)
  BY DEF KeptOK

\* Two majorities of a round have proposed the same value.
LEMMA SecondedAgree ==
    ASSUME NEW config, VotingOK(config), NEW sent, SentOK(config, sent), NEW r,
           NEW v, Seconded(config, sent, v, r), NEW x, Seconded(config, sent, x, r)
    PROVE  v = x
<1> DEFINE V == Seconders(config, sent, v, r)
           X == Seconders(config, sent, x, r)
           n == Cardinality(Voters(config))
<1>1. V \subseteq Voters(config) /\ X \subseteq Voters(config) BY DEF Seconders
<1>2. IsFiniteSet(V) /\ IsFiniteSet(X) /\ Cardinality(V) \in Nat /\ Cardinality(X) \in Nat
  BY <1>1, SomeVoters
<1>3. Cardinality(V) + Cardinality(X) > n /\ n \in Nat
  BY <1>2, MajorityIs DEF Seconded
<1>4. V \cap X # {}
  <2> SUFFICES ASSUME V \cap X = {} PROVE FALSE OBVIOUS
  <2>1. Cardinality(V \cap X) = 0 BY FS_EmptySet
  <2>2. Cardinality(V \cup X) = Cardinality(V) + Cardinality(X)
    <3>1. Cardinality(V \cup X) = Cardinality(V) + Cardinality(X) - Cardinality(V \cap X)
      BY <1>2, FS_Union
    <3> QED BY <1>2, <2>1, <3>1
  <2>3. Cardinality(V \cup X) <= n BY <1>1, FS_Subset DEF VotingOK
  <2> QED BY <1>2, <1>3, <2>2, <2>3
<1>5. PICK q : q \in V /\ q \in X BY <1>4
<1>6. PICK m \in sent : m.phase = "phase1" /\ m.round = r /\ m.from = q /\ m.proposal = v
  BY <1>5 DEF Seconders
<1>7. PICK k \in sent : k.phase = "phase1" /\ k.round = r /\ k.from = q /\ k.proposal = x
  BY <1>5 DEF Seconders
<1> QED BY <1>6, <1>7 DEF SentOK

\* findMajorityValue on what a process keeps, votes or proposals: the value has been
\* seconded; and where all have proposed v it is v, and there is one.
LEMMA MajoritySeconded ==
    ASSUME NEW config, VotingOK(config), NEW sent, SentOK(config, sent), NEW w, NEW r,
           KeptOK(config, w, sent, r),
           NEW v \in Randomized(config)!MajorityValues(w, Majority(config))
    PROVE  v \in Proposed(config) /\ Seconded(config, sent, v, r)
<1> DEFINE A == {q \in Voters(config) : w[q] = v}
<1>1. v \in Proposed(config) /\ Cardinality(A) >= Majority(config)
  BY SameVoting DEF Randomized!MajorityValues, Voters
<1>2. v # Nil /\ v # None BY <1>1 DEF VotingOK
<1>3. CASE \E q \in A : \E m \in sent : m.phase = "phase2" /\ m.round = r /\ m.proposal = v
  BY <1>1, <1>2, <1>3 DEF SentOK
<1>4. CASE ~ \E q \in A : \E m \in sent : m.phase = "phase2" /\ m.round = r /\ m.proposal = v
  <2>1. ASSUME NEW q \in A PROVE q \in Seconders(config, sent, v, r)
    <3>1. PICK m \in sent : m.from = q /\ m.round = r /\ m.proposal = v
      BY <1>2 DEF KeptOK
    <3>2. m.phase = "phase1" BY <1>4, <3>1 DEF SentOK, MsgOK
    <3> QED BY <3>1, <3>2 DEF Seconders
  <2>2. Seconders(config, sent, v, r) \subseteq Voters(config) BY DEF Seconders
  <2>3. /\ Cardinality(A) <= Cardinality(Seconders(config, sent, v, r))
        /\ Cardinality(A) \in Nat /\ Cardinality(Seconders(config, sent, v, r)) \in Nat
    BY <2>1, <2>2, SomeVoters
  <2> QED BY <1>1, <2>3, MajorityIs DEF Seconded
<1> QED BY <1>3, <1>4

\* findMajorityValue where all have proposed v.
LEMMA UnanimousMajority ==
    ASSUME NEW config, VotingOK(config), NEW sent, SentOK(config, sent), NEW w, NEW r,
           KeptOK(config, w, sent, r),
           Cardinality(Randomized(config)!Received(w)) >= Majority(config),
           NEW v, Proposed(config) \subseteq {v}
    PROVE  v \in Randomized(config)!MajorityValues(w, Majority(config))
<1> DEFINE G == Randomized(config)!Received(w)
           A == {q \in Voters(config) : w[q] = v}
<1>1. G = {q \in Voters(config) : w[q] # None} BY DEF Randomized!Received, Voters
<1>2. ASSUME NEW q \in G PROVE w[q] = v /\ q \in Voters(config)
  BY <1>1 DEF KeptOK, SentOK
<1>3. G # {}
  <2> SUFFICES ASSUME G = {} PROVE FALSE OBVIOUS
  <2>1. Cardinality(G) = 0 BY FS_EmptySet
  <2> QED BY <2>1, MajorityIs
<1>4. v \in Proposed(config)
  <2>1. PICK q : q \in G BY <1>3
  <2>2. q \in Voters(config) BY <1>2, <2>1
  <2>3. Proposed(config) # {} BY <2>2 DEF Proposed, Voters
  <2> QED BY <2>3
<1>5. v # None BY <1>4 DEF VotingOK
<1>6. A = G BY <1>1, <1>2, <1>5
<1>7. Cardinality(A) >= Majority(config) /\ Cardinality(A) > 0
  <2>1. Cardinality(A) \in Nat BY SomeVoters
  <2> QED BY <1>6, <2>1, MajorityIs
<1> QED BY <1>4, <1>7, SameVoting DEF Randomized!MajorityValues, Voters

\* A phase-1 message of a process that has sent none in that round.
LEMMA ProposalSent ==
    ASSUME NEW config, VotingOK(config), NEW sent, SentOK(config, sent),
           NEW m, MsgOK(config, m), m.phase = "phase1", m.proposal \in Proposed(config),
           \A n \in sent : n.from = m.from => n.round < m.round
    PROVE  SentOK(config, sent \cup {m})
<1> DEFINE more == sent \cup {m}
<1>1. \A n \in more : MsgOK(config, n) BY DEF SentOK
<1>2. \A n \in sent : n.from = m.from => n.round # m.round
  BY DEF SentOK, MsgOK
<1>3. \A k, n \in more :
        k.phase = "phase1" /\ n.phase = "phase1" /\ k.from = n.from /\ k.round = n.round
            => k.proposal = n.proposal
  BY <1>2 DEF SentOK
<1>4. \A n \in more :
        n.phase = "phase2" /\ n.proposal # Nil => Seconded(config, more, n.proposal, n.round)
  BY SecondedGrows DEF SentOK
<1>5. \A v : Proposed(config) \subseteq {v} => \A n \in more : n.proposal = v
  BY DEF SentOK
<1> QED BY <1>1, <1>3, <1>4, <1>5 DEF SentOK

\* A vote that has been seconded, or for nil.
LEMMA VoteSent ==
    ASSUME NEW config, VotingOK(config), NEW sent, SentOK(config, sent),
           NEW m, MsgOK(config, m), m.phase = "phase2",
           m.proposal # Nil => Seconded(config, sent, m.proposal, m.round),
           \A v : Proposed(config) \subseteq {v} => m.proposal = v
    PROVE  SentOK(config, sent \cup {m})
<1> DEFINE more == sent \cup {m}
<1>1. \A n \in more : MsgOK(config, n) BY DEF SentOK
<1>2. \A k, n \in more :
        k.phase = "phase1" /\ n.phase = "phase1" /\ k.from = n.from /\ k.round = n.round
            => k.proposal = n.proposal
  BY DEF SentOK
<1>3. \A n \in more :
        n.phase = "phase2" /\ n.proposal # Nil => Seconded(config, more, n.proposal, n.round)
  BY SecondedGrows DEF SentOK
<1>4. \A v : Proposed(config) \subseteq {v} => \A n \in more : n.proposal = v
  BY DEF SentOK
<1> QED BY <1>1, <1>2, <1>3, <1>4 DEF SentOK

LEMMA VotingInvInit ==
    ASSUME NEW config, VotingOK(config), Randomized(config)!Init
    PROVE  VotingInv(config)
<1> USE DEF Randomized!Init, Randomized!NoVals, Voters
<1>1. /\ round \in [Voters(config) -> Nat]
      /\ phase \in [Voters(config) -> {"init", "phase1", "phase2", "phase0"}]
      /\ vals \in [Voters(config) -> [Voters(config) -> Proposed(config) \cup {Nil, None}]]
      /\ phaseMsgs = {}
      /\ \A p \in Voters(config) : round[p] = 0
  OBVIOUS
<1>2. SentOK(config, phaseMsgs) BY <1>1 DEF SentOK
<1>3. \A p \in Voters(config) : KeptOK(config, vals[p], phaseMsgs, round[p])
  BY <1>1 DEF KeptOK
<1> QED BY <1>1, <1>2, <1>3 DEF VotingInv

\* A process goes on and sends at most a message m: what must hold of its new state.
LEMMA VoterMoves ==
    ASSUME NEW config, VotingInv(config), NEW p \in Voters(config),
           NEW r \in Nat, NEW ph \in {"phase1", "phase2", "phase0"}, NEW w,
           round' = [round EXCEPT ![p] = r], r >= round[p],
           phase' = [phase EXCEPT ![p] = ph], vals' = [vals EXCEPT ![p] = w],
           phaseMsgs \subseteq phaseMsgs', SentOK(config, phaseMsgs'),
           \A m \in phaseMsgs' \ phaseMsgs : m.from = p /\ m.round = r,
           KeptOK(config, w, phaseMsgs', r)
    PROVE  VotingInv(config)'
<1> USE DEF VotingInv
<1>1. /\ round' \in [Voters(config) -> Nat]
      /\ phase' \in [Voters(config) -> {"init", "phase1", "phase2", "phase0"}]
      /\ vals' \in [Voters(config) -> [Voters(config) -> Proposed(config) \cup {Nil, None}]]
  BY DEF KeptOK
<1>2. ASSUME NEW q \in Voters(config)
      PROVE  KeptOK(config, vals'[q], phaseMsgs', round'[q])
  <2>1. CASE q = p BY <2>1
  <2>2. CASE q # p
    <3>1. vals'[q] = vals[q] /\ round'[q] = round[q] BY <2>2
    <3> QED BY <3>1, KeptGrows
  <2> QED BY <2>1, <2>2
<1>3. ASSUME NEW m \in phaseMsgs' PROVE m.round <= round'[m.from]
  <2>1. m.from \in Voters(config) /\ m.round \in Nat BY DEF SentOK, MsgOK
  <2>2. CASE m \in phaseMsgs /\ m.from = p
    <3>1. m.round <= round[p] /\ round[p] \in Nat /\ round'[p] = r BY <2>2
    <3> QED BY <2>1, <2>2, <3>1
  <2>3. CASE m \in phaseMsgs /\ m.from # p BY <2>1, <2>3
  <2>4. CASE m \notin phaseMsgs BY <2>1, <2>4
  <2> QED BY <2>2, <2>3, <2>4
<1>4. ASSUME NEW q \in Voters(config), phase'[q] = "init" PROVE round'[q] = 0
  BY <1>4
<1> QED BY <1>1, <1>2, <1>3, <1>4


\* A step of a process that stays in its round and says nothing.
LEMMA VoterKeeps ==
    ASSUME NEW config, VotingInv(config), NEW p \in Voters(config),
           NEW ph \in {"phase1", "phase2", "phase0"}, NEW w,
           round' = round, phaseMsgs' = phaseMsgs,
           phase' = [phase EXCEPT ![p] = ph], vals' = [vals EXCEPT ![p] = w],
           KeptOK(config, w, phaseMsgs, round[p])
    PROVE  VotingInv(config)'
<1> DEFINE r == round[p]
<1>1. r \in Nat /\ round' = [round EXCEPT ![p] = r] BY DEF VotingInv
<1>2. r >= round[p] BY <1>1
<1>3. SentOK(config, phaseMsgs') BY DEF VotingInv
<1>4. KeptOK(config, w, phaseMsgs', r) OBVIOUS
<1>5. phaseMsgs \subseteq phaseMsgs' /\ \A m \in phaseMsgs' \ phaseMsgs : m.from = p /\ m.round = r
  OBVIOUS
<1> HIDE DEF r
<1> QED BY <1>1, <1>2, <1>3, <1>4, <1>5, VoterMoves

\* handlePropose.
LEMMA VoterProposes ==
    ASSUME NEW config, VotingOK(config), VotingInv(config), NEW p \in Voters(config),
           Randomized(config)!Propose(p)
    PROVE  VotingInv(config)'
<1> DEFINE m == Randomized(config)!PhaseMsg(p, "phase1", 1, config.proposal[p])
<1>1. /\ m.from = p /\ m.phase = "phase1" /\ m.round = 1 /\ m.proposal = config.proposal[p]
  BY NewMsg
<1>2. /\ round[p] = 0 /\ round' = [round EXCEPT ![p] = 1]
      /\ phase' = [phase EXCEPT ![p] = "phase1"]
      /\ phaseMsgs' = phaseMsgs \cup {m} /\ vals' = vals
  BY DEF Randomized!Propose, VotingInv
<1> HIDE DEF m
<1>3. config.proposal[p] \in Proposed(config) BY DEF Proposed, Voters
<1>4. SentOK(config, phaseMsgs') /\ \A n \in phaseMsgs : n.from # p
  <2>1. ASSUME NEW n \in phaseMsgs, n.from = p PROVE FALSE
    BY <1>2, <2>1 DEF VotingInv, SentOK, MsgOK
  <2>2. MsgOK(config, m) BY <1>1, <1>3 DEF MsgOK
  <2>3. SentOK(config, phaseMsgs) BY DEF VotingInv
  <2> QED BY <1>1, <1>2, <1>3, <2>1, <2>2, <2>3, ProposalSent
<1>5. KeptOK(config, vals[p], phaseMsgs', 1)
  <2>1. KeptOK(config, vals[p], phaseMsgs, 0) BY <1>2 DEF VotingInv
  <2>2. ASSUME NEW q \in Voters(config), vals[p][q] # None PROVE FALSE
    <3>1. PICK n \in phaseMsgs : n.round = 0 BY <2>1, <2>2 DEF KeptOK
    <3> QED BY <3>1 DEF VotingInv, SentOK, MsgOK
  <2> QED BY <2>1, <2>2 DEF KeptOK
<1>6. vals' = [vals EXCEPT ![p] = vals[p]] BY <1>2 DEF VotingInv
<1>7. \A n \in phaseMsgs' \ phaseMsgs : n.from = p /\ n.round = 1 BY <1>1, <1>2
<1>8. phaseMsgs \subseteq phaseMsgs' /\ 1 >= round[p] BY <1>2
<1> QED BY <1>2, <1>4, <1>5, <1>6, <1>7, <1>8, VoterMoves

\* handlePhase1, of a message in time or late.
LEMMA VoterVotes ==
    ASSUME NEW config, VotingOK(config), VotingInv(config), NEW p \in Voters(config),
           NEW m \in phaseMsgs, Randomized(config)!HandlePhase1(p, m)
    PROVE  VotingInv(config)'
<1> DEFINE w == [vals[p] EXCEPT ![m.from] = m.proposal]
           seconded == Randomized(config)!MajorityValues(w, Majority(config))
<1>1. /\ m.round = round[p] /\ round' = round
      /\ phase[p] \in {"phase1", "phase0"}
  BY DEF Randomized!HandlePhase1, Randomized!Take, Randomized!Phase1Handled
<1>2. SentOK(config, phaseMsgs) /\ MsgOK(config, m) /\ KeptOK(config, vals[p], phaseMsgs, round[p])
  BY DEF VotingInv, SentOK
<1>3. KeptOK(config, w, phaseMsgs, round[p])
  <2>1. w \in [Voters(config) -> Proposed(config) \cup {Nil, None}]
    BY <1>2 DEF KeptOK, MsgOK
  <2>2. ASSUME NEW q \in Voters(config), w[q] # None
        PROVE  \E n \in phaseMsgs : n.from = q /\ n.round = round[p] /\ n.proposal = w[q]
    <3>1. CASE q = m.from
      <4>1. w[q] = m.proposal BY <1>2, <3>1 DEF KeptOK
      <4> QED BY <1>1, <3>1, <4>1
    <3>2. CASE q # m.from
      <4>1. w[q] = vals[p][q] BY <1>2, <3>2 DEF KeptOK
      <4> QED BY <1>2, <2>2, <4>1 DEF KeptOK
    <3> QED BY <3>1, <3>2
  <2> QED BY <2>1, <2>2 DEF KeptOK
<1> HIDE DEF w
<1>4. CASE vals' = [vals EXCEPT ![p] = w] /\ UNCHANGED <<phase, phaseMsgs>>
  <2>1. phase' = [phase EXCEPT ![p] = phase[p]] BY <1>4 DEF VotingInv
  <2> QED BY <1>1, <1>3, <1>4, <2>1, VoterKeeps
<1>5. CASE /\ Cardinality(Randomized(config)!Received(w)) >= Majority(config)
           /\ \E v \in IF seconded = {} THEN {Nil} ELSE seconded :
                phaseMsgs' = phaseMsgs \cup
                                 {Randomized(config)!PhaseMsg(p, "phase2", round[p], v)}
           /\ vals' = [vals EXCEPT ![p] = Randomized(config)!NoVals]
           /\ phase' = [phase EXCEPT ![p] = "phase2"]
  <2>1. PICK v \in IF seconded = {} THEN {Nil} ELSE seconded :
            phaseMsgs' = phaseMsgs \cup
                             {Randomized(config)!PhaseMsg(p, "phase2", round[p], v)}
    BY <1>5
  <2> DEFINE vote == Randomized(config)!PhaseMsg(p, "phase2", round[p], v)
  <2>2. /\ vote.from = p /\ vote.phase = "phase2" /\ vote.round = round[p]
        /\ vote.proposal = v
    BY NewMsg
  <2> HIDE DEF vote
  <2>3. v \in seconded => v \in Proposed(config) /\ Seconded(config, phaseMsgs, v, round[p])
    BY <1>2, <1>3, MajoritySeconded
  <2>4. v = Nil \/ v \in seconded BY <2>1
  <2>5. MsgOK(config, vote) BY <1>1, <1>2, <2>2, <2>3, <2>4 DEF MsgOK
  <2>6. ASSUME NEW x, Proposed(config) \subseteq {x} PROVE v = x
    <3>1. x \in seconded BY <1>2, <1>3, <1>5, <2>6, UnanimousMajority
    <3> QED BY <2>1, <2>3, <2>6, <3>1
  <2>7. SentOK(config, phaseMsgs')
    <3>1. vote.proposal # Nil => Seconded(config, phaseMsgs, vote.proposal, vote.round)
      BY <2>2, <2>3, <2>4
    <3>2. \A x : Proposed(config) \subseteq {x} => vote.proposal = x BY <2>2, <2>6
    <3>3. phaseMsgs' = phaseMsgs \cup {vote} BY <2>1 DEF vote
    <3> QED BY <1>2, <2>2, <2>5, <3>1, <3>2, <3>3, VoteSent
  <2> DEFINE r == round[p]
             empty == Randomized(config)!NoVals
  <2>8. KeptOK(config, empty, phaseMsgs', r)
    BY DEF KeptOK, Randomized!NoVals, Voters
  <2>9. r \in Nat /\ round' = [round EXCEPT ![p] = r] BY <1>1 DEF VotingInv
  <2>10. r >= round[p] BY <2>9
  <2>11. /\ phaseMsgs \subseteq phaseMsgs'
         /\ \A n \in phaseMsgs' \ phaseMsgs : n.from = p /\ n.round = r
    BY <2>1, <2>2 DEF vote
  <2>12. phase' = [phase EXCEPT ![p] = "phase2"] /\ vals' = [vals EXCEPT ![p] = empty]
    BY <1>5
  <2> HIDE DEF r, empty
  <2> QED BY <2>7, <2>8, <2>9, <2>10, <2>11, <2>12, VoterMoves
<1> QED BY <1>4, <1>5, SameVoting DEF Randomized!HandlePhase1, w


\* handlePhase2, and what is kept of a vote after that.
LEMMA VoterKeepsVote ==
    ASSUME NEW config, VotingOK(config), VotingInv(config), NEW p \in Voters(config),
           NEW m \in phaseMsgs, Randomized(config)!HandlePhase2(p, m)
    PROVE  VotingInv(config)'
<1> DEFINE w == [vals[p] EXCEPT ![m.from] = m.proposal]
<1>1. /\ m.round = round[p] /\ round' = round /\ phaseMsgs' = phaseMsgs
      /\ phase[p] \in {"phase2", "phase0"}
      /\ vals' = [vals EXCEPT ![p][m.from] = m.proposal]
      /\ phase' = [phase EXCEPT ![p] = "phase0"] \/ phase' = phase
  BY DEF Randomized!HandlePhase2, Randomized!Take
<1>2. MsgOK(config, m) /\ KeptOK(config, vals[p], phaseMsgs, round[p])
  BY DEF VotingInv, SentOK
<1>3. KeptOK(config, w, phaseMsgs, round[p])
  <2>1. w \in [Voters(config) -> Proposed(config) \cup {Nil, None}]
    BY <1>2 DEF KeptOK, MsgOK
  <2>2. ASSUME NEW q \in Voters(config), w[q] # None
        PROVE  \E n \in phaseMsgs : n.from = q /\ n.round = round[p] /\ n.proposal = w[q]
    <3>1. CASE q = m.from
      <4>1. w[q] = m.proposal BY <1>2, <3>1 DEF KeptOK
      <4> QED BY <1>1, <3>1, <4>1
    <3>2. CASE q # m.from
      <4>1. w[q] = vals[p][q] BY <1>2, <3>2 DEF KeptOK
      <4> QED BY <1>2, <2>2, <4>1 DEF KeptOK
    <3> QED BY <3>1, <3>2
  <2> QED BY <2>1, <2>2 DEF KeptOK
<1>4. vals' = [vals EXCEPT ![p] = w] BY <1>1 DEF VotingInv
<1>5. phase' = [phase EXCEPT ![p] = phase[p]] \/ phase' = [phase EXCEPT ![p] = "phase0"]
  BY <1>1 DEF VotingInv
<1> HIDE DEF w
<1> QED BY <1>1, <1>3, <1>4, <1>5, VoterKeeps

\* handleCoin, whatever the coin shows.
LEMMA VoterFlips ==
    ASSUME NEW config, VotingOK(config), VotingInv(config), NEW p \in Voters(config),
           NEW r, Randomized(config)!HandleCoin(p, r)
    PROVE  VotingInv(config)'
<1>1. CASE UNCHANGED <<round, phase, vals, phaseMsgs>>
  BY <1>1 DEF VotingInv
<1>2. CASE /\ r = round[p]
           /\ \E v \in IF Randomized(config)!MajorityValues(vals[p], 1) = {}
                       THEN Randomized(config)!Values
                       ELSE Randomized(config)!MajorityValues(vals[p], 1) :
                phaseMsgs' = phaseMsgs \cup {Randomized(config)!PhaseMsg(p, "phase1", r + 1, v)}
           /\ vals' = [vals EXCEPT ![p] = Randomized(config)!NoVals]
           /\ round' = [round EXCEPT ![p] = r + 1]
           /\ phase' = [phase EXCEPT ![p] = "phase1"]
  <2>1. PICK v \in Proposed(config) :
            phaseMsgs' = phaseMsgs \cup {Randomized(config)!PhaseMsg(p, "phase1", r + 1, v)}
    BY <1>2, SameVoting DEF Randomized!MajorityValues
  <2> DEFINE m == Randomized(config)!PhaseMsg(p, "phase1", r + 1, v)
             empty == Randomized(config)!NoVals
             next == r + 1
  <2>2. /\ m.from = p /\ m.phase = "phase1" /\ m.round = next /\ m.proposal = v
    BY NewMsg
  <2>3. phaseMsgs' = phaseMsgs \cup {m} BY <2>1
  <2> HIDE DEF m
  <2>4. r \in Nat /\ next \in Nat \ {0} /\ next >= round[p] BY <1>2 DEF VotingInv
  <2>5. \A n \in phaseMsgs : n.from = m.from => n.round < m.round
    <3>1. ASSUME NEW n \in phaseMsgs, n.from = p PROVE n.round < next
      <4>1. n.round \in Nat /\ n.round <= round[p]
        BY <3>1 DEF VotingInv, SentOK, MsgOK
      <4> QED BY <1>2, <2>4, <4>1
    <3> QED BY <2>2, <3>1
  <2>6. SentOK(config, phaseMsgs')
    <3>1. MsgOK(config, m) BY <2>2, <2>4 DEF MsgOK
    <3>2. SentOK(config, phaseMsgs) BY DEF VotingInv
    <3>3. m.proposal \in Proposed(config) BY <2>2
    <3> QED BY <2>2, <2>3, <2>5, <3>1, <3>2, <3>3, ProposalSent
  <2>7. KeptOK(config, empty, phaseMsgs', next)
    BY DEF KeptOK, Randomized!NoVals, Voters
  <2>8. /\ phaseMsgs \subseteq phaseMsgs'
        /\ \A n \in phaseMsgs' \ phaseMsgs : n.from = p /\ n.round = next
    BY <2>2, <2>3
  <2>9. /\ round' = [round EXCEPT ![p] = next] /\ phase' = [phase EXCEPT ![p] = "phase1"]
        /\ vals' = [vals EXCEPT ![p] = empty]
    BY <1>2
  <2> HIDE DEF next, empty
  <2> QED BY <2>4, <2>6, <2>7, <2>8, <2>9, VoterMoves
<1> QED BY <1>1, <1>2 DEF Randomized!HandleCoin, Randomized!nodeVars

LEMMA VotingInvStep ==
    ASSUME NEW config, VotingOK(config), VotingInv(config), Randomized(config)!Next
    PROVE  VotingInv(config)'
<1>1. PICK p \in Voters(config) :
          \/ Randomized(config)!Propose(p)
          \/ \E m \in phaseMsgs : \/ Randomized(config)!DropPhase1(p, m)
                                  \/ Randomized(config)!HandlePhase1(p, m)
                                  \/ Randomized(config)!HandlePhase2(p, m)
          \/ \E r : Randomized(config)!HandleCoin(p, r)
          \/ \E v : Randomized(config)!HandleDecided(p, v)
  BY DEF Randomized!Next, Voters
<1>2. ASSUME UNCHANGED <<round, phase, vals, phaseMsgs>> PROVE VotingInv(config)'
  BY <1>2 DEF VotingInv
<1>3. CASE \E m \in phaseMsgs : Randomized(config)!DropPhase1(p, m)
  BY <1>2, <1>3 DEF Randomized!DropPhase1, Randomized!Take
<1>4. CASE \E v : Randomized(config)!HandleDecided(p, v)
  BY <1>2, <1>4 DEF Randomized!HandleDecided
<1> QED BY <1>1, <1>3, <1>4, VoterProposes, VoterVotes, VoterKeepsVote, VoterFlips

\* What the invariant says of the properties.
LEMMA VotesAgreeThere ==
    ASSUME NEW config, VotingOK(config), VotingInv(config)
    PROVE  Randomized(config)!Phase2Agree /\ Randomized(config)!UnanimousVotes
<1>1. SentOK(config, phaseMsgs) BY DEF VotingInv
<1>2. ASSUME NEW m \in phaseMsgs, NEW n \in phaseMsgs,
             m.phase = "phase2", n.phase = "phase2", m.round = n.round,
             m.proposal # Nil, n.proposal # Nil
      PROVE  m.proposal = n.proposal
  <2>1. /\ Seconded(config, phaseMsgs, m.proposal, m.round)
        /\ Seconded(config, phaseMsgs, n.proposal, m.round)
    BY <1>1, <1>2 DEF SentOK
  <2> QED BY <1>1, <2>1, SecondedAgree
<1>3. ASSUME NEW v, \A p \in Voters(config) : config.proposal[p] = v, NEW m \in phaseMsgs
      PROVE  m.proposal = v
  <2>1. Proposed(config) \subseteq {v} BY <1>3 DEF Proposed, Voters
  <2> QED BY <1>1, <2>1 DEF SentOK
<1> QED BY <1>2, <1>3 DEF Randomized!Phase2Agree, Randomized!UnanimousVotes, Voters


-----------------------------------------------------------------------------
(* The accepts of the Byzantine consensus *)

Everyone == Correct \cup Faulty
ByzantineQuorum == (Cardinality(Everyone) + Faults) \div 2

\* Those who have written v in epoch e, as far as one can know of a faulty process.
Writers(written, e, v) == {q \in Everyone : q \in Faulty \/ <<q, e, v>> \in written}
WrittenByQuorum(written, e, v) == Cardinality(Writers(written, e, v)) > ByzantineQuorum

\* Those of them whose WRITE is among the messages got.
Counted(got, written, e, v) == {q \in Writers(written, e, v) : <<"write", q>> \in got}

\* The counts of WRITEs are of different writers.
CountsOK(in, written, e) ==
    /\ {"got", "collected", "writtenCounts"} \subseteq DOMAIN in
    /\ in.writtenCounts \in [LedValues -> Nat]
    /\ \A v \in LedValues : in.writtenCounts[v] <= Cardinality(Counted(in.got, written, e, v))

\* A correct process writes once in an epoch, and remembers that it has.
WritesOK ==
    /\ writes \in SUBSET (Correct \X Nat \X LedValues)
    /\ \A p \in Correct, e \in Nat, v, x \in LedValues :
        <<p, e, v>> \in writes /\ <<p, e, x>> \in writes => v = x
    /\ \A p \in Correct, e \in Nat, v \in LedValues :
        <<p, e, v>> \in writes =>
            e <= epoch[p] /\ (e = epoch[p] => inner[p].collected \/ stopped[p])

LedInv ==
    /\ epoch \in [Correct -> Nat]
    /\ DOMAIN inner = Correct /\ DOMAIN stopped = Correct
    /\ \A p \in Correct : CountsOK(inner[p], writes, epoch[p])
    /\ WritesOK
    /\ accepts \in SUBSET (Correct \X Nat \X LedValues)
    /\ \A m \in accepts : WrittenByQuorum(writes, m[2], m[3])

LEMMA SameLed ==
    /\ \A S : Led!Cardinality(S) = Cardinality(S)
    /\ Led!Procs = Everyone /\ Led!byzantineQuorum = ByzantineQuorum
<1>1. \A S : Led!Cardinality(S) = Cardinality(S) BY DEF Led!Cardinality, Cardinality
<1>2. Led!Procs = Everyone BY DEF Led!Procs, Everyone
<1> QED BY <1>1, <1>2 DEF Led!byzantineQuorum, Led!N, ByzantineQuorum

LEMMA EveryoneFinite ==
    /\ IsFiniteSet(Everyone) /\ Cardinality(Everyone) \in Nat
    /\ Cardinality(Faulty) \in Nat /\ ByzantineQuorum \in Nat
<1>1. IsFiniteSet(Everyone) BY LedAssumption, FS_Union DEF Everyone
<1>2. Cardinality(Everyone) \in Nat /\ Cardinality(Faulty) \in Nat
  BY <1>1, LedAssumption, FS_CardinalityType
<1> QED BY <1>1, <1>2, LedAssumption DEF ByzantineQuorum

LEMMA SomeOfEveryone ==
    ASSUME NEW S \in SUBSET Everyone, NEW T \in SUBSET S
    PROVE  /\ IsFiniteSet(S) /\ Cardinality(S) \in Nat
           /\ Cardinality(T) \in Nat /\ Cardinality(T) <= Cardinality(S)
  BY EveryoneFinite, FS_Subset, FS_CardinalityType

\* More messages and more WRITEs received never reduce a count of writers.
LEMMA WritersGrow ==
    ASSUME NEW written, NEW more, written \subseteq more, NEW got, NEW gotMore,
           got \subseteq gotMore, NEW e, NEW v
    PROVE  /\ WrittenByQuorum(written, e, v) => WrittenByQuorum(more, e, v)
           /\ Counted(got, written, e, v) \subseteq Counted(gotMore, more, e, v)
           /\ Counted(gotMore, more, e, v) \subseteq Everyone
           /\ Cardinality(Counted(got, written, e, v)) \in Nat
           /\ Cardinality(Counted(gotMore, more, e, v)) \in Nat
           /\ Cardinality(Counted(got, written, e, v))
                <= Cardinality(Counted(gotMore, more, e, v))
<1>1. Writers(written, e, v) \subseteq Writers(more, e, v) BY DEF Writers
<1>2. Writers(more, e, v) \subseteq Everyone BY DEF Writers
<1>3. /\ Cardinality(Writers(written, e, v)) <= Cardinality(Writers(more, e, v))
      /\ Cardinality(Writers(written, e, v)) \in Nat
      /\ Cardinality(Writers(more, e, v)) \in Nat
  BY <1>1, <1>2, SomeOfEveryone
<1>4. WrittenByQuorum(written, e, v) => WrittenByQuorum(more, e, v)
  BY <1>3, EveryoneFinite DEF WrittenByQuorum
<1>5. Counted(got, written, e, v) \subseteq Counted(gotMore, more, e, v)
  BY <1>1 DEF Counted
<1>6. Counted(gotMore, more, e, v) \subseteq Everyone BY <1>2 DEF Counted
<1> QED BY <1>4, <1>5, <1>6, SomeOfEveryone

\* Two Byzantine quorums of WRITEs of an epoch are for one value.
LEMMA QuorumsWriteOne ==
    ASSUME LedInv, NEW e \in Nat, NEW v \in LedValues, WrittenByQuorum(writes, e, v),
           NEW x \in LedValues, WrittenByQuorum(writes, e, x)
    PROVE  v = x
<1> DEFINE V == Writers(writes, e, v)
           X == Writers(writes, e, x)
           n == Cardinality(Everyone)
<1>1. V \subseteq Everyone /\ X \subseteq Everyone BY DEF Writers
<1>2. /\ IsFiniteSet(V) /\ IsFiniteSet(X) /\ n \in Nat
      /\ Cardinality(V) \in Nat /\ Cardinality(X) \in Nat /\ Cardinality(V \cap X) \in Nat
  BY <1>1, SomeOfEveryone, EveryoneFinite
<1>3. Cardinality(V \cup X) = Cardinality(V) + Cardinality(X) - Cardinality(V \cap X)
  BY <1>2, FS_Union
<1>4. Cardinality(V \cup X) <= n /\ Cardinality(V \cup X) \in Nat
  BY <1>1, SomeOfEveryone
<1>5. Cardinality(V) + Cardinality(X) > n + Faults
  BY <1>2, LedAssumption DEF WrittenByQuorum, ByzantineQuorum
<1>6. Cardinality(V \cap X) > Faults BY <1>2, <1>3, <1>4, <1>5, LedAssumption
<1>7. PICK q \in V \cap X : q \notin Faulty
  <2> SUFFICES ASSUME V \cap X \subseteq Faulty PROVE FALSE OBVIOUS
  <2>1. Cardinality(V \cap X) <= Cardinality(Faulty) BY LedAssumption, FS_Subset
  <2> QED BY <1>2, <1>6, <2>1, LedAssumption, EveryoneFinite
<1>8. q \in Correct /\ <<q, e, v>> \in writes /\ <<q, e, x>> \in writes
  BY <1>7 DEF Writers, Everyone
<1> QED BY <1>8 DEF LedInv, WritesOK


\* An epoch consensus that has received more, or that others have written more to.
LEMMA CountsKeep ==
    ASSUME NEW old, NEW in, NEW written, NEW more, NEW e, CountsOK(old, written, e),
           {"got", "collected", "writtenCounts"} \subseteq DOMAIN in,
           in.writtenCounts = old.writtenCounts, old.got \subseteq in.got,
           written \subseteq more
    PROVE  CountsOK(in, more, e)
<1>1. ASSUME NEW v \in LedValues
      PROVE  in.writtenCounts[v] <= Cardinality(Counted(in.got, more, e, v))
  <2>1. /\ old.writtenCounts[v] \in Nat
        /\ old.writtenCounts[v] <= Cardinality(Counted(old.got, written, e, v))
    BY DEF CountsOK
  <2>2. /\ Cardinality(Counted(old.got, written, e, v)) \in Nat
        /\ Cardinality(Counted(in.got, more, e, v)) \in Nat
        /\ Cardinality(Counted(old.got, written, e, v))
              <= Cardinality(Counted(in.got, more, e, v))
    BY WritersGrow
  <2> QED BY <2>1, <2>2
<1> QED BY <1>1 DEF CountsOK

\* Counts of nothing, as in a new epoch consensus and after a quorum.
LEMMA CountsEmpty ==
    ASSUME NEW in, NEW written, NEW e,
           {"got", "collected", "writtenCounts"} \subseteq DOMAIN in,
           in.writtenCounts = [v \in LedValues |-> 0]
    PROVE  CountsOK(in, written, e)
<1>1. ASSUME NEW v \in LedValues PROVE 0 <= Cardinality(Counted(in.got, written, e, v))
  <2>1. Counted(in.got, written, e, v) \in SUBSET Everyone BY DEF Counted, Writers
  <2>2. Cardinality(Counted(in.got, written, e, v)) \in Nat BY <2>1, SomeOfEveryone
  <2> QED BY <2>2
<1> QED BY <1>1 DEF CountsOK

LEMMA NewInnerIs ==
    /\ DOMAIN Led!NewInner = {"proposed", "got", "messages", "collected", "written",
                              "writtenCounts", "accepted", "acceptedCounts", "deciding"}
    /\ Led!NewInner.writtenCounts = [v \in LedValues |-> 0] /\ Led!NewInner.got = {}
  BY DEF Led!NewInner, Led!NoCounts

LEMMA LedInvInit == Led!Init => LedInv
<1> SUFFICES ASSUME Led!Init PROVE LedInv OBVIOUS
<1>1. /\ epoch = [p \in Correct |-> 1] /\ inner = [p \in Correct |-> Led!NewInner]
      /\ stopped = [p \in Correct |-> FALSE] /\ writes = {} /\ accepts = {}
  BY DEF Led!Init
<1>2. \A p \in Correct : CountsOK(inner[p], writes, epoch[p])
  BY <1>1, NewInnerIs, CountsEmpty
<1>3. WritesOK BY <1>1 DEF WritesOK
<1> QED BY <1>1, <1>2, <1>3 DEF LedInv

\* A process changes nothing but its epoch consensus.
LEMMA InnerMoves ==
    ASSUME LedInv, NEW p \in Correct, NEW in, inner' = [inner EXCEPT ![p] = in],
           UNCHANGED <<epoch, stopped, writes, accepts>>,
           CountsOK(in, writes, epoch[p]), inner[p].collected => in.collected
    PROVE  LedInv'
<1> USE DEF LedInv
<1>1. inner'[p] = in /\ \A q \in Correct : q # p => inner'[q] = inner[q] OBVIOUS
<1>2. \A q \in Correct : CountsOK(inner'[q], writes', epoch'[q]) BY <1>1
<1>3. WritesOK' BY <1>1 DEF WritesOK
<1> QED BY <1>2, <1>3

\* The same, when it has received at most more messages and counts as before.
LEMMA InnerReceives ==
    ASSUME LedInv, NEW p \in Correct, NEW in, inner' = [inner EXCEPT ![p] = in],
           UNCHANGED <<epoch, stopped, writes, accepts>>,
           {"got", "collected", "writtenCounts"} \subseteq DOMAIN in,
           in.writtenCounts = inner[p].writtenCounts, in.collected = inner[p].collected,
           inner[p].got \subseteq in.got
    PROVE  LedInv'
<1>1. CountsOK(inner[p], writes, epoch[p]) BY DEF LedInv
<1>2. CountsOK(in, writes, epoch[p]) BY <1>1, CountsKeep
<1> QED BY <1>2, InnerMoves

LEMMA LedProposes ==
    ASSUME LedInv, NEW p \in Correct, Led!Propose(p) PROVE LedInv'
<1> DEFINE in == [inner[p] EXCEPT !.proposed = TRUE]
<1>1. inner' = [inner EXCEPT ![p] = in] /\ UNCHANGED <<epoch, stopped, writes, accepts>>
  BY DEF Led!Propose
<1>2. {"got", "collected", "writtenCounts"} \subseteq DOMAIN inner[p]
  BY DEF LedInv, CountsOK
<1>3. /\ {"got", "collected", "writtenCounts"} \subseteq DOMAIN in
      /\ in.writtenCounts = inner[p].writtenCounts /\ in.collected = inner[p].collected
      /\ in.got = inner[p].got
  BY <1>2
<1> HIDE DEF in
<1> QED BY <1>1, <1>3, InnerReceives

LEMMA LedReads ==
    ASSUME LedInv, NEW p \in Correct, Led!HandleRead(p) PROVE LedInv'
<1> DEFINE in == [inner[p] EXCEPT !.got = @ \cup {<<"read", Leader[epoch[p]]>>}]
<1>1. inner' = [inner EXCEPT ![p] = in] /\ UNCHANGED <<epoch, stopped, writes, accepts>>
  BY DEF Led!HandleRead
<1>2. {"got", "collected", "writtenCounts"} \subseteq DOMAIN inner[p]
  BY DEF LedInv, CountsOK
<1>3. /\ {"got", "collected", "writtenCounts"} \subseteq DOMAIN in
      /\ in.writtenCounts = inner[p].writtenCounts /\ in.collected = inner[p].collected
      /\ inner[p].got \subseteq in.got
  BY <1>2
<1> HIDE DEF in
<1> QED BY <1>1, <1>3, InnerReceives

\* The collector's handling of a SEND.
LEMMA LedCollects ==
    ASSUME LedInv, NEW p \in Correct, NEW q, NEW s, Led!HandleSend(p, q, s) PROVE LedInv'
<1> DEFINE got == inner[p].got \cup {<<"send", q>>}
<1>1. PICK ms : inner' = [inner EXCEPT ![p].got = got, ![p].messages = ms]
  BY DEF Led!HandleSend, Led!CheckCollected
<1> DEFINE in == [inner[p] EXCEPT !.got = got, !.messages = ms]
<1>2. UNCHANGED <<epoch, stopped, writes, accepts>> BY DEF Led!HandleSend
<1>3. {"got", "collected", "writtenCounts"} \subseteq DOMAIN inner[p] /\ p \in DOMAIN inner
  BY DEF LedInv, CountsOK
<1>4. inner' = [inner EXCEPT ![p] = in] BY <1>1
<1>5. /\ {"got", "collected", "writtenCounts"} \subseteq DOMAIN in
      /\ in.writtenCounts = inner[p].writtenCounts /\ in.collected = inner[p].collected
      /\ inner[p].got \subseteq in.got
  BY <1>3
<1> HIDE DEF in
<1> QED BY <1>2, <1>4, <1>5, InnerReceives


\* handleCollected: the WRITE, if there is one, is the first in the epoch.
LEMMA LedCollected ==
    ASSUME LedInv, NEW p \in Correct, NEW v \in LedValues \cup {None}, Led!HandleCollected(p, v)
    PROVE  LedInv'
<1> DEFINE in == [inner[p] EXCEPT !.collected = TRUE]
<1>1. /\ inner' = [inner EXCEPT ![p] = in] /\ UNCHANGED <<epoch, stopped, accepts>>
      /\ ~inner[p].collected /\ ~stopped[p]
      /\ writes' = writes \/ (v # None /\ writes' = writes \cup {<<p, epoch[p], v>>})
  BY DEF Led!HandleCollected, Led!StartWrite, Led!Running
<1>2. {"got", "collected", "writtenCounts"} \subseteq DOMAIN inner[p] /\ p \in DOMAIN inner
  BY DEF LedInv, CountsOK
<1>3. /\ {"got", "collected", "writtenCounts"} \subseteq DOMAIN in
      /\ in.writtenCounts = inner[p].writtenCounts /\ in.collected = TRUE
      /\ in.got = inner[p].got
  BY <1>2
<1> HIDE DEF in
<1>4. inner'[p] = in /\ \A q \in Correct : q # p => inner'[q] = inner[q]
  BY <1>1 DEF LedInv
<1>5. writes \subseteq writes' BY <1>1
<1>6. \A q \in Correct : CountsOK(inner'[q], writes', epoch'[q])
  <2> SUFFICES ASSUME NEW q \in Correct PROVE CountsOK(inner'[q], writes', epoch'[q])
    OBVIOUS
  <2>1. CountsOK(inner[q], writes, epoch[q]) BY DEF LedInv
  <2>2. CASE q = p
    <3>1. CountsOK(in, writes', epoch[p]) BY <1>3, <1>5, <2>1, <2>2, CountsKeep
    <3> QED BY <1>1, <1>4, <2>2, <3>1
  <2>3. CASE q # p
    <3>1. {"got", "collected", "writtenCounts"} \subseteq DOMAIN inner[q]
      BY <2>1 DEF CountsOK
    <3>2. CountsOK(inner[q], writes', epoch[q]) BY <1>5, <2>1, <3>1, CountsKeep
    <3> QED BY <1>1, <1>4, <2>3, <3>2
  <2> QED BY <2>2, <2>3
<1>7. \A m \in accepts : WrittenByQuorum(writes', m[2], m[3])
  BY <1>5, WritersGrow DEF LedInv
<1>8. epoch[p] \in Nat BY DEF LedInv
<1>9. WritesOK'
  <2>1. writes' \in SUBSET (Correct \X Nat \X LedValues)
    BY <1>1, <1>8 DEF LedInv, WritesOK
  <2>2. ASSUME NEW x \in LedValues, <<p, epoch[p], x>> \in writes PROVE FALSE
    BY <1>1, <1>8, <2>2 DEF LedInv, WritesOK
  <2>3. \A q \in Correct, e \in Nat, x, y \in LedValues :
          <<q, e, x>> \in writes' /\ <<q, e, y>> \in writes' => x = y
    BY <1>1, <2>2 DEF LedInv, WritesOK
  <2>4. ASSUME NEW q \in Correct, NEW e \in Nat, NEW x \in LedValues, <<q, e, x>> \in writes'
        PROVE  e <= epoch'[q] /\ (e = epoch'[q] => inner'[q].collected \/ stopped'[q])
    <3>1. CASE <<q, e, x>> \in writes
      <4>1. e <= epoch[q] /\ (e = epoch[q] => inner[q].collected \/ stopped[q])
        BY <3>1 DEF LedInv, WritesOK
      <4> QED BY <1>1, <1>3, <1>4, <4>1
    <3>2. CASE <<q, e, x>> = <<p, epoch[p], v>>
      <4>1. q = p /\ e = epoch[p] BY <3>2
      <4> QED BY <1>1, <1>3, <1>4, <1>8, <4>1
    <3> QED BY <1>1, <2>4, <3>1, <3>2
  <2> QED BY <2>1, <2>3, <2>4 DEF WritesOK
<1> QED BY <1>1, <1>6, <1>7, <1>9 DEF LedInv

\* handleWrite: a quorum of WRITEs has as many writers.
LEMMA LedWrites ==
    ASSUME LedInv, NEW p \in Correct, NEW q \in Led!Procs, NEW v \in LedValues,
           Led!HandleWrite(p, q, v)
    PROVE  LedInv'
<1> DEFINE old == inner[p]
           e == epoch[p]
           counts == [old.writtenCounts EXCEPT ![v] = @ + 1]
           got == old.got \cup {<<"write", q>>}
<1>1. /\ q \in Faulty \/ <<q, e, v>> \in writes
      /\ <<"write", q>> \notin old.got /\ q \in Everyone
      /\ Led!Got(p, "write", q) = got
      /\ UNCHANGED <<epoch, stopped, writes>>
  BY SameLed DEF Led!HandleWrite, Led!Receivable, Led!Got
<1>2. CountsOK(old, writes, e) /\ e \in Nat BY DEF LedInv
<1>3. counts \in [LedValues -> Nat] BY <1>2 DEF CountsOK
<1>4. ASSUME NEW x \in LedValues
      PROVE  counts[x] <= Cardinality(Counted(got, writes, e, x))
  <2> DEFINE C1 == Counted(old.got, writes, e, x)
             C2 == Counted(got, writes, e, x)
  <2>1. /\ C1 \subseteq C2 /\ C2 \subseteq Everyone
        /\ Cardinality(C1) \in Nat /\ Cardinality(C2) \in Nat
        /\ Cardinality(C1) <= Cardinality(C2)
    <3>1. old.got \subseteq got OBVIOUS
    <3> HIDE DEF got, old, e
    <3> QED BY <3>1, WritersGrow
  <2>2. old.writtenCounts[x] \in Nat /\ old.writtenCounts[x] <= Cardinality(C1)
    BY <1>2 DEF CountsOK
  <2>3. CASE x = v
    <3>1. q \in C2 /\ q \notin C1 BY <1>1, <2>3 DEF Counted, Writers
    <3>2. IsFiniteSet(C1) BY <2>1, SomeOfEveryone
    <3>3. Cardinality(C1 \cup {q}) = Cardinality(C1) + 1
      BY <3>1, <3>2, FS_AddElement
    <3>4. Cardinality(C1 \cup {q}) <= Cardinality(C2) /\ Cardinality(C1 \cup {q}) \in Nat
      BY <2>1, <3>1, SomeOfEveryone
    <3>5. counts[x] = old.writtenCounts[x] + 1 BY <1>2, <2>3 DEF CountsOK
    <3> HIDE DEF C1, C2, counts, old
    <3>6. counts[x] <= Cardinality(C2) BY <2>1, <2>2, <3>3, <3>4, <3>5
    <3> QED BY <3>6 DEF C2
  <2>4. CASE x # v
    <3>1. counts[x] = old.writtenCounts[x] BY <1>2, <2>4 DEF CountsOK
    <3> HIDE DEF C1, C2
    <3> QED BY <2>1, <2>2, <3>1 DEF C2
  <2> QED BY <2>3, <2>4
<1>5. ASSUME NEW x \in Led!OverQuorum(counts)
      PROVE  x \in LedValues /\ WrittenByQuorum(writes, e, x)
  <2>1. x \in LedValues /\ counts[x] > ByzantineQuorum BY SameLed DEF Led!OverQuorum
  <2>2. counts[x] \in Nat /\ counts[x] <= Cardinality(Counted(got, writes, e, x))
    BY <1>3, <1>4, <2>1
  <2>3. /\ Counted(got, writes, e, x) \subseteq Writers(writes, e, x)
        /\ Writers(writes, e, x) \subseteq Everyone
    BY DEF Counted, Writers
  <2>4. /\ Cardinality(Counted(got, writes, e, x)) \in Nat
        /\ Cardinality(Writers(writes, e, x)) \in Nat
        /\ Cardinality(Counted(got, writes, e, x)) <= Cardinality(Writers(writes, e, x))
    BY <2>3, SomeOfEveryone
  <2>5. Cardinality(Writers(writes, e, x)) > ByzantineQuorum
    <3> HIDE DEF counts, got, e
    <3> QED BY <2>1, <2>2, <2>4, EveryoneFinite
  <2> QED BY <2>1, <2>5 DEF WrittenByQuorum
<1>6. {"got", "collected", "writtenCounts"} \subseteq DOMAIN old BY <1>2 DEF CountsOK
<1>7. PICK wr, wc : /\ inner' = [inner EXCEPT ![p] =
                          [[old EXCEPT !.got = got] EXCEPT !.written = wr, !.writtenCounts = wc]]
                    /\ \/ wc = counts /\ accepts' = accepts
                       \/ /\ wc = Led!NoCounts
                          /\ \E w \in Led!OverQuorum(counts) :
                                accepts' = accepts \cup {<<p, e, w>>}
  <2>1. CASE /\ inner' = [inner EXCEPT ![p] =
                   [[old EXCEPT !.got = Led!Got(p, "write", q)]
                        EXCEPT !.written[q] = v, !.writtenCounts = counts]]
             /\ accepts' = accepts
    BY <1>1, <2>1
  <2>2. CASE \E w \in Led!OverQuorum(counts) :
             /\ inner' = [inner EXCEPT ![p] =
                   [[old EXCEPT !.got = Led!Got(p, "write", q)]
                        EXCEPT !.written = Led!NoEntries, !.writtenCounts = Led!NoCounts]]
             /\ accepts' = accepts \cup {<<p, e, w>>}
    BY <1>1, <2>2
  <2> QED BY <2>1, <2>2 DEF Led!HandleWrite
<1> DEFINE in == [[old EXCEPT !.got = got] EXCEPT !.written = wr, !.writtenCounts = wc]
<1>8. /\ {"got", "collected", "writtenCounts"} \subseteq DOMAIN in
      /\ in.writtenCounts = wc /\ in.got = got /\ in.collected = old.collected
  BY <1>6
<1>9. inner' = [inner EXCEPT ![p] = in] BY <1>7
<1> HIDE DEF in, counts, got
<1>10. CountsOK(in, writes, e)
  <2>1. CASE wc = counts BY <1>3, <1>4, <1>8, <2>1 DEF CountsOK
  <2>2. CASE wc = Led!NoCounts BY <1>8, <2>2, CountsEmpty DEF Led!NoCounts
  <2> QED BY <1>7, <2>1, <2>2
<1>11. /\ accepts' \in SUBSET (Correct \X Nat \X LedValues)
       /\ \A m \in accepts' : WrittenByQuorum(writes, m[2], m[3])
  BY <1>2, <1>5, <1>7 DEF LedInv
<1>12. inner'[p] = in /\ \A x \in Correct : x # p => inner'[x] = inner[x]
  BY <1>9 DEF LedInv
<1>13. DOMAIN inner' = Correct BY <1>9 DEF LedInv
<1>14. \A x \in Correct : CountsOK(inner'[x], writes', epoch'[x])
  BY <1>1, <1>10, <1>12 DEF LedInv
<1>15. WritesOK' BY <1>1, <1>8, <1>12 DEF LedInv, WritesOK
<1> QED BY <1>1, <1>11, <1>13, <1>14, <1>15 DEF LedInv


\* handleAccept counts ACCEPTs, which the invariant is not about.
LEMMA LedAccepts ==
    ASSUME LedInv, NEW p \in Correct, NEW q, NEW v, Led!HandleAccept(p, q, v) PROVE LedInv'
<1> DEFINE got == Led!Got(p, "accept", q)
<1>1. PICK ac, n, d : inner' = [inner EXCEPT ![p] =
          [@ EXCEPT !.got = got, !.accepted[q] = ac, !.acceptedCounts = n, !.deciding = d]]
  BY DEF Led!HandleAccept
<1> DEFINE in == [inner[p] EXCEPT !.got = got, !.accepted[q] = ac, !.acceptedCounts = n,
                                  !.deciding = d]
<1>2. UNCHANGED <<epoch, stopped, writes, accepts>>
  BY DEF Led!HandleAccept, Led!msgVars
<1>3. {"got", "collected", "writtenCounts"} \subseteq DOMAIN inner[p]
  BY DEF LedInv, CountsOK
<1>4. inner[p].got \subseteq got BY DEF Led!Got
<1>5. inner' = [inner EXCEPT ![p] = in] BY <1>1
<1> HIDE DEF got
<1>6. /\ {"got", "collected", "writtenCounts"} \subseteq DOMAIN in
      /\ in.writtenCounts = inner[p].writtenCounts /\ in.collected = inner[p].collected
      /\ inner[p].got \subseteq in.got
  BY <1>3, <1>4
<1> HIDE DEF in
<1> QED BY <1>2, <1>5, <1>6, InnerReceives

\* decide: the process handles nothing in its epoch any more.
LEMMA LedDecides ==
    ASSUME LedInv, NEW p \in Correct, NEW v, Led!Decide(p, v) PROVE LedInv'
<1>1. PICK got, ms : inner' = [inner EXCEPT ![p] =
                                  [Led!NewInner EXCEPT !.got = got, !.messages = ms]]
  BY DEF Led!Decide
<1> DEFINE in == [Led!NewInner EXCEPT !.got = got, !.messages = ms]
<1>2. stopped' = [stopped EXCEPT ![p] = TRUE] /\ UNCHANGED <<epoch, writes, accepts>>
  BY DEF Led!Decide, Led!msgVars
<1>3. /\ {"got", "collected", "writtenCounts"} \subseteq DOMAIN in
      /\ in.writtenCounts = [x \in LedValues |-> 0]
  BY NewInnerIs
<1>4. inner' = [inner EXCEPT ![p] = in] BY <1>1
<1> HIDE DEF in
<1>5. CountsOK(in, writes, epoch[p]) BY <1>3, CountsEmpty
<1>6. inner'[p] = in /\ \A q \in Correct : q # p => inner'[q] = inner[q]
  BY <1>4 DEF LedInv
<1>7. stopped'[p] = TRUE /\ \A q \in Correct : q # p => stopped'[q] = stopped[q]
  BY <1>2 DEF LedInv
<1>8. \A q \in Correct : CountsOK(inner'[q], writes', epoch'[q])
  BY <1>2, <1>5, <1>6 DEF LedInv
<1>9. WritesOK'
  <2>1. ASSUME NEW q \in Correct, NEW e \in Nat, NEW x \in LedValues, <<q, e, x>> \in writes
        PROVE  e <= epoch[q] /\ (e = epoch[q] => inner'[q].collected \/ stopped'[q])
    <3>1. e <= epoch[q] /\ (e = epoch[q] => inner[q].collected \/ stopped[q])
      BY <2>1 DEF LedInv, WritesOK
    <3>2. CASE q = p BY <1>7, <3>1, <3>2
    <3>3. CASE q # p
      <4>1. inner'[q] = inner[q] /\ stopped'[q] = stopped[q] BY <1>6, <1>7, <3>3
      <4> QED BY <3>1, <4>1
    <3> QED BY <3>2, <3>3
  <2> QED BY <1>2, <2>1 DEF LedInv, WritesOK
<1>10. DOMAIN inner' = Correct /\ DOMAIN stopped' = Correct BY <1>2, <1>4 DEF LedInv
<1> QED BY <1>2, <1>8, <1>9, <1>10 DEF LedInv

\* startEpoch: nothing has been written in the new epoch.
LEMMA LedStarts ==
    ASSUME LedInv, NEW p \in Correct, NEW e \in Nat, Led!StartEpoch(p, e) PROVE LedInv'
<1>1. /\ e > epoch[p] /\ epoch' = [epoch EXCEPT ![p] = e]
      /\ inner' = [inner EXCEPT ![p] = Led!NewInner]
      /\ UNCHANGED <<stopped, writes, accepts>>
  BY DEF Led!StartEpoch, Led!msgVars
<1>2. /\ epoch' \in [Correct -> Nat] /\ epoch'[p] = e
      /\ \A q \in Correct : q # p => epoch'[q] = epoch[q]
      /\ DOMAIN inner' = Correct /\ inner'[p] = Led!NewInner
      /\ \A q \in Correct : q # p => inner'[q] = inner[q]
  BY <1>1 DEF LedInv
<1>3. CountsOK(Led!NewInner, writes, e)
  <2>1. {"got", "collected", "writtenCounts"} \subseteq DOMAIN Led!NewInner BY NewInnerIs
  <2> QED BY <2>1, NewInnerIs, CountsEmpty
<1>4. \A q \in Correct : CountsOK(inner'[q], writes', epoch'[q])
  BY <1>1, <1>2, <1>3 DEF LedInv
<1>5. WritesOK'
  <2>1. ASSUME NEW q \in Correct, NEW k \in Nat, NEW x \in LedValues, <<q, k, x>> \in writes
        PROVE  k <= epoch'[q] /\ (k = epoch'[q] => inner'[q].collected \/ stopped[q])
    <3>1. /\ k <= epoch[q] /\ epoch[q] \in Nat
          /\ k = epoch[q] => inner[q].collected \/ stopped[q]
      BY <2>1 DEF LedInv, WritesOK
    <3>2. CASE q = p BY <1>1, <1>2, <3>1, <3>2
    <3>3. CASE q # p
      <4>1. inner'[q] = inner[q] /\ epoch'[q] = epoch[q] BY <1>2, <3>3
      <4> QED BY <3>1, <4>1
    <3> QED BY <3>2, <3>3
  <2> QED BY <1>1, <2>1 DEF LedInv, WritesOK
<1> QED BY <1>1, <1>2, <1>4, <1>5 DEF LedInv

LEMMA LedInvStep == LedInv /\ Led!Next => LedInv'
<1> SUFFICES ASSUME LedInv, Led!Next PROVE LedInv' OBVIOUS
<1>1. PICK p \in Correct : Led!Handle(p) \/ \E e \in Led!Epochs : Led!StartEpoch(p, e)
  BY DEF Led!Next
<1>2. CASE \E e \in Led!Epochs : Led!StartEpoch(p, e)
  BY <1>2, LedStarts, LedAssumption DEF Led!Epochs
<1>3. CASE Led!Propose(p) \/ Led!HandleRead(p) BY <1>3, LedProposes, LedReads
<1>4. CASE \E q, s : Led!HandleSend(p, q, s) BY <1>4, LedCollects
<1>5. CASE \E v \in LedValues \cup {None} : Led!HandleCollected(p, v) BY <1>5, LedCollected
<1>6. CASE \E q \in Led!Procs, v \in LedValues : Led!HandleInvalidWrite(p, q, v)
  BY <1>6 DEF Led!HandleInvalidWrite, Led!Validate
<1>7. CASE \E q \in Led!Procs, v \in LedValues : Led!HandleWrite(p, q, v) BY <1>7, LedWrites
<1>8. CASE \E q, v : Led!HandleAccept(p, q, v) BY <1>8, LedAccepts
<1>9. CASE \E v : Led!Decide(p, v) BY <1>9, LedDecides
<1> QED BY <1>1, <1>2, <1>3, <1>4, <1>5, <1>6, <1>7, <1>8, <1>9 DEF Led!Handle

\* What the invariant says of the property.
LEMMA AcceptsAgreeThere == LedInv => Led!AcceptsAgree
<1> SUFFICES ASSUME LedInv, NEW a1 \in accepts, NEW a2 \in accepts, a1[2] = a2[2]
             PROVE  a1[3] = a2[3]
  BY DEF Led!AcceptsAgree
<1>1. /\ a1[2] \in Nat /\ a1[3] \in LedValues /\ a2[3] \in LedValues
      /\ WrittenByQuorum(writes, a1[2], a1[3]) /\ WrittenByQuorum(writes, a1[2], a2[3])
  BY DEF LedInv
<1> QED BY <1>1, QuorumsWriteOne


-----------------------------------------------------------------------------
(* The coin where nobody may be missing *)

Flippers == Full.procs

\* m is the commitment of process q in round t.
IsCommit(m, q, t) == m.kind = "commit" /\ m.from = q /\ m.ts = t

\* A process commits once in a round, and by the time of a reveal all have.
CommitsOK(sent) ==
    /\ \A m \in sent : m.kind \in {"commit", "reveal"} /\ m.from \in Flippers /\ m.ts \in Nat \ {0}
    /\ \A m, n \in sent :
        m.kind = "commit" /\ n.kind = "commit" /\ m.from = n.from /\ m.ts = n.ts => m = n
    /\ \A m \in sent :
        m.kind = "reveal" => \A q \in Flippers : \E n \in sent : IsCommit(n, q, m.ts)

\* What process p is told by the coin in round t follows from the commitments.
FlipOK(p, t) ==
    coinFlips[p][t] # None =>
        \E w : /\ coinFlips[p][t] = Coin!Aggregate(w) /\ w = [q \in Flippers |-> w[q]]
               /\ \A q \in Flippers : \E m \in msgs : IsCommit(m, q, t) /\ m.value = w[q]

\* Where the commitments of others are at process p.  Those on their way to the scheme
\* are of its round, in one place, and not yet among commits; so none is left when
\* all are among commits, and none can be handed to the next scheme.
FlipperOK(p) ==
    /\ ts[p] \in Nat /\ delivered[p] \subseteq msgs
    /\ \A m \in buffered[p] \cup passing[p] \cup evts[p] :
        m.kind = "commit" => m \in delivered[p]
    /\ \A m \in buffered[p] : m.kind = "commit" => m.ts > ts[p]
    /\ \A m \in passing[p] \cup evts[p] : m.kind = "commit" => m.ts = ts[p]
    /\ \A m \in passing[p] \cap evts[p] : m.kind # "commit"
    /\ \A q \in Flippers :
        pendingReveals[p][q] # None => pendingReveals[p][q].kind # "commit"
    /\ commits[p] = [q \in Flippers |-> commits[p][q]]
    /\ \A q \in Flippers : commits[p][q] # None =>
        \E m \in delivered[p] \ (passing[p] \cup evts[p]) :
            IsCommit(m, q, ts[p]) /\ commits[p][q] = [ts |-> ts[p], value |-> m.value]
    /\ values[p] = [q \in Flippers |-> values[p][q]]
    /\ \A q \in Flippers : values[p][q] # None =>
        commits[p][q] # None /\ commits[p][q] = [ts |-> ts[p], value |-> values[p][q]]
    /\ done[p] /\ ts[p] # 0 => \A q \in Flippers : commits[p][q] # None
    /\ DOMAIN coinFlips[p] = 1 .. Full.maxTs /\ DOMAIN pendingReveals[p] = Flippers
    /\ \A t \in 1 .. Full.maxTs : FlipOK(p, t)

FlipperState(p) ==
    <<ts[p], buffered[p], passing[p], evts[p], delivered[p], commits[p], values[p],
      pendingReveals[p], done[p], coinFlips[p]>>

CoinDomains ==
    /\ DOMAIN ts = Flippers /\ DOMAIN buffered = Flippers /\ DOMAIN passing = Flippers
    /\ DOMAIN evts = Flippers /\ DOMAIN delivered = Flippers /\ DOMAIN commits = Flippers
    /\ DOMAIN values = Flippers /\ DOMAIN pendingReveals = Flippers
    /\ DOMAIN done = Flippers /\ DOMAIN coinFlips = Flippers

CoinInv ==
    /\ CoinDomains
    /\ CommitsOK(msgs)
    /\ \A m \in msgs : m.kind = "commit" => m.ts <= ts[m.from]
    /\ \A p \in Flippers : FlipperOK(p)

LEMMA SameCoin ==
    /\ \A S : Coin!Cardinality(S) = Cardinality(S)
    /\ Coin!N = Cardinality(Flippers) /\ Coin!Rounds = 1 .. Full.maxTs
    /\ Coin!NoEntries = [q \in Flippers |-> None]
    /\ Full.faults = 0 => /\ Coin!CommitQuorum = Cardinality(Flippers) - 0
                            /\ Coin!RevealQuorum = Cardinality(Flippers) - 0
<1>1. \A S : Coin!Cardinality(S) = Cardinality(S) BY DEF Coin!Cardinality, Cardinality
<1> QED BY <1>1 DEF Coin!N, Coin!Rounds, Coin!NoEntries, Coin!CommitQuorum, Coin!RevealQuorum,
                    Flippers

\* As many entries as processes: an entry of each.
LEMMA EntriesOfAll ==
    ASSUME NEW w, Cardinality(Coin!Entries(w)) >= Cardinality(Flippers) - 0
    PROVE  \A q \in Flippers : w[q] # None
<1> DEFINE E == Coin!Entries(w)
<1>1. E = {q \in Flippers : w[q] # None} BY DEF Coin!Entries, Flippers
<1>2. IsFiniteSet(Flippers) BY FlippersAssumption DEF Flippers
<1>3. E \subseteq Flippers BY <1>1
<1>4. Cardinality(Flippers) \in Nat /\ Cardinality(E) \in Nat
      /\ Cardinality(E) <= Cardinality(Flippers)
  BY <1>2, <1>3, FS_CardinalityType, FS_Subset
<1>5. Cardinality(E) = Cardinality(Flippers) BY <1>4
<1>6. E = Flippers BY <1>2, <1>3, <1>5, FS_Subset
<1> QED BY <1>1, <1>6

LEMMA CoinInvInit == Coin!Init => CoinInv
<1> SUFFICES ASSUME Coin!Init PROVE CoinInv OBVIOUS
<1>1. CoinDomains /\ msgs = {} BY DEF Coin!Init, CoinDomains, Flippers
<1>2. ASSUME NEW p \in Flippers PROVE FlipperOK(p)
  <2>1. /\ ts[p] = 0 /\ buffered[p] = {} /\ passing[p] = {} /\ evts[p] = {} /\ delivered[p] = {}
        /\ commits[p] = [q \in Flippers |-> None] /\ values[p] = [q \in Flippers |-> None]
        /\ pendingReveals[p] = [q \in Flippers |-> None]
        /\ coinFlips[p] = [t \in 1 .. Full.maxTs |-> None]
    BY DEF Coin!Init, Coin!NoEntries, Coin!Rounds, Flippers
  <2>2. \A t \in 1 .. Full.maxTs : FlipOK(p, t) BY <2>1 DEF FlipOK
  <2> QED BY <2>1, <2>2 DEF FlipperOK
<1>3. CommitsOK(msgs) BY <1>1 DEF CommitsOK
<1> QED BY <1>1, <1>2, <1>3 DEF CoinInv

\* The others stay as they are when one process moves and messages are sent.
LEMMA OthersStay ==
    ASSUME NEW q \in Flippers, FlipperOK(q), FlipperState(q)' = FlipperState(q),
           msgs \subseteq msgs'
    PROVE  FlipperOK(q)'
<1>1. /\ ts'[q] = ts[q] /\ buffered'[q] = buffered[q] /\ passing'[q] = passing[q]
      /\ evts'[q] = evts[q] /\ delivered'[q] = delivered[q] /\ commits'[q] = commits[q]
      /\ values'[q] = values[q] /\ pendingReveals'[q] = pendingReveals[q]
      /\ done'[q] = done[q] /\ coinFlips'[q] = coinFlips[q]
  BY DEF FlipperState
<1>2. \A t \in 1 .. Full.maxTs : FlipOK(q, t)'
  BY <1>1 DEF FlipperOK, FlipOK
<1>3. /\ ts'[q] \in Nat /\ delivered'[q] \subseteq msgs'
      /\ \A m \in buffered'[q] \cup passing'[q] \cup evts'[q] :
          m.kind = "commit" => m \in delivered'[q]
      /\ \A m \in buffered'[q] : m.kind = "commit" => m.ts > ts'[q]
      /\ \A m \in passing'[q] \cup evts'[q] : m.kind = "commit" => m.ts = ts'[q]
      /\ \A m \in passing'[q] \cap evts'[q] : m.kind # "commit"
      /\ DOMAIN coinFlips'[q] = 1 .. Full.maxTs /\ DOMAIN pendingReveals'[q] = Flippers
      /\ \A r \in Flippers :
          pendingReveals'[q][r] # None => pendingReveals'[q][r].kind # "commit"
  BY <1>1 DEF FlipperOK
<1>4. /\ commits'[q] = [r \in Flippers |-> commits'[q][r]]
      /\ \A r \in Flippers : commits'[q][r] # None =>
          \E m \in delivered'[q] \ (passing'[q] \cup evts'[q]) :
              IsCommit(m, r, ts'[q]) /\ commits'[q][r] = [ts |-> ts'[q], value |-> m.value]
      /\ done'[q] /\ ts'[q] # 0 => \A r \in Flippers : commits'[q][r] # None
  BY <1>1 DEF FlipperOK
<1>5. /\ values'[q] = [r \in Flippers |-> values'[q][r]]
      /\ \A r \in Flippers : values'[q][r] # None =>
          commits'[q][r] # None /\ commits'[q][r] = [ts |-> ts'[q], value |-> values'[q][r]]
  BY <1>1 DEF FlipperOK
<1> QED BY <1>2, <1>3, <1>4, <1>5 DEF FlipperOK

\* The flips of a process stay right when it is told nothing and messages are sent.
LEMMA FlipsStay ==
    ASSUME NEW p \in Flippers, FlipperOK(p), coinFlips'[p] = coinFlips[p], msgs \subseteq msgs'
    PROVE  /\ DOMAIN coinFlips'[p] = 1 .. Full.maxTs
           /\ \A t \in 1 .. Full.maxTs : FlipOK(p, t)'
  BY DEF FlipperOK, FlipOK

\* What an action of p has to show.
LEMMA FlipperMoves ==
    ASSUME CoinInv, NEW p \in Flippers, CoinDomains',
           \A q \in Flippers \ {p} : FlipperState(q)' = FlipperState(q),
           msgs \subseteq msgs', CommitsOK(msgs'),
           \A m \in msgs' \ msgs : m.kind = "commit" => m.from = p /\ m.ts = ts'[p],
           ts'[p] \in Nat, ts[p] <= ts'[p], FlipperOK(p)'
    PROVE  CoinInv'
<1>1. \A q \in Flippers : FlipperOK(q)' BY OthersStay DEF CoinInv
<1>2. ASSUME NEW m \in msgs', m.kind = "commit" PROVE m.ts <= ts'[m.from]
  <2>1. m.from \in Flippers /\ m.ts \in Nat BY DEF CommitsOK
  <2>2. CASE m \in msgs /\ m.from = p
    <3>1. m.ts <= ts[p] /\ ts[p] \in Nat BY <1>2, <2>2 DEF CoinInv, FlipperOK
    <3> QED BY <2>1, <2>2, <3>1
  <2>3. CASE m \in msgs /\ m.from # p
    <3>1. ts'[m.from] = ts[m.from] BY <2>1, <2>3 DEF FlipperState
    <3> QED BY <1>2, <2>3, <3>1 DEF CoinInv
  <2>4. CASE m \notin msgs BY <1>2, <2>4
  <2> QED BY <2>2, <2>3, <2>4
<1> QED BY <1>1, <1>2 DEF CoinInv

LEMMA SchemeMsgIs ==
    ASSUME NEW kind, NEW p, NEW t, NEW v
    PROVE  LET m == Coin!SchemeMsg(kind, p, t, v) IN
           m.kind = kind /\ m.from = p /\ m.ts = t /\ m.value = v
  BY DEF Coin!SchemeMsg

\* A commitment on its way to the scheme is the only one of its process in the round,
\* and not among commits.
LEMMA CommitIsNew ==
    ASSUME CoinInv, NEW p \in Flippers, NEW m \in passing[p] \cup evts[p], m.kind = "commit"
    PROVE  /\ m \in msgs /\ m \in delivered[p] /\ m.from \in Flippers
           /\ m.ts = ts[p] /\ ts[p] \in Nat \ {0} /\ commits[p][m.from] = None
<1>1. FlipperOK(p) /\ CommitsOK(msgs) BY DEF CoinInv
<1>2. m \in delivered[p] /\ m \in msgs /\ m.ts = ts[p] BY <1>1 DEF FlipperOK
<1>3. m.from \in Flippers /\ m.ts \in Nat \ {0} BY <1>1, <1>2 DEF CommitsOK
<1>4. SUFFICES ASSUME commits[p][m.from] # None PROVE FALSE BY <1>2, <1>3
<1>5. PICK n \in delivered[p] \ (passing[p] \cup evts[p]) : IsCommit(n, m.from, ts[p])
  BY <1>1, <1>3, <1>4 DEF FlipperOK
<1>6. n \in msgs /\ n.kind = "commit" /\ n.from = m.from /\ n.ts = m.ts
  BY <1>1, <1>2, <1>5 DEF FlipperOK, IsCommit
<1>7. n = m BY <1>1, <1>2, <1>6 DEF CommitsOK
<1> QED BY <1>5, <1>7

\* RunScheme: all commitments of the round before are among commits, so none of it is
\* passing.
LEMMA CoinRuns ==
    ASSUME CoinInv, NEW p \in Flippers, NEW v, Coin!RunScheme(p, v)
    PROVE  CoinInv'
<1> DEFINE c == Coin!SchemeMsg("commit", p, ts'[p], v)
<1>1. FlipperOK(p) /\ CommitsOK(msgs) /\ CoinDomains BY DEF CoinInv
<1>2. /\ ts'[p] = ts[p] + 1 /\ ts[p] \in Nat /\ done[p] /\ done'[p] = FALSE
      /\ commits'[p] = [q \in Flippers |-> None] /\ values'[p] = [q \in Flippers |-> None]
      /\ pendingReveals'[p] = [q \in Flippers |-> None]
      /\ evts'[p] = {m \in buffered[p] : m.ts = ts'[p]}
      /\ buffered'[p] = {m \in buffered[p] : m.ts # ts'[p]}
      /\ msgs' = msgs \cup {c} /\ passing' = passing /\ delivered' = delivered
      /\ coinFlips' = coinFlips
  BY <1>1 DEF Coin!RunScheme, Coin!NoEntries, Flippers, FlipperOK, CoinDomains
<1>3. c.kind = "commit" /\ c.from = p /\ c.ts = ts'[p] BY SchemeMsgIs
<1>4. CoinDomains' BY <1>1 DEF CoinDomains, Coin!RunScheme
<1>5. \A q \in Flippers \ {p} : FlipperState(q)' = FlipperState(q)
  BY <1>1 DEF Coin!RunScheme, FlipperState, CoinDomains
<1> HIDE DEF c
<1>6. CommitsOK(msgs')
  <2>1. ASSUME NEW m \in msgs', NEW n \in msgs', m.kind = "commit", n.kind = "commit",
               m.from = n.from, m.ts = n.ts
        PROVE  m = n
    <3>1. \A x \in msgs : x.kind = "commit" /\ x.from = p => x.ts <= ts[p] /\ x.ts \in Nat
      BY <1>1 DEF CoinInv, CommitsOK
    <3>2. CASE m \in msgs /\ n \in msgs BY <1>1, <2>1, <3>2 DEF CommitsOK
    <3>3. CASE m = c /\ n \in msgs
      <4>1. n.ts <= ts[p] /\ n.ts = ts[p] + 1 BY <1>2, <1>3, <2>1, <3>1, <3>3
      <4> QED BY <1>2, <4>1
    <3>4. CASE m \in msgs /\ n = c
      <4>1. m.ts <= ts[p] /\ m.ts = ts[p] + 1 BY <1>2, <1>3, <2>1, <3>1, <3>4
      <4> QED BY <1>2, <4>1
    <3>5. CASE m = c /\ n = c BY <3>5
    <3> QED BY <1>2, <3>2, <3>3, <3>4, <3>5
  <2>2. \A m \in msgs' : m.kind \in {"commit", "reveal"} /\ m.from \in Flippers
                         /\ m.ts \in Nat \ {0}
    BY <1>1, <1>2, <1>3 DEF CommitsOK
  <2>3. \A m \in msgs' :
          m.kind = "reveal" => \A q \in Flippers : \E n \in msgs' : IsCommit(n, q, m.ts)
    BY <1>1, <1>2, <1>3 DEF CommitsOK
  <2> QED BY <2>1, <2>2, <2>3 DEF CommitsOK
<1>7. \A m \in passing[p] : m.kind # "commit"
  <2> SUFFICES ASSUME NEW m \in passing[p], m.kind = "commit" PROVE FALSE OBVIOUS
  <2>1. m.from \in Flippers /\ ts[p] # 0 /\ commits[p][m.from] = None BY CommitIsNew
  <2> QED BY <1>1, <1>2, <2>1 DEF FlipperOK
<1>8. FlipperOK(p)'
  <2>1. \A m \in buffered[p] : m.kind = "commit" =>
          m \in delivered[p] /\ m.ts > ts[p] /\ m.ts \in Nat
    BY <1>1 DEF FlipperOK, CommitsOK
  <2>2. \A m \in buffered'[p] : m.kind = "commit" => m.ts > ts'[p]
    BY <1>2, <2>1
  <2>3. \A m \in buffered'[p] \cup passing'[p] \cup evts'[p] :
          m.kind = "commit" => m \in delivered'[p]
    BY <1>2, <1>7, <2>1
  <2>4. \A m \in passing'[p] \cup evts'[p] : m.kind = "commit" => m.ts = ts'[p]
    BY <1>2, <1>7
  <2>5. \A m \in passing'[p] \cap evts'[p] : m.kind # "commit" BY <1>2, <1>7
  <2>6. /\ DOMAIN coinFlips'[p] = 1 .. Full.maxTs
        /\ \A t \in 1 .. Full.maxTs : FlipOK(p, t)'
    BY <1>1, <1>2, FlipsStay
  <2>7. ts'[p] \in Nat /\ delivered'[p] \subseteq msgs' BY <1>1, <1>2 DEF FlipperOK
  <2>8. /\ commits'[p] = [q \in Flippers |-> commits'[p][q]]
        /\ values'[p] = [q \in Flippers |-> values'[p][q]]
        /\ DOMAIN pendingReveals'[p] = Flippers
        /\ \A q \in Flippers : commits'[p][q] = None /\ values'[p][q] = None
                               /\ pendingReveals'[p][q] = None
    BY <1>2
  <2> QED BY <1>2, <2>2, <2>3, <2>4, <2>5, <2>6, <2>7, <2>8 DEF FlipperOK
<1>9. \A m \in msgs' \ msgs : m.kind = "commit" => m.from = p /\ m.ts = ts'[p]
  BY <1>2, <1>3
<1>10. msgs \subseteq msgs' /\ ts'[p] \in Nat /\ ts[p] <= ts'[p] BY <1>2
<1> QED BY <1>4, <1>5, <1>6, <1>8, <1>9, <1>10, FlipperMoves

\* What of the scheme the steps of Coin.Deliver leave alone stays right.
LEMMA SchemeStays ==
    ASSUME NEW p \in Flippers, FlipperOK(p), ts'[p] = ts[p], commits'[p] = commits[p],
           values'[p] = values[p], pendingReveals'[p] = pendingReveals[p],
           coinFlips'[p] = coinFlips[p], msgs' = msgs, delivered[p] \subseteq delivered'[p],
           delivered'[p] \subseteq msgs', done'[p] = done[p],
           (passing[p] \cup evts[p])' \cap delivered[p] \subseteq passing[p] \cup evts[p],
           \A m \in buffered'[p] \cup passing'[p] \cup evts'[p] :
               m.kind = "commit" => m \in delivered'[p],
           \A m \in buffered'[p] : m.kind = "commit" => m.ts > ts[p],
           \A m \in passing'[p] \cup evts'[p] : m.kind = "commit" => m.ts = ts[p],
           \A m \in passing'[p] \cap evts'[p] : m.kind # "commit"
    PROVE  FlipperOK(p)'
<1>1. /\ DOMAIN coinFlips'[p] = 1 .. Full.maxTs
      /\ \A t \in 1 .. Full.maxTs : FlipOK(p, t)'
  BY FlipsStay
<1>2. \A q \in Flippers : commits'[p][q] # None =>
        \E m \in delivered'[p] \ (passing'[p] \cup evts'[p]) :
            IsCommit(m, q, ts'[p]) /\ commits'[p][q] = [ts |-> ts'[p], value |-> m.value]
  <2> SUFFICES ASSUME NEW q \in Flippers, commits[p][q] # None
               PROVE  \E m \in delivered'[p] \ (passing'[p] \cup evts'[p]) :
                        IsCommit(m, q, ts[p]) /\ commits[p][q] = [ts |-> ts[p], value |-> m.value]
    OBVIOUS
  <2>1. PICK m \in delivered[p] \ (passing[p] \cup evts[p]) :
          IsCommit(m, q, ts[p]) /\ commits[p][q] = [ts |-> ts[p], value |-> m.value]
    BY DEF FlipperOK
  <2> QED BY <2>1
<1> QED BY <1>1, <1>2 DEF FlipperOK


LEMMA CoinDelivers ==
    ASSUME CoinInv, NEW p \in Flippers, NEW m, Coin!Deliver(p, m)
    PROVE  CoinInv'
<1>1. FlipperOK(p) /\ CommitsOK(msgs) /\ CoinDomains BY DEF CoinInv
<1>2. /\ m \in msgs /\ m \notin delivered[p] /\ msgs' = msgs
      /\ delivered'[p] = delivered[p] \cup {m}
      /\ ts'[p] = ts[p] /\ commits'[p] = commits[p] /\ values'[p] = values[p]
      /\ pendingReveals'[p] = pendingReveals[p] /\ coinFlips'[p] = coinFlips[p]
      /\ done'[p] = done[p] /\ evts'[p] = evts[p]
  BY <1>1 DEF Coin!Deliver, Coin!scheme, CoinDomains
<1>3. \/ buffered'[p] = buffered[p] \cup {m} /\ m.ts > ts[p] /\ passing'[p] = passing[p]
      \/ passing'[p] = passing[p] \cup {m} /\ m.ts = ts[p] /\ buffered'[p] = buffered[p]
      \/ passing'[p] = passing[p] /\ buffered'[p] = buffered[p]
  BY <1>1 DEF Coin!Deliver, CoinDomains
<1>4. CoinDomains' BY <1>1 DEF CoinDomains, Coin!Deliver, Coin!scheme
<1>5. \A q \in Flippers \ {p} : FlipperState(q)' = FlipperState(q)
  BY <1>1 DEF Coin!Deliver, Coin!scheme, FlipperState, CoinDomains
<1>6. FlipperOK(p)'
  <2>1. delivered[p] \subseteq delivered'[p] /\ delivered'[p] \subseteq msgs'
    BY <1>1, <1>2 DEF FlipperOK
  <2>2. (passing[p] \cup evts[p])' \cap delivered[p] \subseteq passing[p] \cup evts[p]
    BY <1>2, <1>3
  <2>3. \A n \in buffered'[p] \cup passing'[p] \cup evts'[p] :
          n.kind = "commit" => n \in delivered'[p]
    BY <1>1, <1>2, <1>3 DEF FlipperOK
  <2>4. \A n \in buffered'[p] : n.kind = "commit" => n.ts > ts[p]
    BY <1>1, <1>3 DEF FlipperOK
  <2>5. \A n \in passing'[p] \cup evts'[p] : n.kind = "commit" => n.ts = ts[p]
    BY <1>1, <1>2, <1>3 DEF FlipperOK
  <2>6. \A n \in passing'[p] \cap evts'[p] : n.kind # "commit"
    BY <1>1, <1>2, <1>3 DEF FlipperOK
  <2> QED BY <1>1, <1>2, <2>1, <2>2, <2>3, <2>4, <2>5, <2>6, SchemeStays
<1>7. msgs \subseteq msgs' /\ CommitsOK(msgs') /\ ts'[p] \in Nat /\ ts[p] <= ts'[p]
      /\ \A n \in msgs' \ msgs : n.kind = "commit" => n.from = p /\ n.ts = ts'[p]
  BY <1>1, <1>2 DEF FlipperOK
<1> QED BY <1>4, <1>5, <1>6, <1>7, FlipperMoves

LEMMA CoinHandsOver ==
    ASSUME CoinInv, NEW p \in Flippers, NEW m, Coin!HandOver(p, m)
    PROVE  CoinInv'
<1>1. FlipperOK(p) /\ CommitsOK(msgs) /\ CoinDomains BY DEF CoinInv
<1>2. /\ m \in passing[p] /\ passing'[p] = passing[p] \ {m} /\ msgs' = msgs
      /\ delivered'[p] = delivered[p] /\ buffered'[p] = buffered[p]
      /\ ts'[p] = ts[p] /\ commits'[p] = commits[p] /\ values'[p] = values[p]
      /\ pendingReveals'[p] = pendingReveals[p] /\ coinFlips'[p] = coinFlips[p]
      /\ done'[p] = done[p]
  BY <1>1 DEF Coin!HandOver, Coin!scheme, CoinDomains
<1>3. evts'[p] = evts[p] \/ evts'[p] = evts[p] \cup {m}
  BY <1>1 DEF Coin!HandOver, CoinDomains
<1>4. CoinDomains' BY <1>1 DEF CoinDomains, Coin!HandOver, Coin!scheme
<1>5. \A q \in Flippers \ {p} : FlipperState(q)' = FlipperState(q)
  BY <1>1 DEF Coin!HandOver, Coin!scheme, FlipperState, CoinDomains
<1>6. FlipperOK(p)'
  <2>1. delivered[p] \subseteq delivered'[p] /\ delivered'[p] \subseteq msgs'
    BY <1>1, <1>2 DEF FlipperOK
  <2>2. (passing[p] \cup evts[p])' \cap delivered[p] \subseteq passing[p] \cup evts[p]
    BY <1>2, <1>3
  <2>3. \A n \in buffered'[p] \cup passing'[p] \cup evts'[p] :
          n.kind = "commit" => n \in delivered'[p]
    BY <1>1, <1>2, <1>3 DEF FlipperOK
  <2>4. \A n \in buffered'[p] : n.kind = "commit" => n.ts > ts[p]
    BY <1>1, <1>2 DEF FlipperOK
  <2>5. \A n \in passing'[p] \cup evts'[p] : n.kind = "commit" => n.ts = ts[p]
    BY <1>1, <1>2, <1>3 DEF FlipperOK
  <2>6. \A n \in passing'[p] \cap evts'[p] : n.kind # "commit"
    BY <1>1, <1>2, <1>3 DEF FlipperOK
  <2> QED BY <1>1, <1>2, <2>1, <2>2, <2>3, <2>4, <2>5, <2>6, SchemeStays
<1>7. msgs \subseteq msgs' /\ CommitsOK(msgs') /\ ts'[p] \in Nat /\ ts[p] <= ts'[p]
      /\ \A n \in msgs' \ msgs : n.kind = "commit" => n.from = p /\ n.ts = ts'[p]
  BY <1>1, <1>2 DEF FlipperOK
<1> QED BY <1>4, <1>5, <1>6, <1>7, FlipperMoves

LEMMA CoinEarly ==
    ASSUME CoinInv, NEW p \in Flippers, NEW m, Coin!OnEarlyReveal(p, m)
    PROVE  CoinInv'
<1>1. FlipperOK(p) /\ CommitsOK(msgs) /\ CoinDomains BY DEF CoinInv
<1>2. /\ m \in evts[p] /\ m.kind = "reveal" /\ evts'[p] = evts[p] \ {m}
      /\ pendingReveals'[p] = [pendingReveals[p] EXCEPT ![m.from] = m]
      /\ msgs' = msgs /\ delivered'[p] = delivered[p] /\ buffered'[p] = buffered[p]
      /\ ts'[p] = ts[p] /\ commits'[p] = commits[p] /\ values'[p] = values[p]
      /\ coinFlips'[p] = coinFlips[p] /\ done'[p] = done[p] /\ passing'[p] = passing[p]
  BY <1>1 DEF Coin!OnEarlyReveal, CoinDomains
<1>3. CoinDomains' BY <1>1 DEF CoinDomains, Coin!OnEarlyReveal
<1>4. \A q \in Flippers \ {p} : FlipperState(q)' = FlipperState(q)
  BY <1>1 DEF Coin!OnEarlyReveal, FlipperState, CoinDomains
<1>5. FlipperOK(p)'
  <2>1. /\ DOMAIN coinFlips'[p] = 1 .. Full.maxTs
        /\ \A t \in 1 .. Full.maxTs : FlipOK(p, t)'
    BY <1>1, <1>2, FlipsStay
  <2>2. DOMAIN pendingReveals'[p] = Flippers BY <1>1, <1>2 DEF FlipperOK
  <2>3. \A q \in Flippers :
          pendingReveals'[p][q] # None => pendingReveals'[p][q].kind # "commit"
    BY <1>1, <1>2 DEF FlipperOK
  <2> QED BY <1>1, <1>2, <2>1, <2>2, <2>3 DEF FlipperOK
<1>6. msgs \subseteq msgs' /\ CommitsOK(msgs') /\ ts'[p] \in Nat /\ ts[p] <= ts'[p]
      /\ \A n \in msgs' \ msgs : n.kind = "commit" => n.from = p /\ n.ts = ts'[p]
  BY <1>1, <1>2 DEF FlipperOK
<1> QED BY <1>3, <1>4, <1>5, <1>6, FlipperMoves

\* onCommit: the reveal it may send finds the commitments of all among commits.
LEMMA CoinCommits ==
    ASSUME CoinInv, Full.faults = 0, NEW p \in Flippers, NEW m, Coin!OnCommit(p, m)
    PROVE  CoinInv'
<1> DEFINE r == Coin!SchemeMsg("reveal", p, ts[p], value[p])
           entry == [ts |-> m.ts, value |-> m.value]
<1>1. FlipperOK(p) /\ CommitsOK(msgs) /\ CoinDomains BY DEF CoinInv
<1>2. m \in evts[p] /\ m.kind = "commit" BY DEF Coin!OnCommit
<1>3. /\ m \in msgs /\ m \in delivered[p] /\ m.from \in Flippers
      /\ m.ts = ts[p] /\ ts[p] \in Nat \ {0} /\ commits[p][m.from] = None
  BY <1>2, CommitIsNew
<1>4. m \notin passing[p] BY <1>1, <1>2 DEF FlipperOK
<1>5. /\ commits'[p] = [commits[p] EXCEPT ![m.from] = entry]
      /\ evts'[p] = (evts[p] \ {m}) \cup ({pendingReveals[p][m.from]} \ {None})
      /\ delivered'[p] = delivered[p] /\ buffered'[p] = buffered[p]
      /\ ts'[p] = ts[p] /\ pendingReveals'[p] = pendingReveals[p] /\ values'[p] = values[p]
      /\ coinFlips'[p] = coinFlips[p] /\ done'[p] = done[p] /\ passing'[p] = passing[p]
  BY <1>1 DEF Coin!OnCommit, Coin!Commitment, CoinDomains
<1>6. \/ msgs' = msgs
      \/ msgs' = msgs \cup {r}
         /\ Cardinality(Coin!Entries(commits'[p])) >= Cardinality(Flippers) - 0
  BY SameCoin DEF Coin!OnCommit
<1>7. r.kind = "reveal" /\ r.from = p /\ r.ts = ts[p] BY SchemeMsgIs
<1>8. CoinDomains' BY <1>1 DEF CoinDomains, Coin!OnCommit
<1>9. \A q \in Flippers \ {p} : FlipperState(q)' = FlipperState(q)
  BY <1>1 DEF Coin!OnCommit, FlipperState, CoinDomains
<1> HIDE DEF r
<1>10. \A q \in Flippers : commits'[p][q] # None =>
        \E n \in delivered'[p] \ (passing'[p] \cup evts'[p]) :
            IsCommit(n, q, ts'[p]) /\ commits'[p][q] = [ts |-> ts'[p], value |-> n.value]
  <2> SUFFICES ASSUME NEW q \in Flippers, commits'[p][q] # None
               PROVE  \E n \in delivered[p] \ (passing[p] \cup evts'[p]) :
                 IsCommit(n, q, ts[p]) /\ commits'[p][q] = [ts |-> ts[p], value |-> n.value]
    BY <1>5, SMTT(20)
  <2>1. \A n : n.kind = "commit" /\ n \in evts'[p] => n \in evts[p] \ {m}
    BY <1>1, <1>3, <1>5 DEF FlipperOK
  <2>2. CASE q = m.from
    <3>1. commits'[p][q] = entry BY <1>1, <1>3, <1>5, <2>2 DEF FlipperOK
    <3>2. m \in delivered[p] \ (passing[p] \cup evts'[p]) BY <1>2, <1>3, <1>4, <2>1
    <3> QED BY <1>2, <1>3, <2>2, <3>1, <3>2 DEF IsCommit
  <2>3. CASE q # m.from
    <3>1. commits'[p][q] = commits[p][q] BY <1>1, <1>5, <2>3 DEF FlipperOK
    <3>2. PICK n \in delivered[p] \ (passing[p] \cup evts[p]) :
            IsCommit(n, q, ts[p]) /\ commits[p][q] = [ts |-> ts[p], value |-> n.value]
      BY <1>1, <3>1 DEF FlipperOK
    <3>3. n \notin evts'[p] BY <2>1, <3>2 DEF IsCommit
    <3> QED BY <3>1, <3>2, <3>3
  <2> QED BY <2>2, <2>3
<1>11. CommitsOK(msgs')
  <2>1. CASE msgs' = msgs BY <1>1, <2>1
  <2>2. CASE /\ msgs' = msgs \cup {r}
             /\ Cardinality(Coin!Entries(commits'[p])) >= Cardinality(Flippers) - 0
    <3>1. \A q \in Flippers : commits'[p][q] # None BY <2>2, EntriesOfAll
    <3>2. ASSUME NEW q \in Flippers PROVE \E n \in msgs : IsCommit(n, q, r.ts)
      <4>1. PICK n \in delivered'[p] : IsCommit(n, q, ts'[p]) BY <1>10, <3>1
      <4>2. n \in msgs BY <1>1, <1>5, <4>1 DEF FlipperOK
      <4> QED BY <1>5, <1>7, <4>1, <4>2
    <3>3. r.ts \in Nat \ {0} BY <1>3, <1>7
    <3> QED BY <1>1, <1>7, <2>2, <3>2, <3>3 DEF CommitsOK
  <2> QED BY <1>6, <2>1, <2>2
<1>12. msgs \subseteq msgs' /\ ts'[p] \in Nat /\ ts[p] <= ts'[p]
       /\ \A n \in msgs' \ msgs : n.kind = "commit" => n.from = p /\ n.ts = ts'[p]
  BY <1>1, <1>5, <1>6, <1>7 DEF FlipperOK
<1>13. FlipperOK(p)'
  <2>1. /\ DOMAIN coinFlips'[p] = 1 .. Full.maxTs
        /\ \A t \in 1 .. Full.maxTs : FlipOK(p, t)'
    BY <1>1, <1>5, <1>12, FlipsStay
  <2>2. \A n : n.kind = "commit" /\ n \in evts'[p] => n \in evts[p]
    BY <1>1, <1>3, <1>5 DEF FlipperOK
  <2>3. /\ \A n \in buffered'[p] \cup passing'[p] \cup evts'[p] :
              n.kind = "commit" => n \in delivered'[p]
        /\ \A n \in buffered'[p] : n.kind = "commit" => n.ts > ts'[p]
        /\ \A n \in passing'[p] \cup evts'[p] : n.kind = "commit" => n.ts = ts'[p]
        /\ \A n \in passing'[p] \cap evts'[p] : n.kind # "commit"
    BY <1>1, <1>5, <2>2 DEF FlipperOK
  <2>4. \A q \in Flippers : values'[p][q] # None =>
          commits'[p][q] # None /\ commits'[p][q] = [ts |-> ts'[p], value |-> values'[p][q]]
    <3> SUFFICES ASSUME NEW q \in Flippers, values[p][q] # None
                 PROVE  /\ commits'[p][q] # None
                        /\ commits'[p][q] = [ts |-> ts[p], value |-> values[p][q]]
      BY <1>5
    <3>1. commits[p][q] # None /\ commits[p][q] = [ts |-> ts[p], value |-> values[p][q]]
      BY <1>1 DEF FlipperOK
    <3>2. q # m.from BY <1>3, <3>1
    <3>3. commits'[p][q] = commits[p][q] BY <1>1, <1>5, <3>2 DEF FlipperOK
    <3> QED BY <3>1, <3>3
  <2>5. done'[p] /\ ts'[p] # 0 => \A q \in Flippers : commits'[p][q] # None
    BY <1>1, <1>3, <1>5 DEF FlipperOK
  <2>6. commits'[p] = [q \in Flippers |-> commits'[p][q]]
    BY <1>1, <1>5 DEF FlipperOK
  <2>7. /\ values'[p] = [q \in Flippers |-> values'[p][q]]
        /\ DOMAIN pendingReveals'[p] = Flippers
        /\ \A q \in Flippers :
              pendingReveals'[p][q] # None => pendingReveals'[p][q].kind # "commit"
        /\ ts'[p] \in Nat /\ delivered'[p] \subseteq msgs'
    BY <1>1, <1>5, <1>12 DEF FlipperOK
  <2> HIDE DEF entry
  <2> QED BY <1>10, <2>1, <2>3, <2>4, <2>5, <2>6, <2>7 DEF FlipperOK
<1> QED BY <1>8, <1>9, <1>11, <1>12, <1>13, FlipperMoves

\* onReveal: only values that all are bound to are aggregated.
LEMMA CoinReveals ==
    ASSUME CoinInv, Full.faults = 0, NEW p \in Flippers, NEW m, Coin!OnReveal(p, m)
    PROVE  CoinInv'
<1> DEFINE w == values'[p]
<1>1. FlipperOK(p) /\ CommitsOK(msgs) /\ CoinDomains BY DEF CoinInv
<1>2. /\ m \in evts[p] /\ commits[p][m.from] # None
      /\ delivered'[p] = delivered[p] /\ buffered'[p] = buffered[p] /\ msgs' = msgs
      /\ ts'[p] = ts[p] /\ pendingReveals'[p] = pendingReveals[p] /\ commits'[p] = commits[p]
      /\ passing'[p] = passing[p]
  BY <1>1 DEF Coin!OnReveal, CoinDomains
<1>3. \/ values'[p] = values[p]
      \/ /\ values'[p] = [values[p] EXCEPT ![m.from] = m.value]
         /\ [ts |-> m.ts, value |-> m.value] = commits[p][m.from]
  BY <1>1 DEF Coin!OnReveal, Coin!Commitment, CoinDomains
<1>4. \/ /\ Cardinality(Coin!Entries(values'[p])) >= Cardinality(Flippers) - 0
         /\ coinFlips'[p] = [coinFlips[p] EXCEPT ![ts[p]] = Coin!Aggregate(values'[p])]
         /\ done'[p] = TRUE /\ evts'[p] = {}
      \/ coinFlips'[p] = coinFlips[p] /\ done'[p] = done[p] /\ evts'[p] = evts[p] \ {m}
  BY <1>1, SameCoin DEF Coin!OnReveal, CoinDomains
<1>5. CoinDomains' BY <1>1 DEF CoinDomains, Coin!OnReveal
<1>6. \A q \in Flippers \ {p} : FlipperState(q)' = FlipperState(q)
  BY <1>1 DEF Coin!OnReveal, FlipperState, CoinDomains
<1>7. /\ w = [q \in Flippers |-> w[q]]
      /\ \A q \in Flippers : w[q] # None =>
           commits[p][q] # None /\ commits[p][q] = [ts |-> ts[p], value |-> w[q]]
  <2>1. CASE values'[p] = values[p] BY <1>1, <2>1 DEF FlipperOK
  <2>2. CASE /\ values'[p] = [values[p] EXCEPT ![m.from] = m.value]
             /\ [ts |-> m.ts, value |-> m.value] = commits[p][m.from]
    <3>1. w = [q \in Flippers |-> w[q]] BY <1>1, <2>2 DEF FlipperOK
    <3>2. ASSUME NEW q \in Flippers, w[q] # None
          PROVE  commits[p][q] # None /\ commits[p][q] = [ts |-> ts[p], value |-> w[q]]
      <4>1. CASE q # m.from
        <5>1. w[q] = values[p][q] BY <1>1, <2>2, <4>1 DEF FlipperOK
        <5> QED BY <1>1, <3>2, <5>1 DEF FlipperOK
      <4>2. CASE q = m.from
        <5>1. w[q] = m.value BY <1>1, <2>2, <4>2 DEF FlipperOK
        <5>2. PICK n \in delivered[p] : commits[p][q] = [ts |-> ts[p], value |-> n.value]
          BY <1>1, <1>2, <4>2 DEF FlipperOK
        <5>3. m.ts = ts[p] BY <2>2, <4>2, <5>2
        <5> QED BY <1>2, <2>2, <4>2, <5>1, <5>3
      <4> QED BY <4>1, <4>2
    <3> QED BY <3>1, <3>2
  <2> QED BY <1>3, <2>1, <2>2
<1> HIDE DEF w
<1>8. ASSUME Cardinality(Coin!Entries(w)) >= Cardinality(Flippers) - 0
      PROVE  \A q \in Flippers : \E n \in msgs : IsCommit(n, q, ts[p]) /\ n.value = w[q]
  <2> TAKE q \in Flippers
  <2>1. w[q] # None BY <1>8, EntriesOfAll
  <2>2. commits[p][q] # None /\ commits[p][q] = [ts |-> ts[p], value |-> w[q]] BY <1>7, <2>1
  <2>3. PICK n \in delivered[p] :
          IsCommit(n, q, ts[p]) /\ commits[p][q] = [ts |-> ts[p], value |-> n.value]
    BY <1>1, <2>2 DEF FlipperOK
  <2>4. n.value = w[q] BY <2>2, <2>3
  <2> QED BY <1>1, <2>3, <2>4 DEF FlipperOK
<1>9. /\ DOMAIN coinFlips'[p] = 1 .. Full.maxTs
      /\ \A t \in 1 .. Full.maxTs : FlipOK(p, t)'
  <2>1. CASE coinFlips'[p] = coinFlips[p] BY <1>1, <1>2, <2>1, FlipsStay
  <2>2. CASE /\ Cardinality(Coin!Entries(w)) >= Cardinality(Flippers) - 0
             /\ coinFlips'[p] = [coinFlips[p] EXCEPT ![ts[p]] = Coin!Aggregate(w)]
    <3>1. DOMAIN coinFlips'[p] = 1 .. Full.maxTs BY <1>1, <2>2 DEF FlipperOK
    <3>2. ASSUME NEW t \in 1 .. Full.maxTs PROVE FlipOK(p, t)'
      <4>1. CASE t # ts[p]
        <5>1. coinFlips'[p][t] = coinFlips[p][t] BY <1>1, <2>2, <4>1 DEF FlipperOK
        <5>2. FlipOK(p, t) BY <1>1 DEF FlipperOK
        <5> QED BY <1>2, <5>1, <5>2 DEF FlipOK
      <4>2. CASE t = ts[p]
        <5>1. coinFlips'[p][t] = Coin!Aggregate(w) BY <1>1, <2>2, <4>2 DEF FlipperOK
        <5>2. \A q \in Flippers : \E n \in msgs' : IsCommit(n, q, t) /\ n.value = w[q]
          BY <1>2, <1>8, <2>2, <4>2
        <5> QED BY <1>7, <5>1, <5>2 DEF FlipOK
      <4> QED BY <4>1, <4>2
    <3> QED BY <3>1, <3>2
  <2> QED BY <1>4, <2>1, <2>2 DEF w
<1>10. evts'[p] \subseteq evts[p] BY <1>4
<1>11. done'[p] /\ ts'[p] # 0 => \A q \in Flippers : commits'[p][q] # None
  <2>1. CASE Cardinality(Coin!Entries(w)) >= Cardinality(Flippers) - 0
    <3>1. \A q \in Flippers : w[q] # None BY <2>1, EntriesOfAll
    <3> QED BY <1>2, <1>7, <3>1
  <2>2. CASE done'[p] = done[p] BY <1>1, <1>2, <2>2 DEF FlipperOK
  <2> QED BY <1>4, <2>1, <2>2 DEF w
<1>12. FlipperOK(p)'
  <2>1. /\ values'[p] = [q \in Flippers |-> values'[p][q]]
        /\ \A q \in Flippers : values'[p][q] # None =>
             commits'[p][q] # None /\ commits'[p][q] = [ts |-> ts'[p], value |-> values'[p][q]]
    BY <1>2, <1>7 DEF w
  <2>2. \A q \in Flippers : commits'[p][q] # None =>
          \E n \in delivered'[p] \ (passing'[p] \cup evts'[p]) :
            IsCommit(n, q, ts'[p]) /\ commits'[p][q] = [ts |-> ts'[p], value |-> n.value]
    BY <1>1, <1>2, <1>10 DEF FlipperOK
  <2>3. /\ \A n \in buffered'[p] \cup passing'[p] \cup evts'[p] :
              n.kind = "commit" => n \in delivered'[p]
        /\ \A n \in buffered'[p] : n.kind = "commit" => n.ts > ts'[p]
        /\ \A n \in passing'[p] \cup evts'[p] : n.kind = "commit" => n.ts = ts'[p]
        /\ \A n \in passing'[p] \cap evts'[p] : n.kind # "commit"
    BY <1>1, <1>2, <1>10 DEF FlipperOK
  <2>4. /\ commits'[p] = [q \in Flippers |-> commits'[p][q]]
        /\ DOMAIN pendingReveals'[p] = Flippers
        /\ \A q \in Flippers :
              pendingReveals'[p][q] # None => pendingReveals'[p][q].kind # "commit"
        /\ ts'[p] \in Nat /\ delivered'[p] \subseteq msgs'
    BY <1>1, <1>2 DEF FlipperOK
  <2> QED BY <1>9, <1>11, <2>1, <2>2, <2>3, <2>4 DEF FlipperOK
<1>13. msgs \subseteq msgs' /\ CommitsOK(msgs') /\ ts'[p] \in Nat /\ ts[p] <= ts'[p]
      /\ \A n \in msgs' \ msgs : n.kind = "commit" => n.from = p /\ n.ts = ts'[p]
  BY <1>1, <1>2 DEF FlipperOK
<1> QED BY <1>5, <1>6, <1>12, <1>13, FlipperMoves


LEMMA CoinInvStep ==
    ASSUME CoinInv, Full.faults = 0, Coin!Next
    PROVE  CoinInv'
<1>1. PICK p \in Flippers :
          \/ \E v : Coin!RunScheme(p, v)
          \/ \E m : Coin!Deliver(p, m)
          \/ \E m : Coin!HandOver(p, m)
          \/ \E m : Coin!OnCommit(p, m)
          \/ \E m : Coin!OnReveal(p, m)
          \/ \E m : Coin!OnEarlyReveal(p, m)
  BY DEF Coin!Next, Coin!Step, Flippers
<1> QED BY <1>1, CoinRuns, CoinDelivers, CoinHandsOver, CoinCommits, CoinReveals, CoinEarly

\* What the invariant says of the properties.
LEMMA RevealsFollow == CoinInv => Coin!RevealAfterQuorum
<1> SUFFICES ASSUME CoinInv, NEW m \in msgs, m.kind = "reveal"
             PROVE  Coin!Cardinality({q \in Full.procs : \E n \in msgs :
                        n.kind = "commit" /\ n.from = q /\ n.ts = m.ts}) >= Coin!N
  BY DEF Coin!RevealAfterQuorum
<1> DEFINE S == {q \in Full.procs : \E n \in msgs :
                    n.kind = "commit" /\ n.from = q /\ n.ts = m.ts}
<1>1. \A q \in Flippers : \E n \in msgs : IsCommit(n, q, m.ts) BY DEF CoinInv, CommitsOK
<1>2. S = Flippers BY <1>1 DEF IsCommit, Flippers
<1>3. Cardinality(Flippers) \in Nat BY FlippersAssumption, FS_CardinalityType DEF Flippers
<1>4. Coin!Cardinality(S) = Cardinality(Flippers) /\ Coin!N = Cardinality(Flippers)
  BY <1>2, SameCoin
<1> HIDE DEF S
<1>5. Coin!Cardinality(S) >= Coin!N BY <1>3, <1>4
<1> QED BY <1>5 DEF S

LEMMA FlipsAgree == CoinInv => Coin!CommonFlip
<1> SUFFICES ASSUME CoinInv, NEW t \in 1 .. Full.maxTs, NEW p \in Flippers, NEW q \in Flippers,
                    coinFlips[p][t] # None, coinFlips[q][t] # None
             PROVE  coinFlips[p][t] = coinFlips[q][t]
  BY DEF Coin!CommonFlip, Coin!Rounds, Flippers
<1>1. FlipOK(p, t) /\ FlipOK(q, t) BY DEF CoinInv, FlipperOK
<1>2. PICK w : /\ coinFlips[p][t] = Coin!Aggregate(w) /\ w = [r \in Flippers |-> w[r]]
               /\ \A r \in Flippers : \E m \in msgs : IsCommit(m, r, t) /\ m.value = w[r]
  BY <1>1 DEF FlipOK
<1>3. PICK x : /\ coinFlips[q][t] = Coin!Aggregate(x) /\ x = [r \in Flippers |-> x[r]]
               /\ \A r \in Flippers : \E m \in msgs : IsCommit(m, r, t) /\ m.value = x[r]
  BY <1>1 DEF FlipOK
<1>4. \A r \in Flippers : w[r] = x[r]
  <2> TAKE r \in Flippers
  <2>1. PICK m \in msgs : IsCommit(m, r, t) /\ m.value = w[r] BY <1>2
  <2>2. PICK n \in msgs : IsCommit(n, r, t) /\ n.value = x[r] BY <1>3
  <2>3. m = n BY <2>1, <2>2 DEF IsCommit, CoinInv, CommitsOK
  <2> QED BY <2>1, <2>2, <2>3
<1>5. w = x BY <1>2, <1>3, <1>4
<1> QED BY <1>2, <1>3, <1>5

-----------------------------------------------------------------------------
(* The systems side by side *)

ConsensusInv ==
    /\ system = "pair" => VotingInv(Pair)
    /\ system = "unanimous" => VotingInv(Unanimous)
    /\ system = "rounds" /\ Full.faults = 0 => CoinInv
    /\ system = "led" => LedInv

LEMMA VotersOK == VotingOK(Pair) /\ VotingOK(Unanimous)
  BY VotersAssumption DEF VotingOK, Voters, Proposed

LEMMA ConsensusInvInit == Init => ConsensusInv
<1> SUFFICES ASSUME Init PROVE ConsensusInv OBVIOUS
<1>1. system = "pair" => VotingInv(Pair) BY VotersOK, VotingInvInit DEF Init
<1>2. system = "unanimous" => VotingInv(Unanimous) BY VotersOK, VotingInvInit DEF Init
<1>3. system = "rounds" => CoinInv BY CoinInvInit DEF Init
<1>4. system = "led" => LedInv BY LedInvInit DEF Init
<1> QED BY <1>1, <1>2, <1>3, <1>4 DEF ConsensusInv

\* A step of another system leaves what the invariants are about alone.
LEMMA OthersLeaveAlone ==
    /\ UNCHANGED randomizedVars => \A config : VotingInv(config) => VotingInv(config)'
    /\ CoinInv /\ UNCHANGED coinVars => CoinInv'
    /\ LedInv /\ UNCHANGED byzantineVars => LedInv'
<1>1. ASSUME UNCHANGED randomizedVars, NEW config, VotingInv(config) PROVE VotingInv(config)'
  BY <1>1 DEF VotingInv, randomizedVars
<1>2. ASSUME CoinInv, UNCHANGED coinVars PROVE CoinInv'
  <2>1. \A p \in Flippers : FlipperOK(p)'
    BY <1>2, OthersStay DEF coinVars, CoinInv, FlipperState
  <2>2. CoinDomains' BY <1>2 DEF coinVars, CoinInv, CoinDomains
  <2> QED BY <1>2, <2>1, <2>2 DEF coinVars, CoinInv
<1>3. ASSUME LedInv, UNCHANGED byzantineVars PROVE LedInv'
  BY <1>3 DEF byzantineVars, LedInv, WritesOK
<1> QED BY <1>1, <1>2, <1>3

LEMMA ConsensusInvStep == ConsensusInv /\ [Next]_vars => ConsensusInv'
<1> SUFFICES ASSUME ConsensusInv, [Next]_vars PROVE ConsensusInv' OBVIOUS
<1>1. system' = system BY DEF Next, vars, InRandomized, InCoin, InByzantine
<1>2. system = "pair" => VotingInv(Pair)'
  <2> SUFFICES ASSUME system = "pair" PROVE VotingInv(Pair)' OBVIOUS
  <2>1. Randomized(Pair)!Next \/ UNCHANGED randomizedVars
    BY DEF Next, vars, InRandomized, InCoin, InByzantine
  <2> QED BY <2>1, VotersOK, VotingInvStep, OthersLeaveAlone DEF ConsensusInv
<1>3. system = "unanimous" => VotingInv(Unanimous)'
  <2> SUFFICES ASSUME system = "unanimous" PROVE VotingInv(Unanimous)' OBVIOUS
  <2>1. Randomized(Unanimous)!Next \/ UNCHANGED randomizedVars
    BY DEF Next, vars, InRandomized, InCoin, InByzantine
  <2> QED BY <2>1, VotersOK, VotingInvStep, OthersLeaveAlone DEF ConsensusInv
<1>4. system = "rounds" /\ Full.faults = 0 => CoinInv'
  <2> SUFFICES ASSUME system = "rounds", Full.faults = 0 PROVE CoinInv' OBVIOUS
  <2>1. Coin!Next \/ UNCHANGED coinVars
    BY DEF Next, vars, InRandomized, InCoin, InByzantine
  <2> QED BY <2>1, CoinInvStep, OthersLeaveAlone DEF ConsensusInv
<1>5. system = "led" => LedInv'
  <2> SUFFICES ASSUME system = "led" PROVE LedInv' OBVIOUS
  <2>1. Led!Next \/ UNCHANGED byzantineVars
    BY DEF Next, vars, InRandomized, InCoin, InByzantine
  <2> QED BY <2>1, LedInvStep, OthersLeaveAlone DEF ConsensusInv
<1> QED BY <1>1, <1>2, <1>3, <1>4, <1>5 DEF ConsensusInv

\* The invariant of the systems holds in every state: votes of the randomized
\* consensus are seconded by a majority, the coin's schemes see the commitments of
\* their own round only, and accepts of the Byzantine consensus are backed by a
\* quorum of WRITEs.
THEOREM ConsensusCorrect == Spec => []ConsensusInv
<1> QED BY ConsensusInvInit, ConsensusInvStep, PTL DEF Spec

\* Two processes never vote for different values in phase 2 of a round, however many
\* they are and whichever late messages they count (handlePhase1, findMajorityValue).
THEOREM VotesAgree == Spec => []Phase2Agree
<1>1. ConsensusInv => Phase2Agree
  BY VotersOK, VotesAgreeThere DEF ConsensusInv, Phase2Agree
<1> QED BY <1>1, ConsensusCorrect, PTL

\* Once all have proposed the same value, all vote for it in every round (handlePhase1).
THEOREM UnanimousVotesFollow == Spec => []UnanimousVotes
<1>1. ConsensusInv => UnanimousVotes
  BY VotersOK, VotesAgreeThere DEF ConsensusInv, UnanimousVotes
<1> QED BY <1>1, ConsensusCorrect, PTL

\* Where none may be missing, nobody reveals before all others have committed a value
\* of the same round (onCommit, HandOver).
THEOREM RevealsAfterCommits == Spec => []RevealAfterQuorum
<1>1. ConsensusInv => RevealAfterQuorum
  <2>1. Full.faults # 0 => Coin!RevealAfterQuorum BY DEF Coin!RevealAfterQuorum
  <2> QED BY <2>1, RevealsFollow DEF ConsensusInv, RevealAfterQuorum
<1> QED BY <1>1, ConsensusCorrect, PTL

\* Where none may be missing, all are told the same coin of a round, whatever the
\* order of the reveals (onReveal, aggregate).
THEOREM FlipsCommon == Spec => []CommonFlip
<1>1. ConsensusInv => CommonFlip
  <2>1. Full.faults # 0 => Coin!CommonFlip BY DEF Coin!CommonFlip
  <2> QED BY <2>1, FlipsAgree DEF ConsensusInv, CommonFlip
<1> QED BY <1>1, ConsensusCorrect, PTL

\* Correct processes accept one value in an epoch, whatever the faulty ones, at most
\* Faults, write to whom (handleWrite).
THEOREM AcceptsOfOneValue == Spec => []AcceptsAgree
<1>1. ConsensusInv => AcceptsAgree BY AcceptsAgreeThere DEF ConsensusInv, AcceptsAgree
<1> QED BY <1>1, ConsensusCorrect, PTL


=============================================================================
