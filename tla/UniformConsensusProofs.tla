----------------------- MODULE UniformConsensusProofs -----------------------
(***************************************************************************)
(* Proofs about UniformConsensus for any number of processes, any set of    *)
(* values and any epochs with one leader each.                             *)
(*                                                                         *)
(* The invariant comes in four layers, each proved with the ones before:   *)
(* NodeInv (types and the life of one node), ValuesInv (where values come   *)
(* from), WriteInv (one write per epoch, a decision needs a quorum of       *)
(* accepts) and SafeInv (a write agrees with everything that may already    *)
(* have been decided).                                                     *)
(***************************************************************************)
EXTENDS UniformConsensus, FiniteSetTheorems, TLAPS

(* Layer 1: one node *)

\* A leader past StatePropose has a value.
TempKnown ==
    \A p \in Procs : phase[p] \in {"reading", "writing", "deciding"} => temp[p] \in Values

\* An abort of the current epoch leads to a later one.
AbortsLeadOn ==
    \A p \in Procs : \A env \in abortedEnvs[p] :
        env.ts <= ets[p] /\ (env.ts = ets[p] => newTs[p] > ets[p])

NodeInv == TypeOK /\ TempKnown /\ LeaderReady /\ AbortsLeadOn

(* Layer 2: values *)

\* Nil or a value somebody proposed.
Known == proposals \cup {None}

\* Every value on its way to a decision was proposed.
ValuesInv ==
    /\ \A p \in Procs :
          /\ val[p] \in Known /\ temp[p] \in Known
          /\ current[p].val \in Known /\ decision[p].val \in Known
          /\ \A q \in Procs : rcvStates[p][q].val \in Known
          /\ \A env \in decidedEnvs[p] : env.val \in Known
          /\ \A env \in abortedEnvs[p] : env.state.val \in Known
    /\ \A m \in msgs : m.type \in {"state", "write", "decide"} => m.val \in Known

(* Layer 3: writes and accepts *)

\* The leader of epoch c has written v.
Wrote(c, v) == [type |-> "write", from |-> LeaderOf[c], epoch |-> c, val |-> v] \in msgs

\* The accept of q in epoch c, and who has sent it.
Accept(q, c) == [type |-> "accept", from |-> q, to |-> LeaderOf[c], epoch |-> c]
Accepted(c) == {q \in Procs : Accept(q, c) \in msgs}

\* The accepts of its epoch the leader p has been handed.
Counted(p) == {q \in Procs : Accept(q, ets[p]) \in delivered[p]}

\* A quorum has accepted what was written in epoch c.
Chosen(c, v) == Wrote(c, v) /\ Cardinality(Accepted(c)) >= quorum

\* Writes come from leaders, accepts go to them, decisions were chosen.
MessagesGenuine ==
    \A m \in msgs :
        /\ m.type = "write" => m.from = LeaderOf[m.epoch]
        /\ m.type = "accept" => m.to = LeaderOf[m.epoch]
        /\ m.type = "decide" => Chosen(m.epoch, m.val)

\* A leader writes one value in an epoch, the one it keeps in tempValue.
WritesKept ==
    \A m \in msgs :
        m.type = "write" =>
            \/ ets[m.from] > m.epoch
            \/ /\ ets[m.from] = m.epoch
               /\ phase[m.from] \in {"writing", "deciding", "decided"}
               /\ leader(m.from) = m.from /\ temp[m.from] = m.val

\* A leader that waits for accepts has written its tempValue.
LeaderWrote ==
    \A p \in Procs : phase[p] \in {"writing", "deciding"} => 
        leader(p) = p /\ Wrote(ets[p], temp[p])

\* An epoch has one written value.
WriteOnce == \A c \in Epochs : \A v, w \in Values : Wrote(c, v) /\ Wrote(c, w) => v = w

\* The count of onReceivedAccept never runs ahead of the accepts.
CountsHonest ==
    \A p \in Procs :
        /\ delivered[p] \subseteq msgs
        /\ rcvAccepts[p] <= Cardinality(Counted(p))

\* A decision, under way or taken, was chosen in its epoch.
DecisionsChosen ==
    \A p \in Procs :
        /\ \A env \in decidedEnvs[p] : Chosen(env.ts, env.val)
        /\ Decided(p) => Chosen(decision[p].ts, decision[p].val) /\ decision[p].ts <= ets[p]

WriteInv ==
    /\ MessagesGenuine
    /\ WritesKept
    /\ LeaderWrote
    /\ WriteOnce
    /\ CountsHonest
    /\ DecisionsChosen

(* Layer 4: agreement across epochs *)

\* A process accepts in its current epoch only.
AcceptsOld == \A c \in Epochs : \A q \in Accepted(c) : c <= ets[q]

\* No value but v was or will be chosen in epoch c: v was written there, or a
\* quorum has left c without accepting, or v was chosen before.
SafeAt(c, v) ==
    \/ Wrote(c, v)
    \/ \E Q \in SUBSET Procs :
          /\ Cardinality(Q) >= quorum
          /\ \A q \in Q : q \notin Accepted(c) /\ ets[q] > c
    \/ \E d \in Epochs : 0 < d /\ d < c /\ Chosen(d, v)

\* A state that may be handed on: nothing else was chosen up to its timestamp.
StateSafe(st) ==
    st.ts > 0 =>
        /\ st.val \in Values
        /\ \A c \in Epochs : 0 < c /\ c <= st.ts => SafeAt(c, st.val)

\* q has accepted nothing between the state and epoch e.
NothingMissed(q, st, e) == \A c \in Epochs : st.ts < c /\ c < e => q \notin Accepted(c)

\* What an abort of the present epoch reports cannot be outdated by an accept.
AbortCurrent(p, env) ==
    env.ts = ets[p] =>
        /\ env.state.ts = ets[p] \/ ~inner[p]
        /\ NothingMissed(p, env.state, ets[p] + 1)

\* No state that a process keeps, hands on or has received misses an accept.
StatesCurrent ==
    \A p \in Procs :
        /\ NothingMissed(p, current[p], ets[p] + 1)
        /\ \A env \in abortedEnvs[p] : AbortCurrent(p, env)
        /\ \A q \in Procs : rcvStates[p][q] # NoState =>
              ets[q] >= ets[p] /\ NothingMissed(q, rcvStates[p][q], ets[p])

\* Nor does a state on its way to a leader.
ReportsCurrent ==
    \A m \in msgs : m.type = "state" =>
        ets[m.from] >= m.epoch /\ NothingMissed(m.from, m, m.epoch)

\* All of these states are safe.
StatesSafe ==
    /\ \A p \in Procs :
          /\ StateSafe(current[p])
          /\ \A env \in abortedEnvs[p] : StateSafe(env.state)
          /\ \A q \in Procs : rcvStates[p][q] # NoState => StateSafe(rcvStates[p][q])
    /\ \A m \in msgs : m.type = "state" => StateSafe(m)

\* What is written is safe in all earlier epochs but 0.
WritesSafe ==
    \A e \in Epochs : \A v \in Values : Wrote(e, v) =>
        \A c \in Epochs : 0 < c /\ c < e => SafeAt(c, v)

\* Once a value is chosen, later epochs write nothing else.
ChosenBinds ==
    \A c, e \in Epochs : \A v, w \in Values :
        0 < c /\ c < e /\ Chosen(c, v) /\ Wrote(e, w) => v = w

\* The condition of AgreementAfterInitialEpoch.
NoInitialDecision == \A p \in Procs : Decided(p) => decision[p].ts > 0

SafeInv ==
    /\ AcceptsOld
    /\ StatesCurrent
    /\ ReportsCurrent
    /\ NoInitialDecision => StatesSafe /\ WritesSafe /\ ChosenBinds

-----------------------------------------------------------------------------
(* Layer 1 *)

USE EpochsAssumption, LeaderAssumption, ValuesAssumption

\* The state right after Start satisfies the invariant of the single node.
LEMMA NodeInvInit == Init => NodeInv
<1> SUFFICES ASSUME Init PROVE NodeInv OBVIOUS
<1>1. TypeOK
  BY DEF Init, TypeOK, Vals, State, InitState, NoState, FirstPhase
<1>2. LeaderReady BY DEF Init, LeaderReady, FirstPhase, leader
<1>3. TempKnown /\ AbortsLeadOn
  BY DEF Init, TempKnown, AbortsLeadOn, FirstPhase
<1> QED BY <1>1, <1>2, <1>3 DEF NodeInv

\* Propose only replaces n.val.
LEMMA ProposeNode ==
    ASSUME NodeInv, NEW p \in Procs, NEW v \in Values, Propose(p, v)
    PROVE  NodeInv'
<1>1. TypeOK' BY DEF NodeInv, TypeOK, Propose, ecVars, Vals
<1>2. TempKnown' /\ LeaderReady' /\ AbortsLeadOn'
  BY DEF NodeInv, TempKnown, LeaderReady, AbortsLeadOn, leader, Propose, ecVars
<1> QED BY <1>1, <1>2 DEF NodeInv

\* maybePropose hands a value that is not nil to the instance.
LEMMA MaybeProposeNode ==
    ASSUME NodeInv, NEW p \in Procs, MaybePropose(p)
    PROVE  NodeInv'
<1>0. val[p] \in Values
  BY DEF NodeInv, TypeOK, MaybePropose, CanPropose, Vals
<1>1. TypeOK'
  <2>1. msgs' \subseteq Message
    BY DEF NodeInv, TypeOK, MaybePropose, onPropose, Message, ReadMsg
  <2>2. /\ loop' \in [Procs -> {"select", "propose", "blocked", "panicked", "stopped"}]
        /\ proposed' \in [Procs -> BOOLEAN]
    BY DEF NodeInv, TypeOK, MaybePropose
  <2>3. /\ phase' \in [Procs -> {"idle", "propose", "reading", "writing", "deciding", "decided"}]
        /\ temp' \in [Procs -> Vals]
    <3>1. val[p] \in Vals BY <1>0 DEF Vals
    <3>2. CASE inner[p]
      <4>1. phase' = [phase EXCEPT ![p] = "reading"] /\ temp' = [temp EXCEPT ![p] = val[p]]
        BY <3>2, Zenon DEF MaybePropose, onPropose
      <4> QED BY <3>1, <4>1 DEF NodeInv, TypeOK
    <3>3. CASE ~inner[p] BY <3>3 DEF NodeInv, TypeOK, MaybePropose
    <3> QED BY <3>2, <3>3
  <2> QED BY <2>1, <2>2, <2>3 DEF NodeInv, TypeOK, MaybePropose
<1>2. TempKnown' BY <1>0 DEF NodeInv, TypeOK, TempKnown, MaybePropose, onPropose
<1>3. LeaderReady' /\ AbortsLeadOn'
  BY DEF NodeInv, TypeOK, LeaderReady, AbortsLeadOn, leader, MaybePropose, onPropose
<1> QED BY <1>1, <1>2, <1>3 DEF NodeInv

\* What the perfect link hands over is a message, and the loop goes on.
LEMMA ReceiveTyped ==
    ASSUME TypeOK, NEW p \in Procs, NEW m \in msgs, Receive(p, m)
    PROVE  /\ loop' \in [Procs -> {"select", "propose", "blocked", "panicked", "stopped"}]
           /\ delivered' \in [Procs -> SUBSET Message]
           /\ m \in Message
BY DEF TypeOK, Receive, ThenMaybePropose


\* Messages that only wait or are lost leave the invariant alone.
LEMMA BufferNode ==
    ASSUME NodeInv, NEW p \in Procs, NEW m \in msgs, Buffer(p, m) \/ Lose(p, m)
    PROVE  NodeInv'
<1> USE DEF NodeInv
<1>0. Receive(p, m) BY DEF Buffer, Lose
<1>1. TypeOK'
  <2>1. inbox' \in [Procs -> SUBSET Message] BY <1>0, ReceiveTyped DEF TypeOK, Buffer, Lose
  <2> QED BY <1>0, <2>1, ReceiveTyped DEF TypeOK, Buffer, Lose, ecVars
<1>2. TempKnown' /\ LeaderReady' /\ AbortsLeadOn'
  BY DEF TempKnown, LeaderReady, AbortsLeadOn, leader, Buffer, Lose, ecVars
<1> QED BY <1>1, <1>2

\* onHandleRead reports the state of the instance and changes nothing.
LEMMA ReadNode ==
    ASSUME NodeInv, NEW p \in Procs, NEW m \in msgs, onHandleRead(p, m)
    PROVE  NodeInv'
<1> USE DEF NodeInv
<1>0. Receive(p, m) /\ m.type = "read" BY DEF onHandleRead
<1>1. m.from \in Procs
  BY <1>0, ReceiveTyped DEF Message, ReadMsg, StateMsg, WriteMsg, AcceptMsg, DecidedMsg
<1>2. msgs' \subseteq Message
  <2>1. current[p].ts \in Epochs /\ current[p].val \in Vals /\ ets[p] \in Epochs
    BY DEF TypeOK, State
  <2>2. [type |-> "state", from |-> p, to |-> m.from, epoch |-> ets[p],
         ts |-> current[p].ts, val |-> current[p].val] \in StateMsg
    BY <1>1, <2>1 DEF StateMsg
  <2> QED BY <2>2 DEF TypeOK, onHandleRead, Message
<1>3. TypeOK' BY <1>0, <1>2, ReceiveTyped DEF TypeOK, onHandleRead, ecVars
<1>4. TempKnown' /\ LeaderReady' /\ AbortsLeadOn'
  BY DEF TempKnown, LeaderReady, AbortsLeadOn, leader, onHandleRead, ecVars
<1> QED BY <1>3, <1>4

\* onHandleWrite stores a value that is not nil and accepts.
LEMMA WriteNode ==
    ASSUME NodeInv, NEW p \in Procs, NEW m \in msgs, onHandleWrite(p, m)
    PROVE  NodeInv'
<1> USE DEF NodeInv
<1>0. Receive(p, m) /\ m.type = "write" BY DEF onHandleWrite
<1>1. m.from \in Procs /\ m.val \in Values
  BY <1>0, ReceiveTyped DEF Message, ReadMsg, StateMsg, WriteMsg, AcceptMsg, DecidedMsg
<1>2. msgs' \subseteq Message
  BY <1>1 DEF TypeOK, onHandleWrite, Message, AcceptMsg
<1>3. current' \in [Procs -> State]
  BY <1>1 DEF TypeOK, onHandleWrite, State, Vals
<1>4. TypeOK' BY <1>0, <1>2, <1>3, ReceiveTyped DEF TypeOK, onHandleWrite
<1>5. TempKnown' /\ LeaderReady' /\ AbortsLeadOn'
  BY DEF TempKnown, LeaderReady, AbortsLeadOn, leader, onHandleWrite
<1> QED BY <1>4, <1>5

\* receivedStates maps processes to states.
LEMMA WithStateTyped ==
    ASSUME TypeOK, NEW p \in Procs, NEW m \in msgs, m.type = "state"
    PROVE  /\ WithState(p, m) \in [Procs -> State \cup {NoState}]
           /\ m \in StateMsg
<1>1. m \in Message BY DEF TypeOK
<1>2. m \in StateMsg BY <1>1 DEF Message, ReadMsg, StateMsg, WriteMsg, AcceptMsg, DecidedMsg
<1>3. [ts |-> m.ts, val |-> m.val] \in State BY <1>2 DEF StateMsg, State
<1> QED BY <1>2, <1>3 DEF TypeOK, WithState

\* onReceivedRead below the quorum only adds a state.
LEMMA CollectNode ==
    ASSUME NodeInv, NEW p \in Procs, NEW m \in msgs, CollectState(p, m)
    PROVE  NodeInv'
<1> USE DEF NodeInv
<1>0. Receive(p, m) /\ m.type = "state" BY DEF CollectState
<1>1. TypeOK' BY <1>0, ReceiveTyped, WithStateTyped DEF TypeOK, CollectState
<1>2. TempKnown' /\ LeaderReady' /\ AbortsLeadOn'
  BY DEF TempKnown, LeaderReady, AbortsLeadOn, leader, CollectState
<1> QED BY <1>1, <1>2

\* onReceivedRead at the quorum writes a value that is not nil.
LEMMA StartWritingNode ==
    ASSUME NodeInv, NEW p \in Procs, NEW m \in msgs, StartWriting(p, m)
    PROVE  NodeInv'
<1> USE DEF NodeInv
<1>0. Receive(p, m) /\ m.type = "state" /\ phase[p] = "reading"
  BY DEF StartWriting, Handles, PhasesOf
<1>1. PICK st \in HighestStates(WithState(p, m)) :
         /\ temp' = [temp EXCEPT ![p] = ValueToWrite(p, st)]
         /\ msgs' = msgs \cup {[type |-> "write", from |-> p, epoch |-> ets[p],
                                val |-> ValueToWrite(p, st)]}
  BY DEF StartWriting
<1>2. st \in State \cup {NoState}
  BY <1>0, WithStateTyped DEF HighestStates, Reported
<1>3. ValueToWrite(p, st) \in Values
  BY <1>0, <1>2 DEF ValueToWrite, State, Vals, NoState, TempKnown
<1>4. msgs' \subseteq Message BY <1>1, <1>3 DEF TypeOK, Message, WriteMsg
<1>5. temp' \in [Procs -> Vals] BY <1>1, <1>3 DEF TypeOK, Vals
<1>6. TypeOK' BY <1>0, <1>4, <1>5, ReceiveTyped DEF TypeOK, StartWriting
<1>7. TempKnown' BY <1>1, <1>3 DEF TypeOK, TempKnown, StartWriting
<1>8. LeaderReady' /\ AbortsLeadOn'
  BY <1>0 DEF TypeOK, LeaderReady, AbortsLeadOn, leader, StartWriting
<1> QED BY <1>6, <1>7, <1>8

\* onReceivedAccept counts, and sends a decision that is not nil.
LEMMA AcceptNode ==
    ASSUME NodeInv, NEW p \in Procs, NEW m \in msgs, onReceivedAccept(p, m)
    PROVE  NodeInv'
<1> USE DEF NodeInv
<1>0. Receive(p, m) /\ phase[p] = "writing"
  BY DEF onReceivedAccept, Handles, PhasesOf
<1>1. msgs' \subseteq Message
  BY <1>0 DEF TypeOK, TempKnown, onReceivedAccept, Message, DecidedMsg
<1>2. /\ phase' \in [Procs -> {"idle", "propose", "reading", "writing", "deciding", "decided"}]
      /\ rcvAccepts' \in [Procs -> Nat]
  <2>1. rcvAccepts[p] + 1 \in Nat BY DEF TypeOK
  <2>2. rcvAccepts' \in [Procs -> Nat] BY <2>1 DEF TypeOK, onReceivedAccept
  <2>3. phase' \in [Procs -> {"idle", "propose", "reading", "writing", "deciding", "decided"}]
    BY DEF TypeOK, onReceivedAccept
  <2> QED BY <2>2, <2>3
<1>3. TypeOK' BY <1>0, <1>1, <1>2, ReceiveTyped DEF TypeOK, onReceivedAccept
<1>4. TempKnown' /\ LeaderReady' /\ AbortsLeadOn'
  BY <1>0 DEF TypeOK, TempKnown, LeaderReady, AbortsLeadOn, leader, onReceivedAccept
<1> QED BY <1>3, <1>4

\* onDecided ends the instance with the value of the message.
LEMMA DecidedNode ==
    ASSUME NodeInv, NEW p \in Procs, NEW m \in msgs, onDecided(p, m)
    PROVE  NodeInv'
<1> USE DEF NodeInv
<1>0. Receive(p, m) /\ m.type = "decide" /\ phase[p] \in {"idle", "deciding"}
  BY DEF onDecided, Handles, PhasesOf
<1>1. m.val \in Values
  BY <1>0, ReceiveTyped DEF Message, ReadMsg, StateMsg, WriteMsg, AcceptMsg, DecidedMsg
<1>2. decidedEnvs' \in [Procs -> SUBSET Decision]
  BY <1>1 DEF TypeOK, onDecided, Decision
<1>3. TypeOK' BY <1>0, <1>2, ReceiveTyped DEF TypeOK, onDecided
<1>4. TempKnown' /\ LeaderReady' /\ AbortsLeadOn'
  BY <1>0 DEF TypeOK, TempKnown, LeaderReady, AbortsLeadOn, leader, onDecided
<1> QED BY <1>3, <1>4

\* The loop takes a decision of its epoch, once.
LEMMA HandleDecidedNode ==
    ASSUME NodeInv, NEW p \in Procs, NEW env \in decidedEnvs[p], HandleDecided(p, env)
    PROVE  NodeInv'
<1> USE DEF NodeInv
<1>1. loop' \in [Procs -> {"select", "propose", "blocked", "panicked", "stopped"}]
  BY DEF TypeOK, HandleDecided, ThenMaybePropose
<1>2. /\ decision' \in [Procs -> Decision \cup {NoDecision}]
      /\ decidedEnvs' \in [Procs -> SUBSET Decision]
  BY DEF TypeOK, HandleDecided
<1>3. TypeOK' BY <1>1, <1>2 DEF TypeOK, HandleDecided, ecVars
<1>4. TempKnown' /\ LeaderReady' /\ AbortsLeadOn'
  BY DEF TypeOK, TempKnown, LeaderReady, AbortsLeadOn, leader, HandleDecided, ecVars
<1> QED BY <1>3, <1>4

\* An announcement that overtakes the epoch requests an abort.
LEMMA NewEpochNode ==
    ASSUME NodeInv, NEW p \in Procs, NEW e \in Epochs, HandleNewEpoch(p, e)
    PROVE  NodeInv'
<1> USE DEF NodeInv
<1>0. e > ets[p] BY DEF HandleNewEpoch, Overtakes
<1>1. loop' \in [Procs -> {"select", "propose", "blocked", "panicked", "stopped"}]
  BY DEF TypeOK, HandleNewEpoch, ThenMaybePropose
<1>2. decision[p] # NoDecision => DecidedState(p) \in State
  BY DEF TypeOK, Decision, DecidedState, State, Vals
<1>3. abortedEnvs' \in [Procs -> SUBSET AbortedState]
  BY <1>2 DEF TypeOK, HandleNewEpoch, AbortedState
<1>4. newTs' \in [Procs -> Epochs] /\ inner' \in [Procs -> BOOLEAN]
  BY DEF TypeOK, HandleNewEpoch
<1>5. TypeOK' BY <1>1, <1>3, <1>4 DEF TypeOK, HandleNewEpoch, ecVars
<1>6. TempKnown' /\ LeaderReady'
  BY DEF TypeOK, TempKnown, LeaderReady, leader, HandleNewEpoch, ecVars
<1>7. AbortsLeadOn'
  <2>1. \A q \in Procs : newTs'[q] > ets[q] \/ newTs'[q] = newTs[q]
    BY <1>0 DEF TypeOK, HandleNewEpoch
  <2>2. \A q \in Procs : \A env \in abortedEnvs'[q] :
           env \in abortedEnvs[q] \/ (q = p /\ env.ts = ets[q])
    BY DEF TypeOK, HandleNewEpoch
  <2>3. ets' = ets /\ newTs'[p] = e BY DEF TypeOK, HandleNewEpoch
  <2>4. \A q \in Procs : ets[q] \in Nat BY DEF TypeOK
  <2> QED BY <1>0, <2>1, <2>2, <2>3, <2>4 DEF AbortsLeadOn
<1> QED BY <1>5, <1>6, <1>7

\* The abort of an epoch already left is dropped.
LEMMA StaleAbortedNode ==
    ASSUME NodeInv, NEW p \in Procs, NEW env \in abortedEnvs[p], HandleStaleAborted(p, env)
    PROVE  NodeInv'
<1> USE DEF NodeInv
<1>1. TypeOK' BY DEF TypeOK, HandleStaleAborted, ecVars
<1>2. TempKnown' /\ LeaderReady' /\ AbortsLeadOn'
  BY DEF TypeOK, TempKnown, LeaderReady, AbortsLeadOn, leader, HandleStaleAborted, ecVars
<1> QED BY <1>1, <1>2

\* The abort of the current epoch starts the announced one.
LEMMA HandleAbortedNode ==
    ASSUME NodeInv, NEW p \in Procs, NEW env \in abortedEnvs[p], HandleAborted(p, env)
    PROVE  NodeInv'
<1> USE DEF NodeInv
<1>0. /\ env \in AbortedState /\ newTs[p] \in Epochs /\ newTs[p] > ets[p]
  BY DEF TypeOK, AbortsLeadOn, HandleAborted
<1>1. /\ inner' \in [Procs -> BOOLEAN] /\ temp' \in [Procs -> Vals]
      /\ current' \in [Procs -> State] /\ rcvAccepts' \in [Procs -> Nat]
      /\ rcvStates' \in [Procs -> [Procs -> State \cup {NoState}]]
  BY <1>0 DEF TypeOK, HandleAborted, startEpoch, AbortedState, Vals
<1>2. /\ phase' \in [Procs -> {"idle", "propose", "reading", "writing", "deciding", "decided"}]
      /\ delivered' \in [Procs -> SUBSET Message]
  BY DEF TypeOK, HandleAborted, startEpoch, FirstPhase
<1>3. TypeOK' BY <1>0, <1>1, <1>2 DEF TypeOK, HandleAborted
<1>4. TempKnown' BY DEF TypeOK, TempKnown, HandleAborted, startEpoch, FirstPhase
<1>5. LeaderReady' BY DEF TypeOK, LeaderReady, leader, HandleAborted, startEpoch, FirstPhase
<1>6. AbortsLeadOn'
  <2>1. ets' = [ets EXCEPT ![p] = newTs[p]] /\ newTs' = newTs BY DEF HandleAborted
  <2>2. \A q \in Procs : abortedEnvs'[q] \subseteq abortedEnvs[q] BY DEF TypeOK, HandleAborted
  <2>3. \A q \in Procs : ets[q] \in Nat /\ \A x \in abortedEnvs[q] : x.ts \in Nat
    <3>1. \A q \in Procs : ets[q] \in Nat /\ abortedEnvs[q] \subseteq AbortedState BY DEF TypeOK
    <3>2. \A x \in AbortedState : x.ts \in Nat BY DEF AbortedState
    <3> QED BY <3>1, <3>2
  <2>4. \A q \in Procs : ets'[q] = (IF q = p THEN newTs[p] ELSE ets[q])
    BY <2>1 DEF TypeOK
  <2>5. newTs[p] \in Nat BY <1>0
  <2> SUFFICES ASSUME NEW q \in Procs, NEW x \in abortedEnvs'[q]
               PROVE  x.ts <= ets'[q] /\ (x.ts = ets'[q] => newTs'[q] > ets'[q])
    BY DEF AbortsLeadOn
  <2>6. x.ts <= ets[q] /\ (x.ts = ets[q] => newTs[q] > ets[q]) BY <2>2 DEF AbortsLeadOn
  <2> QED BY <1>0, <2>1, <2>2, <2>3, <2>4, <2>5, <2>6
<1> QED BY <1>3, <1>4, <1>5, <1>6

\* Stop only ends the loop.
LEMMA StopNode ==
    ASSUME NodeInv, NEW p \in Procs, Stop(p)
    PROVE  NodeInv'
<1> USE DEF NodeInv
<1>1. TypeOK' BY DEF TypeOK, Stop, ecVars
<1>2. TempKnown' /\ LeaderReady' /\ AbortsLeadOn'
  BY DEF TempKnown, LeaderReady, AbortsLeadOn, leader, Stop, ecVars
<1> QED BY <1>1, <1>2

\* Every step preserves the invariant of the single node.
LEMMA NodeInvNext == NodeInv /\ [Next]_vars => NodeInv'
<1> SUFFICES ASSUME NodeInv, [Next]_vars PROVE NodeInv' OBVIOUS
<1>1. CASE UNCHANGED vars
  BY <1>1 DEF vars, nodeVars, ecVars, NodeInv, TypeOK, TempKnown, LeaderReady, AbortsLeadOn, leader
<1>2. CASE Next
  <2>1. PICK p \in Procs :
            \/ \E v \in Values : Propose(p, v)
            \/ MaybePropose(p)
            \/ Deliver(p)
            \/ \E env \in decidedEnvs[p] : HandleDecided(p, env)
            \/ \E e \in Epochs : HandleNewEpoch(p, e)
            \/ \E env \in abortedEnvs[p] : HandleStaleAborted(p, env)
            \/ \E env \in abortedEnvs[p] : HandleAborted(p, env)
            \/ Stop(p)
    BY <1>2 DEF Next
  <2>2. CASE Deliver(p)
    BY <2>2, BufferNode, ReadNode, WriteNode, CollectNode, StartWritingNode, AcceptNode,
       DecidedNode DEF Deliver
  <2> QED BY <2>1, <2>2, ProposeNode, MaybeProposeNode, HandleDecidedNode, NewEpochNode,
       StaleAbortedNode, HandleAbortedNode, StopNode
<1> QED BY <1>1, <1>2

-----------------------------------------------------------------------------
(* Layer 2 *)

\* No values are known at the start.
LEMMA ValuesInvInit == Init => ValuesInv
BY DEF Init, ValuesInv, Known, InitState, NoState, NoDecision

\* The state highestState returns was received.
LEMMA HighestKnown ==
    ASSUME NodeInv, ValuesInv, NEW p \in Procs, NEW m \in msgs, m.type = "state",
           NEW st \in HighestStates(WithState(p, m))
    PROVE  st.val \in Known
<1>1. PICK q \in Procs : st = WithState(p, m)[q] BY DEF HighestStates, Reported
<1>2. rcvStates[p] \in [Procs -> State \cup {NoState}] BY DEF NodeInv, TypeOK
<1>3. st = rcvStates[p][q] \/ st = [ts |-> m.ts, val |-> m.val]
  BY <1>1, <1>2 DEF WithState
<1> QED BY <1>3 DEF ValuesInv

\* A step of the Node passes known values on.
LEMMA ValuesNode ==
    ASSUME NodeInv, ValuesInv, NEW p \in Procs,
           \/ \E v \in Values : Propose(p, v)
           \/ MaybePropose(p)
           \/ \E env \in decidedEnvs[p] : HandleDecided(p, env)
           \/ \E e \in Epochs : HandleNewEpoch(p, e)
           \/ \E env \in abortedEnvs[p] : HandleStaleAborted(p, env)
           \/ \E env \in abortedEnvs[p] : HandleAborted(p, env)
           \/ Stop(p)
    PROVE  ValuesInv'
<1> USE DEF NodeInv, TypeOK, ValuesInv, Known
<1>1. CASE \E v \in Values : Propose(p, v) BY <1>1 DEF Propose, ecVars
<1>2. CASE MaybePropose(p)
  <2>1. CASE inner[p]
    <3>1. /\ temp' = [temp EXCEPT ![p] = val[p]]
          /\ msgs' = msgs \cup {[type |-> "read", from |-> p, epoch |-> ets[p]]}
      BY <1>2, <2>1, Zenon DEF MaybePropose, onPropose
    <3> QED BY <1>2, <3>1 DEF MaybePropose
  <2>2. CASE ~inner[p] BY <1>2, <2>2 DEF MaybePropose
  <2> QED BY <2>1, <2>2
<1>3. CASE \E env \in decidedEnvs[p] : HandleDecided(p, env) BY <1>3 DEF HandleDecided, ecVars
<1>4. CASE \E e \in Epochs : HandleNewEpoch(p, e)
  <2>1. PICK e \in Epochs : HandleNewEpoch(p, e) BY <1>4
  <2>2. \A q \in Procs : \A env \in abortedEnvs'[q] : env.state.val \in Known
    <3>1. \A q \in Procs : q # p => abortedEnvs'[q] = abortedEnvs[q] BY <2>1 DEF HandleNewEpoch
    <3>2. \A env \in abortedEnvs'[p] :
            \/ env \in abortedEnvs[p]
            \/ env.state = DecidedState(p) \/ env.state = current[p]
      BY <2>1 DEF HandleNewEpoch
    <3>3. DecidedState(p).val \in Known BY DEF DecidedState
    <3> QED BY <3>1, <3>2, <3>3
  <2> QED BY <2>1, <2>2 DEF HandleNewEpoch, ecVars
<1>5. CASE \E env \in abortedEnvs[p] : HandleStaleAborted(p, env)
  BY <1>5 DEF HandleStaleAborted, ecVars
<1>6. CASE \E env \in abortedEnvs[p] : HandleAborted(p, env)
  BY <1>6 DEF HandleAborted, startEpoch, NoState
<1>7. CASE Stop(p) BY <1>7 DEF Stop, ecVars
<1> QED BY <1>1, <1>2, <1>3, <1>4, <1>5, <1>6, <1>7

\* So does the handler of a message.
LEMMA ValuesDeliver ==
    ASSUME NodeInv, ValuesInv, NEW p \in Procs, Deliver(p)
    PROVE  ValuesInv'
<1> USE DEF NodeInv, TypeOK, ValuesInv, Known
<1>0. PICK m \in msgs :
        \/ Buffer(p, m) \/ Lose(p, m) \/ onHandleRead(p, m) \/ onHandleWrite(p, m)
        \/ CollectState(p, m) \/ StartWriting(p, m) \/ onReceivedAccept(p, m) \/ onDecided(p, m)
  BY DEF Deliver
<1>1. CASE Buffer(p, m) BY <1>1 DEF Buffer, ecVars
<1>2. CASE Lose(p, m) BY <1>2 DEF Lose, ecVars
<1>3. CASE onHandleRead(p, m)
  <2>1. \A n \in msgs' : n \in msgs \/ (n.type = "state" /\ n.val = current[p].val)
    <3> HIDE DEF NodeInv, TypeOK, ValuesInv, Known
    <3> DEFINE report == [type |-> "state", from |-> p, to |-> m.from, epoch |-> ets[p],
                          ts |-> current[p].ts, val |-> current[p].val]
    <3>1. msgs' = msgs \cup {report} BY <1>3 DEF onHandleRead
    <3>2. report.type = "state" /\ report.val = current[p].val OBVIOUS
    <3> HIDE DEF report
    <3> QED BY <3>1, <3>2
  <2>2. \A n \in msgs' : n.type \in {"state", "write", "decide"} => n.val \in Known BY <2>1
  <2> QED BY <1>3, <2>2 DEF onHandleRead, ecVars
<1>4. CASE onHandleWrite(p, m)
  <2>1. \A q \in Procs : current'[q] = current[q] \/ current'[q].val = m.val
    BY <1>4 DEF onHandleWrite
  <2>2. \A n \in msgs' : n \in msgs \/ n.type = "accept" BY <1>4 DEF onHandleWrite
  <2>3. m.val \in Known BY <1>4 DEF onHandleWrite
  <2> QED BY <1>4, <2>1, <2>2, <2>3 DEF onHandleWrite
<1>5. CASE CollectState(p, m) BY <1>5 DEF CollectState, WithState
<1>6. CASE StartWriting(p, m)
  <2>1. PICK st \in HighestStates(WithState(p, m)) :
           /\ temp' = [temp EXCEPT ![p] = ValueToWrite(p, st)]
           /\ msgs' = msgs \cup {[type |-> "write", from |-> p, epoch |-> ets[p],
                                  val |-> ValueToWrite(p, st)]}
    BY <1>6 DEF StartWriting
  <2>2. ValueToWrite(p, st) \in Known
    BY <1>6, HighestKnown DEF StartWriting, ValueToWrite
  <2> QED BY <1>6, <2>1, <2>2 DEF StartWriting, NoState
<1>7. CASE onReceivedAccept(p, m) BY <1>7 DEF onReceivedAccept
<1>8. CASE onDecided(p, m) BY <1>8 DEF onDecided
<1> QED BY <1>0, <1>1, <1>2, <1>3, <1>4, <1>5, <1>6, <1>7, <1>8

\* Every step keeps all values known.
LEMMA ValuesInvNext == NodeInv /\ ValuesInv /\ [Next]_vars => ValuesInv'
<1> SUFFICES ASSUME NodeInv, ValuesInv, [Next]_vars PROVE ValuesInv' OBVIOUS
<1>1. CASE UNCHANGED vars BY <1>1 DEF vars, nodeVars, ecVars, ValuesInv, Known
<1>2. CASE Next BY <1>2, ValuesNode, ValuesDeliver DEF Next
<1> QED BY <1>1, <1>2

-----------------------------------------------------------------------------
(* Layer 3 *)

USE ProcsAssumption

\* The quorum is a number.
LEMMA QuorumTyped == quorum \in Nat /\ Cardinality(Procs) \in Nat
BY FS_CardinalityType DEF quorum

\* Sets of processes are finite.
LEMMA ProcSets ==
    ASSUME NEW A \in SUBSET Procs, NEW B \in SUBSET A
    PROVE  /\ IsFiniteSet(A) /\ Cardinality(A) \in Nat /\ Cardinality(B) \in Nat
           /\ Cardinality(B) <= Cardinality(A)
BY FS_Subset, FS_CardinalityType

\* What was written, accepted and chosen stays so.
LEMMA ChosenStable ==
    ASSUME msgs \subseteq msgs', NEW c, NEW v
    PROVE  /\ Wrote(c, v) => Wrote(c, v)'
           /\ Accepted(c) \subseteq Accepted(c)'
           /\ Chosen(c, v) => Chosen(c, v)'
<1>1. Wrote(c, v) => Wrote(c, v)' BY DEF Wrote
<1>2. Accepted(c) \subseteq Accepted(c)' BY DEF Accepted, Accept
<1>3. Accepted(c) \in SUBSET Procs /\ Accepted(c)' \in SUBSET Procs BY DEF Accepted
<1>4. Cardinality(Accepted(c)) <= Cardinality(Accepted(c)')
      /\ Cardinality(Accepted(c)) \in Nat /\ Cardinality(Accepted(c)') \in Nat
  BY <1>2, <1>3, ProcSets
<1>5. Chosen(c, v) => Chosen(c, v)' BY <1>1, <1>4, QuorumTyped DEF Chosen, quorum
<1> QED BY <1>1, <1>2, <1>5

\* Nothing is written at the start.
LEMMA WriteInvInit == Init => WriteInv
<1> SUFFICES ASSUME Init PROVE WriteInv OBVIOUS
<1>1. \A p \in Procs : 0 <= Cardinality(Counted(p))
  <2> SUFFICES ASSUME NEW p \in Procs PROVE 0 <= Cardinality(Counted(p)) OBVIOUS
  <2>1. Counted(p) \in SUBSET Procs BY DEF Counted
  <2> QED BY <2>1, ProcSets
<1>2. CountsHonest BY <1>1 DEF Init, CountsHonest
<1>3. MessagesGenuine /\ WritesKept /\ WriteOnce
  BY DEF Init, MessagesGenuine, WritesKept, WriteOnce, Wrote
<1>4. LeaderWrote BY DEF Init, LeaderWrote, FirstPhase
<1>5. DecisionsChosen BY DEF Init, DecisionsChosen, Decided
<1> QED BY <1>2, <1>3, <1>4, <1>5 DEF WriteInv

\* The record of a message is determined by its type and its fields.
LEMMA MessageShapes ==
    ASSUME NEW m \in Message
    PROVE  /\ m.from \in Procs /\ m.epoch \in Epochs
           /\ m.type = "write" =>
                 /\ m.val \in Values
                 /\ m = [type |-> "write", from |-> m.from, epoch |-> m.epoch, val |-> m.val]
           /\ m.type = "accept" =>
                 m = [type |-> "accept", from |-> m.from, to |-> m.to, epoch |-> m.epoch]
           /\ m.type = "state" => m \in StateMsg
           /\ m.type = "decide" => m.val \in Values
BY DEF Message, ReadMsg, StateMsg, WriteMsg, AcceptMsg, DecidedMsg

\* The phases of a leader that has written.
WrittenPhases == {"writing", "deciding", "decided"}

\* Steps that stay in the epoch and neither write, count an accept nor send a
\* decision.
LEMMA QuietWrites ==
    ASSUME NodeInv, WriteInv, TypeOK',
           UNCHANGED <<ets, rcvAccepts>>,
           msgs \subseteq msgs',
           \A n \in msgs' \ msgs : \/ n.type \in {"read", "state"}
                                   \/ n.type = "accept" /\ n.to = LeaderOf[n.epoch],
           \A q \in Procs : delivered[q] \subseteq delivered'[q] /\ delivered'[q] \subseteq msgs',
           \A q \in Procs : \/ phase'[q] = phase[q] /\ temp'[q] = temp[q]
                            \/ phase[q] \notin WrittenPhases /\ phase'[q] \notin {"writing", "deciding"}
                            \/ phase'[q] = "decided" /\ temp'[q] = temp[q],
           \A q \in Procs : \A env \in decidedEnvs'[q] :
               env \in decidedEnvs[q] \/ Chosen(env.ts, env.val),
           \A q \in Procs : \/ decision'[q] = decision[q]
                            \/ decision'[q] \in decidedEnvs[q] /\ decision'[q].ts = ets[q]
    PROVE  WriteInv'
<1> USE DEF WriteInv
<1>1. \A c, v : Wrote(c, v)' => Wrote(c, v) BY DEF Wrote
<1>2. \A c, v : Wrote(c, v) => Wrote(c, v)' BY ChosenStable
<1>3. \A c, v : Chosen(c, v) => Chosen(c, v)' BY ChosenStable
<1>4. MessagesGenuine' BY <1>3 DEF MessagesGenuine
<1>5. WritesKept'
  <2> SUFFICES ASSUME NEW m \in msgs', m.type = "write"
               PROVE  \/ ets[m.from] > m.epoch
                      \/ /\ ets[m.from] = m.epoch
                         /\ phase'[m.from] \in WrittenPhases
                         /\ leader(m.from) = m.from /\ temp'[m.from] = m.val
    BY DEF WritesKept, WrittenPhases, leader
  <2>1. m \in msgs OBVIOUS
  <2>2. m.from \in Procs BY <2>1, MessageShapes DEF NodeInv, TypeOK
  <2> QED BY <2>1, <2>2 DEF WritesKept, WrittenPhases
<1>6. LeaderWrote'
  <2> SUFFICES ASSUME NEW p \in Procs, phase'[p] \in {"writing", "deciding"}
               PROVE  leader(p)' = p /\ Wrote(ets[p], temp[p])'
    BY DEF LeaderWrote
  <2>1. phase'[p] = phase[p] /\ temp'[p] = temp[p] OBVIOUS
  <2>2. PICK c, v : c = ets[p] /\ v = temp[p] OBVIOUS
  <2>3. leader(p) = p /\ Wrote(c, v) BY <2>1, <2>2 DEF LeaderWrote
  <2>4. Wrote(c, v)' /\ leader(p)' = p BY <1>2, <2>3 DEF leader
  <2> QED BY <2>1, <2>2, <2>4 DEF Wrote
<1>7. WriteOnce' BY <1>1 DEF WriteOnce
<1>8. CountsHonest'
  <2> SUFFICES ASSUME NEW p \in Procs
               PROVE  rcvAccepts[p] <= Cardinality(Counted(p)')
    BY DEF CountsHonest
  <2>1. Counted(p) \subseteq Counted(p)' /\ Counted(p)' \in SUBSET Procs BY DEF Counted, Accept
  <2>2. /\ Cardinality(Counted(p)) <= Cardinality(Counted(p)')
        /\ Cardinality(Counted(p)) \in Nat /\ Cardinality(Counted(p)') \in Nat
    BY <2>1, ProcSets
  <2> QED BY <2>2 DEF CountsHonest, NodeInv, TypeOK
<1>9. DecisionsChosen'
  <2> SUFFICES ASSUME NEW p \in Procs
               PROVE  /\ \A env \in decidedEnvs'[p] : Chosen(env.ts, env.val)'
                      /\ Decided(p)' => /\ Chosen(decision[p].ts, decision[p].val)'
                                        /\ decision'[p].ts <= ets'[p]
    BY DEF DecisionsChosen
  <2>1. \A env \in decidedEnvs'[p] : Chosen(env.ts, env.val)' BY <1>3 DEF DecisionsChosen
  <2>2. PICK d : d = decision'[p] OBVIOUS
  <2>3. ets[p] \in Nat BY DEF NodeInv, TypeOK
  <2>4. ASSUME d # NoDecision PROVE Chosen(d.ts, d.val) /\ d.ts <= ets[p]
    <3>1. CASE d = decision[p] BY <2>4, <3>1 DEF DecisionsChosen, Decided
    <3>2. CASE d \in decidedEnvs[p] /\ d.ts = ets[p] BY <2>3, <3>2 DEF DecisionsChosen
    <3> QED BY <2>2, <3>1, <3>2
  <2>5. d # NoDecision => Chosen(d.ts, d.val)' BY <2>4, <1>3
  <2>6. Chosen(d.ts, d.val)' = Chosen(decision[p].ts, decision[p].val)'
    BY <2>2 DEF Chosen, Wrote, Accepted, Accept
  <2> QED BY <2>1, <2>2, <2>4, <2>5, <2>6 DEF Decided
<1> QED BY <1>4, <1>5, <1>6, <1>7, <1>8, <1>9

\* The steps of the Node outside the handlers of messages, but for a new epoch.
LEMMA WritesNode ==
    ASSUME NodeInv, WriteInv, TypeOK', NEW p \in Procs,
           \/ \E v \in Values : Propose(p, v)
           \/ MaybePropose(p)
           \/ \E env \in decidedEnvs[p] : HandleDecided(p, env)
           \/ \E e \in Epochs : HandleNewEpoch(p, e)
           \/ \E env \in abortedEnvs[p] : HandleStaleAborted(p, env)
           \/ Stop(p)
    PROVE  WriteInv'
<1>0. \A q \in Procs : delivered[q] \subseteq msgs BY DEF WriteInv, CountsHonest
<1>1. CASE \E v \in Values : Propose(p, v)
  BY <1>0, <1>1, QuietWrites DEF Propose, ecVars
<1>2. CASE MaybePropose(p)
  <2>1. CASE inner[p]
    <3>1. /\ phase[p] = "propose"
          /\ phase' = [phase EXCEPT ![p] = "reading"]
          /\ temp' = [temp EXCEPT ![p] = val[p]]
          /\ msgs' = msgs \cup {[type |-> "read", from |-> p, epoch |-> ets[p]]}
      BY <1>2, <2>1, Zenon DEF MaybePropose, onPropose
    <3>2. UNCHANGED <<ets, rcvAccepts, delivered, decidedEnvs, decision>>
      BY <1>2 DEF MaybePropose
    <3>3. \A q \in Procs : \/ phase'[q] = phase[q] /\ temp'[q] = temp[q]
                           \/ phase[q] \notin WrittenPhases /\ phase'[q] \notin {"writing", "deciding"}
      BY <3>1 DEF NodeInv, TypeOK, WrittenPhases
    <3> QED BY <1>0, <3>1, <3>2, <3>3, QuietWrites
  <2>2. CASE ~inner[p]
    <3>1. UNCHANGED <<ets, rcvAccepts, delivered, decidedEnvs, decision, phase, temp, msgs>>
      BY <1>2, <2>2, Zenon DEF MaybePropose
    <3> QED BY <1>0, <3>1, QuietWrites
  <2> QED BY <2>1, <2>2
<1>3. CASE \E env \in decidedEnvs[p] : HandleDecided(p, env)
  <2>1. UNCHANGED <<ets, rcvAccepts, delivered, phase, temp, msgs>>
    BY <1>3 DEF HandleDecided, ecVars
  <2>2. \A q \in Procs : /\ decidedEnvs'[q] \subseteq decidedEnvs[q]
                         /\ \/ decision'[q] = decision[q]
                            \/ decision'[q] \in decidedEnvs[q] /\ decision'[q].ts = ets[q]
    BY <1>3 DEF HandleDecided, NodeInv, TypeOK
  <2> QED BY <1>0, <2>1, <2>2, QuietWrites
<1>4. CASE \E e \in Epochs : HandleNewEpoch(p, e)
  <2>1. UNCHANGED <<ets, rcvAccepts, delivered, decidedEnvs, decision, phase, temp, msgs>>
    BY <1>4 DEF HandleNewEpoch, ecVars
  <2> QED BY <1>0, <2>1, QuietWrites
<1>5. CASE \E env \in abortedEnvs[p] : HandleStaleAborted(p, env)
  BY <1>0, <1>5, QuietWrites DEF HandleStaleAborted, ecVars
<1>6. CASE Stop(p) BY <1>0, <1>6, QuietWrites DEF Stop, ecVars
<1> QED BY <1>1, <1>2, <1>3, <1>4, <1>5, <1>6

\* What a delivery does to the links.
LEMMA ReceiveLinks ==
    ASSUME NodeInv, WriteInv, NEW p \in Procs, NEW m \in msgs, Receive(p, m), msgs \subseteq msgs'
    PROVE  \A q \in Procs : delivered[q] \subseteq delivered'[q] /\ delivered'[q] \subseteq msgs'
<1>1. \A q \in Procs : delivered[q] \subseteq msgs BY DEF WriteInv, CountsHonest
<1>2. \A q \in Procs : delivered'[q] = IF q = p THEN delivered[q] \cup {m} ELSE delivered[q]
  BY DEF Receive, NodeInv, TypeOK
<1> QED BY <1>1, <1>2

\* Handlers that neither write nor count an accept.
LEMMA WritesDeliver ==
    ASSUME NodeInv, WriteInv, TypeOK', NEW p \in Procs, NEW m \in msgs,
           \/ Buffer(p, m) \/ Lose(p, m) \/ onHandleRead(p, m) \/ onHandleWrite(p, m)
           \/ CollectState(p, m) \/ onDecided(p, m)
    PROVE  WriteInv'
<1>0. Receive(p, m)
  BY DEF Buffer, Lose, onHandleRead, onHandleWrite, CollectState, onDecided
<1>1. CASE Buffer(p, m) \/ Lose(p, m) \/ CollectState(p, m)
  <2>1. UNCHANGED <<ets, rcvAccepts, decidedEnvs, decision, phase, temp, msgs>>
    BY <1>1 DEF Buffer, Lose, CollectState, ecVars
  <2> QED BY <1>0, <2>1, QuietWrites, ReceiveLinks
<1>2. CASE onHandleRead(p, m)
  <2>1. UNCHANGED <<ets, rcvAccepts, decidedEnvs, decision, phase, temp>>
    BY <1>2 DEF onHandleRead, ecVars
  <2>2. msgs \subseteq msgs' /\ \A n \in msgs' \ msgs : n.type = "state"
    BY <1>2 DEF onHandleRead
  <2> QED BY <1>0, <2>1, <2>2, QuietWrites, ReceiveLinks
<1>3. CASE onHandleWrite(p, m)
  <2>1. UNCHANGED <<ets, rcvAccepts, decidedEnvs, decision, phase, temp>>
    BY <1>3 DEF onHandleWrite
  <2>2. m.from = LeaderOf[ets[p]]
    BY <1>3 DEF onHandleWrite, Handles, Relevant, leader
  <2>3. msgs' = msgs \cup {[type |-> "accept", from |-> p, to |-> m.from, epoch |-> ets[p]]}
    BY <1>3 DEF onHandleWrite
  <2>4. msgs \subseteq msgs' /\ \A n \in msgs' \ msgs : n.type = "accept" /\ n.to = LeaderOf[n.epoch]
    BY <2>2, <2>3
  <2> QED BY <1>0, <2>1, <2>4, QuietWrites, ReceiveLinks
<1>4. CASE onDecided(p, m)
  <2>1. UNCHANGED <<ets, rcvAccepts, decision, temp, msgs>> BY <1>4 DEF onDecided
  <2>2. \A q \in Procs : phase'[q] = phase[q] \/ phase'[q] = "decided"
    BY <1>4 DEF onDecided, NodeInv, TypeOK
  <2>3. m.type = "decide" /\ m.epoch = ets[p]
    BY <1>4 DEF onDecided, Handles, Relevant
  <2>4. Chosen(ets[p], m.val) BY <2>3 DEF WriteInv, MessagesGenuine
  <2>5. \A q \in Procs : \A env \in decidedEnvs'[q] :
           env \in decidedEnvs[q] \/ env = [ts |-> ets[p], val |-> m.val]
    BY <1>4 DEF onDecided, NodeInv, TypeOK
  <2>6. \A q \in Procs : \A env \in decidedEnvs'[q] :
           env \in decidedEnvs[q] \/ Chosen(env.ts, env.val)
    BY <2>4, <2>5
  <2> QED BY <1>0, <2>1, <2>2, <2>6, QuietWrites, ReceiveLinks
<1> QED BY <1>1, <1>2, <1>3, <1>4

\* What StartWriting does, without the choice of the value.
LEMMA StartWritingFacts ==
    ASSUME NodeInv, NEW p \in Procs, NEW m \in msgs, StartWriting(p, m)
    PROVE  \E st \in HighestStates(WithState(p, m)) :
              /\ ValueToWrite(p, st) \in Values
              /\ leader(p) = p /\ phase[p] = "reading" /\ m.epoch = ets[p] /\ m.type = "state"
              /\ temp' = [temp EXCEPT ![p] = ValueToWrite(p, st)]
              /\ phase' = [phase EXCEPT ![p] = "writing"]
              /\ msgs' = msgs \cup {[type |-> "write", from |-> p, epoch |-> ets[p],
                                     val |-> ValueToWrite(p, st)]}
              /\ UNCHANGED <<ets, rcvAccepts, decidedEnvs, decision>>
<1>0. m.type = "state" /\ phase[p] = "reading" /\ leader(p) = p /\ m.epoch = ets[p]
  BY DEF StartWriting, Handles, Relevant, PhasesOf
<1>1. PICK st \in HighestStates(WithState(p, m)) :
         /\ temp' = [temp EXCEPT ![p] = ValueToWrite(p, st)]
         /\ msgs' = msgs \cup {[type |-> "write", from |-> p, epoch |-> ets[p],
                                val |-> ValueToWrite(p, st)]}
  BY DEF StartWriting
<1>2. st \in State \cup {NoState}
  BY <1>0, WithStateTyped DEF HighestStates, Reported, NodeInv
<1>3. ValueToWrite(p, st) \in Values
  BY <1>0, <1>2 DEF ValueToWrite, State, Vals, NoState, TempKnown, NodeInv
<1> QED BY <1>0, <1>1, <1>3 DEF StartWriting

\* A leader in StateReading has not written in its epoch.
LEMMA NotYetWritten ==
    ASSUME NodeInv, WriteInv, NEW p \in Procs, leader(p) = p, phase[p] = "reading", NEW v
    PROVE  ~Wrote(ets[p], v)
<1> SUFFICES ASSUME Wrote(ets[p], v) PROVE FALSE OBVIOUS
<1>1. ets[p] \in Nat BY DEF NodeInv, TypeOK
<1>2. PICK w \in msgs : w = [type |-> "write", from |-> p, epoch |-> ets[p], val |-> v]
  BY DEF Wrote, leader
<1>3. w.type = "write" /\ w.from = p /\ w.epoch = ets[p] BY <1>2
<1> QED BY <1>1, <1>3 DEF WriteInv, WritesKept

\* Decisions that are left alone stay chosen.
LEMMA DecisionsStay ==
    ASSUME NodeInv, WriteInv, TypeOK', msgs \subseteq msgs', UNCHANGED <<decision, decidedEnvs>>,
           \A q \in Procs : ets'[q] >= ets[q]
    PROVE  DecisionsChosen'
<1>1. \A d, v : Chosen(d, v) => Chosen(d, v)' BY ChosenStable
<1>2. PICK D : D = decision OBVIOUS
<1>3. \A q \in Procs : D[q] # NoDecision => Chosen(D[q].ts, D[q].val)'
  BY <1>1, <1>2 DEF WriteInv, DecisionsChosen, Decided
<1>4. \A q \in Procs : Decided(q)' => Chosen(decision[q].ts, decision[q].val)'
  BY <1>2, <1>3 DEF Decided, Chosen, Wrote, Accepted, Accept
<1>5. ASSUME NEW q \in Procs, Decided(q)' PROVE decision'[q].ts <= ets'[q]
  <2>1. decision[q].ts <= ets[q] /\ decision[q] \in Decision
    BY <1>5 DEF WriteInv, DecisionsChosen, Decided, NodeInv, TypeOK
  <2>2. decision[q].ts \in Nat /\ ets[q] \in Nat /\ ets'[q] \in Nat
    BY <2>1 DEF NodeInv, TypeOK, Decision
  <2> QED BY <2>1, <2>2
<1> QED BY <1>1, <1>4, <1>5 DEF WriteInv, DecisionsChosen

\* The first write of an epoch.
LEMMA WritesStartWriting ==
    ASSUME NodeInv, WriteInv, TypeOK', NEW p \in Procs, NEW m \in msgs, StartWriting(p, m)
    PROVE  WriteInv'
<1> USE DEF WriteInv
<1>1. PICK x \in Values :
              /\ leader(p) = p /\ phase[p] = "reading"
              /\ temp' = [temp EXCEPT ![p] = x]
              /\ phase' = [phase EXCEPT ![p] = "writing"]
              /\ msgs' = msgs \cup {[type |-> "write", from |-> p, epoch |-> ets[p], val |-> x]}
              /\ UNCHANGED <<ets, rcvAccepts, decidedEnvs, decision>>
  BY StartWritingFacts
<1>2. PICK c \in Epochs : c = ets[p] BY DEF NodeInv, TypeOK
<1>3. \A d, v : Wrote(d, v)' <=> Wrote(d, v) \/ (d = c /\ v = x)
  BY <1>1, <1>2 DEF Wrote, leader
<1>4. \A d, v : Chosen(d, v) => Chosen(d, v)' BY <1>1, ChosenStable
<1>5. \A v : ~Wrote(c, v) BY <1>1, <1>2, NotYetWritten
<1>6. MessagesGenuine'
  <2> SUFFICES ASSUME NEW n \in msgs'
               PROVE  /\ n.type = "write" => n.from = LeaderOf[n.epoch]
                      /\ n.type = "accept" => n.to = LeaderOf[n.epoch]
                      /\ n.type = "decide" => Chosen(n.epoch, n.val)'
    BY DEF MessagesGenuine
  <2>1. CASE n \in msgs BY <2>1, <1>4 DEF MessagesGenuine
  <2>2. CASE n = [type |-> "write", from |-> p, epoch |-> ets[p], val |-> x]
    BY <2>2, <1>1 DEF leader
  <2> QED BY <2>1, <2>2, <1>1
<1>7. WritesKept'
  <2> SUFFICES ASSUME NEW n \in msgs', n.type = "write"
               PROVE  \/ ets[n.from] > n.epoch
                      \/ /\ ets[n.from] = n.epoch
                         /\ phase'[n.from] \in {"writing", "deciding", "decided"}
                         /\ leader(n.from) = n.from /\ temp'[n.from] = n.val
    BY <1>1 DEF WritesKept, leader
  <2>1. CASE n \in msgs
    <3>1. n.from \in Procs BY <2>1, MessageShapes DEF NodeInv, TypeOK
    <3>2. n.from # p => phase'[n.from] = phase[n.from] /\ temp'[n.from] = temp[n.from]
      BY <1>1, <3>1 DEF NodeInv, TypeOK
    <3> QED BY <2>1, <3>1, <3>2, <1>1 DEF WritesKept
  <2>2. CASE n = [type |-> "write", from |-> p, epoch |-> ets[p], val |-> x]
    BY <2>2, <1>1 DEF NodeInv, TypeOK
  <2> QED BY <2>1, <2>2, <1>1
<1>8. LeaderWrote'
  <2> SUFFICES ASSUME NEW q \in Procs, phase'[q] \in {"writing", "deciding"}
               PROVE  leader(q)' = q /\ Wrote(ets[q], temp[q])'
    BY DEF LeaderWrote
  <2>1. PICK d, v : d = ets'[q] /\ v = temp'[q] OBVIOUS
  <2>2. leader(q) = q /\ (Wrote(d, v) \/ (d = c /\ v = x))
    <3>1. CASE q = p BY <2>1, <3>1, <1>1, <1>2 DEF NodeInv, TypeOK
    <3>2. CASE q # p
      <4>1. phase[q] = phase'[q] /\ temp[q] = v /\ ets[q] = d
        BY <2>1, <3>2, <1>1 DEF NodeInv, TypeOK
      <4> QED BY <4>1 DEF LeaderWrote
    <3> QED BY <3>1, <3>2
  <2>3. Wrote(d, v)' /\ leader(q)' = q BY <2>2, <1>3, <1>1 DEF leader
  <2> QED BY <2>1, <2>3 DEF Wrote
<1>9. WriteOnce' BY <1>3, <1>5 DEF WriteOnce
<1>10. CountsHonest'
  <2>1. \A q \in Procs : delivered[q] \subseteq delivered'[q] /\ delivered'[q] \subseteq msgs'
    BY <1>1, ReceiveLinks DEF StartWriting
  <2> SUFFICES ASSUME NEW q \in Procs
               PROVE  rcvAccepts[q] <= Cardinality(Counted(q)')
    BY <1>1, <2>1 DEF CountsHonest
  <2>2. Counted(q) \subseteq Counted(q)' /\ Counted(q)' \in SUBSET Procs
    BY <1>1, <2>1 DEF Counted, Accept
  <2>3. /\ Cardinality(Counted(q)) <= Cardinality(Counted(q)')
        /\ Cardinality(Counted(q)) \in Nat /\ Cardinality(Counted(q)') \in Nat
    BY <2>2, ProcSets
  <2> QED BY <2>3 DEF CountsHonest, NodeInv, TypeOK
<1>11. DecisionsChosen'
  <2>0. \A q \in Procs : ets[q] \in Nat BY DEF NodeInv, TypeOK
  <2>1. \A q \in Procs : ets'[q] >= ets[q] BY <1>1, <2>0
  <2> QED BY <1>1, <2>1, DecisionsStay
<1> QED BY <1>6, <1>7, <1>8, <1>9, <1>10, <1>11

\* The accept that completes the quorum makes the value chosen.
LEMMA WritesReceivedAccept ==
    ASSUME NodeInv, WriteInv, TypeOK', NEW p \in Procs, NEW m \in msgs, onReceivedAccept(p, m)
    PROVE  WriteInv'
<1> USE DEF WriteInv
<1>1. /\ m.type = "accept" /\ m.epoch = ets[p] /\ leader(p) = p /\ phase[p] = "writing"
      /\ Receive(p, m) /\ m.to = p
  BY DEF onReceivedAccept, Handles, Relevant, PhasesOf, Receive
<1>2. /\ rcvAccepts' = [rcvAccepts EXCEPT ![p] = rcvAccepts[p] + 1]
      /\ UNCHANGED <<ets, temp, decidedEnvs, decision>>
      /\ \A q \in Procs : phase'[q] = phase[q] \/ (q = p /\ phase'[q] = "deciding")
  BY DEF onReceivedAccept, NodeInv, TypeOK
<1>3. \/ rcvAccepts[p] + 1 < quorum /\ msgs' = msgs
      \/ /\ rcvAccepts[p] + 1 >= quorum
         /\ msgs' = msgs \cup {[type |-> "decide", from |-> p, epoch |-> ets[p], val |-> temp[p]]}
  BY DEF onReceivedAccept
<1>4. msgs \subseteq msgs' /\ \A n \in msgs' \ msgs : n.type = "decide" /\ n.epoch = ets[p] /\ n.val = temp[p]
  BY <1>3
<1>5. \A d, v : (Wrote(d, v) <=> Wrote(d, v)') /\ (Chosen(d, v) => Chosen(d, v)')
  BY <1>4, ChosenStable DEF Wrote
<1>6. \A q \in Procs : delivered[q] \subseteq delivered'[q] /\ delivered'[q] \subseteq msgs'
  BY <1>1, <1>4, ReceiveLinks
<1>7. /\ rcvAccepts[p] + 1 <= Cardinality(Counted(p)')
      /\ Counted(p)' \subseteq Accepted(ets[p])
  <2>1. m.from \in Procs /\ m = Accept(m.from, ets[p])
    <3>1. m \in Message BY DEF NodeInv, TypeOK
    <3> QED BY <1>1, <3>1, MessageShapes DEF Accept, leader
  <2>2. m \notin delivered[p] /\ delivered'[p] = delivered[p] \cup {m}
    BY <1>1 DEF Receive, NodeInv, TypeOK
  <2>3. \A q, c : Accept(q, c).from = q BY DEF Accept
  <2>4. Counted(p)' = Counted(p) \cup {m.from} /\ m.from \notin Counted(p)
    <3>1. Counted(p)' = {q \in Procs : Accept(q, ets[p]) \in delivered'[p]}
      BY <1>2 DEF Counted, Accept
    <3> QED BY <2>1, <2>2, <2>3, <3>1 DEF Counted
  <2>5. Counted(p) \in SUBSET Procs BY DEF Counted
  <2>6. IsFiniteSet(Counted(p)) /\ Cardinality(Counted(p)) \in Nat BY <2>5, ProcSets
  <2>7. Cardinality(Counted(p)') = Cardinality(Counted(p)) + 1 BY <2>4, <2>6, FS_AddElement
  <2>8. rcvAccepts[p] <= Cardinality(Counted(p)) /\ rcvAccepts[p] \in Nat
    BY DEF CountsHonest, NodeInv, TypeOK
  <2>9. Counted(p)' \subseteq Accepted(ets[p])
    BY <2>1, <2>4 DEF Counted, Accepted, CountsHonest
  <2> QED BY <2>6, <2>7, <2>8, <2>9
<1>8. rcvAccepts[p] + 1 >= quorum => Chosen(ets[p], temp[p])
  <2>1. Wrote(ets[p], temp[p]) BY <1>1 DEF LeaderWrote
  <2>2. Accepted(ets[p]) \in SUBSET Procs BY DEF Accepted
  <2>3. /\ Cardinality(Counted(p)') <= Cardinality(Accepted(ets[p]))
        /\ Cardinality(Counted(p)') \in Nat /\ Cardinality(Accepted(ets[p])) \in Nat
    BY <1>7, <2>2, ProcSets
  <2>4. rcvAccepts[p] \in Nat BY DEF NodeInv, TypeOK
  <2> QED BY <1>7, <2>1, <2>3, <2>4, QuorumTyped DEF Chosen
<1>9. MessagesGenuine'
  <2> SUFFICES ASSUME NEW n \in msgs'
               PROVE  /\ n.type = "write" => n.from = LeaderOf[n.epoch]
                      /\ n.type = "accept" => n.to = LeaderOf[n.epoch]
                      /\ n.type = "decide" => Chosen(n.epoch, n.val)'
    BY DEF MessagesGenuine
  <2>1. CASE n \in msgs BY <2>1, <1>5 DEF MessagesGenuine
  <2>2. CASE n \notin msgs
    <3>1. n.type = "decide" /\ n.epoch = ets[p] /\ n.val = temp[p] BY <2>2, <1>4
    <3>2. rcvAccepts[p] + 1 >= quorum BY <2>2, <1>3
    <3> QED BY <3>1, <3>2, <1>5, <1>8
  <2> QED BY <2>1, <2>2
<1>10. WritesKept'
  <2> SUFFICES ASSUME NEW n \in msgs', n.type = "write"
               PROVE  \/ ets[n.from] > n.epoch
                      \/ /\ ets[n.from] = n.epoch
                         /\ phase'[n.from] \in {"writing", "deciding", "decided"}
                         /\ leader(n.from) = n.from /\ temp[n.from] = n.val
    BY <1>2 DEF WritesKept, leader
  <2>1. n \in msgs BY <1>4
  <2>2. n.from \in Procs BY <2>1, MessageShapes DEF NodeInv, TypeOK
  <2> QED BY <1>2, <2>1, <2>2 DEF WritesKept
<1>11. LeaderWrote'
  <2> SUFFICES ASSUME NEW q \in Procs, phase'[q] \in {"writing", "deciding"}
               PROVE  leader(q)' = q /\ Wrote(ets[q], temp[q])'
    BY DEF LeaderWrote
  <2>1. phase[q] \in {"writing", "deciding"} BY <1>1, <1>2
  <2>2. PICK d, v : d = ets[q] /\ v = temp[q] OBVIOUS
  <2>3. leader(q) = q /\ Wrote(d, v) BY <2>1, <2>2 DEF LeaderWrote
  <2>4. leader(q)' = q /\ Wrote(d, v)' BY <1>2, <1>5, <2>3 DEF leader
  <2> QED BY <1>2, <2>2, <2>4 DEF Wrote
<1>12. WriteOnce' BY <1>5 DEF WriteOnce
<1>13. CountsHonest'
  <2> SUFFICES ASSUME NEW q \in Procs
               PROVE  rcvAccepts'[q] <= Cardinality(Counted(q)')
    BY <1>6 DEF CountsHonest
  <2>1. CASE q = p BY <2>1, <1>2, <1>7 DEF NodeInv, TypeOK
  <2>2. CASE q # p
    <3>1. Counted(q) \subseteq Counted(q)' /\ Counted(q)' \in SUBSET Procs
      BY <1>2, <1>6 DEF Counted, Accept
    <3>2. /\ Cardinality(Counted(q)) <= Cardinality(Counted(q)')
          /\ Cardinality(Counted(q)) \in Nat /\ Cardinality(Counted(q)') \in Nat
      BY <3>1, ProcSets
    <3>3. rcvAccepts'[q] = rcvAccepts[q] /\ rcvAccepts[q] \in Nat
      BY <2>2, <1>2 DEF NodeInv, TypeOK
    <3> QED BY <3>2, <3>3 DEF CountsHonest
  <2> QED BY <2>1, <2>2
<1>14. DecisionsChosen'
  <2>0. \A q \in Procs : ets[q] \in Nat BY DEF NodeInv, TypeOK
  <2>1. \A q \in Procs : ets'[q] >= ets[q] BY <1>2, <2>0
  <2> QED BY <1>2, <1>4, <2>1, DecisionsStay
<1> QED BY <1>9, <1>10, <1>11, <1>12, <1>13, <1>14

\* What HandleAborted does: the epoch grows and a fresh instance starts.
LEMMA HandleAbortedFacts ==
    ASSUME NodeInv, NEW p \in Procs, NEW env \in abortedEnvs[p], HandleAborted(p, env)
    PROVE  /\ newTs[p] > ets[p] /\ env \in AbortedState /\ env.ts = ets[p]
           /\ \A q \in Procs : ets[q] \in Nat /\ ets'[q] \in Nat /\ ets'[q] >= ets[q]
           /\ \A q \in Procs : ets'[q] = IF q = p THEN newTs[p] ELSE ets[q]
           /\ \A q \in Procs : q # p =>
                 /\ phase'[q] = phase[q] /\ temp'[q] = temp[q] /\ current'[q] = current[q]
                 /\ rcvStates'[q] = rcvStates[q] /\ rcvAccepts'[q] = rcvAccepts[q]
                 /\ delivered'[q] = delivered[q] /\ inner'[q] = inner[q]
                 /\ abortedEnvs'[q] = abortedEnvs[q]
           /\ phase'[p] \in {"idle", "propose"} /\ current'[p] = env.state
           /\ rcvStates'[p] = [q \in Procs |-> NoState] /\ rcvAccepts'[p] = 0
           /\ delivered'[p] \subseteq delivered[p] /\ abortedEnvs'[p] \subseteq abortedEnvs[p]
           /\ UNCHANGED <<msgs, decidedEnvs, decision>>
<1> USE DEF NodeInv, TypeOK
<1>1. newTs[p] > ets[p] /\ env \in AbortedState /\ env.ts = ets[p] /\ newTs[p] \in Nat
  BY DEF AbortsLeadOn, HandleAborted
<1>2. \A q \in Procs : ets'[q] = IF q = p THEN newTs[p] ELSE ets[q] BY DEF HandleAborted
<1>3. \A q \in Procs : ets[q] \in Nat OBVIOUS
<1>4. \A q \in Procs : ets[q] \in Nat /\ ets'[q] \in Nat /\ ets'[q] >= ets[q]
  <2> HIDE DEF NodeInv, TypeOK
  <2> SUFFICES ASSUME NEW q \in Procs PROVE ets'[q] \in Nat /\ ets'[q] >= ets[q] BY <1>3
  <2>1. CASE q = p BY <1>1, <1>2, <1>3, <2>1
  <2>2. CASE q # p BY <1>2, <1>3, <2>2
  <2> QED BY <2>1, <2>2
<1>5. \A q \in Procs : q # p =>
                 /\ phase'[q] = phase[q] /\ temp'[q] = temp[q] /\ current'[q] = current[q]
                 /\ rcvStates'[q] = rcvStates[q] /\ rcvAccepts'[q] = rcvAccepts[q]
                 /\ delivered'[q] = delivered[q] /\ inner'[q] = inner[q]
                 /\ abortedEnvs'[q] = abortedEnvs[q]
  BY DEF HandleAborted, startEpoch
<1>6. /\ phase'[p] \in {"idle", "propose"} /\ current'[p] = env.state
      /\ rcvStates'[p] = [q \in Procs |-> NoState] /\ rcvAccepts'[p] = 0
      /\ delivered'[p] \subseteq delivered[p] /\ abortedEnvs'[p] \subseteq abortedEnvs[p]
  BY DEF HandleAborted, startEpoch, FirstPhase
<1> QED BY <1>1, <1>2, <1>4, <1>5, <1>6 DEF HandleAborted

\* A new epoch keeps the writes of the epoch left and starts with none.
LEMMA WritesHandleAborted ==
    ASSUME NodeInv, WriteInv, TypeOK', NEW p \in Procs, NEW env \in abortedEnvs[p],
           HandleAborted(p, env)
    PROVE  WriteInv'
<1> USE DEF WriteInv
<1>1. /\ newTs[p] > ets[p] /\ phase'[p] \in {"idle", "propose"} /\ rcvAccepts'[p] = 0
      /\ \A q \in Procs : ets[q] \in Nat /\ ets'[q] \in Nat /\ ets'[q] >= ets[q]
      /\ \A q \in Procs : ets'[q] = IF q = p THEN newTs[p] ELSE ets[q]
      /\ \A q \in Procs : q # p =>
            /\ phase'[q] = phase[q] /\ temp'[q] = temp[q] /\ rcvAccepts'[q] = rcvAccepts[q]
            /\ delivered'[q] = delivered[q]
      /\ delivered'[p] \subseteq delivered[p]
      /\ UNCHANGED <<msgs, decidedEnvs, decision>>
  BY HandleAbortedFacts
<1>2. \A d, v : (Wrote(d, v) <=> Wrote(d, v)') /\ (Chosen(d, v) => Chosen(d, v)')
  BY <1>1, ChosenStable DEF Wrote
<1>3. MessagesGenuine' BY <1>1, <1>2 DEF MessagesGenuine
<1>4. WritesKept'
  <2> SUFFICES ASSUME NEW n \in msgs, n.type = "write"
               PROVE  \/ ets'[n.from] > n.epoch
                      \/ /\ ets'[n.from] = n.epoch
                         /\ phase'[n.from] \in {"writing", "deciding", "decided"}
                         /\ LeaderOf[ets'[n.from]] = n.from /\ temp'[n.from] = n.val
    BY <1>1 DEF WritesKept, leader
  <2>1. n.from \in Procs /\ n.epoch \in Nat BY MessageShapes DEF NodeInv, TypeOK
  <2>2. CASE n.from = p BY <1>1, <2>1, <2>2 DEF WritesKept
  <2>3. CASE n.from # p BY <1>1, <2>1, <2>3 DEF WritesKept, leader
  <2> QED BY <2>2, <2>3
<1>5. LeaderWrote'
  <2> SUFFICES ASSUME NEW q \in Procs, phase'[q] \in {"writing", "deciding"}
               PROVE  leader(q)' = q /\ Wrote(ets[q], temp[q])'
    BY DEF LeaderWrote
  <2>1. q # p BY <1>1
  <2>2. PICK d, v : d = ets[q] /\ v = temp[q] OBVIOUS
  <2>3. leader(q) = q /\ Wrote(d, v) BY <1>1, <2>1, <2>2 DEF LeaderWrote
  <2>4. leader(q)' = q /\ Wrote(d, v)' BY <1>1, <1>2, <2>1, <2>3 DEF leader
  <2> QED BY <1>1, <2>1, <2>2, <2>4 DEF Wrote
<1>6. WriteOnce' BY <1>2 DEF WriteOnce
<1>7. CountsHonest'
  <2> SUFFICES ASSUME NEW q \in Procs
               PROVE  delivered'[q] \subseteq msgs /\ rcvAccepts'[q] <= Cardinality(Counted(q)')
    BY <1>1 DEF CountsHonest
  <2>1. delivered'[q] \subseteq msgs BY <1>1 DEF CountsHonest
  <2>2. CASE q = p
    <3>1. Counted(p)' \in SUBSET Procs BY DEF Counted
    <3> QED BY <2>1, <2>2, <3>1, <1>1, ProcSets
  <2>3. CASE q # p
    <3>1. Counted(q)' = Counted(q) BY <1>1, <2>3 DEF Counted, Accept
    <3> QED BY <1>1, <2>1, <2>3, <3>1 DEF CountsHonest
  <2> QED BY <2>2, <2>3
<1>8. DecisionsChosen' BY <1>1, DecisionsStay
<1> QED BY <1>3, <1>4, <1>5, <1>6, <1>7, <1>8

\* Every step preserves the invariant about writes and accepts.
LEMMA WriteInvNext == NodeInv /\ WriteInv /\ [Next]_vars => WriteInv'
<1> SUFFICES ASSUME NodeInv, WriteInv, [Next]_vars PROVE WriteInv' OBVIOUS
<1>0. TypeOK' BY NodeInvNext DEF NodeInv
<1>1. CASE UNCHANGED vars
  <2>1. UNCHANGED <<ets, rcvAccepts, msgs, delivered, phase, temp, decidedEnvs, decision>>
    BY <1>1 DEF vars, nodeVars, ecVars
  <2>2. \A q \in Procs : delivered[q] \subseteq msgs BY DEF WriteInv, CountsHonest
  <2> QED BY <1>0, <2>1, <2>2, QuietWrites
<1>2. CASE Next
  <2>1. PICK p \in Procs :
            \/ \E v \in Values : Propose(p, v)
            \/ MaybePropose(p)
            \/ Deliver(p)
            \/ \E env \in decidedEnvs[p] : HandleDecided(p, env)
            \/ \E e \in Epochs : HandleNewEpoch(p, e)
            \/ \E env \in abortedEnvs[p] : HandleStaleAborted(p, env)
            \/ \E env \in abortedEnvs[p] : HandleAborted(p, env)
            \/ Stop(p)
    BY <1>2 DEF Next
  <2>2. CASE Deliver(p)
    BY <1>0, <2>2, WritesDeliver, WritesStartWriting, WritesReceivedAccept DEF Deliver
  <2> QED BY <1>0, <2>1, <2>2, WritesNode, WritesHandleAborted
<1> QED BY <1>1, <1>2

-----------------------------------------------------------------------------
(* Layer 4 *)

\* No state is outdated and nothing is chosen at the start.
LEMMA SafeInvInit == Init => SafeInv
<1> SUFFICES ASSUME Init PROVE SafeInv OBVIOUS
<1>1. \A c : Accepted(c) = {} BY DEF Init, Accepted
<1>2. AcceptsOld /\ ReportsCurrent BY <1>1 DEF Init, AcceptsOld, ReportsCurrent
<1>3. StatesCurrent BY <1>1 DEF Init, StatesCurrent, NothingMissed
<1>4. \A c, v : ~Wrote(c, v) BY DEF Init, Wrote
<1>5. WritesSafe /\ ChosenBinds BY <1>4 DEF WritesSafe, ChosenBinds
<1>6. StatesSafe BY DEF Init, StatesSafe, StateSafe, InitState
<1> QED BY <1>2, <1>3, <1>5, <1>6 DEF SafeInv

\* Two quorums of processes intersect.
LEMMA QuorumsMeet ==
    ASSUME NEW A \in SUBSET Procs, NEW B \in SUBSET Procs,
           Cardinality(A) >= quorum, Cardinality(B) >= quorum
    PROVE  A \cap B # {}
<1>1. Cardinality(A) \in Nat /\ Cardinality(B) \in Nat /\ Cardinality(Procs) \in Nat
  BY ProcSets, FS_CardinalityType
<1>2. ASSUME NEW n \in Nat PROVE n \div 2 + 1 \in Nat /\ 2 * (n \div 2 + 1) > n OBVIOUS
<1>3. quorum \in Nat /\ 2 * quorum > Cardinality(Procs) BY <1>1, <1>2 DEF quorum
<1>4. Cardinality(A) + Cardinality(B) > Cardinality(Procs) BY <1>1, <1>3
<1> QED BY <1>4, FS_MajoritiesIntersect

\* What a step may do to the accepts: a process accepts in its own epoch, and
\* epochs grow.
FairStep ==
    /\ msgs \subseteq msgs'
    /\ \A q \in Procs : ets[q] \in Nat /\ ets'[q] \in Nat /\ ets'[q] >= ets[q]
    /\ \A c \in Epochs : \A q \in Accepted(c)' : q \in Accepted(c) \/ c = ets[q]

\* Safe values stay safe.
LEMMA SafeStable ==
    ASSUME FairStep, NEW c \in Epochs, NEW v, SafeAt(c, v)
    PROVE  SafeAt(c, v)'
<1>0. msgs \subseteq msgs' /\ c \in Nat BY DEF FairStep
<1>1. CASE Wrote(c, v) BY <1>0, <1>1, ChosenStable DEF SafeAt
<1>2. CASE \E Q \in SUBSET Procs : /\ Cardinality(Q) >= quorum
                                   /\ \A q \in Q : q \notin Accepted(c) /\ ets[q] > c
  <2>1. PICK Q \in SUBSET Procs : /\ Cardinality(Q) >= quorum
                                  /\ \A q \in Q : q \notin Accepted(c) /\ ets[q] > c
    BY <1>2
  <2>2. \A q \in Q : q \notin Accepted(c)' /\ ets'[q] > c BY <1>0, <2>1 DEF FairStep
  <2> QED BY <2>1, <2>2 DEF SafeAt, quorum
<1>3. CASE \E d \in Epochs : 0 < d /\ d < c /\ Chosen(d, v)
  <2>1. PICK d \in Epochs : 0 < d /\ d < c /\ Chosen(d, v) BY <1>3
  <2>2. Chosen(d, v)' BY <1>0, <2>1, ChosenStable
  <2> QED BY <2>1, <2>2 DEF SafeAt
<1> QED BY <1>1, <1>2, <1>3 DEF SafeAt

\* Safe states stay safe.
LEMMA StateSafeStable ==
    ASSUME FairStep, NEW st, StateSafe(st)
    PROVE  StateSafe(st)'
<1> SUFFICES ASSUME st.ts > 0
             PROVE  /\ st.val \in Values
                    /\ \A c \in Epochs : 0 < c /\ c <= st.ts => SafeAt(c, st.val)'
  BY DEF StateSafe
<1>1. st.val \in Values BY DEF StateSafe
<1>2. ASSUME NEW c \in Epochs, 0 < c, c <= st.ts PROVE SafeAt(c, st.val)'
  <2>1. SafeAt(c, st.val) BY <1>2 DEF StateSafe
  <2> QED BY <2>1, SafeStable
<1> QED BY <1>1, <1>2

\* A decision, once made, is kept.
DecisionsKept == \A q \in Procs : decision'[q] = decision[q] \/ decision[q] = NoDecision

\* Nobody had decided in epoch 0 before a step after which nobody has.
LEMMA NoInitialBefore ==
    ASSUME DecisionsKept, NoInitialDecision'
    PROVE  NoInitialDecision
BY DEF DecisionsKept, NoInitialDecision, Decided

\* How a step may change the states that are kept, reported and handed on,
\* other than by an accept or a new epoch.
QuietStep ==
    /\ FairStep /\ DecisionsKept
    /\ UNCHANGED <<ets, current>>
    /\ \A c \in Epochs : Accepted(c)' = Accepted(c)
    /\ \A q \in Procs : inner'[q] => inner[q]
    /\ \A q \in Procs : \A env \in abortedEnvs'[q] :
          \/ env \in abortedEnvs[q]
          \/ /\ AbortCurrent(q, env)'
             /\ NoInitialDecision => StateSafe(env.state)
    /\ \A q, r \in Procs :
          \/ rcvStates'[q][r] \in {rcvStates[q][r], NoState}
          \/ \E m \in msgs : /\ m.type = "state" /\ m.from = r /\ m.epoch = ets[q]
                             /\ rcvStates'[q][r] = [ts |-> m.ts, val |-> m.val]
    /\ \A m \in msgs' \ msgs :
          m.type = "state" => /\ m.from \in Procs /\ m.epoch = ets[m.from]
                              /\ m.ts = current[m.from].ts /\ m.val = current[m.from].val

\* A quiet step keeps the states current and safe.
LEMMA QuietStates ==
    ASSUME NodeInv, SafeInv, QuietStep
    PROVE  /\ AcceptsOld' /\ StatesCurrent' /\ ReportsCurrent'
           /\ NoInitialDecision' => StatesSafe'
<1> USE DEF SafeInv
<1>0. \A q, st, e : NothingMissed(q, st, e) => NothingMissed(q, st, e)'
  BY DEF QuietStep, NothingMissed
<1>1. AcceptsOld' BY DEF AcceptsOld, QuietStep
<1>2. ReportsCurrent'
  <2> SUFFICES ASSUME NEW m \in msgs', m.type = "state"
               PROVE  ets[m.from] >= m.epoch /\ NothingMissed(m.from, m, m.epoch)
    BY <1>0 DEF ReportsCurrent, QuietStep
  <2>1. CASE m \in msgs BY <2>1 DEF ReportsCurrent
  <2>2. CASE m \notin msgs
    <3>1. /\ m.from \in Procs /\ m.epoch = ets[m.from] /\ m.ts = current[m.from].ts
      BY <2>2 DEF QuietStep
    <3>2. ets[m.from] \in Nat BY <3>1 DEF NodeInv, TypeOK
    <3>3. NothingMissed(m.from, current[m.from], ets[m.from] + 1) BY <3>1 DEF StatesCurrent
    <3>4. ets[m.from] >= m.epoch BY <3>1, <3>2
    <3>5. ASSUME NEW c \in Epochs, m.ts < c, c < m.epoch PROVE m.from \notin Accepted(c)
      <4>0. c \in Nat /\ c < ets[m.from] BY <3>1, <3>5
      <4>1. c < ets[m.from] + 1 BY <3>2, <4>0
      <4> QED BY <3>1, <3>3, <3>5, <4>1 DEF NothingMissed
    <3> QED BY <3>4, <3>5 DEF NothingMissed
  <2> QED BY <2>1, <2>2
<1>3. StatesCurrent'
  <2> SUFFICES ASSUME NEW p \in Procs
               PROVE  /\ NothingMissed(p, current[p], ets[p] + 1)'
                      /\ \A env \in abortedEnvs'[p] : AbortCurrent(p, env)'
                      /\ \A q \in Procs : rcvStates'[p][q] # NoState =>
                            ets'[q] >= ets'[p] /\ NothingMissed(q, rcvStates[p][q], ets[p])'
    BY DEF StatesCurrent
  <2>1. NothingMissed(p, current[p], ets[p] + 1)' BY DEF StatesCurrent, QuietStep, NothingMissed
  <2>2. ASSUME NEW env \in abortedEnvs'[p] PROVE AbortCurrent(p, env)'
    <3>1. CASE env \in abortedEnvs[p]
      <4>1. AbortCurrent(p, env) BY <3>1 DEF StatesCurrent
      <4> QED BY <4>1 DEF AbortCurrent, QuietStep, NothingMissed
    <3>2. CASE env \notin abortedEnvs[p] BY <2>2, <3>2 DEF QuietStep
    <3> QED BY <3>1, <3>2
  <2>3. ASSUME NEW q \in Procs, rcvStates'[p][q] # NoState
        PROVE  ets'[q] >= ets'[p] /\ NothingMissed(q, rcvStates[p][q], ets[p])'
    <3>1. PICK st : st = rcvStates'[p][q] OBVIOUS
    <3>2. ets[q] >= ets[p] /\ NothingMissed(q, st, ets[p])
      <4>1. CASE st = rcvStates[p][q] BY <2>3, <3>1, <4>1 DEF StatesCurrent
      <4>2. CASE \E m \in msgs : /\ m.type = "state" /\ m.from = q /\ m.epoch = ets[p]
                                 /\ st = [ts |-> m.ts, val |-> m.val]
        <5>1. PICK m \in msgs : /\ m.type = "state" /\ m.from = q /\ m.epoch = ets[p]
                                /\ st = [ts |-> m.ts, val |-> m.val]
          BY <4>2
        <5> QED BY <5>1 DEF ReportsCurrent, NothingMissed
      <4> QED BY <2>3, <3>1, <4>1, <4>2 DEF QuietStep
    <3> QED BY <3>1, <3>2 DEF QuietStep, NothingMissed
  <2> QED BY <2>1, <2>2, <2>3
<1>4. ASSUME NoInitialDecision' PROVE StatesSafe'
  <2>0. NoInitialDecision /\ StatesSafe BY <1>4, NoInitialBefore DEF QuietStep
  <2>1. FairStep BY DEF QuietStep
  <2>2. \A st : StateSafe(st) => StateSafe(st)' BY <2>1, StateSafeStable
  <2>3. ASSUME NEW m \in msgs', m.type = "state" PROVE StateSafe(m)
    <3>1. CASE m \in msgs BY <2>0, <2>3, <3>1 DEF StatesSafe
    <3>2. CASE m \notin msgs
      <4>1. m.from \in Procs /\ m.ts = current[m.from].ts /\ m.val = current[m.from].val
        BY <2>3, <3>2 DEF QuietStep
      <4>2. StateSafe(current[m.from]) BY <2>0, <4>1 DEF StatesSafe
      <4> QED BY <4>1, <4>2 DEF StateSafe
    <3> QED BY <3>1, <3>2
  <2>4. ASSUME NEW p \in Procs, NEW env \in abortedEnvs'[p] PROVE StateSafe(env.state)
    BY <2>0, <2>4 DEF QuietStep, StatesSafe
  <2>5. ASSUME NEW p \in Procs, NEW q \in Procs, NEW st, st = rcvStates'[p][q], st # NoState
        PROVE  StateSafe(st)
    <3>1. CASE st = rcvStates[p][q] BY <2>0, <2>5, <3>1 DEF StatesSafe
    <3>2. CASE \E m \in msgs : m.type = "state" /\ st = [ts |-> m.ts, val |-> m.val]
      BY <2>0, <3>2 DEF StatesSafe, StateSafe
    <3> QED BY <2>5, <3>1, <3>2 DEF QuietStep
  <2>6. PICK S, C : S = rcvStates' /\ C = current' OBVIOUS
  <2>7. \A p \in Procs : StateSafe(C[p])' BY <2>0, <2>2, <2>6 DEF StatesSafe, QuietStep
  <2>8. \A p, q \in Procs : S[p][q] # NoState => StateSafe(S[p][q])' BY <2>2, <2>5, <2>6
  <2>9. /\ \A p \in Procs : StateSafe(current[p])'
        /\ \A p, q \in Procs : (rcvStates[p][q] # NoState => StateSafe(rcvStates[p][q]))'
    BY <2>6, <2>7, <2>8 DEF StateSafe
  <2> QED BY <2>2, <2>3, <2>4, <2>9 DEF StatesSafe
<1> QED BY <1>1, <1>2, <1>3, <1>4

\* Messages other than accepts accept nothing.
LEMMA NothingAccepted ==
    ASSUME NodeInv, msgs \subseteq msgs', UNCHANGED ets,
           \A n \in msgs' \ msgs : n.type # "accept"
    PROVE  FairStep /\ \A c \in Epochs : Accepted(c)' = Accepted(c)
<1>1. \A q, c : Accept(q, c).type = "accept" BY DEF Accept
<1>2. \A c \in Epochs : Accepted(c)' = Accepted(c)
  <2> SUFFICES ASSUME NEW c \in Epochs PROVE Accepted(c)' = Accepted(c) OBVIOUS
  <2>1. Accepted(c)' = {q \in Procs : Accept(q, c) \in msgs'} BY DEF Accepted, Accept
  <2> QED BY <1>1, <2>1 DEF Accepted
<1>3. \A q \in Procs : ets[q] \in Nat BY DEF NodeInv, TypeOK
<1>4. \A q \in Procs : ets'[q] = ets[q] /\ ets[q] >= ets[q] BY <1>3
<1> QED BY <1>2, <1>3, <1>4 DEF FairStep

\* A quiet step without a write preserves the invariant.
LEMMA QuietSafe ==
    ASSUME NodeInv, SafeInv, QuietStep, \A n \in msgs' \ msgs : n.type # "write"
    PROVE  SafeInv'
<1>1. FairStep /\ msgs \subseteq msgs' /\ DecisionsKept BY DEF QuietStep, FairStep
<1>2. \A c \in Epochs : \A v : Wrote(c, v)' <=> Wrote(c, v) BY <1>1 DEF Wrote
<1>3. \A c \in Epochs : \A v : Chosen(c, v)' <=> Chosen(c, v)
  BY <1>2 DEF Chosen, QuietStep, quorum
<1>4. ASSUME NoInitialDecision' PROVE WritesSafe' /\ ChosenBinds'
  <2>1. WritesSafe /\ ChosenBinds BY <1>1, <1>4, NoInitialBefore DEF SafeInv
  <2>2. ChosenBinds' BY <1>2, <1>3, <2>1 DEF ChosenBinds
  <2>3. WritesSafe' BY <1>1, <1>2, <2>1, SafeStable DEF WritesSafe
  <2> QED BY <2>2, <2>3
<1> QED BY <1>4, QuietStates DEF SafeInv

\* Steps that touch none of the states.
LEMMA UntouchedSafe ==
    ASSUME NodeInv, SafeInv, UNCHANGED <<ets, current, abortedEnvs, rcvStates>>,
           DecisionsKept, \A q \in Procs : inner'[q] => inner[q],
           msgs \subseteq msgs',
           \A n \in msgs' \ msgs : n.type \in {"read", "decide"}
    PROVE  SafeInv'
<1>1. FairStep /\ \A c \in Epochs : Accepted(c)' = Accepted(c) BY NothingAccepted
<1>2. QuietStep BY <1>1 DEF QuietStep
<1> QED BY <1>2, QuietSafe

\* The steps of the Node that leave the states alone.
LEMMA SafeNode ==
    ASSUME NodeInv, SafeInv, NEW p \in Procs,
           \/ \E v \in Values : Propose(p, v)
           \/ MaybePropose(p)
           \/ \E env \in decidedEnvs[p] : HandleDecided(p, env)
           \/ Stop(p)
    PROVE  SafeInv'
<1> USE DEF DecisionsKept
<1>1. CASE \E v \in Values : Propose(p, v) BY <1>1, UntouchedSafe DEF Propose, ecVars
<1>2. CASE MaybePropose(p)
  <2>1. UNCHANGED <<ets, current, abortedEnvs, rcvStates, decision, inner>>
    BY <1>2 DEF MaybePropose
  <2>2. msgs \subseteq msgs' /\ \A n \in msgs' \ msgs : n.type = "read"
    <3>1. msgs' = msgs \/ msgs' = msgs \cup {[type |-> "read", from |-> p, epoch |-> ets[p]]}
      BY <1>2, Zenon DEF MaybePropose, onPropose
    <3> QED BY <3>1
  <2> QED BY <2>1, <2>2, UntouchedSafe
<1>3. CASE \E env \in decidedEnvs[p] : HandleDecided(p, env)
  <2>1. UNCHANGED <<ets, current, abortedEnvs, rcvStates, inner, msgs>>
    BY <1>3 DEF HandleDecided, ecVars
  <2>2. DecisionsKept BY <1>3 DEF HandleDecided, NodeInv, TypeOK
  <2> QED BY <2>1, <2>2, UntouchedSafe
<1>4. CASE Stop(p) BY <1>4, UntouchedSafe DEF Stop, ecVars
<1> QED BY <1>1, <1>2, <1>3, <1>4

\* The state triggerAborted reports for a decided node is safe: the decision
\* was chosen in its own epoch and binds the later ones.
LEMMA DecidedStateSafe ==
    ASSUME NodeInv, WriteInv, SafeInv, NEW p \in Procs, Decided(p), NoInitialDecision
    PROVE  StateSafe(DecidedState(p))
<1>1. PICK d, v : d = decision[p].ts /\ v = decision[p].val OBVIOUS
<1>2. /\ d \in Epochs /\ v \in Values /\ Chosen(d, v) /\ d > 0 /\ d \in Nat
  BY <1>1 DEF Decided, NodeInv, TypeOK, Decision, WriteInv, DecisionsChosen, NoInitialDecision
<1>3. ASSUME NEW c \in Epochs, 0 < c PROVE SafeAt(c, v)
  <2>0. c \in Nat OBVIOUS
  <2>1. CASE c < d
    BY <1>2, <1>3, <2>1 DEF SafeInv, WritesSafe, Chosen
  <2>2. CASE c = d BY <1>2, <2>2 DEF SafeAt, Chosen
  <2>3. CASE c > d BY <1>2, <2>3 DEF SafeAt
  <2> QED BY <1>2, <2>0, <2>1, <2>2, <2>3
<1>4. DecidedState(p).val = v BY <1>1 DEF DecidedState
<1> QED BY <1>2, <1>3, <1>4 DEF StateSafe

\* The state an abort or a decided node reports is current and safe.
LEMMA SafeNewEpoch ==
    ASSUME NodeInv, WriteInv, SafeInv, NEW p \in Procs, NEW e \in Epochs, HandleNewEpoch(p, e)
    PROVE  SafeInv'
<1>1. UNCHANGED <<ets, current, rcvStates, decision, msgs>> BY DEF HandleNewEpoch, ecVars
<1>2. FairStep /\ \A c \in Epochs : Accepted(c)' = Accepted(c) BY <1>1, NothingAccepted
<1>3. \A q \in Procs : inner'[q] => inner[q] BY DEF HandleNewEpoch, NodeInv, TypeOK
<1>4. \A q \in Procs : \A env \in abortedEnvs'[q] :
         \/ env \in abortedEnvs[q]
         \/ /\ q = p /\ env.ts = ets[p]
            /\ \/ Decided(p) /\ env.state = DecidedState(p)
               \/ env.state = current[p] /\ ~inner'[p]
  <2>1. CASE decision[p] # NoDecision
    BY <2>1 DEF HandleNewEpoch, NodeInv, TypeOK, Decided
  <2>2. CASE decision[p] = NoDecision
    BY <2>2 DEF HandleNewEpoch, NodeInv, TypeOK
  <2> QED BY <2>1, <2>2
<1>5. ASSUME NEW q \in Procs, NEW env \in abortedEnvs'[q], env \notin abortedEnvs[q]
      PROVE  AbortCurrent(q, env)' /\ (NoInitialDecision => StateSafe(env.state))
  <2>1. CASE Decided(p) /\ env.state = DecidedState(p)
    <3>1. env.state.ts = ets[p] /\ q = p BY <1>4, <1>5, <2>1 DEF DecidedState
    <3>2. ets[p] \in Nat BY DEF NodeInv, TypeOK
    <3>3. \A c \in Epochs : ~(ets[p] < c /\ c < ets[p] + 1) BY <3>2
    <3> QED BY <1>1, <2>1, <3>1, <3>3, DecidedStateSafe DEF AbortCurrent, NothingMissed
  <2>2. CASE env.state = current[p] /\ ~inner'[p] /\ q = p
    <3>1. NothingMissed(p, current[p], ets[p] + 1) BY DEF SafeInv, StatesCurrent
    <3>2. AbortCurrent(p, env)' BY <1>1, <1>2, <2>2, <3>1 DEF AbortCurrent, NothingMissed
    <3> QED BY <2>2, <3>2 DEF SafeInv, StatesSafe
  <2> QED BY <1>4, <1>5, <2>1, <2>2
<1>6. DecisionsKept BY <1>1 DEF DecisionsKept
<1>7. QuietStep BY <1>1, <1>2, <1>3, <1>5, <1>6 DEF QuietStep
<1> QED BY <1>1, <1>7, QuietSafe

\* Dropping the abort of an earlier epoch loses no state that is needed.
LEMMA SafeStaleAborted ==
    ASSUME NodeInv, SafeInv, NEW p \in Procs, NEW env \in abortedEnvs[p],
           HandleStaleAborted(p, env)
    PROVE  SafeInv'
<1>1. UNCHANGED <<ets, current, rcvStates, decision, msgs, inner>>
  BY DEF HandleStaleAborted, ecVars
<1>2. \A q \in Procs : abortedEnvs'[q] \subseteq abortedEnvs[q]
  BY DEF HandleStaleAborted, NodeInv, TypeOK
<1>3. FairStep /\ \A c \in Epochs : Accepted(c)' = Accepted(c) BY <1>1, NothingAccepted
<1>4. QuietStep BY <1>1, <1>2, <1>3 DEF QuietStep, DecisionsKept
<1> QED BY <1>1, <1>4, QuietSafe

\* Handlers that neither write nor accept.
LEMMA SafeDeliver ==
    ASSUME NodeInv, SafeInv, NEW p \in Procs, NEW m \in msgs,
           \/ Buffer(p, m) \/ Lose(p, m) \/ onHandleRead(p, m)
           \/ CollectState(p, m) \/ onReceivedAccept(p, m) \/ onDecided(p, m)
    PROVE  SafeInv'
<1>1. CASE Buffer(p, m) \/ Lose(p, m) \/ onDecided(p, m)
  <2>1. UNCHANGED <<ets, current, abortedEnvs, rcvStates, decision, inner, msgs>>
    BY <1>1 DEF Buffer, Lose, onDecided, ecVars
  <2> QED BY <2>1, UntouchedSafe DEF DecisionsKept
<1>2. CASE onReceivedAccept(p, m)
  <2>1. UNCHANGED <<ets, current, abortedEnvs, rcvStates, decision, inner>>
    BY <1>2 DEF onReceivedAccept
  <2>2. msgs \subseteq msgs' /\ \A n \in msgs' \ msgs : n.type = "decide"
    BY <1>2 DEF onReceivedAccept
  <2> QED BY <2>1, <2>2, UntouchedSafe DEF DecisionsKept
<1>3. CASE onHandleRead(p, m)
  <2>1. UNCHANGED <<ets, current, abortedEnvs, rcvStates, decision, inner>>
    BY <1>3 DEF onHandleRead, ecVars
  <2> DEFINE report == [type |-> "state", from |-> p, to |-> m.from, epoch |-> ets[p],
                        ts |-> current[p].ts, val |-> current[p].val]
  <2>2. msgs' = msgs \cup {report} BY <1>3 DEF onHandleRead
  <2>3. /\ report.type = "state" /\ report.from = p /\ report.epoch = ets[p]
        /\ report.ts = current[p].ts /\ report.val = current[p].val
    OBVIOUS
  <2> HIDE DEF report
  <2>4. FairStep /\ \A c \in Epochs : Accepted(c)' = Accepted(c)
    BY <2>1, <2>2, <2>3, NothingAccepted
  <2>5. QuietStep BY <2>1, <2>2, <2>3, <2>4 DEF QuietStep, DecisionsKept
  <2> QED BY <2>2, <2>3, <2>5, QuietSafe
<1>4. CASE CollectState(p, m)
  <2>1. UNCHANGED <<ets, current, abortedEnvs, decision, inner, msgs>>
    BY <1>4 DEF CollectState
  <2>2. FairStep /\ \A c \in Epochs : Accepted(c)' = Accepted(c) BY <2>1, NothingAccepted
  <2>3. m.type = "state" /\ m.epoch = ets[p]
    BY <1>4 DEF CollectState, Handles, Relevant
  <2>4. \A q, r \in Procs :
           \/ rcvStates'[q][r] = rcvStates[q][r]
           \/ q = p /\ r = m.from /\ rcvStates'[q][r] = [ts |-> m.ts, val |-> m.val]
    BY <1>4 DEF CollectState, WithState, NodeInv, TypeOK
  <2>5. QuietStep BY <2>1, <2>2, <2>3, <2>4 DEF QuietStep, DecisionsKept
  <2> QED BY <2>1, <2>5, QuietSafe
<1> QED BY <1>1, <1>2, <1>3, <1>4

\* The value of highestState is safe in every epoch before the leader's: up to
\* the timestamp of the state because the state is, after it because the
\* quorum that reported has accepted nothing there.
LEMMA WriteIsSafe ==
    ASSUME NodeInv, SafeInv, StatesSafe, NEW p \in Procs, NEW m \in msgs,
           m.type = "state", m.epoch = ets[p],
           Cardinality(Reported(WithState(p, m))) >= quorum,
           NEW st \in HighestStates(WithState(p, m)),
           NEW c \in Epochs, 0 < c, c < ets[p]
    PROVE  SafeAt(c, ValueToWrite(p, st))
<1> DEFINE rcv == WithState(p, m)
           Q == Reported(rcv)
<1>1. m.from \in Procs /\ m \in StateMsg /\ rcv \in [Procs -> State \cup {NoState}]
  BY WithStateTyped, MessageShapes DEF NodeInv, TypeOK
<1>2. \A q \in Procs : \/ rcv[q] = rcvStates[p][q]
                       \/ q = m.from /\ rcv[q] = [ts |-> m.ts, val |-> m.val]
  BY <1>1 DEF WithState, NodeInv, TypeOK
<1>3. ASSUME NEW q \in Q
      PROVE  ets[q] >= ets[p] /\ NothingMissed(q, rcv[q], ets[p]) /\ StateSafe(rcv[q])
  <2>1. q \in Procs /\ rcv[q] # NoState BY <1>3 DEF Reported
  <2>2. CASE rcv[q] = rcvStates[p][q]
    BY <2>1, <2>2 DEF SafeInv, StatesCurrent, StatesSafe
  <2>3. CASE q = m.from /\ rcv[q] = [ts |-> m.ts, val |-> m.val]
    BY <2>3 DEF SafeInv, ReportsCurrent, StatesSafe, NothingMissed, StateSafe
  <2> QED BY <1>2, <2>1, <2>2, <2>3
<1>4. PICK r \in Q : st = rcv[r] /\ \A q \in Q : rcv[q].ts <= rcv[r].ts
  BY DEF HighestStates
<1>5. \A q \in Q : rcv[q].ts \in Nat /\ ets[q] \in Nat /\ q \in Procs
  <2>1. \A q \in Q : rcv[q] \in State /\ q \in Procs BY <1>1 DEF Reported
  <2> QED BY <2>1 DEF State, NodeInv, TypeOK
<1>6. c \in Nat /\ ets[p] \in Nat BY DEF NodeInv, TypeOK
<1> HIDE DEF rcv, Q
<1>7. CASE c <= st.ts
  <2>1. st.ts > 0 BY <1>4, <1>5, <1>6, <1>7
  <2>2. StateSafe(st) BY <1>3, <1>4
  <2>3. ValueToWrite(p, st) = st.val BY <2>1, <2>2 DEF StateSafe, ValueToWrite
  <2> QED BY <1>7, <2>1, <2>2, <2>3 DEF StateSafe
<1>8. CASE c > st.ts
  <2>1. ASSUME NEW q \in Q PROVE q \notin Accepted(c) /\ ets[q] > c
    <3>1. rcv[q].ts < c BY <1>4, <1>5, <1>6, <1>8
    <3>2. ets[q] > c BY <1>3, <1>5, <1>6
    <3> QED BY <1>3, <3>1, <3>2 DEF NothingMissed
  <2>2. Q \in SUBSET Procs /\ Cardinality(Q) >= quorum BY DEF Q, rcv, Reported
  <2> QED BY <2>1, <2>2 DEF SafeAt
<1> QED BY <1>4, <1>5, <1>6, <1>7, <1>8

\* A value that is safe in an epoch is the one chosen there.
LEMMA SafeMeetsChosen ==
    ASSUME WriteInv, ChosenBinds, NEW c \in Epochs, NEW v \in Values, NEW w \in Values,
           Chosen(c, v), SafeAt(c, w)
    PROVE  v = w
<1>1. CASE Wrote(c, w) BY <1>1 DEF WriteInv, WriteOnce, Chosen
<1>2. CASE \E Q \in SUBSET Procs : /\ Cardinality(Q) >= quorum
                                   /\ \A q \in Q : q \notin Accepted(c) /\ ets[q] > c
  <2>1. Accepted(c) \in SUBSET Procs /\ Cardinality(Accepted(c)) >= quorum
    BY DEF Chosen, Accepted
  <2> QED BY <1>2, <2>1, QuorumsMeet
<1>3. CASE \E d \in Epochs : 0 < d /\ d < c /\ Chosen(d, w)
  BY <1>3 DEF ChosenBinds, Chosen
<1> QED BY <1>1, <1>2, <1>3 DEF SafeAt

\* A new write agrees with what is chosen, before and after its epoch.
LEMMA SafeStartWriting ==
    ASSUME NodeInv, WriteInv, SafeInv, NEW p \in Procs, NEW m \in msgs, StartWriting(p, m)
    PROVE  SafeInv'
<1>1. PICK st \in HighestStates(WithState(p, m)) :
              /\ ValueToWrite(p, st) \in Values
              /\ leader(p) = p /\ phase[p] = "reading" /\ m.epoch = ets[p] /\ m.type = "state"
              /\ msgs' = msgs \cup {[type |-> "write", from |-> p, epoch |-> ets[p],
                                     val |-> ValueToWrite(p, st)]}
              /\ UNCHANGED <<ets, decision>>
  BY StartWritingFacts
<1>2. PICK x \in Values : x = ValueToWrite(p, st) BY <1>1
<1>3. PICK a \in Epochs : a = ets[p] BY DEF NodeInv, TypeOK
<1>4. msgs \subseteq msgs' /\ \A n \in msgs' \ msgs : n.type = "write" BY <1>1
<1>5. FairStep /\ \A c \in Epochs : Accepted(c)' = Accepted(c)
  BY <1>1, <1>4, NothingAccepted
<1>6. QuietStep
  <2>1. UNCHANGED <<current, abortedEnvs, inner>> BY DEF StartWriting
  <2>2. \A q, r \in Procs : rcvStates'[q][r] \in {rcvStates[q][r], NoState}
    BY DEF StartWriting, NodeInv, TypeOK
  <2> QED BY <1>1, <1>4, <1>5, <2>1, <2>2 DEF QuietStep, DecisionsKept
<1>7. \A d, v : Wrote(d, v)' <=> Wrote(d, v) \/ (d = a /\ v = x)
  BY <1>1, <1>2, <1>3 DEF Wrote, leader
<1>8. ASSUME NoInitialDecision' PROVE WritesSafe' /\ ChosenBinds'
  <2>1. StatesSafe /\ WritesSafe /\ ChosenBinds
    BY <1>6, <1>8, NoInitialBefore DEF SafeInv, QuietStep
  <2>2. \A c \in Epochs : 0 < c /\ c < a => SafeAt(c, x)
    BY <1>1, <1>2, <1>3, <2>1, WriteIsSafe DEF StartWriting
  <2>3. WritesSafe'
    <3> SUFFICES ASSUME NEW e \in Epochs, NEW v \in Values, Wrote(e, v)',
                        NEW c \in Epochs, 0 < c, c < e
                 PROVE  SafeAt(c, v)
      BY <1>5, SafeStable DEF WritesSafe
    <3> QED BY <1>7, <2>1, <2>2 DEF WritesSafe
  <2>4. ChosenBinds'
    <3> SUFFICES ASSUME NEW c \in Epochs, NEW e \in Epochs, NEW v \in Values, NEW w \in Values,
                        0 < c, c < e, Chosen(c, v)', Wrote(e, w)'
                 PROVE  v = w
      BY DEF ChosenBinds
    <3>0. c \in Nat /\ e \in Nat /\ a \in Nat OBVIOUS
    <3>1. Cardinality(Accepted(c)) >= quorum /\ Wrote(c, v)'
      BY <1>5 DEF Chosen, quorum
    <3>2. CASE Wrote(c, v) /\ Wrote(e, w) BY <2>1, <3>1, <3>2 DEF ChosenBinds, Chosen
    <3>3. CASE Wrote(c, v) /\ e = a /\ w = x
      BY <2>1, <2>2, <3>1, <3>3, SafeMeetsChosen DEF Chosen
    <3>4. CASE c = a /\ v = x
      <4>1. Wrote(e, w) BY <1>7, <3>0, <3>4
      <4>2. SafeAt(a, w) BY <2>1, <3>4, <4>1 DEF WritesSafe
      <4>3. ~Wrote(a, w) BY <1>1, <1>3, NotYetWritten
      <4>4. Accepted(a) \in SUBSET Procs /\ Cardinality(Accepted(a)) >= quorum
        BY <3>1, <3>4 DEF Accepted
      <4>5. PICK d \in Epochs : 0 < d /\ d < a /\ Chosen(d, w)
        BY <4>2, <4>3, <4>4, QuorumsMeet DEF SafeAt
      <4>6. SafeAt(d, x) BY <2>2, <4>5
      <4> QED BY <2>1, <3>4, <4>5, <4>6, SafeMeetsChosen
    <3> QED BY <1>7, <3>1, <3>2, <3>3, <3>4
  <2> QED BY <2>3, <2>4
<1> QED BY <1>6, <1>8, QuietStates DEF SafeInv

\* The state taken into the next epoch misses no accept.
LEMMA SafeHandleAborted ==
    ASSUME NodeInv, SafeInv, NEW p \in Procs, NEW env \in abortedEnvs[p], HandleAborted(p, env)
    PROVE  SafeInv'
<1>1. /\ newTs[p] > ets[p] /\ env \in AbortedState /\ env.ts = ets[p]
      /\ \A q \in Procs : ets[q] \in Nat /\ ets'[q] \in Nat /\ ets'[q] >= ets[q]
      /\ \A q \in Procs : ets'[q] = IF q = p THEN newTs[p] ELSE ets[q]
      /\ \A q \in Procs : q # p =>
            /\ current'[q] = current[q] /\ rcvStates'[q] = rcvStates[q]
            /\ inner'[q] = inner[q] /\ abortedEnvs'[q] = abortedEnvs[q]
      /\ current'[p] = env.state /\ rcvStates'[p] = [q \in Procs |-> NoState]
      /\ abortedEnvs'[p] \subseteq abortedEnvs[p]
      /\ UNCHANGED <<msgs, decision>>
  BY HandleAbortedFacts
<1>2. \A c \in Epochs : Accepted(c)' = Accepted(c) BY <1>1 DEF Accepted, Accept
<1>3. FairStep BY <1>1, <1>2 DEF FairStep
<1>4. AcceptsOld'
  <2> SUFFICES ASSUME NEW c \in Epochs, NEW q \in Accepted(c) PROVE c <= ets'[q]
    BY <1>2 DEF AcceptsOld
  <2>1. q \in Procs /\ c \in Nat /\ c <= ets[q] BY DEF SafeInv, AcceptsOld, Accepted
  <2> QED BY <1>1, <2>1
<1>5. ReportsCurrent'
  <2> SUFFICES ASSUME NEW m \in msgs, m.type = "state"
               PROVE  ets'[m.from] >= m.epoch /\ NothingMissed(m.from, m, m.epoch)'
    BY <1>1 DEF ReportsCurrent
  <2>1. m.from \in Procs /\ m.epoch \in Nat BY MessageShapes DEF NodeInv, TypeOK
  <2>2. ets[m.from] >= m.epoch /\ NothingMissed(m.from, m, m.epoch)
    BY DEF SafeInv, ReportsCurrent
  <2> QED BY <1>1, <1>2, <2>1, <2>2 DEF NothingMissed
<1>6. StatesCurrent'
  <2> SUFFICES ASSUME NEW q \in Procs
               PROVE  /\ NothingMissed(q, current[q], ets[q] + 1)'
                      /\ \A x \in abortedEnvs'[q] : AbortCurrent(q, x)'
                      /\ \A r \in Procs : rcvStates'[q][r] # NoState =>
                            ets'[r] >= ets'[q] /\ NothingMissed(r, rcvStates[q][r], ets[q])'
    BY DEF StatesCurrent
  <2>1. CASE q = p
    <3>1. ASSUME NEW c \in Epochs, env.state.ts < c PROVE p \notin Accepted(c)
      <4>1. c \in Nat /\ ets[p] \in Nat BY <1>1
      <4>2. CASE c > ets[p] BY <4>1, <4>2 DEF SafeInv, AcceptsOld
      <4>3. CASE c <= ets[p]
        <5>1. NothingMissed(p, env.state, ets[p] + 1)
          BY <1>1 DEF SafeInv, StatesCurrent, AbortCurrent
        <5>2. c < ets[p] + 1 BY <4>1, <4>3
        <5> QED BY <3>1, <5>1, <5>2 DEF NothingMissed
      <4> QED BY <4>1, <4>2, <4>3
    <3>2. NothingMissed(q, current[q], ets[q] + 1)' BY <1>1, <1>2, <2>1, <3>1 DEF NothingMissed
    <3>3. ASSUME NEW x \in abortedEnvs'[q] PROVE AbortCurrent(q, x)'
      <4>1. x \in abortedEnvs[p] BY <1>1, <2>1, <3>3
      <4>2. x.ts <= ets[p] /\ x \in AbortedState
        BY <4>1 DEF NodeInv, AbortsLeadOn, TypeOK
      <4>3. x.ts \in Nat BY <4>2 DEF AbortedState
      <4>4. newTs[p] \in Nat /\ ets'[p] = newTs[p] BY <1>1
      <4>5. x.ts # ets'[p] BY <1>1, <4>2, <4>3, <4>4
      <4> QED BY <2>1, <4>5 DEF AbortCurrent
    <3> QED BY <1>1, <2>1, <3>2, <3>3
  <2>2. CASE q # p
    <3>1. /\ ets'[q] = ets[q] /\ current'[q] = current[q] /\ rcvStates'[q] = rcvStates[q]
          /\ inner'[q] = inner[q] /\ abortedEnvs'[q] = abortedEnvs[q]
      BY <1>1, <2>2
    <3>2. NothingMissed(q, current[q], ets[q] + 1)'
      BY <1>2, <3>1 DEF SafeInv, StatesCurrent, NothingMissed
    <3>3. \A x \in abortedEnvs'[q] : AbortCurrent(q, x)'
      BY <1>2, <3>1 DEF SafeInv, StatesCurrent, AbortCurrent, NothingMissed
    <3>4. ASSUME NEW r \in Procs, rcvStates'[q][r] # NoState
          PROVE  ets'[r] >= ets'[q] /\ NothingMissed(r, rcvStates[q][r], ets[q])'
      <4>1. ets[r] >= ets[q] /\ NothingMissed(r, rcvStates[q][r], ets[q])
        BY <3>1, <3>4 DEF SafeInv, StatesCurrent
      <4>2. ets'[r] >= ets'[q] BY <1>1, <3>1, <4>1
      <4> QED BY <1>2, <3>1, <4>1, <4>2 DEF NothingMissed
    <3> QED BY <3>2, <3>3, <3>4
  <2> QED BY <2>1, <2>2
<1>7. ASSUME NoInitialDecision' PROVE StatesSafe' /\ WritesSafe' /\ ChosenBinds'
  <2>1. StatesSafe /\ WritesSafe /\ ChosenBinds
    BY <1>1, <1>7, NoInitialBefore DEF SafeInv, DecisionsKept
  <2>2. \A c \in Epochs : \A v : Wrote(c, v)' <=> Wrote(c, v) BY <1>1 DEF Wrote
  <2>3. \A c \in Epochs : \A v : Chosen(c, v)' <=> Chosen(c, v)
    BY <1>2, <2>2 DEF Chosen, quorum
  <2>4. ChosenBinds' BY <2>1, <2>2, <2>3 DEF ChosenBinds
  <2>5. WritesSafe' BY <1>3, <2>1, <2>2, SafeStable DEF WritesSafe
  <2>6. \A s : StateSafe(s) => StateSafe(s)' BY <1>3, StateSafeStable
  <2>7. PICK S, C : S = rcvStates' /\ C = current' OBVIOUS
  <2>8. \A q \in Procs : StateSafe(C[q])
    BY <1>1, <2>1, <2>7 DEF StatesSafe
  <2>9. \A q, r \in Procs : S[q][r] # NoState => StateSafe(S[q][r])
    BY <1>1, <2>1, <2>7 DEF StatesSafe
  <2>10. /\ \A q \in Procs : StateSafe(current[q])'
         /\ \A q, r \in Procs : (rcvStates[q][r] # NoState => StateSafe(rcvStates[q][r]))'
    BY <2>6, <2>7, <2>8, <2>9 DEF StateSafe
  <2>11. \A q \in Procs : abortedEnvs'[q] \subseteq abortedEnvs[q] BY <1>1
  <2>12. StatesSafe' BY <1>1, <2>1, <2>6, <2>10, <2>11 DEF StatesSafe
  <2> QED BY <2>4, <2>5, <2>12
<1> QED BY <1>4, <1>5, <1>6, <1>7 DEF SafeInv

\* A new accept outdates no report: those who reported later epochs are past this one.
LEMMA SafeHandleWrite ==
    ASSUME NodeInv, WriteInv, SafeInv, NEW p \in Procs, NEW m \in msgs, onHandleWrite(p, m)
    PROVE  SafeInv'
<1>1. /\ m.type = "write" /\ m.epoch = ets[p] /\ m.from = LeaderOf[ets[p]] /\ inner[p]
  BY DEF onHandleWrite, Handles, Relevant, leader
<1>2. /\ current' = [current EXCEPT ![p] = [ts |-> ets[p], val |-> m.val]]
      /\ msgs' = msgs \cup {[type |-> "accept", from |-> p, to |-> m.from, epoch |-> ets[p]]}
      /\ UNCHANGED <<ets, decision, inner, abortedEnvs, rcvStates>>
  BY DEF onHandleWrite
<1>3. PICK a \in Epochs, x \in Values : a = ets[p] /\ x = m.val /\ Wrote(a, x)
  <2>1. m \in Message BY DEF NodeInv, TypeOK
  <2> QED BY <1>1, <2>1, MessageShapes DEF Wrote, NodeInv, TypeOK
<1>4. \A q \in Procs : ets[q] \in Nat BY DEF NodeInv, TypeOK
<1>5. \A c \in Epochs : Accepted(c)' = IF c = a THEN Accepted(c) \cup {p} ELSE Accepted(c)
  <2> SUFFICES ASSUME NEW c \in Epochs
               PROVE  Accepted(c)' = IF c = a THEN Accepted(c) \cup {p} ELSE Accepted(c)
    OBVIOUS
  <2>1. msgs' = msgs \cup {Accept(p, a)} BY <1>1, <1>2, <1>3 DEF Accept
  <2>2. \A q : Accept(q, c) = Accept(p, a) <=> q = p /\ c = a
    <3>1. \A q, d : Accept(q, d).from = q /\ Accept(q, d).epoch = d BY DEF Accept
    <3> QED BY <3>1
  <2>3. Accepted(c)' = {q \in Procs : Accept(q, c) \in msgs'} BY DEF Accepted, Accept
  <2> QED BY <2>1, <2>2, <2>3 DEF Accepted
<1>6. FairStep
  <2>1. \A q \in Procs : ets'[q] = ets[q] /\ ets[q] >= ets[q] BY <1>2, <1>4
  <2> QED BY <1>2, <1>3, <1>4, <1>5, <2>1 DEF FairStep
<1>7. AcceptsOld'
  <2> SUFFICES ASSUME NEW c \in Epochs, NEW q \in Accepted(c)' PROVE c <= ets[q]
    BY <1>2 DEF AcceptsOld
  <2>1. CASE q \in Accepted(c) BY <2>1 DEF SafeInv, AcceptsOld
  <2>2. CASE q = p /\ c = a BY <1>3, <1>4, <2>2
  <2> QED BY <1>5, <2>1, <2>2
<1>8. \A q \in Procs : \A s, e : 
         (q # p \/ e <= a) /\ e \in Int /\ NothingMissed(q, s, e) => NothingMissed(q, s, e)'
  <2> SUFFICES ASSUME NEW q \in Procs, NEW s, NEW e \in Int, q # p \/ e <= a,
                      NothingMissed(q, s, e), NEW c \in Epochs, s.ts < c, c < e
               PROVE  q \notin Accepted(c)'
    BY DEF NothingMissed
  <2>1. q \notin Accepted(c) BY DEF NothingMissed
  <2>2. ~(q = p /\ c = a)
    <3>1. c \in Int /\ a \in Int OBVIOUS
    <3> QED BY <3>1
  <2> QED BY <1>5, <2>1, <2>2
<1>9. ReportsCurrent'
  <2> SUFFICES ASSUME NEW n \in msgs, n.type = "state"
               PROVE  ets[n.from] >= n.epoch /\ NothingMissed(n.from, n, n.epoch)'
    BY <1>2 DEF ReportsCurrent
  <2>1. n.from \in Procs /\ n.epoch \in Nat BY MessageShapes DEF NodeInv, TypeOK
  <2>2. ets[n.from] >= n.epoch /\ NothingMissed(n.from, n, n.epoch)
    BY DEF SafeInv, ReportsCurrent
  <2>3. n.from # p \/ n.epoch <= a BY <1>3, <1>4, <2>1, <2>2
  <2> QED BY <1>8, <2>1, <2>2, <2>3
<1>10. StatesCurrent'
  <2> SUFFICES ASSUME NEW q \in Procs
               PROVE  /\ NothingMissed(q, current[q], ets[q] + 1)'
                      /\ \A env \in abortedEnvs[q] : AbortCurrent(q, env)'
                      /\ \A r \in Procs : rcvStates[q][r] # NoState =>
                            ets[r] >= ets[q] /\ NothingMissed(r, rcvStates[q][r], ets[q])'
    BY <1>2 DEF StatesCurrent
  <2>0. PICK b, C, S : b = ets[q] /\ C = current'[q] /\ S = rcvStates[q] OBVIOUS
  <2>1. b \in Nat /\ ets'[q] = b /\ rcvStates'[q] = S BY <1>2, <1>4, <2>0
  <2>2. \A c \in Epochs : ~(b < c /\ c < b + 1) BY <2>1
  <2>3. NothingMissed(q, C, b + 1)'
    <3>1. CASE q = p
      <4>1. C.ts = b BY <1>2, <2>0, <3>1 DEF NodeInv, TypeOK
      <4> QED BY <2>2, <4>1 DEF NothingMissed
    <3>2. CASE q # p
      <4>1. C = current[q] BY <1>2, <2>0, <3>2 DEF NodeInv, TypeOK
      <4>2. NothingMissed(q, C, b + 1) BY <2>0, <4>1 DEF SafeInv, StatesCurrent
      <4> QED BY <1>8, <2>1, <3>2, <4>2
    <3> QED BY <3>1, <3>2
  <2>4. NothingMissed(q, current[q], ets[q] + 1)' BY <2>0, <2>1, <2>3 DEF NothingMissed
  <2>5. ASSUME NEW env \in abortedEnvs[q] PROVE AbortCurrent(q, env)'
    <3>0. AbortCurrent(q, env) BY DEF SafeInv, StatesCurrent
    <3>1. CASE q = p
      <4>1. env.ts = b => env.state.ts = b BY <1>1, <2>0, <3>0, <3>1 DEF AbortCurrent
      <4>2. env.ts = b => NothingMissed(q, env.state, b + 1)' BY <2>2, <4>1 DEF NothingMissed
      <4> QED BY <2>1, <4>1, <4>2 DEF AbortCurrent, NothingMissed
    <3>2. CASE q # p
      <4>1. env.ts = b => /\ env.state.ts = b \/ ~inner[q]
                          /\ NothingMissed(q, env.state, b + 1)
        BY <2>0, <3>0 DEF AbortCurrent
      <4>2. env.ts = b => NothingMissed(q, env.state, b + 1)' BY <1>8, <2>1, <3>2, <4>1
      <4> QED BY <1>2, <2>1, <4>1, <4>2 DEF AbortCurrent, NothingMissed
    <3> QED BY <3>1, <3>2
  <2>6. ASSUME NEW r \in Procs, rcvStates[q][r] # NoState
        PROVE  ets[r] >= ets[q] /\ NothingMissed(r, rcvStates[q][r], ets[q])'
    <3>1. ets[r] >= b /\ NothingMissed(r, S[r], b) BY <2>0, <2>6 DEF SafeInv, StatesCurrent
    <3>2. r # p \/ b <= a BY <1>3, <1>4, <2>1, <3>1
    <3>3. NothingMissed(r, S[r], b)' BY <1>8, <2>1, <3>1, <3>2
    <3> QED BY <2>0, <2>1, <3>1, <3>3 DEF NothingMissed
  <2> QED BY <2>4, <2>5, <2>6
<1>11. ASSUME NoInitialDecision' PROVE StatesSafe' /\ WritesSafe' /\ ChosenBinds'
  <2>1. StatesSafe /\ WritesSafe /\ ChosenBinds
    BY <1>2, <1>11, NoInitialBefore DEF SafeInv, DecisionsKept
  <2>2. \A c \in Epochs : \A v : Wrote(c, v)' <=> Wrote(c, v) BY <1>2 DEF Wrote
  <2>3. WritesSafe' BY <1>6, <2>1, <2>2, SafeStable DEF WritesSafe
  <2>4. ChosenBinds'
    <3> SUFFICES ASSUME NEW c \in Epochs, NEW e \in Epochs, NEW v \in Values, NEW w \in Values,
                        0 < c, c < e, Chosen(c, v)', Wrote(e, w)
                 PROVE  v = w
      BY <2>2 DEF ChosenBinds
    <3>1. Wrote(c, v) /\ Cardinality(Accepted(c)') >= quorum
      BY <2>2 DEF Chosen, quorum
    <3>2. SafeAt(c, w) BY <2>1 DEF WritesSafe
    <3>3. CASE Wrote(c, w) BY <3>1, <3>3 DEF WriteInv, WriteOnce
    <3>4. CASE \E Q \in SUBSET Procs : /\ Cardinality(Q) >= quorum
                                       /\ \A q \in Q : q \notin Accepted(c) /\ ets[q] > c
      <4>1. PICK Q \in SUBSET Procs : /\ Cardinality(Q) >= quorum
                                      /\ \A q \in Q : q \notin Accepted(c) /\ ets[q] > c
        BY <3>4
      <4>2. \A q \in Q : ~(q = p /\ c = a) BY <1>3, <1>4, <4>1
      <4>3. \A q \in Q : q \notin Accepted(c)' BY <1>5, <4>1, <4>2
      <4>4. Accepted(c)' \in SUBSET Procs BY DEF Accepted
      <4> QED BY <3>1, <4>1, <4>3, <4>4, QuorumsMeet
    <3>5. CASE \E d \in Epochs : 0 < d /\ d < c /\ Chosen(d, w)
      BY <2>1, <3>1, <3>5 DEF ChosenBinds
    <3> QED BY <3>2, <3>3, <3>4, <3>5 DEF SafeAt
  <2>5. \A s : StateSafe(s) => StateSafe(s)' BY <1>6, StateSafeStable
  <2>6. ASSUME NEW s, s.ts = a, s.val = x PROVE StateSafe(s)
    <3>1. ASSUME NEW c \in Epochs, 0 < c, c <= a PROVE SafeAt(c, x)
      <4>1. c \in Nat /\ a \in Nat OBVIOUS
      <4>2. CASE c = a BY <1>3, <4>2 DEF SafeAt
      <4>3. CASE c < a BY <1>3, <2>1, <3>1, <4>3 DEF WritesSafe
      <4> QED BY <3>1, <4>1, <4>2, <4>3
    <3> QED BY <2>6, <3>1 DEF StateSafe
  <2>7. PICK S, C : S = rcvStates /\ C = current' OBVIOUS
  <2>8. \A q \in Procs : StateSafe(C[q])
    <3> SUFFICES ASSUME NEW q \in Procs PROVE StateSafe(C[q]) OBVIOUS
    <3>1. CASE q = p
      <4>1. C[q].ts = a /\ C[q].val = x BY <1>2, <1>3, <2>7, <3>1 DEF NodeInv, TypeOK
      <4> QED BY <2>6, <4>1
    <3>2. CASE q # p
      <4>1. C[q] = current[q] BY <1>2, <2>7, <3>2 DEF NodeInv, TypeOK
      <4> QED BY <2>1, <4>1 DEF StatesSafe
    <3> QED BY <3>1, <3>2
  <2>9. \A q, r \in Procs : S[q][r] # NoState => StateSafe(S[q][r])
    BY <2>1, <2>7 DEF StatesSafe
  <2>10. /\ \A q \in Procs : StateSafe(current[q])'
         /\ \A q, r \in Procs : (rcvStates[q][r] # NoState => StateSafe(rcvStates[q][r]))'
    BY <1>2, <2>5, <2>7, <2>8, <2>9 DEF StateSafe
  <2>11. StatesSafe' BY <1>2, <2>1, <2>5, <2>10 DEF StatesSafe
  <2> QED BY <2>3, <2>4, <2>11
<1> QED BY <1>7, <1>9, <1>10, <1>11 DEF SafeInv

\* Every step preserves the invariant about agreement across epochs.
LEMMA SafeInvNext == NodeInv /\ WriteInv /\ SafeInv /\ [Next]_vars => SafeInv'
<1> SUFFICES ASSUME NodeInv, WriteInv, SafeInv, [Next]_vars PROVE SafeInv' OBVIOUS
<1>1. CASE UNCHANGED vars
  BY <1>1, UntouchedSafe DEF vars, nodeVars, ecVars, DecisionsKept
<1>2. CASE Next
  <2>1. PICK p \in Procs :
            \/ \E v \in Values : Propose(p, v)
            \/ MaybePropose(p)
            \/ Deliver(p)
            \/ \E env \in decidedEnvs[p] : HandleDecided(p, env)
            \/ \E e \in Epochs : HandleNewEpoch(p, e)
            \/ \E env \in abortedEnvs[p] : HandleStaleAborted(p, env)
            \/ \E env \in abortedEnvs[p] : HandleAborted(p, env)
            \/ Stop(p)
    BY <1>2 DEF Next
  <2>2. CASE Deliver(p)
    BY <2>2, SafeDeliver, SafeHandleWrite, SafeStartWriting DEF Deliver
  <2> QED BY <2>1, <2>2, SafeNode, SafeNewEpoch, SafeStaleAborted, SafeHandleAborted
<1> QED BY <1>1, <1>2

-----------------------------------------------------------------------------
(* The theorems *)

\* The inductive invariant of uniform consensus.
ConsensusInv == NodeInv /\ ValuesInv /\ WriteInv /\ SafeInv

\* Every reachable state satisfies the inductive invariant.
THEOREM ConsensusCorrect == Spec => []ConsensusInv
<1>1. Init => ConsensusInv
  BY NodeInvInit, ValuesInvInit, WriteInvInit, SafeInvInit DEF ConsensusInv
<1>2. ConsensusInv /\ [Next]_vars => ConsensusInv'
  BY NodeInvNext, ValuesInvNext, WriteInvNext, SafeInvNext DEF ConsensusInv
<1> QED BY <1>1, <1>2, PTL DEF Spec

\* The fields of Node and epochConsensus keep their types; in particular a
\* leader never broadcasts a nil value.
THEOREM TypeCorrect == Spec => []TypeOK
<1>1. ConsensusInv => TypeOK BY DEF ConsensusInv, NodeInv
<1> QED BY <1>1, ConsensusCorrect, PTL

\* The state machine never swallows the proposeEvent of a leader.
THEOREM LeadersReady == Spec => []LeaderReady
<1>1. ConsensusInv => LeaderReady BY DEF ConsensusInv, NodeInv
<1> QED BY <1>1, ConsensusCorrect, PTL

\* A decided value was proposed, whichever of several highest states
\* highestState picked.
THEOREM DecisionsValid == Spec => []Validity
<1>1. ConsensusInv => Validity
  BY DEF ConsensusInv, NodeInv, TypeOK, ValuesInv, Known, Validity, Decided, Decision
<1> QED BY <1>1, ConsensusCorrect, PTL

\* Decisions of one epoch agree.
THEOREM EpochsAgree == Spec => []EpochAgreement
<1>1. ASSUME ConsensusInv PROVE EpochAgreement
  <2> SUFFICES ASSUME NEW p \in Procs, NEW q \in Procs, Decided(p), Decided(q),
                      decision[p].ts = decision[q].ts
               PROVE  decision[p].val = decision[q].val
    BY DEF EpochAgreement
  <2>1. decision[p] \in Decision /\ decision[q] \in Decision
    BY <1>1 DEF ConsensusInv, NodeInv, TypeOK, Decided
  <2>2. Wrote(decision[p].ts, decision[p].val) /\ Wrote(decision[p].ts, decision[q].val)
    BY <1>1 DEF ConsensusInv, WriteInv, DecisionsChosen, Chosen
  <2> QED BY <1>1, <2>1, <2>2 DEF ConsensusInv, WriteInv, WriteOnce, Decision
<1> QED BY <1>1, ConsensusCorrect, PTL

\* Uniform agreement across epochs, as long as nobody decided in epoch 0.
THEOREM DecisionsAgree == Spec => []AgreementAfterInitialEpoch
<1>1. ASSUME ConsensusInv PROVE AgreementAfterInitialEpoch
  <2> SUFFICES ASSUME NoInitialDecision,
                      NEW p \in Procs, NEW q \in Procs, Decided(p), Decided(q)
               PROVE  decision[p].val = decision[q].val
    BY DEF AgreementAfterInitialEpoch, Agreement, NoInitialDecision
  <2>1. ASSUME NEW r \in Procs, Decided(r)
        PROVE  /\ decision[r].ts \in Epochs /\ decision[r].ts \in Nat /\ decision[r].ts > 0
               /\ decision[r].val \in Values
               /\ Chosen(decision[r].ts, decision[r].val)
    <3>1. decision[r] \in Decision BY <1>1, <2>1 DEF ConsensusInv, NodeInv, TypeOK, Decided
    <3>2. decision[r].ts > 0 BY <2>1 DEF NoInitialDecision
    <3>3. Chosen(decision[r].ts, decision[r].val)
      BY <1>1, <2>1 DEF ConsensusInv, WriteInv, DecisionsChosen
    <3> QED BY <3>1, <3>2, <3>3 DEF Decision
  <2>2. ChosenBinds /\ WriteOnce BY <1>1 DEF ConsensusInv, SafeInv, WriteInv
  <2>3. CASE decision[p].ts = decision[q].ts BY <2>1, <2>2, <2>3 DEF WriteOnce, Chosen
  <2>4. CASE decision[p].ts < decision[q].ts
    BY <2>1, <2>2, <2>4 DEF ChosenBinds, Chosen
  <2>5. CASE decision[q].ts < decision[p].ts
    BY <2>1, <2>2, <2>5 DEF ChosenBinds, Chosen
  <2> QED BY <2>1, <2>3, <2>4, <2>5
<1> QED BY <1>1, ConsensusCorrect, PTL

\* The epoch of a node never falls back, however announcements and aborts
\* interleave.
THEOREM EpochsOnlyGrow == Spec => EpochsGrow
<1> DEFINE Grow == \A p \in Procs : ets'[p] # ets[p] => ets'[p] > ets[p]
<1>1. ASSUME ConsensusInv, [Next]_vars PROVE [Grow]_vars
  <2>1. CASE UNCHANGED vars BY <2>1
  <2>2. CASE Next
    <3>1. CASE \E p \in Procs : \E env \in abortedEnvs[p] : HandleAborted(p, env)
      <4>0. PICK p \in Procs : \E env \in abortedEnvs[p] : HandleAborted(p, env) BY <3>1
      <4>1. PICK env \in abortedEnvs[p] : HandleAborted(p, env) BY <4>0
      <4>2. newTs[p] > ets[p] /\ \A q \in Procs : ets'[q] = IF q = p THEN newTs[p] ELSE ets[q]
        BY <1>1, <4>1, HandleAbortedFacts DEF ConsensusInv
      <4> QED BY <4>2
    <3>2. CASE ~\E p \in Procs : \E env \in abortedEnvs[p] : HandleAborted(p, env)
      <4>1. ets' = ets
        BY <2>2, <3>2 DEF Next, Deliver, Propose, MaybePropose, Buffer, Lose, onHandleRead,
           onHandleWrite, CollectState, StartWriting, onReceivedAccept, onDecided,
           HandleDecided, HandleNewEpoch, HandleStaleAborted, Stop
      <4> QED BY <4>1
    <3> QED BY <3>1, <3>2
  <2> QED BY <1>1, <2>1, <2>2
<1> QED BY <1>1, ConsensusCorrect, PTL DEF EpochsGrow, Spec

=============================================================================
