-------------------------- MODULE BroadcastProofs ---------------------------
(***************************************************************************)
(* Proofs about the Byzantine broadcasters EchoBroadcast, SignedEchoBroadcast *)
(* and DoubleEchoBroadcast, for any number of processes and of tolerated     *)
(* faults: each implements ConsistentBroadcast.                             *)
(*                                                                         *)
(* The argument is the same for the three.  A correct process says one value *)
(* at most (Serial makes it so); what is delivered was said by the correct    *)
(* members of a Byzantine quorum (Certified); two Byzantine quorums have a    *)
(* correct process in common (QuorumsMeet).                                 *)
(*                                                                         *)
(* Further down: no process of the reliable broadcast misses a message that   *)
(* another keeps or relays (RelaysKept), and the channel has one instance in  *)
(* progress at each originator (ChannelInv).                                *)
(***************************************************************************)
EXTENDS MCBroadcasts, Sequences, FiniteSetTheorems, TLAPS

\* When a correct process echoes one value only: its handlers do not overlap, or
\* a correct sender gives them no second value.  With a faulty sender and two
\* handlers past the test of sentEcho the theorems do not hold.
Serial == Readers = 1 \/ Sender \in Correct

ValuesOrNone == Values \cup {None}

\* More processes than this are a Byzantine quorum.
quorum == (Cardinality(Processes) + Faults) \div 2

\* A Byzantine quorum whose correct members are all among voters.
Certified(voters) ==
    \E S \in SUBSET Processes : Cardinality(S) > quorum /\ S \cap Correct \subseteq voters

USE ProcessAssumption, FaultsAssumption, ValueAssumption, ReadersAssumption

-----------------------------------------------------------------------------
(* Quorums *)

\* Processes are finitely many, and so are those of any set of them.
LEMMA ProcessesFinite ==
    /\ IsFiniteSet(Processes) /\ IsFiniteSet(Byzantine)
    /\ Cardinality(Processes) \in Nat /\ Cardinality(Byzantine) \in Nat
    /\ quorum \in Nat
<1>1. IsFiniteSet(Processes) BY DEF Processes
<1>2. IsFiniteSet(Byzantine)
  <2>1. Byzantine \in SUBSET Processes BY DEF Processes
  <2> QED BY <1>1, <2>1, FS_Subset
<1>3. Cardinality(Processes) \in Nat /\ Cardinality(Byzantine) \in Nat
  BY <1>1, <1>2, FS_CardinalityType
<1> QED BY <1>1, <1>2, <1>3 DEF quorum

\* More processes than there may be faulty ones: one of them is correct.
LEMMA MoreThanFaults ==
    ASSUME NEW S \in SUBSET Processes, Cardinality(S) > Faults
    PROVE  \E c \in S : c \in Correct
<1> SUFFICES ASSUME S \cap Correct = {} PROVE FALSE OBVIOUS
<1>1. S \in SUBSET Byzantine BY DEF Processes
<1>2. IsFiniteSet(S) /\ Cardinality(S) <= Cardinality(Byzantine)
  BY <1>1, ProcessesFinite, FS_Subset
<1>3. Cardinality(S) \in Nat BY <1>2, FS_CardinalityType
<1> QED BY <1>2, <1>3, ProcessesFinite

\* Two Byzantine quorums have a correct process in common.
LEMMA QuorumsMeet ==
    ASSUME NEW S \in SUBSET Processes, NEW T \in SUBSET Processes,
           Cardinality(S) > quorum, Cardinality(T) > quorum
    PROVE  \E c \in S \cap T : c \in Correct
<1>1. IsFiniteSet(S) /\ IsFiniteSet(T) BY ProcessesFinite, FS_Subset
<1>2. S \cup T \in SUBSET Processes /\ S \cap T \in SUBSET Processes OBVIOUS
<1>3. /\ Cardinality(S \cup T) = Cardinality(S) + Cardinality(T) - Cardinality(S \cap T)
      /\ Cardinality(S \cup T) <= Cardinality(Processes)
  BY <1>1, <1>2, ProcessesFinite, FS_Union, FS_Subset
<1>4. /\ Cardinality(S) \in Nat /\ Cardinality(T) \in Nat
      /\ Cardinality(S \cap T) \in Nat /\ Cardinality(S \cup T) \in Nat
  BY <1>1, <1>2, ProcessesFinite, FS_Subset, FS_CardinalityType
<1>5. Cardinality(S \cap T) > Faults
  BY <1>3, <1>4, ProcessesFinite DEF quorum
<1> QED BY <1>2, <1>5, MoreThanFaults

\* Voters of two certified values include a common correct process.
LEMMA CertifiedMeet ==
    ASSUME NEW V, NEW W, Certified(V), Certified(W)
    PROVE  \E c \in Correct : c \in V /\ c \in W
<1>1. PICK S \in SUBSET Processes : Cardinality(S) > quorum /\ S \cap Correct \subseteq V
  BY DEF Certified
<1>2. PICK T \in SUBSET Processes : Cardinality(T) > quorum /\ T \cap Correct \subseteq W
  BY DEF Certified
<1>3. PICK c \in S \cap T : c \in Correct BY <1>1, <1>2, QuorumsMeet
<1> QED BY <1>1, <1>2, <1>3

\* A value that is certified stays so when more processes vote for it.
LEMMA CertifiedGrows ==
    ASSUME NEW V, NEW W, Certified(V), V \subseteq W
    PROVE  Certified(W)
  BY DEF Certified

\* The messages received from a Byzantine quorum, the processes whose message
\* equals the one of q, certify its value.
LEMMA CertifiedBy ==
    ASSUME NEW e, NEW q \in Processes, NEW V,
           Cardinality({r \in Processes \ {q} : e[r] = e[q]}) > quorum,
           \A c \in Correct : e[c] = e[q] => c \in V
    PROVE  Certified(V)
<1> DEFINE S == {r \in Processes \ {q} : e[r] = e[q]}
<1>1. S \in SUBSET Processes /\ S \cap Correct \subseteq V OBVIOUS
<1> QED BY <1>1 DEF Certified

\* The library operators of the instances are those of this module.
LEMMA SameOperators ==
    /\ Echo!Processes = Processes /\ Signed!Processes = Processes
    /\ Double!Processes = Processes
    /\ Echo!quorum = quorum /\ Signed!quorum = quorum /\ Double!byzantineQuorum = quorum
<1>1. /\ Echo!Processes = Processes /\ Signed!Processes = Processes
      /\ Double!Processes = Processes
  BY DEF Processes, Echo!Processes, Signed!Processes, Double!Processes
<1>2. Echo!Cardinality(Processes) = Cardinality(Processes)
  BY DEF Echo!Cardinality, Cardinality
<1>3. Signed!Cardinality(Processes) = Cardinality(Processes)
  BY DEF Signed!Cardinality, Cardinality
<1>4. Double!Cardinality(Processes) = Cardinality(Processes)
  BY DEF Double!Cardinality, Cardinality
<1> QED BY <1>1, <1>2, <1>3, <1>4
      DEF quorum, Echo!quorum, Signed!quorum, Double!byzantineQuorum

\* Sets have the same cardinality in the instances.
LEMMA SameCardinality ==
    \A S : /\ Echo!Cardinality(S) = Cardinality(S)
           /\ Signed!Cardinality(S) = Cardinality(S)
           /\ Double!Cardinality(S) = Cardinality(S)
  BY DEF Echo!Cardinality, Signed!Cardinality, Double!Cardinality, Cardinality

-----------------------------------------------------------------------------
(* The authenticated echo broadcast *)

EchoTypeOK ==
    /\ broadcast \in ValuesOrNone
    /\ entered \in [Correct -> SUBSET Values]
    /\ sentEcho \in [Correct -> BOOLEAN]
    /\ sent \in [Correct -> SUBSET Values]
    /\ echos \in [Correct -> [Processes -> ValuesOrNone]]
    /\ flag \in [Correct -> BOOLEAN]
    /\ delivered \in [Correct -> ValuesOrNone]

\* A correct process has one value to echo, and has set sentEcho when it is out.
OneEcho ==
    \A p \in Correct :
        /\ \A v, w \in entered[p] \cup sent[p] : v = w
        /\ sent[p] # {} => sentEcho[p]
        /\ Sender \in Correct => \A v \in entered[p] \cup sent[p] : v = broadcast

\* Echoes of correct processes are not forged.
EchosSent ==
    \A p, q \in Correct : echos[p][q] # None => echos[p][q] \in sent[q]

\* The correct processes that have said v, where each c has said said[c].
Saying(said, v) == {c \in Correct : v \in said[c]}

\* What was delivered was echoed by the correct members of a quorum.
EchoDelivered ==
    \A p \in Correct :
        delivered[p] # None => flag[p] /\ Certified(Saying(sent, delivered[p]))

EchoInv == EchoTypeOK /\ OneEcho /\ EchosSent /\ EchoDelivered

\* Certified values are the same, and a correct sender's value.
LEMMA EchoCertified ==
    ASSUME OneEcho, NEW v, Certified(Saying(sent, v))
    PROVE  /\ \A w : Certified(Saying(sent, w)) => v = w
           /\ Sender \in Correct => v = broadcast
<1>1. ASSUME NEW w, Certified(Saying(sent, w)) PROVE v = w
  <2>1. PICK c \in Correct : c \in Saying(sent, v) /\ c \in Saying(sent, w)
    BY <1>1, CertifiedMeet
  <2> QED BY <2>1 DEF Saying, OneEcho
<1>2. PICK c \in Correct : c \in Saying(sent, v) BY CertifiedMeet
<1> QED BY <1>1, <1>2 DEF Saying, OneEcho

\* A value that the echoes in e support is certified.
LEMMA EchoSupported ==
    ASSUME NEW e \in [Processes -> ValuesOrNone], NEW said,
           \A c \in Correct : e[c] # None => e[c] \in said[c],
           NEW r \in Processes, Echo!Supported(e, r)
    PROVE  Certified(Saying(said, e[r]))
<1>1. e[r] # None /\ Cardinality({q \in Processes \ {r} : e[q] = e[r]}) > quorum
  BY SameOperators, SameCardinality DEF Echo!Supported
<1>2. \A c \in Correct : e[c] = e[r] => c \in Saying(said, e[r])
  BY <1>1 DEF Saying
<1> QED BY <1>1, <1>2, CertifiedBy

LEMMA EchoInvInit == Echo!Init => EchoInv
<1> SUFFICES ASSUME Echo!Init PROVE EchoInv OBVIOUS
<1> USE SameOperators DEF Echo!Init, ValuesOrNone
<1>1. EchoTypeOK BY DEF EchoTypeOK
<1>2. OneEcho BY DEF OneEcho
<1>3. EchosSent BY DEF EchosSent, Processes
<1>4. EchoDelivered BY DEF EchoDelivered
<1> QED BY <1>1, <1>2, <1>3, <1>4 DEF EchoInv

\* With the echoes a process has now, what is handed up keeps EchoDelivered.
LEMMA EchoReceived ==
    ASSUME EchoInv, NEW p \in Correct, NEW q \in Processes, NEW v \in Values,
           Echo!ReceiveEcho(p, q, v)
    PROVE  EchoInv'
<1> USE SameOperators DEF EchoInv
<1> DEFINE e == [echos[p] EXCEPT ![q] = v]
<1>1. echos' = [echos EXCEPT ![p] = e] /\ echos[p][q] = None /\ v \in Echo!Echoed(q)
  BY DEF Echo!ReceiveEcho
<1>2. UNCHANGED <<broadcast, entered, sentEcho, sent>> BY DEF Echo!ReceiveEcho
<1>3. e \in [Processes -> ValuesOrNone] BY DEF EchoTypeOK, ValuesOrNone
<1>4. echos' \in [Correct -> [Processes -> ValuesOrNone]] BY <1>1, <1>3 DEF EchoTypeOK
<1>5. OneEcho' BY <1>2 DEF OneEcho
<1>6. EchosSent'
  <2> SUFFICES ASSUME NEW a \in Correct, NEW b \in Correct, echos'[a][b] # None
               PROVE  echos'[a][b] \in sent[b]
    BY <1>2 DEF EchosSent
  <2>1. CASE a = p /\ b = q
    <3>1. echos'[a][b] = v BY <1>1, <2>1 DEF EchoTypeOK
    <3>2. q \notin Byzantine BY <2>1
    <3> QED BY <1>1, <2>1, <3>1, <3>2 DEF Echo!Echoed
  <2>2. CASE a # p \/ b # q
    <3>1. echos'[a][b] = echos[a][b] BY <1>1, <2>2 DEF EchoTypeOK, Processes
    <3> QED BY <3>1 DEF EchosSent
  <2> QED BY <2>1, <2>2
<1>7. EchoTypeOK' /\ EchoDelivered'
  <2>1. CASE UNCHANGED <<flag, delivered>>
    BY <1>2, <1>4, <2>1 DEF EchoTypeOK, EchoDelivered, Saying
  <2>2. ASSUME NEW r \in Processes, Echo!Supported(e, r),
               flag' = [flag EXCEPT ![p] = TRUE], delivered' = Echo!Handed(p, e[r])
        PROVE  EchoTypeOK' /\ EchoDelivered'
    <3>1. echos'[p] = e BY <1>1 DEF EchoTypeOK
    <3>2. e[r] \in ValuesOrNone BY <1>3
    <3>3. EchoTypeOK'
      BY <1>2, <1>4, <2>2, <3>2 DEF EchoTypeOK, Echo!Handed
    <3>4. \A c \in Correct : e[c] # None => e[c] \in sent[c]
      BY <1>2, <1>6, <3>1 DEF EchosSent
    <3>5. Certified(Saying(sent, e[r]))
      BY <1>3, <2>2, <3>4, EchoSupported
    <3>6. ASSUME NEW a \in Correct, delivered'[a] # None
          PROVE  flag'[a] /\ Certified(Saying(sent, delivered'[a]))
      <4>1. CASE delivered'[a] = delivered[a]
        BY <2>2, <3>6, <4>1 DEF EchoTypeOK, EchoDelivered
      <4>2. CASE delivered'[a] # delivered[a]
        <5>1. a = p /\ delivered'[a] = e[r]
          BY <2>2, <4>2 DEF Echo!Handed, EchoTypeOK
        <5>2. flag'[a] BY <2>2, <5>1 DEF EchoTypeOK
        <5> QED BY <3>5, <5>1, <5>2
      <4> QED BY <4>1, <4>2
    <3> QED BY <1>2, <3>3, <3>6 DEF EchoDelivered
  <2> QED BY <2>1, <2>2 DEF Echo!ReceiveEcho
<1> QED BY <1>5, <1>6, <1>7

\* No step leaves the invariant.
LEMMA EchoInvStep == Serial /\ EchoInv /\ [Echo!Next]_Echo!vars => EchoInv'
<1> SUFFICES ASSUME Serial, EchoInv, [Echo!Next]_Echo!vars PROVE EchoInv' OBVIOUS
<1> USE SameOperators DEF EchoInv
<1>0. CASE UNCHANGED Echo!vars
  BY <1>0 DEF Echo!vars, EchoTypeOK, OneEcho, EchosSent, EchoDelivered
<1>1. ASSUME NEW v \in Values, Echo!Broadcast(v) PROVE EchoInv'
  <2> USE <1>1 DEF Echo!Broadcast
  <2>1. EchoTypeOK' BY DEF EchoTypeOK, ValuesOrNone
  <2>2. OneEcho'
    <3>1. ASSUME NEW p \in Correct PROVE entered[p] \cup sent[p] = {}
      BY DEF OneEcho, EchoTypeOK
    <3> QED BY <3>1 DEF OneEcho
  <2>3. EchosSent' /\ EchoDelivered' BY DEF EchosSent, EchoDelivered
  <2> QED BY <2>1, <2>2, <2>3
<1>2. ASSUME NEW v \in Values, NEW p \in Correct, Echo!EnterSend(p, v) PROVE EchoInv'
  <2> USE <1>2 DEF Echo!EnterSend
  <2>1. EchoTypeOK' BY DEF EchoTypeOK
  <2>2. OneEcho'
    <3>1. sent[p] = {} BY DEF OneEcho
    <3>2. \A w \in entered[p] : w = v
      <4>1. CASE Sender \in Correct
        BY <4>1 DEF OneEcho, Echo!Offered
      <4>2. CASE Readers = 1
        <5>1. Cardinality(entered[p]) < 1 BY <4>2, SameCardinality
        <5>2. ASSUME NEW w \in entered[p] PROVE FALSE
          <6>1. entered[p] = {w} BY DEF OneEcho
          <6>2. Cardinality({w}) = 1 BY FS_Singleton
          <6> QED BY <5>1, <6>1, <6>2
        <5> QED BY <5>2
      <4> QED BY <4>1, <4>2 DEF Serial
    <3>3. Sender \in Correct => v = broadcast BY DEF Echo!Offered
    <3>4. entered'[p] = entered[p] \cup {v} /\ sent' = sent BY DEF EchoTypeOK
    <3>5. \A a \in Correct : a # p => entered'[a] = entered[a] BY DEF EchoTypeOK
    <3> QED BY <3>1, <3>2, <3>3, <3>4, <3>5 DEF OneEcho
  <2>3. EchosSent' /\ EchoDelivered' BY DEF EchosSent, EchoDelivered
  <2> QED BY <2>1, <2>2, <2>3
<1>3. ASSUME NEW v \in Values, NEW p \in Correct, Echo!SendEcho(p, v) PROVE EchoInv'
  <2> USE <1>3 DEF Echo!SendEcho
  <2>1. EchoTypeOK' BY DEF EchoTypeOK
  <2>2. OneEcho' BY DEF OneEcho, EchoTypeOK
  <2>3. EchosSent' BY DEF EchosSent, EchoTypeOK
  <2>4. EchoDelivered'
    <3> SUFFICES ASSUME NEW a \in Correct, delivered[a] # None
                 PROVE  Certified(Saying(sent', delivered[a]))
      BY DEF EchoDelivered
    <3>1. Saying(sent, delivered[a]) \subseteq Saying(sent', delivered[a])
      BY DEF Saying, EchoTypeOK
    <3> QED BY <3>1, CertifiedGrows DEF EchoDelivered
  <2> QED BY <2>1, <2>2, <2>3, <2>4
<1>4. ASSUME NEW v \in Values, NEW p \in Correct, NEW q \in Processes,
             Echo!ReceiveEcho(p, q, v)
      PROVE  EchoInv'
  BY <1>4, EchoReceived
<1> QED BY <1>0, <1>1, <1>2, <1>3, <1>4 DEF Echo!Next

\* Echoes are unique, received echoes were sent, and a delivered value was echoed
\* by a Byzantine quorum: the inductive invariant of the echo broadcast.
THEOREM EchoCorrect == Serial /\ Echo!Spec => []EchoInv
<1> SUFFICES ASSUME Serial PROVE Echo!Spec => []EchoInv OBVIOUS
<1>1. EchoInv /\ [Echo!Next]_Echo!vars => EchoInv' BY EchoInvStep
<1> QED BY EchoInvInit, <1>1, PTL DEF Echo!Spec

\* Two quorums of echoes, at whatever processes, are for one value: no later echo
\* can undo agreement (maybeDeliverInner).
LEMMA EchoQuorumsMeet == EchoInv => Echo!QuorumsIntersect
<1> SUFFICES ASSUME EchoInv, NEW p \in Correct, NEW q \in Correct,
                    NEW r \in Processes, NEW t \in Processes,
                    Echo!Supported(echos[p], r), Echo!Supported(echos[q], t)
             PROVE  echos[p][r] = echos[q][t]
  BY SameOperators DEF Echo!QuorumsIntersect
<1>1. /\ echos[p] \in [Processes -> ValuesOrNone] /\ echos[q] \in [Processes -> ValuesOrNone]
      /\ \A c \in Correct : echos[p][c] # None => echos[p][c] \in sent[c]
      /\ \A c \in Correct : echos[q][c] # None => echos[q][c] \in sent[c]
  BY DEF EchoInv, EchoTypeOK, EchosSent
<1>2. Certified(Saying(sent, echos[p][r])) BY <1>1, EchoSupported
<1>3. Certified(Saying(sent, echos[q][t])) BY <1>1, EchoSupported
<1> QED BY <1>2, <1>3, EchoCertified DEF EchoInv

\* The step that hands a value up is a delivery of the abstract broadcast, or the
\* value cannot be decoded and nothing is handed up.
LEMMA EchoDelivers ==
    ASSUME EchoInv, EchoInv', NEW p \in Correct, NEW q \in Processes, NEW v \in Values,
           Echo!ReceiveEcho(p, q, v)
    PROVE  [CB!Next]_CB!vars
<1> USE SameOperators
<1>1. UNCHANGED <<broadcast, sent>> BY DEF Echo!ReceiveEcho
<1>2. CASE UNCHANGED delivered BY <1>1, <1>2 DEF CB!vars
<1>3. ASSUME NEW w \in ValuesOrNone, w # None,
             ~flag[p], delivered' = [delivered EXCEPT ![p] = w]
      PROVE  CB!Deliver(p, w)
  <2>1. delivered[p] = None BY <1>3 DEF EchoInv, EchoDelivered, EchoTypeOK
  <2>2. delivered'[p] = w /\ \A a \in Correct : a # p => delivered'[a] = delivered[a]
    BY <1>3 DEF EchoInv, EchoTypeOK
  <2>3. \A a \in Correct : delivered'[a] # None => Certified(Saying(sent, delivered'[a]))
    BY <1>1 DEF EchoInv, EchoDelivered
  <2>4. OneEcho BY DEF EchoInv
  <2>5. Certified(Saying(sent, w)) BY <1>3, <2>2, <2>3
  <2>6. ASSUME NEW a \in Correct PROVE delivered[a] \in {None, w}
    BY <2>1, <2>2, <2>3, <2>4, <2>5, EchoCertified
  <2>7. Sender \in Correct => broadcast = w BY <2>4, <2>5, EchoCertified
  <2> QED BY <1>1, <1>3, <2>1, <2>6, <2>7 DEF CB!Deliver
<1>4. ASSUME ~ UNCHANGED delivered
      PROVE  \E w \in ValuesOrNone :
                w # None /\ ~flag[p] /\ delivered' = [delivered EXCEPT ![p] = w]
  <2> DEFINE e == [echos[p] EXCEPT ![q] = v]
  <2>1. e \in [Processes -> ValuesOrNone] BY DEF EchoInv, EchoTypeOK, ValuesOrNone
  <2>2. PICK r \in Processes :
            Echo!Supported(e, r) /\ ~flag[p] /\ delivered' = Echo!Handed(p, e[r])
    BY <1>4 DEF Echo!ReceiveEcho
  <2>3. e[r] \in ValuesOrNone /\ e[r] # None BY <2>1, <2>2 DEF Echo!Supported
  <2> QED BY <1>4, <2>2, <2>3 DEF Echo!Handed
<1> QED BY <1>2, <1>3, <1>4 DEF CB!Next, ValuesOrNone

\* The echo broadcast is a consistent broadcast, step by step.
LEMMA EchoSimulates ==
    EchoInv /\ EchoInv' /\ [Echo!Next]_Echo!vars => [CB!Next]_CB!vars
<1> SUFFICES ASSUME EchoInv, EchoInv', [Echo!Next]_Echo!vars PROVE [CB!Next]_CB!vars
  OBVIOUS
<1>1. CASE UNCHANGED Echo!vars BY <1>1 DEF Echo!vars, CB!vars
<1>2. ASSUME NEW v \in Values, Echo!Broadcast(v) PROVE CB!Next
  BY <1>2 DEF Echo!Broadcast, CB!Broadcast, CB!Next
<1>3. ASSUME NEW v \in Values, NEW p \in Correct,
             Echo!EnterSend(p, v) \/ Echo!SendEcho(p, v)
      PROVE  UNCHANGED CB!vars
  BY <1>3 DEF Echo!EnterSend, Echo!SendEcho, CB!vars
<1>4. ASSUME NEW v \in Values, NEW p \in Correct, NEW q \in Processes,
             Echo!ReceiveEcho(p, q, v)
      PROVE  [CB!Next]_CB!vars
  BY <1>4, EchoDelivers
<1> QED BY <1>1, <1>2, <1>3, <1>4, SameOperators DEF Echo!Next

\* The echo broadcast is a consistent broadcast: what a correct process delivers is
\* final, the same at every other, and a correct sender's value (Deliver,
\* maybeDeliverInner), whatever faulty processes send.
THEOREM EchoImplements == Serial /\ Echo!Spec => CB!Spec
<1> SUFFICES ASSUME Serial PROVE Echo!Spec => CB!Spec OBVIOUS
<1>1. Echo!Init => CB!Init BY DEF Echo!Init, CB!Init
<1> QED BY <1>1, EchoSimulates, EchoCorrect, PTL DEF Echo!Spec, CB!Spec

-----------------------------------------------------------------------------
(* The signed echo broadcast *)

SignedTypeOK ==
    /\ broadcast \in ValuesOrNone
    /\ busy \in [Correct -> SUBSET [handler : {"send", "final"}, inner : Values, reader : Nat]]
    /\ sentEcho \in [Correct -> BOOLEAN]
    /\ signed \in [Correct -> SUBSET Values]
    /\ echos \in [Processes -> ValuesOrNone]
    /\ final \in [inner : ValuesOrNone, signs : SUBSET Processes]
    /\ flag \in [Correct -> BOOLEAN]
    /\ delivered \in [Correct -> ValuesOrNone]

\* The values a process has signed or is about to.
Signing(p) == {b.inner : b \in {x \in busy[p] : x.handler = "send"}} \cup signed[p]

\* A correct process has one value to sign, and has set sentEcho when it is out.
OneSignature ==
    \A p \in Correct :
        /\ IsFiniteSet(busy[p])
        /\ \A v, w \in Signing(p) : v = w
        /\ signed[p] # {} => sentEcho[p]
        /\ Sender \in Correct => \A v \in Signing(p) : v = broadcast

\* Echoes at the sender, and the signatures in a final message, are not forged.
SignaturesReal ==
    /\ \A q \in Correct : echos[q] # None => echos[q] \in signed[q]
    /\ \A q \in Correct \cap final.signs : final.inner \in signed[q]

\* What is delivered, or about to be, was signed by the correct members of a quorum.
SignedDelivered ==
    \A p \in Correct :
        /\ \A b \in busy[p] : b.handler = "final" => Certified(Saying(signed, b.inner))
        /\ delivered[p] # None => Certified(Saying(signed, delivered[p]))

SignedInv == SignedTypeOK /\ OneSignature /\ SignaturesReal /\ SignedDelivered

\* Certified values are the same, and a correct sender's value.
LEMMA SignedCertified ==
    ASSUME OneSignature, NEW v, Certified(Saying(signed, v))
    PROVE  /\ \A w : Certified(Saying(signed, w)) => v = w
           /\ Sender \in Correct => v = broadcast
<1>1. ASSUME NEW w, Certified(Saying(signed, w)) PROVE v = w
  <2>1. PICK c \in Correct : c \in Saying(signed, v) /\ c \in Saying(signed, w)
    BY <1>1, CertifiedMeet
  <2> QED BY <2>1 DEF Saying, OneSignature, Signing
<1>2. PICK c \in Correct : c \in Saying(signed, v) BY CertifiedMeet
<1> QED BY <1>1, <1>2 DEF Saying, OneSignature, Signing

LEMMA SignedInvInit == Signed!Init => SignedInv
<1> SUFFICES ASSUME Signed!Init PROVE SignedInv OBVIOUS
<1> USE SameOperators DEF Signed!Init, ValuesOrNone
<1>1. SignedTypeOK BY DEF SignedTypeOK, Signed!NoFinal
<1>2. OneSignature BY FS_EmptySet DEF OneSignature, Signing
<1>3. SignaturesReal BY DEF SignaturesReal, Processes, Signed!NoFinal
<1>4. SignedDelivered BY DEF SignedDelivered
<1> QED BY <1>1, <1>2, <1>3, <1>4 DEF SignedInv

\* What a handler holds that passes its test.
HandlerType == [handler : {"send", "final"}, inner : Values, reader : Nat]

\* A handler that passes its test with value v.
LEMMA SignedEnters ==
    ASSUME SignedTypeOK, OneSignature, NEW p \in Correct, NEW h \in {"send", "final"},
           NEW v \in Values, Signed!Enter(p, h, v)
    PROVE  \E b \in HandlerType :
                /\ b.handler = h /\ b.inner = v
                /\ busy' = [busy EXCEPT ![p] = busy[p] \cup {b}]
                /\ IsFiniteSet(busy[p] \cup {b})
                /\ Readers = 1 => busy[p] = {}
<1>1. PICK i \in 1 .. Readers :
          busy' = [busy EXCEPT ![p] = busy[p] \cup {[handler |-> h, inner |-> v, reader |-> i]}]
  BY DEF Signed!Enter, SignedTypeOK
<1> DEFINE b == [handler |-> h, inner |-> v, reader |-> i]
<1>2. b \in HandlerType /\ b.handler = h /\ b.inner = v BY DEF HandlerType
<1>3. IsFiniteSet(busy[p]) BY DEF OneSignature
<1>4. IsFiniteSet(busy[p] \cup {b}) BY <1>3, FS_AddElement
<1>5. ASSUME Readers = 1 PROVE busy[p] = {}
  <2>1. Cardinality(busy[p]) < 1 BY <1>5, SameCardinality DEF Signed!Enter
  <2>2. Cardinality(busy[p]) = 0 BY <1>3, <2>1, FS_CardinalityType
  <2> QED BY <1>3, <2>2, FS_EmptySet
<1>6. /\ b.handler = h /\ b.inner = v
      /\ busy' = [busy EXCEPT ![p] = busy[p] \cup {b}]
      /\ IsFiniteSet(busy[p] \cup {b})
      /\ Readers = 1 => busy[p] = {}
  BY <1>1, <1>2, <1>4, <1>5
<1> HIDE DEF b
<1> QED BY <1>2, <1>6

\* EnterSend: the process has no other value to sign.
LEMMA SignedEntersSend ==
    ASSUME Serial, SignedInv, NEW p \in Correct, NEW v \in Values, Signed!EnterSend(p, v)
    PROVE  SignedInv'
<1> USE SameOperators DEF SignedInv
<1>1. UNCHANGED <<broadcast, sentEcho, signed, echos, final, flag, delivered>>
  BY DEF Signed!EnterSend
<1>2. PICK b \in HandlerType :
          /\ b.handler = "send" /\ b.inner = v
          /\ busy' = [busy EXCEPT ![p] = busy[p] \cup {b}]
          /\ IsFiniteSet(busy[p] \cup {b})
          /\ Readers = 1 => busy[p] = {}
  BY SignedEnters DEF Signed!EnterSend
<1>3. busy'[p] = busy[p] \cup {b} /\ \A a \in Correct : a # p => busy'[a] = busy[a]
  BY <1>2 DEF SignedTypeOK
<1>4. SignedTypeOK' BY <1>1, <1>2 DEF SignedTypeOK, HandlerType
<1>5. OneSignature'
  <2>1. signed[p] = {} BY DEF OneSignature, SignedTypeOK, Signed!EnterSend
  <2>2. Signing(p)' = Signing(p) \cup {v} BY <1>1, <1>2, <1>3 DEF Signing
  <2>3. \A w \in Signing(p) : w = v
    <3>1. CASE Sender \in Correct
      BY <3>1, ProcessAssumption DEF OneSignature, Signed!EnterSend, Signed!Offered
    <3>2. CASE Readers = 1 BY <1>2, <2>1, <3>2 DEF Signing
    <3> QED BY <3>1, <3>2 DEF Serial
  <2>4. Sender \in Correct => v = broadcast
    BY ProcessAssumption DEF Signed!EnterSend, Signed!Offered
  <2>5. \A a \in Correct : a # p => Signing(a)' = Signing(a)
    BY <1>1, <1>3 DEF Signing
  <2>6. ASSUME NEW a \in Correct
        PROVE  /\ IsFiniteSet(busy'[a])
               /\ \A x, w \in Signing(a)' : x = w
               /\ signed'[a] # {} => sentEcho'[a]
               /\ Sender \in Correct => \A w \in Signing(a)' : w = broadcast'
    <3>1. CASE a = p BY <1>1, <1>2, <1>3, <2>1, <2>2, <2>3, <2>4, <3>1
    <3>2. CASE a # p BY <1>1, <1>3, <2>5, <3>2 DEF OneSignature
    <3> QED BY <3>1, <3>2
  <2> QED BY <2>6 DEF OneSignature
<1>6. SignaturesReal' BY <1>1 DEF SignaturesReal
<1>7. SignedDelivered' BY <1>1, <1>2, <1>3 DEF SignedDelivered
<1> QED BY <1>4, <1>5, <1>6, <1>7

\* EnterFinal: the signatures that are counted certify the value.
LEMMA SignedEntersFinal ==
    ASSUME SignedInv, NEW p \in Correct, NEW v \in Values, Signed!EnterFinal(p, v)
    PROVE  SignedInv'
<1> USE SameOperators DEF SignedInv
<1>1. UNCHANGED <<broadcast, sentEcho, signed, echos, final, flag, delivered>>
  BY DEF Signed!EnterFinal
<1>2. PICK b \in HandlerType :
          /\ b.handler = "final" /\ b.inner = v
          /\ busy' = [busy EXCEPT ![p] = busy[p] \cup {b}]
          /\ IsFiniteSet(busy[p] \cup {b})
          /\ Readers = 1 => busy[p] = {}
  BY SignedEnters DEF Signed!EnterFinal
<1>3. busy'[p] = busy[p] \cup {b} /\ \A a \in Correct : a # p => busy'[a] = busy[a]
  BY <1>2 DEF SignedTypeOK
<1>4. SignedTypeOK' BY <1>1, <1>2 DEF SignedTypeOK, HandlerType
<1>5. OneSignature'
  <2>1. \A a \in Correct : Signing(a)' = Signing(a) BY <1>1, <1>2, <1>3 DEF Signing
  <2>2. \A a \in Correct : IsFiniteSet(busy'[a]) BY <1>2, <1>3 DEF OneSignature
  <2> QED BY <1>1, <2>1, <2>2 DEF OneSignature
<1>6. SignaturesReal' BY <1>1 DEF SignaturesReal
<1>7. Certified(Saying(signed, v))
  <2>1. PICK S \in Signed!Signers(v) : Cardinality(S) > quorum
    BY SameCardinality DEF Signed!EnterFinal
  <2>2. S \in SUBSET Processes /\ S \cap Correct \subseteq Saying(signed, v)
    BY <2>1, ProcessAssumption
    DEF Signed!Signers, SignaturesReal, SignedTypeOK, Saying, Processes
  <2> QED BY <2>1, <2>2 DEF Certified
<1>8. SignedDelivered' BY <1>1, <1>2, <1>3, <1>7 DEF SignedDelivered
<1> QED BY <1>4, <1>5, <1>6, <1>8

\* An echo at the sender, and the final message it may complete.
LEMMA SignedReceives ==
    ASSUME SignedInv, NEW q \in Processes, NEW v \in Values, Signed!ReceiveEcho(q, v)
    PROVE  SignedInv'
<1> USE SameOperators DEF SignedInv
<1>1. /\ UNCHANGED <<broadcast, busy, sentEcho, signed, flag, delivered>>
      /\ echos' = [echos EXCEPT ![q] = v]
  BY DEF Signed!ReceiveEcho
<1>2. echos' \in [Processes -> ValuesOrNone] BY <1>1 DEF SignedTypeOK, ValuesOrNone
<1>3. \A r \in Correct : echos'[r] # None => echos'[r] \in signed[r]
  <2> SUFFICES ASSUME NEW r \in Correct, echos'[r] # None PROVE echos'[r] \in signed[r]
    OBVIOUS
  <2>1. CASE r = q
    <3>1. echos'[r] = v BY <1>1, <2>1 DEF SignedTypeOK
    <3> QED BY <2>1, <3>1, ProcessAssumption DEF Signed!ReceiveEcho
  <2>2. CASE r # q
    <3>1. echos'[r] = echos[r] BY <1>1, <2>2 DEF SignedTypeOK, Processes
    <3> QED BY <3>1 DEF SignaturesReal
  <2> QED BY <2>1, <2>2
<1>4. /\ final' \in [inner : ValuesOrNone, signs : SUBSET Processes]
      /\ \A r \in Correct \cap final'.signs : final'.inner \in signed[r]
  <2>1. CASE final' = final BY <2>1 DEF SignedTypeOK, SignaturesReal
  <2>2. ASSUME NEW t \in Processes, echos'[t] # None,
               final' = [inner |-> echos'[t],
                         signs |-> {r \in Processes : echos'[r] = echos'[t]}]
        PROVE  <1>4!1 /\ <1>4!2
    BY <1>2, <1>3, <2>2
  <2>3. CASE final' = Signed!NoFinal BY <2>3 DEF Signed!NoFinal, ValuesOrNone
  <2>4. ASSUME final' # final, final' # Signed!NoFinal
        PROVE  \E t \in Processes :
                    /\ echos'[t] # None
                    /\ final' = [inner |-> echos'[t],
                                 signs |-> {r \in Processes : echos'[r] = echos'[t]}]
    <3>1. final' = Signed!FinalOf(echos') BY <2>4 DEF Signed!ReceiveEcho
    <3>2. PICK t \in Processes : Signed!Supported(echos', t)
      BY <2>4, <3>1 DEF Signed!FinalOf
    <3> DEFINE x == CHOOSE x \in Processes : Signed!Supported(echos', x)
    <3>3. x \in Processes /\ Signed!Supported(echos', x) BY <3>2
    <3>4. final' = [inner |-> echos'[x], signs |-> {r \in Processes : echos'[r] = echos'[x]}]
      BY <3>1, <3>2 DEF Signed!FinalOf
    <3> HIDE DEF x
    <3> QED BY <3>3, <3>4 DEF Signed!Supported
  <2> QED BY <2>1, <2>2, <2>3, <2>4
<1>5. SignedTypeOK' BY <1>1, <1>2, <1>4 DEF SignedTypeOK
<1>6. OneSignature' BY <1>1 DEF OneSignature, Signing
<1>7. SignaturesReal' BY <1>1, <1>3, <1>4 DEF SignaturesReal
<1>8. SignedDelivered' BY <1>1 DEF SignedDelivered
<1> QED BY <1>5, <1>6, <1>7, <1>8

\* No step leaves the invariant.
LEMMA SignedInvStep == Serial /\ SignedInv /\ [Signed!Next]_Signed!vars => SignedInv'
<1> SUFFICES ASSUME Serial, SignedInv, [Signed!Next]_Signed!vars PROVE SignedInv' OBVIOUS
<1> USE SameOperators DEF SignedInv
<1>0. CASE UNCHANGED Signed!vars
  BY <1>0 DEF Signed!vars, SignedTypeOK, OneSignature, Signing, SignaturesReal, SignedDelivered
<1>1. ASSUME NEW v \in Values, Signed!Broadcast(v) PROVE SignedInv'
  <2> USE <1>1 DEF Signed!Broadcast
  <2>1. SignedTypeOK' BY DEF SignedTypeOK, ValuesOrNone
  <2>2. OneSignature'
    <3>1. ASSUME NEW p \in Correct PROVE Signing(p) = {}
      <4>1. \A w \in Signing(p) : w = None BY DEF OneSignature
      <4>2. \A w \in Signing(p) : w \in Values BY DEF Signing, SignedTypeOK
      <4> QED BY <4>1, <4>2
    <3>2. \A p \in Correct : Signing(p)' = Signing(p) BY DEF Signing
    <3> QED BY <3>1, <3>2 DEF OneSignature
  <2>3. SignaturesReal' /\ SignedDelivered' BY DEF SignaturesReal, SignedDelivered
  <2> QED BY <2>1, <2>2, <2>3
<1>2. ASSUME NEW v \in Values, NEW p \in Correct, Signed!EnterSend(p, v) PROVE SignedInv'
  BY <1>2, SignedEntersSend
<1>3. ASSUME NEW v \in Values, NEW p \in Correct, Signed!EnterFinal(p, v) PROVE SignedInv'
  BY <1>3, SignedEntersFinal
<1>4. ASSUME NEW q \in Processes, NEW v \in Values, Signed!ReceiveEcho(q, v)
      PROVE  SignedInv'
  BY <1>4, SignedReceives
<1>5. ASSUME NEW p \in Correct, NEW b \in busy[p], Signed!SendEcho(p, b) PROVE SignedInv'
  <2> USE <1>5 DEF Signed!SendEcho
  <2>1. b.inner \in Values BY DEF SignedTypeOK
  <2>2. SignedTypeOK' BY <2>1 DEF SignedTypeOK
  <2>3. /\ busy'[p] = busy[p] \ {b} /\ signed'[p] = signed[p] \cup {b.inner}
        /\ sentEcho'[p]
        /\ \A a \in Correct : a # p =>
                busy'[a] = busy[a] /\ signed'[a] = signed[a] /\ sentEcho'[a] = sentEcho[a]
    BY DEF SignedTypeOK
  <2>4. OneSignature'
    <3>1. Signing(p)' \subseteq Signing(p) BY <2>3 DEF Signing
    <3>2. \A a \in Correct : a # p => Signing(a)' = Signing(a) BY <2>3 DEF Signing
    <3>3. IsFiniteSet(busy[p]) BY DEF OneSignature
    <3>4. IsFiniteSet(busy'[p]) BY <2>3, <3>3, FS_RemoveElement
    <3> QED BY <2>3, <3>1, <3>2, <3>4 DEF OneSignature
  <2>5. SignaturesReal'
    <3>1. \A a \in Correct : signed[a] \subseteq signed'[a] BY <2>3
    <3> QED BY <3>1 DEF SignaturesReal
  <2>6. SignedDelivered'
    <3>1. ASSUME NEW w, Certified(Saying(signed, w)) PROVE Certified(Saying(signed', w))
      <4>1. Saying(signed, w) \subseteq Saying(signed', w) BY <2>3 DEF Saying
      <4> QED BY <3>1, <4>1, CertifiedGrows
    <3>2. \A a \in Correct : busy'[a] \subseteq busy[a] BY <2>3
    <3> QED BY <3>1, <3>2 DEF SignedDelivered
  <2> QED BY <2>2, <2>4, <2>5, <2>6
<1>6. ASSUME NEW p \in Correct, NEW b \in busy[p], Signed!DeliverFinal(p, b)
      PROVE  SignedInv'
  <2> USE <1>6 DEF Signed!DeliverFinal
  <2>1. b.inner \in Values BY DEF SignedTypeOK
  <2>2. SignedTypeOK' BY <2>1 DEF SignedTypeOK, ValuesOrNone
  <2>3. /\ busy'[p] = busy[p] \ {b} /\ delivered'[p] = b.inner
        /\ \A a \in Correct : a # p =>
                busy'[a] = busy[a] /\ delivered'[a] = delivered[a]
    BY DEF SignedTypeOK
  <2>4. OneSignature'
    <3>1. \A a \in Correct : Signing(a)' \subseteq Signing(a) BY <2>3 DEF Signing
    <3>2. ASSUME NEW a \in Correct PROVE IsFiniteSet(busy'[a])
      <4>1. busy'[a] \subseteq busy[a] BY <2>3
      <4> QED BY <4>1, FS_Subset DEF OneSignature
    <3> QED BY <3>1, <3>2 DEF OneSignature
  <2>5. SignaturesReal' BY DEF SignaturesReal
  <2>6. SignedDelivered' BY <2>3 DEF SignedDelivered
  <2> QED BY <2>2, <2>4, <2>5, <2>6
<1> QED BY <1>0, <1>1, <1>2, <1>3, <1>4, <1>5, <1>6 DEF Signed!Next

\* Signatures are unique, none is forged, and a value that is handed up was signed
\* by a Byzantine quorum: the inductive invariant of the signed echo broadcast.
THEOREM SignedCorrect == Serial /\ Signed!Spec => []SignedInv
<1> SUFFICES ASSUME Serial PROVE Signed!Spec => []SignedInv OBVIOUS
<1>1. SignedInv /\ [Signed!Next]_Signed!vars => SignedInv' BY SignedInvStep
<1> QED BY SignedInvInit, <1>1, PTL DEF Signed!Spec

\* DeliverFinal is a delivery of the abstract broadcast, or hands the same value up
\* again.
LEMMA SignedDelivers ==
    ASSUME SignedInv, SignedInv', NEW p \in Correct, NEW b \in busy[p],
           Signed!DeliverFinal(p, b)
    PROVE  [CB!Next]_CB!vars
<1> USE DEF SignedInv, Signed!DeliverFinal
<1> DEFINE v == b.inner
<1>1. v \in Values /\ Certified(Saying(signed, v)) BY DEF SignedTypeOK, SignedDelivered
<1>2. /\ \A w : Certified(Saying(signed, w)) => v = w
      /\ Sender \in Correct => v = broadcast
  BY <1>1, SignedCertified
<1>3. \A a \in Correct : delivered[a] \in {None, v} BY <1>2 DEF SignedDelivered
<1>4. CASE delivered[p] = None BY <1>1, <1>2, <1>3, <1>4 DEF CB!Next, CB!Deliver
<1>5. CASE delivered[p] # None
  <2>1. delivered' = delivered BY <1>3, <1>5 DEF SignedTypeOK
  <2> QED BY <2>1 DEF CB!vars
<1> QED BY <1>4, <1>5

\* The signed echo broadcast is a consistent broadcast, step by step.
LEMMA SignedSimulates ==
    SignedInv /\ SignedInv' /\ [Signed!Next]_Signed!vars => [CB!Next]_CB!vars
<1> SUFFICES ASSUME SignedInv, SignedInv', [Signed!Next]_Signed!vars
             PROVE  [CB!Next]_CB!vars
  OBVIOUS
<1>1. CASE UNCHANGED Signed!vars BY <1>1 DEF Signed!vars, CB!vars
<1>2. ASSUME NEW v \in Values, Signed!Broadcast(v) PROVE CB!Next
  BY <1>2 DEF Signed!Broadcast, CB!Broadcast, CB!Next
<1>3. ASSUME NEW v \in Values, NEW p \in Correct,
             Signed!EnterSend(p, v) \/ Signed!EnterFinal(p, v)
      PROVE  UNCHANGED CB!vars
  BY <1>3 DEF Signed!EnterSend, Signed!EnterFinal, CB!vars
<1>4. ASSUME NEW p \in Correct, NEW b \in busy[p], Signed!SendEcho(p, b)
      PROVE  UNCHANGED CB!vars
  BY <1>4 DEF Signed!SendEcho, CB!vars
<1>5. ASSUME NEW p \in Correct, NEW b \in busy[p], Signed!DeliverFinal(p, b)
      PROVE  [CB!Next]_CB!vars
  BY <1>5, SignedDelivers
<1>6. ASSUME NEW v \in Values, NEW q \in Processes, Signed!ReceiveEcho(q, v)
      PROVE  UNCHANGED CB!vars
  BY <1>6 DEF Signed!ReceiveEcho, CB!vars
<1> QED BY <1>1, <1>2, <1>3, <1>4, <1>5, <1>6, SameOperators DEF Signed!Next

\* The signed echo broadcast is a consistent broadcast (handleFinal), whatever a
\* faulty sender puts together from the signatures it was sent.
THEOREM SignedImplements == Serial /\ Signed!Spec => CB!Spec
<1> SUFFICES ASSUME Serial PROVE Signed!Spec => CB!Spec OBVIOUS
<1>1. Signed!Init => CB!Init BY DEF Signed!Init, CB!Init
<1> QED BY <1>1, SignedSimulates, SignedCorrect, PTL DEF Signed!Spec, CB!Spec

-----------------------------------------------------------------------------
(* The authenticated double echo broadcast *)

MessageType == [type : {"echo", "ready"}, from : Processes, inner : Values]

\* The values each correct process has echoed, when s are the messages sent.
Echoed(s) == [c \in Correct |-> {v \in Values : Double!Echo(c, v) \in s}]

\* A value that the correct members of a quorum have echoed.
EchoedByQuorum(s, v) == Certified(Saying(Echoed(s), v))

\* What a handler of p may hold when s are the messages sent: an echo of its own,
\* or a ready for a value that a quorum has echoed.
EntryOK(p, b, s) ==
    /\ b.op \in {"echo", "ready", "relay", "deliver"}
    /\ b.msg \in MessageType
    /\ b.op = "echo" => b.msg.type = "echo" /\ b.msg.from = p
    /\ b.op # "echo" => b.msg.type = "ready" /\ EchoedByQuorum(s, b.msg.inner)

DoubleTypeOK ==
    /\ broadcast \in ValuesOrNone
    /\ DOMAIN busy = Correct /\ \A p \in Correct : IsFiniteSet(busy[p])
    /\ sentEcho \in [Correct -> BOOLEAN]
    /\ sentReady \in [Correct -> BOOLEAN]
    /\ flag \in [Correct -> BOOLEAN]
    /\ sent \in SUBSET MessageType
    /\ echos \in [Correct -> [Processes -> ValuesOrNone]]
    /\ readys \in [Correct -> [Processes -> ValuesOrNone]]
    /\ delivered \in [Correct -> ValuesOrNone]
    /\ count \in [Correct -> Nat]

\* The values a process has echoed or is about to.
Echoing(p) == {b.msg.inner : b \in {x \in busy[p] : x.op = "echo"}} \cup Echoed(sent)[p]

\* A correct process has one value to echo, and has set sentEcho when it is out.
OneDoubleEcho ==
    \A p \in Correct :
        /\ \A v, w \in Echoing(p) : v = w
        /\ Echoed(sent)[p] # {} => sentEcho[p]
        /\ Sender \in Correct => \A v \in Echoing(p) : v = broadcast

\* Echoes and readys of correct processes are not forged.
MessagesSent ==
    \A p, q \in Correct :
        /\ echos[p][q] # None => Double!Echo(q, echos[p][q]) \in sent
        /\ readys[p][q] # None => Double!Ready(q, readys[p][q]) \in sent

\* Every ready, own or relayed, and every delivered value was echoed by the correct
\* members of a quorum.
ReadysCertified ==
    /\ \A p \in Correct : \A b \in busy[p] : EntryOK(p, b, sent)
    /\ \A m \in sent : m.type = "ready" => EchoedByQuorum(sent, m.inner)
    /\ \A p \in Correct : delivered[p] # None => EchoedByQuorum(sent, delivered[p])

DoubleInv == DoubleTypeOK /\ OneDoubleEcho /\ MessagesSent /\ ReadysCertified

\* Certified values are the same, and a correct sender's value.
LEMMA DoubleCertified ==
    ASSUME OneDoubleEcho, NEW v, EchoedByQuorum(sent, v)
    PROVE  /\ \A w : EchoedByQuorum(sent, w) => v = w
           /\ Sender \in Correct => v = broadcast
<1> USE DEF EchoedByQuorum
<1>1. ASSUME NEW w, EchoedByQuorum(sent, w) PROVE v = w
  <2>1. PICK c \in Correct : c \in Saying(Echoed(sent), v) /\ c \in Saying(Echoed(sent), w)
    BY <1>1, CertifiedMeet
  <2> QED BY <2>1 DEF Saying, OneDoubleEcho, Echoing
<1>2. PICK c \in Correct : c \in Saying(Echoed(sent), v) BY CertifiedMeet
<1> QED BY <1>1, <1>2 DEF Saying, OneDoubleEcho, Echoing

\* More messages certify more.
LEMMA DoubleGrows ==
    ASSUME NEW s, NEW t, s \subseteq t
    PROVE  /\ \A v : EchoedByQuorum(s, v) => EchoedByQuorum(t, v)
           /\ \A p, b : EntryOK(p, b, s) => EntryOK(p, b, t)
<1>1. ASSUME NEW v, EchoedByQuorum(s, v) PROVE EchoedByQuorum(t, v)
  <2>1. Saying(Echoed(s), v) \subseteq Saying(Echoed(t), v) BY DEF Saying, Echoed
  <2> QED BY <1>1, <2>1, CertifiedGrows DEF EchoedByQuorum
<1> QED BY <1>1 DEF EntryOK

\* A value that a Byzantine quorum of the echoes in e supports is certified.
LEMMA EchosSupport ==
    ASSUME NEW e \in [Processes -> ValuesOrNone], NEW s,
           \A c \in Correct : e[c] # None => Double!Echo(c, e[c]) \in s,
           NEW q \in Double!Supported(e, Double!byzantineQuorum)
    PROVE  e[q] \in Values /\ EchoedByQuorum(s, e[q])
<1>1. /\ q \in Processes /\ e[q] # None
      /\ Cardinality({r \in Processes \ {q} : e[r] = e[q]}) > quorum
  BY SameOperators, SameCardinality DEF Double!Supported
<1>2. e[q] \in Values BY <1>1 DEF ValuesOrNone
<1>3. \A c \in Correct : e[c] = e[q] => c \in Saying(Echoed(s), e[q])
  BY <1>1, <1>2 DEF Saying, Echoed
<1> QED BY <1>1, <1>2, <1>3, CertifiedBy DEF EchoedByQuorum

\* A value that more than Faults of the readys in e support is certified.
LEMMA ReadysSupport ==
    ASSUME NEW e \in [Processes -> ValuesOrNone], NEW s,
           \A c \in Correct : e[c] # None => Double!Ready(c, e[c]) \in s,
           \A m \in s : m.type = "ready" => EchoedByQuorum(s, m.inner),
           NEW k \in Nat, k >= Faults, NEW q \in Double!Supported(e, k)
    PROVE  e[q] \in Values /\ EchoedByQuorum(s, e[q])
<1> DEFINE S == {r \in Processes \ {q} : e[r] = e[q]}
<1>1. q \in Processes /\ e[q] # None /\ Cardinality(S) > k
  BY SameOperators, SameCardinality DEF Double!Supported
<1>2. e[q] \in Values BY <1>1 DEF ValuesOrNone
<1>3. S \in SUBSET Processes OBVIOUS
<1>4. Cardinality(S) \in Nat BY <1>3, ProcessesFinite, FS_Subset, FS_CardinalityType
<1>5. Cardinality(S) > Faults BY <1>1, <1>4
<1>6. PICK c \in S : c \in Correct BY <1>3, <1>5, MoreThanFaults
<1>7. Double!Ready(c, e[q]) \in s BY <1>1, <1>6
<1>8. Double!Ready(c, e[q]).type = "ready" /\ Double!Ready(c, e[q]).inner = e[q]
  BY DEF Double!Ready
<1> QED BY <1>2, <1>7, <1>8

LEMMA DoubleInvInit == Double!Init => DoubleInv
<1> SUFFICES ASSUME Double!Init PROVE DoubleInv OBVIOUS
<1> USE SameOperators DEF Double!Init, ValuesOrNone
<1>1. DoubleTypeOK BY FS_EmptySet DEF DoubleTypeOK
<1>2. OneDoubleEcho BY DEF OneDoubleEcho, Echoing, Echoed
<1>3. MessagesSent BY DEF MessagesSent, Processes
<1>4. ReadysCertified BY DEF ReadysCertified
<1> QED BY <1>1, <1>2, <1>3, <1>4 DEF DoubleInv

\* A handler of p leaves the entries in others, and perhaps one for it to go on,
\* with an op among ops, and to deliver only if f is not set.
Handles(p, others, ops, f) ==
    \E N : /\ DOMAIN busy' = Correct /\ busy'[p] = others \cup N
           /\ \A a \in Correct : a # p => busy'[a] = busy[a]
           /\ \/ N = {}
              \/ \E b : /\ N = {b} /\ b.op \in ops /\ EntryOK(p, b, sent')
                        /\ b.op = "deliver" => ~f

LEMMA EntryFields ==
    \A p, op, m : Double!Entry(p, op, m).op = op /\ Double!Entry(p, op, m).msg = m
  BY DEF Double!Entry

\* What the busy entries are after such a step.
LEMMA HandlesEntries ==
    ASSUME DoubleTypeOK, ReadysCertified, NEW p \in Correct, NEW others \in SUBSET busy[p],
           NEW ops, NEW f, Handles(p, others, ops, f), sent \subseteq sent'
    PROVE  /\ DOMAIN busy' = Correct
           /\ \A a \in Correct : IsFiniteSet(busy'[a])
           /\ \A a \in Correct : \A b \in busy'[a] : EntryOK(a, b, sent')
           /\ \A a \in Correct : \A b \in busy'[a] : b \in busy[a] \/ b.op \in ops
<1>1. PICK N : /\ DOMAIN busy' = Correct /\ busy'[p] = others \cup N
               /\ \A a \in Correct : a # p => busy'[a] = busy[a]
               /\ \/ N = {}
                  \/ \E b : /\ N = {b} /\ b.op \in ops /\ EntryOK(p, b, sent')
                            /\ b.op = "deliver" => ~f
  BY DEF Handles
<1>3. IsFiniteSet(others \cup N)
  <2>1. IsFiniteSet(others) BY FS_Subset DEF DoubleTypeOK
  <2>2. CASE N = {} BY <2>1, <2>2
  <2>3. CASE \E b : N = {b}
    <3>1. PICK b : N = {b} BY <2>3
    <3> QED BY <2>1, <3>1, FS_AddElement
  <2> QED BY <1>1, <2>2, <2>3
<1>4. \A a \in Correct : \A b \in busy[a] : EntryOK(a, b, sent')
  BY DoubleGrows DEF ReadysCertified
<1> QED BY <1>1, <1>3, <1>4 DEF DoubleTypeOK


\* A step after which no process has more values to echo keeps OneDoubleEcho.
LEMMA NoNewEcho ==
    ASSUME DoubleInv, UNCHANGED <<broadcast, sentEcho>>,
           \A m \in sent' : m \in sent \/ m.type # "echo",
           \A a \in Correct : \A b \in busy'[a] : b \in busy[a] \/ b.op # "echo"
    PROVE  OneDoubleEcho'
<1>1. \A c \in Correct : Echoed(sent')[c] \subseteq Echoed(sent)[c]
  <2> SUFFICES ASSUME NEW c \in Correct, NEW v \in Values, Double!Echo(c, v) \in sent'
               PROVE  Double!Echo(c, v) \in sent
    BY DEF Echoed
  <2> QED BY DEF Double!Echo
<1>2. \A c \in Correct : Echoing(c)' \subseteq Echoing(c) BY <1>1 DEF Echoing
<1> QED BY <1>1, <1>2 DEF DoubleInv, OneDoubleEcho

\* handleEchoMessage.
LEMMA DoubleReceivesEcho ==
    ASSUME DoubleInv, NEW p \in Correct, NEW q \in Processes, NEW v \in Values,
           Double!ReceiveEcho(p, q, v)
    PROVE  DoubleInv' /\ Handles(p, busy[p], {"ready"}, flag[p])
<1> USE SameOperators DEF DoubleInv
<1> DEFINE e == [echos[p] EXCEPT ![q] = v]
<1>1. /\ UNCHANGED <<broadcast, sentEcho, sentReady, flag, readys, sent, delivered, count>>
      /\ echos' = [echos EXCEPT ![p] = e]
  BY DEF Double!ReceiveEcho, DoubleTypeOK
<1>2. e \in [Processes -> ValuesOrNone] /\ echos'[p] = e
  BY <1>1 DEF DoubleTypeOK, ValuesOrNone
<1>3. MessagesSent'
  <2> SUFFICES ASSUME NEW a \in Correct, NEW b \in Correct, echos'[a][b] # None
               PROVE  Double!Echo(b, echos'[a][b]) \in sent
    BY <1>1 DEF MessagesSent
  <2>1. CASE a = p /\ b = q
    <3>1. echos'[a][b] = v BY <1>1, <2>1 DEF DoubleTypeOK
    <3> QED BY <2>1, <3>1, ProcessAssumption DEF Double!ReceiveEcho
  <2>2. CASE a # p \/ b # q
    <3>1. echos'[a][b] = echos[a][b] BY <1>1, <2>2 DEF DoubleTypeOK, Processes
    <3> QED BY <3>1 DEF MessagesSent
  <2> QED BY <2>1, <2>2
<1>4. Handles(p, busy[p], {"ready"}, flag[p])
  <2>1. CASE UNCHANGED busy
    <3>1. DOMAIN busy' = Correct /\ busy' = busy BY <2>1 DEF DoubleTypeOK
    <3>2. busy'[p] = busy[p] \cup {} BY <3>1
    <3> QED BY <3>1, <3>2 DEF Handles
  <2>2. ASSUME NEW r \in Double!Supported(e, Double!byzantineQuorum),
               busy' = [busy EXCEPT ![p] =
                            busy[p] \cup {Double!Entry(p, "ready", Double!Ready(p, e[r]))}]
        PROVE  Handles(p, busy[p], {"ready"}, flag[p])
    <3> DEFINE b == Double!Entry(p, "ready", Double!Ready(p, e[r]))
    <3>1. \A c \in Correct : e[c] # None => Double!Echo(c, e[c]) \in sent
      BY <1>1, <1>2, <1>3 DEF MessagesSent
    <3>2. e[r] \in Values /\ EchoedByQuorum(sent, e[r]) BY <1>2, <3>1, EchosSupport
    <3>3. b.op = "ready" /\ b.msg = Double!Ready(p, e[r]) BY EntryFields
    <3> HIDE DEF b
    <3>4. EntryOK(p, b, sent')
      BY <1>1, <3>2, <3>3 DEF EntryOK, Double!Ready, MessageType, Processes
    <3>5. /\ DOMAIN busy' = Correct /\ busy'[p] = busy[p] \cup {b}
          /\ \A a \in Correct : a # p => busy'[a] = busy[a]
      BY <2>2 DEF b, DoubleTypeOK
    <3> QED BY <3>3, <3>4, <3>5 DEF Handles
  <2> QED BY <1>2, <2>1, <2>2 DEF Double!ReceiveEcho, DoubleTypeOK
<1>5. /\ DOMAIN busy' = Correct
      /\ \A a \in Correct : IsFiniteSet(busy'[a])
      /\ \A a \in Correct : \A b \in busy'[a] : EntryOK(a, b, sent')
      /\ \A a \in Correct : \A b \in busy'[a] : b \in busy[a] \/ b.op \in {"ready"}
  BY <1>1, <1>4, HandlesEntries
<1>6. DoubleTypeOK' BY <1>1, <1>2, <1>5 DEF DoubleTypeOK
<1>7. OneDoubleEcho' BY <1>1, <1>5, NoNewEcho
<1>8. ReadysCertified' BY <1>1, <1>5 DEF ReadysCertified
<1> QED BY <1>3, <1>4, <1>6, <1>7, <1>8

\* checkDeliver: what p goes on to deliver is certified by the readys it has.
LEMMA DoubleChecks ==
    ASSUME ReadysCertified, DOMAIN busy = Correct,
           NEW p \in Correct, NEW others \in SUBSET busy[p],
           sent \subseteq sent', readys'[p] \in [Processes -> ValuesOrNone],
           \A c \in Correct : readys'[p][c] # None => Double!Ready(c, readys'[p][c]) \in sent,
           Double!CheckDeliver(p, others)
    PROVE  Handles(p, others, {"deliver"}, flag[p])
<1> DEFINE e == readys'[p]
<1>1. CASE busy' = [busy EXCEPT ![p] = others]
  <2>1. /\ DOMAIN busy' = Correct /\ busy'[p] = others \cup {}
        /\ \A a \in Correct : a # p => busy'[a] = busy[a]
    BY <1>1
  <2> QED BY <2>1 DEF Handles
<1>2. ASSUME ~flag[p], NEW r \in Double!Supported(e, 2 * Faults),
             busy' = [busy EXCEPT ![p] =
                          others \cup {Double!Entry(p, "deliver", Double!Ready(r, e[r]))}]
      PROVE  Handles(p, others, {"deliver"}, flag[p])
  <2> DEFINE b == Double!Entry(p, "deliver", Double!Ready(r, e[r]))
  <2>1. 2 * Faults \in Nat /\ 2 * Faults >= Faults OBVIOUS
  <2>2. e[r] \in Values /\ EchoedByQuorum(sent, e[r])
    BY <1>2, <2>1, ReadysSupport DEF ReadysCertified
  <2>3. r \in Processes BY <1>2, SameOperators DEF Double!Supported
  <2>4. b.op = "deliver" /\ b.msg = Double!Ready(r, e[r]) BY EntryFields
  <2> HIDE DEF b
  <2>5. EntryOK(p, b, sent')
    <3>1. EchoedByQuorum(sent', e[r]) BY <2>2, DoubleGrows
    <3> HIDE DEF e
    <3> QED BY <2>2, <2>3, <2>4, <3>1 DEF EntryOK, Double!Ready, MessageType
  <2>6. /\ DOMAIN busy' = Correct /\ busy'[p] = others \cup {b}
        /\ \A a \in Correct : a # p => busy'[a] = busy[a]
    BY <1>2 DEF b
  <2> QED BY <1>2, <2>4, <2>5, <2>6 DEF Handles
<1> QED BY <1>1, <1>2 DEF Double!CheckDeliver

\* handleReadyMessage.
LEMMA DoubleReceivesReady ==
    ASSUME DoubleInv, NEW p \in Correct, NEW q \in Processes, NEW v \in Values,
           Double!ReceiveReady(p, q, v)
    PROVE  DoubleInv' /\ Handles(p, busy[p], {"relay", "deliver"}, flag[p])
<1> USE SameOperators DEF DoubleInv
<1> DEFINE e == [readys[p] EXCEPT ![q] = v]
<1>1. /\ UNCHANGED <<broadcast, sentEcho, sentReady, flag, echos, sent, delivered, count>>
      /\ readys' = [readys EXCEPT ![p] = e]
  BY DEF Double!ReceiveReady, DoubleTypeOK
<1>2. e \in [Processes -> ValuesOrNone] /\ readys'[p] = e
  BY <1>1 DEF DoubleTypeOK, ValuesOrNone
<1>3. MessagesSent'
  <2> SUFFICES ASSUME NEW a \in Correct, NEW b \in Correct, readys'[a][b] # None
               PROVE  Double!Ready(b, readys'[a][b]) \in sent
    BY <1>1 DEF MessagesSent
  <2>1. CASE a = p /\ b = q
    <3>1. readys'[a][b] = v BY <1>1, <2>1 DEF DoubleTypeOK
    <3> QED BY <2>1, <3>1, ProcessAssumption DEF Double!ReceiveReady
  <2>2. CASE a # p \/ b # q
    <3>1. readys'[a][b] = readys[a][b] BY <1>1, <2>2 DEF DoubleTypeOK, Processes
    <3> QED BY <3>1 DEF MessagesSent
  <2> QED BY <2>1, <2>2
<1>4. \A c \in Correct : e[c] # None => Double!Ready(c, e[c]) \in sent
  BY <1>1, <1>2, <1>3 DEF MessagesSent
<1>5. Handles(p, busy[p], {"relay", "deliver"}, flag[p])
  <2>1. CASE Double!CheckDeliver(p, busy[p])
    <3>1. Handles(p, busy[p], {"deliver"}, flag[p])
      BY <1>1, <1>2, <1>4, <2>1, DoubleChecks DEF DoubleTypeOK
    <3> QED BY <3>1 DEF Handles
  <2>2. ASSUME NEW r \in Double!Supported(e, Faults),
               busy' = [busy EXCEPT ![p] =
                            busy[p] \cup {Double!Entry(p, "relay", Double!Ready(r, e[r]))}]
        PROVE  Handles(p, busy[p], {"relay", "deliver"}, flag[p])
    <3> DEFINE b == Double!Entry(p, "relay", Double!Ready(r, e[r]))
    <3>0. Faults \in Nat /\ Faults >= Faults OBVIOUS
    <3>1. e[r] \in Values /\ EchoedByQuorum(sent, e[r])
      BY <1>2, <1>4, <2>2, <3>0, ReadysSupport DEF ReadysCertified
    <3>2. r \in Processes BY <2>2 DEF Double!Supported
    <3>3. b.op = "relay" /\ b.msg = Double!Ready(r, e[r]) BY EntryFields
    <3> HIDE DEF b
    <3>4. EntryOK(p, b, sent')
      BY <1>1, <3>1, <3>2, <3>3 DEF EntryOK, Double!Ready, MessageType
    <3>5. /\ DOMAIN busy' = Correct /\ busy'[p] = busy[p] \cup {b}
          /\ \A a \in Correct : a # p => busy'[a] = busy[a]
      BY <2>2 DEF b, DoubleTypeOK
    <3> QED BY <3>3, <3>4, <3>5 DEF Handles
  <2> QED BY <1>2, <2>1, <2>2 DEF Double!ReceiveReady, DoubleTypeOK
<1>6. /\ DOMAIN busy' = Correct
      /\ \A a \in Correct : IsFiniteSet(busy'[a])
      /\ \A a \in Correct : \A b \in busy'[a] : EntryOK(a, b, sent')
      /\ \A a \in Correct : \A b \in busy'[a] : b \in busy[a] \/ b.op \in {"relay", "deliver"}
  BY <1>1, <1>5, HandlesEntries
<1>7. DoubleTypeOK' BY <1>1, <1>2, <1>6 DEF DoubleTypeOK
<1>8. OneDoubleEcho' BY <1>1, <1>6, NoNewEcho
<1>9. ReadysCertified' BY <1>1, <1>6 DEF ReadysCertified
<1> QED BY <1>3, <1>5, <1>7, <1>8, <1>9


\* handleSendMessage up to the echo: the process has no other value to echo.
LEMMA DoubleEntersSend ==
    ASSUME Serial, DoubleInv, NEW p \in Correct, NEW v \in Values, Double!EnterSend(p, v)
    PROVE  DoubleInv' /\ Handles(p, busy[p], {"echo"}, flag[p])
<1> USE SameOperators DEF DoubleInv
<1> DEFINE b == Double!Entry(p, "echo", Double!Echo(p, v))
<1>1. /\ UNCHANGED <<broadcast, sentEcho, sentReady, flag, echos, readys, sent, delivered, count>>
      /\ busy' = [busy EXCEPT ![p] = busy[p] \cup {b}]
  BY DEF Double!EnterSend, Double!protocolVars
<1>2. b.op = "echo" /\ b.msg = Double!Echo(p, v) BY EntryFields
<1> HIDE DEF b
<1>3. EntryOK(p, b, sent') BY <1>2 DEF EntryOK, Double!Echo, MessageType, Processes
<1>4. /\ DOMAIN busy' = Correct /\ busy'[p] = busy[p] \cup {b}
      /\ \A a \in Correct : a # p => busy'[a] = busy[a]
  BY <1>1 DEF DoubleTypeOK
<1>5. Handles(p, busy[p], {"echo"}, flag[p]) BY <1>2, <1>3, <1>4 DEF Handles
<1>6. /\ DOMAIN busy' = Correct
      /\ \A a \in Correct : IsFiniteSet(busy'[a])
      /\ \A a \in Correct : \A x \in busy'[a] : EntryOK(a, x, sent')
  BY <1>1, <1>5, HandlesEntries
<1>7. DoubleTypeOK' BY <1>1, <1>6 DEF DoubleTypeOK
<1>8. OneDoubleEcho'
  <2>1. Echoed(sent)[p] = {}
    BY DEF OneDoubleEcho, DoubleTypeOK, Double!EnterSend
  <2>2. Echoing(p)' = Echoing(p) \cup {v}
    <3>1. b.msg.inner = v BY <1>2 DEF Double!Echo
    <3> QED BY <1>1, <1>2, <1>4, <3>1 DEF Echoing
  <2>3. \A w \in Echoing(p) : w = v
    <3>1. CASE Sender \in Correct
      BY <3>1, ProcessAssumption DEF OneDoubleEcho, Double!EnterSend, Double!Offered
    <3>2. CASE Readers = 1
      <4>1. IsFiniteSet(busy[p]) BY DEF DoubleTypeOK
      <4>2. Cardinality(busy[p]) < 1
        BY <3>2, SameCardinality DEF Double!EnterSend, Double!Idle
      <4>3. Cardinality(busy[p]) = 0 BY <4>1, <4>2, FS_CardinalityType
      <4>4. busy[p] = {} BY <4>1, <4>3, FS_EmptySet
      <4> QED BY <2>1, <4>4 DEF Echoing
    <3> QED BY <3>1, <3>2 DEF Serial
  <2>4. Sender \in Correct => v = broadcast
    BY ProcessAssumption DEF Double!EnterSend, Double!Offered
  <2>5. \A a \in Correct : a # p => Echoing(a)' = Echoing(a)
    BY <1>1, <1>4 DEF Echoing
  <2>6. ASSUME NEW a \in Correct
        PROVE  /\ \A x, w \in Echoing(a)' : x = w
               /\ Echoed(sent')[a] # {} => sentEcho'[a]
               /\ Sender \in Correct => \A w \in Echoing(a)' : w = broadcast'
    <3>1. CASE a = p BY <1>1, <2>1, <2>2, <2>3, <2>4, <3>1
    <3>2. CASE a # p BY <1>1, <2>5, <3>2 DEF OneDoubleEcho
    <3> QED BY <3>1, <3>2
  <2> QED BY <2>6 DEF OneDoubleEcho
<1>9. MessagesSent' BY <1>1 DEF MessagesSent
<1>10. ReadysCertified' BY <1>1, <1>6 DEF ReadysCertified
<1> QED BY <1>5, <1>7, <1>8, <1>9, <1>10

\* handleSendMessage: the echo.
LEMMA DoubleSendsEcho ==
    ASSUME DoubleInv, NEW p \in Correct, NEW b \in busy[p], Double!SendEcho(p, b)
    PROVE  DoubleInv' /\ Handles(p, busy[p] \ {b}, {}, flag[p])
<1> USE DEF DoubleInv
<1>1. /\ UNCHANGED <<broadcast, sentReady, flag, echos, readys, delivered, count>>
      /\ busy' = [busy EXCEPT ![p] = busy[p] \ {b}]
      /\ sentEcho' = [sentEcho EXCEPT ![p] = TRUE]
      /\ sent' = sent \cup {b.msg} /\ b.op = "echo"
  BY DEF Double!SendEcho
<1>2. /\ b.msg \in MessageType /\ b.msg.type = "echo" /\ b.msg.from = p
  BY <1>1 DEF ReadysCertified, EntryOK
<1>3. Handles(p, busy[p] \ {b}, {}, flag[p])
  <2>1. /\ DOMAIN busy' = Correct /\ busy'[p] = (busy[p] \ {b}) \cup {}
        /\ \A a \in Correct : a # p => busy'[a] = busy[a]
    BY <1>1 DEF DoubleTypeOK
  <2> QED BY <2>1 DEF Handles
<1>4. /\ DOMAIN busy' = Correct
      /\ \A a \in Correct : IsFiniteSet(busy'[a])
      /\ \A a \in Correct : \A x \in busy'[a] : EntryOK(a, x, sent')
      /\ \A a \in Correct : \A x \in busy'[a] : x \in busy[a] \/ x.op \in {}
  BY <1>1, <1>3, HandlesEntries
<1>5. DoubleTypeOK' BY <1>1, <1>2, <1>4 DEF DoubleTypeOK
<1>6. OneDoubleEcho'
  <2>1. \A v : Double!Echo(p, v) = b.msg => v = b.msg.inner BY DEF Double!Echo
  <2>2. Echoed(sent')[p] \subseteq Echoed(sent)[p] \cup {b.msg.inner}
    BY <1>1, <2>1 DEF Echoed
  <2>3. \A a \in Correct : a # p => Echoed(sent')[a] = Echoed(sent)[a]
    BY <1>1, <1>2 DEF Echoed, Double!Echo
  <2>4. b.msg.inner \in Echoing(p) BY <1>1 DEF Echoing
  <2>5. \A a \in Correct : Echoing(a)' \subseteq Echoing(a)
    BY <1>4, <2>2, <2>3, <2>4 DEF Echoing
  <2>6. sentEcho'[p] /\ \A a \in Correct : a # p => sentEcho'[a] = sentEcho[a]
    BY <1>1 DEF DoubleTypeOK
  <2>7. \A a \in Correct : Echoed(sent')[a] # {} => sentEcho'[a]
    BY <2>3, <2>6 DEF OneDoubleEcho
  <2> QED BY <1>1, <2>5, <2>7 DEF OneDoubleEcho
<1>7. MessagesSent' BY <1>1 DEF MessagesSent
<1>8. ReadysCertified' BY <1>1, <1>2, <1>4, DoubleGrows DEF ReadysCertified
<1> QED BY <1>3, <1>5, <1>6, <1>7, <1>8

\* checkReadyStage and checkEnhanceReady: a ready, own or relayed, goes out.
LEMMA DoubleSendsReady ==
    ASSUME DoubleInv, NEW p \in Correct, NEW b \in busy[p],
           Double!SendReady(p, b) \/ Double!RelayReady(p, b)
    PROVE  /\ DoubleInv' /\ Handles(p, busy[p] \ {b}, {"deliver"}, flag[p])
           /\ UNCHANGED <<flag, delivered, count>>
<1> USE DEF DoubleInv
<1>1. /\ UNCHANGED <<broadcast, sentEcho, flag, echos, readys, delivered, count>>
      /\ sentReady' = [sentReady EXCEPT ![p] = TRUE]
      /\ sent' = sent \cup {b.msg} /\ b.op \in {"ready", "relay"}
  BY DEF Double!SendReady, Double!RelayReady
<1>2. /\ b.msg \in MessageType /\ b.msg.type = "ready"
      /\ EchoedByQuorum(sent, b.msg.inner)
  BY <1>1 DEF ReadysCertified, EntryOK
<1>3. Handles(p, busy[p] \ {b}, {"deliver"}, flag[p])
  <2>1. CASE Double!SendReady(p, b)
    <3>1. /\ DOMAIN busy' = Correct /\ busy'[p] = (busy[p] \ {b}) \cup {}
          /\ \A a \in Correct : a # p => busy'[a] = busy[a]
      BY <2>1 DEF DoubleTypeOK, Double!SendReady
    <3> QED BY <3>1 DEF Handles
  <2>2. CASE Double!RelayReady(p, b)
    <3>1. readys'[p] = readys[p] /\ readys[p] \in [Processes -> ValuesOrNone]
      BY <1>1 DEF DoubleTypeOK
    <3>2. \A c \in Correct : readys'[p][c] # None => Double!Ready(c, readys'[p][c]) \in sent
      BY <3>1 DEF MessagesSent
    <3>3. Double!CheckDeliver(p, busy[p] \ {b}) BY <2>2 DEF Double!RelayReady
    <3>4. busy[p] \ {b} \in SUBSET busy[p] OBVIOUS
    <3> QED BY <1>1, <3>1, <3>2, <3>3, <3>4, DoubleChecks DEF DoubleTypeOK
  <2> QED BY <2>1, <2>2
<1>4. /\ DOMAIN busy' = Correct
      /\ \A a \in Correct : IsFiniteSet(busy'[a])
      /\ \A a \in Correct : \A x \in busy'[a] : EntryOK(a, x, sent')
      /\ \A a \in Correct : \A x \in busy'[a] : x \in busy[a] \/ x.op \in {"deliver"}
  BY <1>1, <1>3, HandlesEntries
<1>5. DoubleTypeOK' BY <1>1, <1>2, <1>4 DEF DoubleTypeOK
<1>6. OneDoubleEcho' BY <1>1, <1>2, <1>4, NoNewEcho
<1>7. MessagesSent' BY <1>1 DEF MessagesSent
<1>8. ReadysCertified' BY <1>1, <1>2, <1>4, DoubleGrows DEF ReadysCertified
<1> QED BY <1>1, <1>3, <1>5, <1>6, <1>7, <1>8

\* The value of a quorum of readys is handed up.
LEMMA DoubleDelivers ==
    ASSUME DoubleInv, NEW p \in Correct, NEW b \in busy[p], Double!DeliverReady(p, b)
    PROVE  DoubleInv' /\ Handles(p, busy[p] \ {b}, {}, flag[p])
<1> USE DEF DoubleInv
<1>1. /\ UNCHANGED <<broadcast, sentEcho, sentReady, sent, echos, readys>>
      /\ busy' = [busy EXCEPT ![p] = busy[p] \ {b}]
      /\ flag' = [flag EXCEPT ![p] = TRUE]
  BY DEF Double!DeliverReady
<1>2. b.msg.inner \in Values /\ EchoedByQuorum(sent, b.msg.inner)
  BY DEF Double!DeliverReady, ReadysCertified, EntryOK, MessageType
<1>3. Handles(p, busy[p] \ {b}, {}, flag[p])
  <2>1. /\ DOMAIN busy' = Correct /\ busy'[p] = (busy[p] \ {b}) \cup {}
        /\ \A a \in Correct : a # p => busy'[a] = busy[a]
    BY <1>1 DEF DoubleTypeOK
  <2> QED BY <2>1 DEF Handles
<1>4. /\ DOMAIN busy' = Correct
      /\ \A a \in Correct : IsFiniteSet(busy'[a])
      /\ \A a \in Correct : \A x \in busy'[a] : EntryOK(a, x, sent')
      /\ \A a \in Correct : \A x \in busy'[a] : x \in busy[a] \/ x.op \in {}
  BY <1>1, <1>3, HandlesEntries
<1>5. /\ delivered' \in [Correct -> ValuesOrNone] /\ count' \in [Correct -> Nat]
      /\ \A a \in Correct : delivered'[a] \in {delivered[a], b.msg.inner}
  <2>1. CASE UNCHANGED <<delivered, count>> BY <2>1 DEF DoubleTypeOK
  <2>2. ASSUME delivered' = [delivered EXCEPT ![p] = b.msg.inner],
               count' = [count EXCEPT ![p] = @ + 1]
        PROVE  <1>5
    <3>1. delivered \in [Correct -> ValuesOrNone] /\ count \in [Correct -> Nat]
      BY DEF DoubleTypeOK
    <3>2. count[p] + 1 \in Nat BY <3>1
    <3>3. count' \in [Correct -> Nat] BY <2>2, <3>1, <3>2
    <3>4. b.msg.inner \in ValuesOrNone BY <1>2 DEF ValuesOrNone
    <3> QED BY <2>2, <3>1, <3>3, <3>4
  <2> QED BY <2>1, <2>2 DEF Double!DeliverReady
<1>6. DoubleTypeOK' BY <1>1, <1>4, <1>5 DEF DoubleTypeOK
<1>7. OneDoubleEcho' BY <1>1, <1>4, NoNewEcho
<1>8. MessagesSent' BY <1>1 DEF MessagesSent
<1>9. ReadysCertified' BY <1>1, <1>2, <1>4, <1>5 DEF ReadysCertified
<1> QED BY <1>3, <1>6, <1>7, <1>8, <1>9


\* No step leaves the invariant.
LEMMA DoubleInvStep == Serial /\ DoubleInv /\ [Double!Next]_Double!vars => DoubleInv'
<1> SUFFICES ASSUME Serial, DoubleInv, [Double!Next]_Double!vars PROVE DoubleInv' OBVIOUS
<1>0. CASE UNCHANGED Double!vars
  BY <1>0 DEF Double!vars, Double!protocolVars, DoubleInv, DoubleTypeOK, OneDoubleEcho,
              Echoing, MessagesSent, ReadysCertified
<1>1. ASSUME NEW v \in Values, Double!Broadcast(v) PROVE DoubleInv'
  <2> USE DEF DoubleInv
  <2>1. /\ UNCHANGED <<busy, sentEcho, sentReady, flag, echos, readys, sent, delivered, count>>
        /\ Sender \in Correct /\ broadcast = None /\ broadcast' = v
    BY <1>1 DEF Double!Broadcast, Double!protocolVars
  <2>2. DoubleTypeOK' BY <2>1 DEF DoubleTypeOK, ValuesOrNone
  <2>3. OneDoubleEcho'
    <3>1. ASSUME NEW p \in Correct PROVE Echoing(p) = {}
      <4>1. \A w \in Echoing(p) : w = None BY <2>1 DEF OneDoubleEcho
      <4>2. \A w \in Echoing(p) : w \in Values
        BY DEF Echoing, Echoed, ReadysCertified, EntryOK, MessageType
      <4> QED BY <4>1, <4>2
    <3>2. \A p \in Correct : Echoing(p)' = Echoing(p) BY <2>1 DEF Echoing
    <3> QED BY <2>1, <3>1, <3>2 DEF OneDoubleEcho
  <2>4. MessagesSent' /\ ReadysCertified' BY <2>1 DEF MessagesSent, ReadysCertified
  <2> QED BY <2>2, <2>3, <2>4
<1>2. ASSUME NEW v \in Values, NEW p \in Correct, Double!EnterSend(p, v) PROVE DoubleInv'
  BY <1>2, DoubleEntersSend
<1>3. ASSUME NEW v \in Values, NEW p \in Correct, NEW q \in Processes,
             Double!ReceiveEcho(p, q, v)
      PROVE  DoubleInv'
  BY <1>3, DoubleReceivesEcho
<1>4. ASSUME NEW v \in Values, NEW p \in Correct, NEW q \in Processes,
             Double!ReceiveReady(p, q, v)
      PROVE  DoubleInv'
  BY <1>4, DoubleReceivesReady
<1>5. ASSUME NEW p \in Correct, NEW b \in busy[p], Double!Act(p, b) PROVE DoubleInv'
  BY <1>5, DoubleSendsEcho, DoubleSendsReady, DoubleDelivers DEF Double!Act
<1> QED BY <1>0, <1>1, <1>2, <1>3, <1>4, <1>5, SameOperators DEF Double!Next

\* Echoes are unique, no message of a correct process is forged, and every ready and
\* every delivered value was echoed by a Byzantine quorum: the inductive invariant of
\* the double echo broadcast.
THEOREM DoubleCorrect == Serial /\ Double!Spec => []DoubleInv
<1> SUFFICES ASSUME Serial PROVE Double!Spec => []DoubleInv OBVIOUS
<1>1. DoubleInv /\ [Double!Next]_Double!vars => DoubleInv' BY DoubleInvStep
<1> QED BY DoubleInvInit, <1>1, PTL DEF Double!Spec

\* All readys are for one value.
LEMMA DoubleReadysAgree == DoubleInv => Double!ReadysAgree
  BY DoubleCertified DEF DoubleInv, ReadysCertified, Double!ReadysAgree

\* The double echo broadcast is a consistent broadcast, step by step: DeliverReady is a
\* delivery, or hands the same value up again, or nothing.
LEMMA DoubleSimulates ==
    DoubleInv /\ DoubleInv' /\ [Double!Next]_Double!vars => [CB!Next]_CB!vars
<1> SUFFICES ASSUME DoubleInv, DoubleInv', [Double!Next]_Double!vars
             PROVE  [CB!Next]_CB!vars
  OBVIOUS
<1>0. CASE UNCHANGED Double!vars BY <1>0 DEF Double!vars, CB!vars
<1>1. ASSUME NEW v \in Values, Double!Broadcast(v) PROVE CB!Next
  BY <1>1 DEF Double!Broadcast, CB!Broadcast, CB!Next
<1>2. ASSUME NEW v \in Values, NEW p \in Correct, Double!EnterSend(p, v)
      PROVE  UNCHANGED CB!vars
  BY <1>2 DEF Double!EnterSend, CB!vars
<1>3. ASSUME NEW v \in Values, NEW p \in Correct, NEW q \in Processes,
             Double!ReceiveEcho(p, q, v) \/ Double!ReceiveReady(p, q, v)
      PROVE  UNCHANGED CB!vars
  BY <1>3 DEF Double!ReceiveEcho, Double!ReceiveReady, CB!vars
<1>4. ASSUME NEW p \in Correct, NEW b \in busy[p],
             Double!SendEcho(p, b) \/ Double!SendReady(p, b) \/ Double!RelayReady(p, b)
      PROVE  UNCHANGED CB!vars
  BY <1>4 DEF Double!SendEcho, Double!SendReady, Double!RelayReady, CB!vars
<1>5. ASSUME NEW p \in Correct, NEW b \in busy[p], Double!DeliverReady(p, b)
      PROVE  [CB!Next]_CB!vars
  <2> DEFINE v == b.msg.inner
  <2> USE DEF DoubleInv
  <2>1. v \in Values /\ EchoedByQuorum(sent, v)
    BY <1>5 DEF Double!DeliverReady, ReadysCertified, EntryOK, MessageType
  <2>2. /\ \A w : EchoedByQuorum(sent, w) => v = w
        /\ Sender \in Correct => v = broadcast
    BY <2>1, DoubleCertified
  <2>3. \A a \in Correct : delivered[a] \in {None, v} BY <2>2 DEF ReadysCertified
  <2>4. broadcast' = broadcast BY <1>5 DEF Double!DeliverReady
  <2>5. delivered \in [Correct -> ValuesOrNone] BY DEF DoubleTypeOK
  <2>6. CASE UNCHANGED delivered BY <2>4, <2>6 DEF CB!vars
  <2>7. CASE delivered' = [delivered EXCEPT ![p] = v]
    <3>1. CASE delivered[p] = None
      BY <2>1, <2>2, <2>3, <2>4, <2>7, <3>1 DEF CB!Next, CB!Deliver
    <3>2. CASE delivered[p] # None
      <4>1. delivered' = delivered BY <2>3, <2>5, <2>7, <3>2
      <4> QED BY <2>4, <4>1 DEF CB!vars
    <3> QED BY <3>1, <3>2
  <2> QED BY <1>5, <2>6, <2>7 DEF Double!DeliverReady
<1> QED BY <1>0, <1>1, <1>2, <1>3, <1>4, <1>5, SameOperators DEF Double!Next, Double!Act

\* The double echo broadcast implements the consistent broadcast (checkDeliver),
\* whatever faulty processes send and relay.
THEOREM DoubleImplements == Serial /\ Double!Spec => CB!Spec
<1> SUFFICES ASSUME Serial PROVE Double!Spec => CB!Spec OBVIOUS
<1>1. Double!Init => CB!Init BY DEF Double!Init, CB!Init
<1> QED BY <1>1, DoubleSimulates, DoubleCorrect, PTL DEF Double!Spec, CB!Spec

\* One handler at a time: a process has one entry at most, has handed nothing up while
\* flag is not set, and goes on to deliver only while it is not.
Once ==
    \A p \in Correct :
        /\ \A b, c \in busy[p] : b = c
        /\ count[p] <= 1
        /\ ~flag[p] => count[p] = 0
        /\ \A b \in busy[p] : b.op = "deliver" => ~flag[p]

\* A step of p that leaves no other entry than its own, and counts nothing.
LEMMA OnceHandles ==
    ASSUME Once, NEW p \in Correct, NEW others, others = {}, NEW ops,
           Handles(p, others, ops, flag[p]), UNCHANGED <<flag, count>>
    PROVE  Once'
<1>1. PICK N : /\ DOMAIN busy' = Correct /\ busy'[p] = others \cup N
               /\ \A a \in Correct : a # p => busy'[a] = busy[a]
               /\ \/ N = {}
                  \/ \E b : /\ N = {b} /\ b.op \in ops /\ EntryOK(p, b, sent')
                            /\ b.op = "deliver" => ~flag[p]
  BY DEF Handles
<1>2. /\ \A b, c \in busy'[p] : b = c
      /\ \A b \in busy'[p] : b.op = "deliver" => ~flag[p]
  BY <1>1
<1> QED BY <1>1, <1>2 DEF Once

LEMMA OnceStep ==
    Readers = 1 /\ DoubleInv /\ Once /\ [Double!Next]_Double!vars => Once'
<1> SUFFICES ASSUME Readers = 1, DoubleInv, Once, [Double!Next]_Double!vars PROVE Once'
  OBVIOUS
<1>0. CASE UNCHANGED <<busy, flag, count>> BY <1>0 DEF Once
<1>1. Serial BY DEF Serial
<1>2. ASSUME NEW p \in Correct, Double!Idle(p) PROVE busy[p] = {}
  <2>1. IsFiniteSet(busy[p]) BY DEF DoubleInv, DoubleTypeOK
  <2>2. Cardinality(busy[p]) < 1 BY <1>2, SameCardinality DEF Double!Idle
  <2>3. Cardinality(busy[p]) = 0 BY <2>1, <2>2, FS_CardinalityType
  <2> QED BY <2>1, <2>3, FS_EmptySet
<1>3. ASSUME NEW v \in Values, NEW p \in Correct, Double!EnterSend(p, v) PROVE Once'
  <2>1. busy[p] = {} /\ UNCHANGED <<flag, count>>
    BY <1>2, <1>3 DEF Double!EnterSend, Double!protocolVars
  <2> QED BY <1>1, <1>3, <2>1, DoubleEntersSend, OnceHandles
<1>4. ASSUME NEW v \in Values, NEW p \in Correct, NEW q \in Processes,
             Double!ReceiveEcho(p, q, v)
      PROVE  Once'
  <2>1. busy[p] = {} /\ UNCHANGED <<flag, count>> BY <1>2, <1>4 DEF Double!ReceiveEcho
  <2> QED BY <1>4, <2>1, DoubleReceivesEcho, OnceHandles
<1>5. ASSUME NEW v \in Values, NEW p \in Correct, NEW q \in Processes,
             Double!ReceiveReady(p, q, v)
      PROVE  Once'
  <2>1. busy[p] = {} /\ UNCHANGED <<flag, count>> BY <1>2, <1>5 DEF Double!ReceiveReady
  <2> QED BY <1>5, <2>1, DoubleReceivesReady, OnceHandles
<1>6. ASSUME NEW p \in Correct, NEW b \in busy[p] PROVE busy[p] \ {b} = {}
  BY DEF Once
<1>7. ASSUME NEW p \in Correct, NEW b \in busy[p], Double!SendEcho(p, b) PROVE Once'
  <2>1. UNCHANGED <<flag, count>> BY <1>7 DEF Double!SendEcho
  <2>2. Handles(p, busy[p] \ {b}, {}, flag[p]) BY <1>7, DoubleSendsEcho
  <2>3. busy[p] \ {b} = {} BY <1>6
  <2> QED BY <2>1, <2>2, <2>3, OnceHandles
<1>8. ASSUME NEW p \in Correct, NEW b \in busy[p],
             Double!SendReady(p, b) \/ Double!RelayReady(p, b)
      PROVE  Once'
  <2>1. Handles(p, busy[p] \ {b}, {"deliver"}, flag[p]) /\ UNCHANGED <<flag, count>>
    BY <1>8, DoubleSendsReady
  <2>2. busy[p] \ {b} = {} BY <1>6
  <2> QED BY <2>1, <2>2, OnceHandles
<1>9. ASSUME NEW p \in Correct, NEW b \in busy[p], Double!DeliverReady(p, b) PROVE Once'
  <2>1. /\ b.op = "deliver" /\ busy' = [busy EXCEPT ![p] = busy[p] \ {b}]
        /\ flag' = [flag EXCEPT ![p] = TRUE]
        /\ count' = count \/ count' = [count EXCEPT ![p] = @ + 1]
    BY <1>9 DEF Double!DeliverReady
  <2>2. count[p] = 0 BY <2>1 DEF Once
  <2>3. /\ DOMAIN busy = Correct /\ flag \in [Correct -> BOOLEAN]
        /\ count \in [Correct -> Nat]
    BY DEF DoubleInv, DoubleTypeOK
  <2>4. /\ busy'[p] = {} /\ flag'[p] /\ count'[p] <= 1
        /\ \A a \in Correct : a # p => /\ busy'[a] = busy[a]
                                       /\ flag'[a] = flag[a] /\ count'[a] = count[a]
    <3>1. busy'[p] = {} /\ \A a \in Correct : a # p => busy'[a] = busy[a]
      BY <1>6, <2>1, <2>3
    <3>2. flag'[p] /\ \A a \in Correct : a # p => flag'[a] = flag[a] BY <2>1, <2>3
    <3>3. count'[p] <= 1 BY <2>1, <2>2, <2>3
    <3>4. \A a \in Correct : a # p => count'[a] = count[a] BY <2>1, <2>3
    <3> QED BY <3>1, <3>2, <3>3, <3>4
  <2> QED BY <2>4 DEF Once
<1>10. ASSUME NEW v \in Values, Double!Broadcast(v) PROVE UNCHANGED <<busy, flag, count>>
  BY <1>10 DEF Double!Broadcast, Double!protocolVars
<1> QED BY <1>0, <1>3, <1>4, <1>5, <1>7, <1>8, <1>9, <1>10, SameOperators
        DEF Double!Next, Double!Act, Double!vars, Double!protocolVars


LEMMA OnceInit == Double!Init => Once
  BY DEF Double!Init, Once

-----------------------------------------------------------------------------
(* The promises of the three, as they are checked: protocol says which it is *)

\* A step of a behaviour is one of its protocol; the protocols that are not Byzantine
\* broadcasters leave the variables of those alone.
LEMMA StepsOfProtocol ==
    ASSUME [Next]_vars
    PROVE  /\ protocol' = protocol
           /\ protocol = "echo" => [Echo!Next]_Echo!vars
           /\ protocol = "signed" => [Signed!Next]_Signed!vars
           /\ protocol = "double echo" => [Double!Next]_Double!vars
           /\ protocol \notin {"echo", "signed", "double echo"} => UNCHANGED CB!vars
<1>1. CASE UNCHANGED vars
  BY <1>1 DEF vars, byzantineVars, commonVars, Echo!vars, Signed!vars, Double!vars,
              Double!protocolVars, CB!vars
<1>2. ASSUME UNCHANGED byzantineVars
      PROVE  /\ UNCHANGED Echo!vars /\ UNCHANGED Signed!vars /\ UNCHANGED Double!vars
             /\ UNCHANGED CB!vars
  BY <1>2 DEF byzantineVars, commonVars, Echo!vars, Signed!vars, Double!vars,
              Double!protocolVars, CB!vars
<1>3. CASE Next
  <2>1. protocol' = protocol BY <1>3 DEF Next
  <2>2. CASE UNCHANGED byzantineVars BY <1>2, <2>1, <2>2
  <2>3. CASE \/ protocol = "echo" /\ Echo!Next
             \/ protocol = "signed" /\ Signed!Next
             \/ protocol = "double echo" /\ Double!Next
    BY <2>1, <2>3
  <2> QED BY <1>3, <2>2, <2>3 DEF Next
<1> QED BY <1>1, <1>3

LEMMA InitOfProtocol ==
    Init => /\ CB!Init
            /\ protocol = "echo" => Echo!Init
            /\ protocol = "signed" => Signed!Init
            /\ protocol = "double echo" => Double!Init
  BY DEF Init, CB!Init, Echo!Init, Signed!Init, Double!Init

ProtocolInv ==
    /\ protocol = "echo" => EchoInv
    /\ protocol = "signed" => SignedInv
    /\ protocol = "double echo" => DoubleInv

\* The inductive invariant of the protocol of a behaviour holds throughout.
LEMMA ProtocolInvHolds ==
    ASSUME Serial
    PROVE  Spec => []ProtocolInv
<1>1. Init => ProtocolInv
  BY InitOfProtocol, EchoInvInit, SignedInvInit, DoubleInvInit DEF ProtocolInv
<1>2. ProtocolInv /\ [Next]_vars => ProtocolInv'
  BY StepsOfProtocol, EchoInvStep, SignedInvStep, DoubleInvStep DEF ProtocolInv
<1> QED BY <1>1, <1>2, PTL DEF Spec

\* The three broadcasters implement the consistent broadcast, whatever a faulty sender
\* says to whom (maybeDeliverInner, handleFinal, checkDeliver).
THEOREM BroadcastsConsistent == Serial /\ Spec => Consistent
<1> SUFFICES ASSUME Serial PROVE Spec => CB!Spec BY DEF Consistent
<1>1. Init => CB!Init BY InitOfProtocol
<1>2. ProtocolInv /\ ProtocolInv' /\ [Next]_vars => [CB!Next]_CB!vars
  BY StepsOfProtocol, EchoSimulates, SignedSimulates, DoubleSimulates DEF ProtocolInv
<1>3. Spec => []ProtocolInv BY ProtocolInvHolds
<1> QED BY <1>1, <1>2, <1>3, PTL DEF Spec, CB!Spec

\* Quorums of echoes are for one value (maybeDeliverInner).
THEOREM EchoesIntersect == Serial /\ Spec => []QuorumsIntersect
<1> SUFFICES ASSUME Serial PROVE Spec => []QuorumsIntersect OBVIOUS
<1>1. ProtocolInv => QuorumsIntersect
  BY EchoQuorumsMeet DEF ProtocolInv, QuorumsIntersect
<1>2. Spec => []ProtocolInv BY ProtocolInvHolds
<1> QED BY <1>1, <1>2, PTL

\* Readys of correct processes, own or relayed, are for one value (checkReadyStage,
\* checkEnhanceReady).
THEOREM ReadysForOneValue == Serial /\ Spec => []ReadysAgree
<1> SUFFICES ASSUME Serial PROVE Spec => []ReadysAgree OBVIOUS
<1>1. ProtocolInv => ReadysAgree BY DoubleReadysAgree DEF ProtocolInv, ReadysAgree
<1>2. Spec => []ProtocolInv BY ProtocolInvHolds
<1> QED BY <1>1, <1>2, PTL

\* A process hands one value up, once, where handlers do not overlap (checkDeliver).
THEOREM DeliversOnce == Readers = 1 /\ Spec => []NoDuplication
<1> SUFFICES ASSUME Readers = 1 PROVE Spec => []NoDuplication OBVIOUS
<1> DEFINE OnceInv == protocol = "double echo" => Once
<1>1. Init => OnceInv BY InitOfProtocol, OnceInit
<1>2. ProtocolInv /\ OnceInv /\ [Next]_vars => OnceInv'
  BY StepsOfProtocol, OnceStep DEF ProtocolInv
<1>3. OnceInv => NoDuplication BY DEF Once, NoDuplication, Double!NoDuplication
<1>4. Spec => []ProtocolInv BY ProtocolInvHolds DEF Serial
<1> HIDE DEF OnceInv
<1> QED BY <1>1, <1>2, <1>3, <1>4, PTL DEF Spec


-----------------------------------------------------------------------------
(* The lazy and the eager reliable broadcast *)

Origins == Correct \cup {Originator}

ReliableTypeOK ==
    /\ alive \in SUBSET Correct
    /\ correct \in [Correct -> SUBSET Correct]
    /\ outbox \in [Correct -> SUBSET (Origins \X Correct \X {"caller", "own"})]
    /\ pending \in [Correct -> SUBSET Origins]
    /\ received \in [Correct -> SUBSET Origins]
    /\ rbDelivered \in [Correct -> SUBSET Origins]

\* A process has sent m to everybody again, or is about to, under its own context.
Relayed(p, m) == \A q \in Correct : <<m, q, "own">> \in outbox[p] \/ <<m, q>> \in rbSent

\* What is handed up is recorded when its handler is done; what is recorded is relayed,
\* by the lazy broadcaster unless the origin is taken for correct.
RelaysKept(eager) ==
    \A p \in alive :
        /\ \A m \in rbDelivered[p] : m \in pending[p] \/ m \in received[p]
        /\ \A m \in received[p] : (~eager /\ m \in correct[p]) \/ Relayed(p, m)

\* A step of p that takes nothing from what any process has sent or is about to send
\* again.
LEMMA RelayedStays ==
    ASSUME rbSent \subseteq rbSent',
           \A a \in alive' : \A m, q : <<m, q, "own">> \in outbox[a] =>
                <<m, q, "own">> \in outbox'[a] \/ <<m, q>> \in rbSent'
    PROVE  \A a \in alive' : \A m : Relayed(a, m) => Relayed(a, m)'
  BY DEF Relayed

LEMMA ReliableStep ==
    ASSUME NEW eager \in BOOLEAN, ReliableTypeOK, RelaysKept(eager), Reliable(eager)!Next
    PROVE  ReliableTypeOK' /\ RelaysKept(eager)'
<1> USE DEF ReliableTypeOK
<1>1. ASSUME NEW p \in Correct, Reliable(eager)!Broadcast(p)
      PROVE  ReliableTypeOK' /\ RelaysKept(eager)'
  <2>1. /\ UNCHANGED <<alive, correct, rbSent, pending, received, rbDelivered>>
        /\ outbox' = [outbox EXCEPT ![p] = @ \cup ({p} \X Correct \X {"caller"})]
    BY <1>1 DEF Reliable!Broadcast, Reliable!ToAll
  <2>2. ReliableTypeOK' BY <2>1 DEF Origins
  <2>3. \A a \in alive' : \A m : Relayed(a, m) => Relayed(a, m)' BY <2>1, RelayedStays
  <2> QED BY <2>1, <2>2, <2>3 DEF RelaysKept
<1>2. ASSUME NEW p \in Correct, NEW s \in outbox[p], Reliable(eager)!SendOne(p, s)
      PROVE  ReliableTypeOK' /\ RelaysKept(eager)'
  <2>1. /\ UNCHANGED <<alive, correct, pending, received, rbDelivered>>
        /\ outbox' = [outbox EXCEPT ![p] = @ \ {s}]
        /\ rbSent' = rbSent \cup {<<s[1], s[2]>>}
    BY <1>2 DEF Reliable!SendOne
  <2>2. ReliableTypeOK' BY <2>1
  <2>3. \A a \in alive' : \A m : Relayed(a, m) => Relayed(a, m)' BY <2>1, RelayedStays
  <2> QED BY <2>1, <2>2, <2>3 DEF RelaysKept
<1>3. ASSUME NEW p \in Correct, Reliable(eager)!Cancel(p)
      PROVE  ReliableTypeOK' /\ RelaysKept(eager)'
  <2>1. /\ UNCHANGED <<alive, correct, rbSent, pending, received, rbDelivered>>
        /\ outbox' = [outbox EXCEPT ![p] = @ \ ({p} \X Correct \X {"caller"})]
    BY <1>3 DEF Reliable!Cancel, Reliable!ToAll
  <2>2. ReliableTypeOK' BY <2>1
  <2>3. \A a \in alive' : \A m : Relayed(a, m) => Relayed(a, m)' BY <2>1, RelayedStays
  <2> QED BY <2>1, <2>2, <2>3 DEF RelaysKept
<1>4. ASSUME NEW p \in Correct, NEW m \in {Originator}, Reliable(eager)!Deliver(p, m)
      PROVE  ReliableTypeOK' /\ RelaysKept(eager)'
  <2>1. /\ UNCHANGED <<alive, correct, outbox, rbSent, received>>
        /\ rbDelivered' = [rbDelivered EXCEPT ![p] = @ \cup {m}]
        /\ pending' = [pending EXCEPT ![p] = @ \cup {m}]
    BY <1>4 DEF Reliable!Deliver
  <2>2. ReliableTypeOK' BY <2>1 DEF Origins
  <2>3. \A a \in alive' : \A k : Relayed(a, k) => Relayed(a, k)' BY <2>1, RelayedStays
  <2> QED BY <2>1, <2>2, <2>3 DEF RelaysKept
<1>5. ASSUME NEW p \in Correct, NEW m \in {Originator}, Reliable(eager)!Record(p, m)
      PROVE  ReliableTypeOK' /\ RelaysKept(eager)'
  <2>1. /\ UNCHANGED <<alive, correct, rbSent, rbDelivered>>
        /\ pending' = [pending EXCEPT ![p] = @ \ {m}]
        /\ received' = [received EXCEPT ![p] = @ \cup {m}]
        /\ \/ ~eager /\ m \in correct[p] /\ outbox' = outbox
           \/ outbox' = [outbox EXCEPT ![p] = @ \cup ({m} \X Correct \X {"own"})]
    BY <1>5 DEF Reliable!Record, Reliable!MustRelay, Reliable!ToAll
  <2>2. ReliableTypeOK' BY <2>1 DEF Origins
  <2>3. \A a \in alive' : \A k : Relayed(a, k) => Relayed(a, k)' BY <2>1, RelayedStays
  <2>4. (~eager /\ m \in correct'[p]) \/ Relayed(p, m)' BY <2>1 DEF Relayed
  <2> QED BY <2>1, <2>2, <2>3, <2>4 DEF RelaysKept
<1>6. ASSUME NEW p \in Correct, NEW q \in {Originator}, Reliable(eager)!OnCrash(p, q)
      PROVE  ReliableTypeOK' /\ RelaysKept(eager)'
  <2>1. /\ UNCHANGED <<alive, rbSent, pending, received, rbDelivered>>
        /\ correct' = [correct EXCEPT ![p] = @ \ {q}]
        /\ outbox' = [outbox EXCEPT ![p] =
                          @ \cup ((received[p] \cap {q}) \X Correct \X {"own"})]
    BY <1>6 DEF Reliable!OnCrash, Reliable!ToAll
  <2>2. ReliableTypeOK' BY <2>1
  <2>3. \A a \in alive' : \A k : Relayed(a, k) => Relayed(a, k)' BY <2>1, RelayedStays
  <2>4. q \in received[p] => Relayed(p, q)' BY <2>1 DEF Relayed
  <2> QED BY <2>1, <2>2, <2>3, <2>4 DEF RelaysKept
<1>7. ASSUME NEW p \in Correct, Reliable(eager)!Crash(p)
      PROVE  ReliableTypeOK' /\ RelaysKept(eager)'
  <2>1. /\ UNCHANGED <<correct, rbSent, received, rbDelivered>>
        /\ alive' = alive \ {p}
        /\ outbox' = [outbox EXCEPT ![p] = {}]
        /\ pending' = [pending EXCEPT ![p] = {}]
    BY <1>7 DEF Reliable!Crash
  <2>2. ReliableTypeOK' BY <2>1
  <2>3. \A a \in alive' : \A k : Relayed(a, k) => Relayed(a, k)' BY <2>1, RelayedStays
  <2> QED BY <2>1, <2>2, <2>3 DEF RelaysKept
<1> QED BY <1>1, <1>2, <1>3, <1>4, <1>5, <1>6, <1>7 DEF Reliable!Next

\* No message of a crashed origin is lost between Deliver and OnCrash, however the
\* critical sections of the two, crashes and ends of contexts interleave.
THEOREM NothingLost == Spec => []NoMessageLost
<1> DEFINE Inv == /\ ReliableTypeOK
                  /\ \A eager \in BOOLEAN : protocol = ReliableName(eager) => RelaysKept(eager)
<1>1. Init => Inv
  <2> SUFFICES ASSUME Init PROVE Inv OBVIOUS
  <2>1. Reliable(FALSE)!Init BY DEF Init
  <2>2. ReliableTypeOK BY <2>1 DEF Reliable!Init, ReliableTypeOK
  <2>3. \A eager \in BOOLEAN : RelaysKept(eager) BY <2>1 DEF Reliable!Init, RelaysKept
  <2> QED BY <2>2, <2>3
<1>2. Inv /\ [Next]_vars => Inv'
  <2> SUFFICES ASSUME Inv, [Next]_vars PROVE Inv' OBVIOUS
  <2>1. CASE UNCHANGED vars
    <3>1. protocol' = protocol /\ UNCHANGED reliableVars BY <2>1 DEF vars
    <3> QED BY <3>1 DEF reliableVars, ReliableTypeOK, RelaysKept, Relayed
  <2>2. CASE Next /\ UNCHANGED reliableVars
    <3>1. protocol' = protocol /\ UNCHANGED reliableVars BY <2>2 DEF Next
    <3> QED BY <3>1 DEF reliableVars, ReliableTypeOK, RelaysKept, Relayed
  <2>3. ASSUME NEW eager \in BOOLEAN, protocol = ReliableName(eager), protocol' = protocol,
               Reliable(eager)!Next
        PROVE  Inv'
    <3>1. ReliableTypeOK' /\ RelaysKept(eager)' BY <2>3, ReliableStep
    <3>2. \A other \in BOOLEAN : protocol = ReliableName(other) => other = eager
      BY <2>3 DEF ReliableName
    <3> QED BY <2>3, <3>1, <3>2 DEF ReliableName
  <2> QED BY <2>1, <2>2, <2>3 DEF Next
<1>3. Inv => NoMessageLost
  <2> SUFFICES ASSUME Inv, NEW eager \in BOOLEAN, protocol = ReliableName(eager)
               PROVE  Reliable(eager)!NoMessageLost
    BY DEF NoMessageLost
  <2>1. RelaysKept(eager) OBVIOUS
  <2> QED BY <2>1 DEF RelaysKept, Relayed, Reliable!NoMessageLost
<1> HIDE DEF Inv
<1> QED BY <1>1, <1>2, <1>3, PTL DEF Spec


-----------------------------------------------------------------------------
(* The Byzantine channel *)

ChannelMessages ==
    [type : {"send", "echo"}, from : Correct, sender : Correct, number : Nat, inner : Nat]
DomainMessages == [sender : Correct, number : Nat, inner : Nat]

ChannelTypeOK ==
    /\ n \in [Correct -> [Correct -> Nat]]
    /\ queue \in [Correct -> Seq(Nat)]
    /\ ready \in [Correct -> BOOLEAN]
    /\ asked \in [Correct -> Nat]
    /\ chSent \in SUBSET ChannelMessages
    /\ calls \in [Correct -> SUBSET DomainMessages]
    /\ upcalls \in [Correct -> SUBSET DomainMessages]
    /\ chDelivered \in [Correct -> SUBSET DomainMessages]

\* What an originator has broadcast in its instances so far.
Sends(p) == {m \in chSent : m.type = "send" /\ m.from = p}

\* Each instance carries one message, the current one exactly while ready is not set.
InstancesSingle ==
    \A p \in Correct :
        /\ ready[p] => \A m \in Sends(p) : m.number # n[p][p]
        /\ ~ready[p] => \E m \in Sends(p) : m.number = n[p][p]
        /\ \A m \in Sends(p) : m.number <= n[p][p] /\ m.inner = m.number + 1
        /\ \A l, m \in Sends(p) : l.number = m.number => l = m

\* The queue holds the messages asked for that come after the current instance.
QueueInOrder ==
    \A p \in Correct :
        /\ ready[p] => queue[p] = <<>> /\ asked[p] = n[p][p]
        /\ ~ready[p] => Len(queue[p]) = asked[p] - n[p][p] - 1
        /\ \A i \in 1 .. Len(queue[p]) : queue[p][i] = n[p][p] + 1 + i

\* The message of the originator that d or m repeats.
Origin(d) == Channel!Wrapped("send", d.sender, d.sender, d.number, d.inner)

\* Every echo and every delivery repeats what the originator broadcast.
RepeatsOrigin ==
    /\ \A m \in chSent : Origin(m) \in chSent
    /\ \A p \in Correct : \A d \in calls[p] \cup upcalls[p] \cup chDelivered[p] :
            Origin(d) \in chSent

ChannelInv == ChannelTypeOK /\ InstancesSingle /\ QueueInOrder /\ RepeatsOrigin

LEMMA ChannelInvInit == Channel!Init => ChannelInv
<1> SUFFICES ASSUME Channel!Init PROVE ChannelInv OBVIOUS
<1> USE DEF Channel!Init
<1>1. ChannelTypeOK BY DEF ChannelTypeOK
<1>2. InstancesSingle BY DEF InstancesSingle, Sends
<1>3. QueueInOrder BY DEF QueueInOrder
<1>4. RepeatsOrigin BY DEF RepeatsOrigin
<1> QED BY <1>1, <1>2, <1>3, <1>4 DEF ChannelInv

\* The message of an originator and its fields.
LEMMA WrappedFields ==
    ASSUME NEW t \in {"send", "echo"}, NEW f \in Correct, NEW s \in Correct,
           NEW k \in Nat, NEW i \in Nat
    PROVE  /\ Channel!Wrapped(t, f, s, k, i) \in ChannelMessages
           /\ Channel!Wrapped(t, f, s, k, i).type = t
           /\ Channel!Wrapped(t, f, s, k, i).from = f
           /\ Channel!Wrapped(t, f, s, k, i).sender = s
           /\ Channel!Wrapped(t, f, s, k, i).number = k
           /\ Channel!Wrapped(t, f, s, k, i).inner = i
           /\ Origin(Channel!Wrapped(t, f, s, k, i)) = Channel!Wrapped("send", s, s, k, i)
  BY DEF Channel!Wrapped, ChannelMessages, Origin

\* Broadcast, at an originator whose current instance is free.
LEMMA ChannelSendsFirst ==
    ASSUME ChannelInv, NEW p \in Correct, Channel!Broadcast(p), ready[p]
    PROVE  ChannelInv'
<1> USE DEF ChannelInv
<1> DEFINE k == n[p][p]
           w == Channel!Wrapped("send", p, p, k, k + 1)
<1>1. k \in Nat /\ asked[p] = k /\ queue[p] = <<>> BY DEF ChannelTypeOK, QueueInOrder
<1>2. /\ UNCHANGED <<n, calls, upcalls, chDelivered>>
      /\ asked' = [asked EXCEPT ![p] = k + 1]
    BY <1>1 DEF Channel!Broadcast, Channel!instanceVars
<1>3. asked'[p] = k + 1 BY <1>1, <1>2 DEF ChannelTypeOK
<1>4. /\ queue' = [queue EXCEPT ![p] = <<>>]
      /\ ready' = [ready EXCEPT ![p] = FALSE]
      /\ chSent' = chSent \cup {w}
  <2>1. Append(queue[p], asked'[p]) = <<k + 1>> BY <1>1, <1>3
  <2>2. Channel!Dequeue(p, <<k + 1>>, TRUE, k)
    BY <2>1 DEF Channel!Broadcast, ChannelTypeOK
  <2>3. Tail(<<k + 1>>) = <<>> /\ Head(<<k + 1>>) = k + 1 /\ <<k + 1>> # <<>> BY <1>1
  <2> QED BY <2>2, <2>3 DEF Channel!Dequeue
<1>5. /\ w \in ChannelMessages /\ w.type = "send" /\ w.from = p /\ w.number = k
      /\ w.inner = k + 1 /\ Origin(w) = w
  BY <1>1, WrappedFields
<1> HIDE DEF w
<1>6. ChannelTypeOK' BY <1>1, <1>2, <1>4, <1>5 DEF ChannelTypeOK
<1>7. Sends(p)' = Sends(p) \cup {w} /\ \A a \in Correct : a # p => Sends(a)' = Sends(a)
  BY <1>4, <1>5 DEF Sends
<1>8. ~ready'[p] /\ \A a \in Correct : a # p => ready'[a] = ready[a]
  BY <1>4 DEF ChannelTypeOK
<1>9. InstancesSingle' BY <1>1, <1>2, <1>5, <1>7, <1>8 DEF InstancesSingle
<1>10. /\ queue'[p] = <<>>
       /\ \A a \in Correct : a # p => queue'[a] = queue[a] /\ asked'[a] = asked[a]
  BY <1>2, <1>4 DEF ChannelTypeOK
<1>11. QueueInOrder' BY <1>1, <1>2, <1>3, <1>8, <1>10 DEF QueueInOrder
<1>12. RepeatsOrigin' BY <1>2, <1>4, <1>5 DEF RepeatsOrigin
<1> QED BY <1>6, <1>9, <1>11, <1>12

\* Broadcast, at an originator that waits for its current instance.
LEMMA ChannelQueues ==
    ASSUME ChannelInv, NEW p \in Correct, Channel!Broadcast(p), ~ready[p]
    PROVE  ChannelInv'
<1> USE DEF ChannelInv
<1>1. /\ UNCHANGED <<n, calls, upcalls, chDelivered>>
      /\ asked' = [asked EXCEPT ![p] = asked[p] + 1]
    BY DEF Channel!Broadcast, Channel!instanceVars
<1>2. asked'[p] = asked[p] + 1 BY <1>1 DEF ChannelTypeOK
<1>3. /\ queue' = [queue EXCEPT ![p] = Append(queue[p], asked[p] + 1)]
      /\ ready' = ready /\ chSent' = chSent
  BY <1>2 DEF Channel!Broadcast, Channel!Dequeue, ChannelTypeOK
<1>4. ChannelTypeOK'
  <2>1. queue[p] \in Seq(Nat) /\ asked[p] + 1 \in Nat BY DEF ChannelTypeOK
  <2>2. Append(queue[p], asked[p] + 1) \in Seq(Nat) BY <2>1
  <2> QED BY <1>1, <1>3, <2>1, <2>2 DEF ChannelTypeOK
<1>5. InstancesSingle' BY <1>1, <1>3 DEF InstancesSingle, Sends
<1>6. QueueInOrder'
  <2>1. /\ queue[p] \in Seq(Nat) /\ asked[p] \in Nat /\ n[p][p] \in Nat
        /\ queue'[p] = Append(queue[p], asked[p] + 1)
    BY <1>3 DEF ChannelTypeOK
  <2>2. /\ Len(queue[p]) = asked[p] - n[p][p] - 1
        /\ \A i \in 1 .. Len(queue[p]) : queue[p][i] = n[p][p] + 1 + i
    BY DEF QueueInOrder, ChannelTypeOK
  <2>3. /\ Len(queue'[p]) = asked'[p] - n[p][p] - 1
        /\ \A i \in 1 .. Len(queue'[p]) : queue'[p][i] = n[p][p] + 1 + i
    <3> DEFINE q == queue[p]
               t == Append(q, asked[p] + 1)
    <3>1. q \in Seq(Nat) /\ Len(q) \in Nat /\ Len(t) = Len(q) + 1
          /\ t[Len(q) + 1] = asked[p] + 1
          /\ \A i \in 1 .. Len(q) : t[i] = q[i]
      BY <2>1
    <3>2. Len(t) = asked'[p] - n[p][p] - 1 BY <1>2, <2>1, <2>2, <3>1
    <3>3. ASSUME NEW i \in 1 .. Len(t) PROVE t[i] = n[p][p] + 1 + i
      <4>1. CASE i = Len(q) + 1 BY <2>1, <2>2, <3>1, <4>1
      <4>2. CASE i # Len(q) + 1
        <5>1. i \in 1 .. Len(q) BY <3>1, <4>2
        <5> QED BY <2>2, <3>1, <5>1
      <4> QED BY <4>1, <4>2
    <3> QED BY <2>1, <3>2, <3>3
  <2>4. \A a \in Correct : a # p => queue'[a] = queue[a] /\ asked'[a] = asked[a]
    BY <1>1, <1>3 DEF ChannelTypeOK
  <2> QED BY <1>1, <1>3, <2>3, <2>4 DEF QueueInOrder
<1>7. RepeatsOrigin' BY <1>1, <1>3 DEF RepeatsOrigin
<1> QED BY <1>4, <1>5, <1>6, <1>7


\* onBCBDelivered for an instance of another originator, or one that is over.
LEMMA ChannelDeliversOther ==
    ASSUME ChannelInv, NEW p \in Correct, NEW d \in calls[p], Channel!OnBCBDelivered(p, d),
           d.sender # p \/ n[p][d.sender] # d.number
    PROVE  ChannelInv'
<1> USE DEF ChannelInv
<1>1. d \in DomainMessages /\ Origin(d) \in chSent BY DEF ChannelTypeOK, RepeatsOrigin
<1>2. /\ UNCHANGED <<queue, ready, asked, chSent, chDelivered>>
      /\ calls' = [calls EXCEPT ![p] = @ \ {d}]
      /\ \/ UNCHANGED <<n, upcalls>>
         \/ /\ n' = [n EXCEPT ![p][d.sender] = d.number + 1] /\ d.sender # p
            /\ upcalls' = [upcalls EXCEPT ![p] = @ \cup {d}]
  BY DEF Channel!OnBCBDelivered, Channel!instanceVars, Channel!queueVars
<1>3. d.sender \in Correct /\ d.number + 1 \in Nat BY <1>1 DEF DomainMessages
<1>4. ChannelTypeOK'
  <2>1. /\ n \in [Correct -> [Correct -> Nat]]
        /\ upcalls \in [Correct -> SUBSET DomainMessages]
        /\ calls \in [Correct -> SUBSET DomainMessages]
    BY DEF ChannelTypeOK
  <2>2. n' \in [Correct -> [Correct -> Nat]]
    <3>1. CASE n' = n BY <2>1, <3>1
    <3>2. CASE n' = [n EXCEPT ![p][d.sender] = d.number + 1] BY <1>3, <2>1, <3>2
    <3> QED BY <1>2, <3>1, <3>2
  <2>3. upcalls' \in [Correct -> SUBSET DomainMessages]
    <3>1. CASE upcalls' = upcalls BY <2>1, <3>1
    <3>2. CASE upcalls' = [upcalls EXCEPT ![p] = @ \cup {d}] BY <1>1, <2>1, <3>2
    <3> QED BY <1>2, <3>1, <3>2
  <2>4. calls' \in [Correct -> SUBSET DomainMessages] BY <1>2, <2>1
  <2> QED BY <1>2, <2>2, <2>3, <2>4 DEF ChannelTypeOK
<1>5. \A a \in Correct : n'[a][a] = n[a][a]
  <2>1. n \in [Correct -> [Correct -> Nat]] BY DEF ChannelTypeOK
  <2> QED BY <1>2, <1>3, <2>1
<1>6. InstancesSingle' BY <1>2, <1>5 DEF InstancesSingle, Sends
<1>7. QueueInOrder' BY <1>2, <1>5 DEF QueueInOrder
<1>8. RepeatsOrigin' BY <1>1, <1>2 DEF RepeatsOrigin, ChannelTypeOK
<1> QED BY <1>4, <1>6, <1>7, <1>8

\* onBCBDelivered for the current instance of the process's own messages: the next
\* message of the queue goes out in the next instance.
LEMMA ChannelDeliversOwn ==
    ASSUME ChannelInv, NEW p \in Correct, NEW d \in calls[p], Channel!OnBCBDelivered(p, d),
           d.sender = p, n[p][p] = d.number
    PROVE  ChannelInv'
<1> USE DEF ChannelInv
<1> DEFINE k == n[p][p]
           q == queue[p]
           w == Channel!Wrapped("send", p, p, k + 1, k + 2)
<1>1. d \in DomainMessages /\ Origin(d) \in chSent BY DEF ChannelTypeOK, RepeatsOrigin
<1>2. k \in Nat /\ q \in Seq(Nat) /\ asked[p] \in Nat BY DEF ChannelTypeOK
<1>3. ~ready[p]
  <2>1. Origin(d) = Channel!Wrapped("send", p, p, k, d.inner) BY DEF Origin
  <2>2. Origin(d).type = "send" /\ Origin(d).from = p /\ Origin(d).number = k
    BY <2>1 DEF Channel!Wrapped
  <2>3. Origin(d) \in Sends(p) BY <1>1, <2>2 DEF Sends
  <2> QED BY <2>2, <2>3 DEF InstancesSingle
<1>4. /\ Len(q) = asked[p] - k - 1 /\ \A i \in 1 .. Len(q) : q[i] = k + 1 + i
      /\ \A m \in Sends(p) : m.number <= k /\ m.inner = m.number + 1
      /\ \A l, m \in Sends(p) : l.number = m.number => l = m
  BY <1>3 DEF QueueInOrder, InstancesSingle
<1>5. /\ asked' = asked /\ chDelivered' = chDelivered
      /\ calls' = [calls EXCEPT ![p] = @ \ {d}]
      /\ n' = [n EXCEPT ![p][p] = k + 1]
      /\ upcalls' = [upcalls EXCEPT ![p] = @ \cup {d}]
      /\ Channel!Dequeue(p, q, TRUE, k + 1)
  BY DEF Channel!OnBCBDelivered, Channel!instanceVars, Channel!queueVars
<1>6. /\ n'[p][p] = k + 1 /\ \A a \in Correct : a # p => n'[a][a] = n[a][a]
      /\ n' \in [Correct -> [Correct -> Nat]]
  BY <1>2, <1>5 DEF ChannelTypeOK
<1>7. \A a \in Correct : \A m \in Sends(a) : m.type = "send" /\ m.from = a BY DEF Sends
<1>8. /\ calls' \in [Correct -> SUBSET DomainMessages]
      /\ upcalls' \in [Correct -> SUBSET DomainMessages]
      /\ \A a \in Correct : calls'[a] \cup upcalls'[a] \subseteq calls[a] \cup upcalls[a]
  BY <1>1, <1>5 DEF ChannelTypeOK
<1>9. CASE q = <<>>
  <2>1. /\ queue' = [queue EXCEPT ![p] = q] /\ ready' = [ready EXCEPT ![p] = TRUE]
        /\ chSent' = chSent
    BY <1>5, <1>9 DEF Channel!Dequeue
  <2>2. ChannelTypeOK' BY <1>5, <1>6, <1>8, <2>1 DEF ChannelTypeOK
  <2>3. /\ queue' = queue /\ ready'[p]
        /\ \A a \in Correct : a # p => ready'[a] = ready[a]
    BY <2>1 DEF ChannelTypeOK
  <2>4. InstancesSingle'
    <3>1. \A a \in Correct : Sends(a)' = Sends(a) BY <2>1 DEF Sends
    <3>2. \A m \in Sends(p) : m.number # k + 1
      <4> SUFFICES ASSUME NEW m \in Sends(p) PROVE m.number # k + 1 OBVIOUS
      <4>1. m.number \in Nat /\ m.number <= k BY <1>4 DEF Sends, ChannelTypeOK, ChannelMessages
      <4> QED BY <1>2, <4>1
    <3>3. \A m \in Sends(p) : m.number <= k + 1
      <4> SUFFICES ASSUME NEW m \in Sends(p) PROVE m.number <= k + 1 OBVIOUS
      <4>1. m.number \in Nat /\ m.number <= k BY <1>4 DEF Sends, ChannelTypeOK, ChannelMessages
      <4> QED BY <1>2, <4>1
    <3>4. ASSUME NEW a \in Correct
          PROVE  /\ ~ready'[a] => \E m \in Sends(a)' : m.number = n'[a][a]
                 /\ ready'[a] => \A m \in Sends(a)' : m.number # n'[a][a]
                 /\ \A m \in Sends(a)' : m.number <= n'[a][a] /\ m.inner = m.number + 1
                 /\ \A l, m \in Sends(a)' : l.number = m.number => l = m
      <4>1. CASE a = p BY <1>4, <1>6, <2>3, <3>1, <3>2, <3>3, <4>1
      <4>2. CASE a # p BY <1>6, <2>3, <3>1, <4>2 DEF InstancesSingle
      <4> QED BY <4>1, <4>2
    <3> QED BY <3>4 DEF InstancesSingle
  <2>5. QueueInOrder'
    <3>1. asked[p] = k + 1 BY <1>2, <1>4, <1>9
    <3> QED BY <1>5, <1>6, <1>9, <2>3, <3>1, SMTT(20) DEF QueueInOrder
  <2>6. RepeatsOrigin' BY <1>5, <1>8, <2>1 DEF RepeatsOrigin
  <2> QED BY <2>2, <2>4, <2>5, <2>6
<1>10. CASE q # <<>>
  <2>1. Head(q) = k + 2 /\ Tail(q) \in Seq(Nat) /\ Len(Tail(q)) = Len(q) - 1
        /\ \A i \in 1 .. Len(Tail(q)) : Tail(q)[i] = q[i + 1]
        /\ Len(q) \in Nat
    <3>1. 1 \in 1 .. Len(q) /\ Head(q) = q[1] /\ Len(q) \in Nat BY <1>2, <1>10
    <3>2. q[1] = k + 2 BY <1>2, <1>4, <3>1
    <3>3. /\ Tail(q) \in Seq(Nat) /\ Len(Tail(q)) = Len(q) - 1
          /\ \A i \in 1 .. Len(Tail(q)) : Tail(q)[i] = q[i + 1]
      <4> HIDE DEF q
      <4> QED BY <1>2, <1>10
    <3> QED BY <3>1, <3>2, <3>3
  <2>2. /\ queue' = [queue EXCEPT ![p] = Tail(q)] /\ ready' = [ready EXCEPT ![p] = FALSE]
        /\ chSent' = chSent \cup {w}
    BY <1>5, <1>10, <2>1 DEF Channel!Dequeue
  <2>3. /\ w \in ChannelMessages /\ w.type = "send" /\ w.from = p /\ w.number = k + 1
        /\ w.inner = k + 2 /\ Origin(w) = w
    <3>1. k + 1 \in Nat /\ k + 2 \in Nat BY <1>2
    <3>2. /\ w \in ChannelMessages /\ w.type = "send" /\ w.from = p /\ w.number = k + 1
          /\ w.inner = k + 2
      BY <3>1, WrappedFields, SMTT(20)
    <3>3. Origin(w) = w BY DEF Origin, Channel!Wrapped
    <3> QED BY <3>2, <3>3
  <2> HIDE DEF w
  <2>4. ChannelTypeOK' BY <1>5, <1>6, <1>8, <2>1, <2>2, <2>3 DEF ChannelTypeOK
  <2>5. /\ queue'[p] = Tail(q) /\ \A a \in Correct : a # p => queue'[a] = queue[a]
        /\ ~ready'[p] /\ \A a \in Correct : a # p => ready'[a] = ready[a]
    BY <2>2 DEF ChannelTypeOK
  <2>6. Sends(p)' = Sends(p) \cup {w} /\ \A a \in Correct : a # p => Sends(a)' = Sends(a)
    BY <2>2, <2>3 DEF Sends
  <2>7. InstancesSingle'
    <3>1. \A m \in Sends(p) : m.number # k + 1 /\ m.number <= k + 1
      <4> SUFFICES ASSUME NEW m \in Sends(p) PROVE m.number # k + 1 /\ m.number <= k + 1
        OBVIOUS
      <4>1. m.number \in Nat /\ m.number <= k BY <1>4 DEF Sends, ChannelTypeOK, ChannelMessages
      <4> QED BY <1>2, <4>1
    <3>2. w.number <= k + 1 /\ w.inner = w.number + 1 BY <1>2, <2>3
    <3>3. ASSUME NEW a \in Correct
          PROVE  /\ ~ready'[a] => \E m \in Sends(a)' : m.number = n'[a][a]
                 /\ ready'[a] => \A m \in Sends(a)' : m.number # n'[a][a]
                 /\ \A m \in Sends(a)' : m.number <= n'[a][a] /\ m.inner = m.number + 1
                 /\ \A l, m \in Sends(a)' : l.number = m.number => l = m
      <4>1. CASE a = p BY <1>4, <1>6, <2>3, <2>5, <2>6, <3>1, <3>2, <4>1
      <4>2. CASE a # p BY <1>6, <2>5, <2>6, <4>2 DEF InstancesSingle
      <4> QED BY <4>1, <4>2
    <3> QED BY <3>3 DEF InstancesSingle
  <2>8. QueueInOrder'
    <3>1. Len(Tail(q)) = asked[p] - (k + 1) - 1 BY <1>2, <1>4, <2>1, SMTT(20)
    <3>2. ASSUME NEW i \in 1 .. Len(Tail(q)) PROVE Tail(q)[i] = k + 1 + 1 + i
      <4>1. i \in Nat /\ i + 1 \in 1 .. Len(q) BY <2>1
      <4>2. q[i + 1] = k + 1 + (i + 1) BY <1>4, <4>1
      <4>3. Tail(q)[i] = q[i + 1] BY <2>1
      <4> HIDE DEF k, q
      <4> QED BY <1>2, <4>1, <4>2, <4>3
    <3>3. ASSUME NEW a \in Correct
          PROVE  /\ ready'[a] => queue'[a] = <<>> /\ asked'[a] = n'[a][a]
                 /\ ~ready'[a] => Len(queue'[a]) = asked'[a] - n'[a][a] - 1
                 /\ \A i \in 1 .. Len(queue'[a]) : queue'[a][i] = n'[a][a] + 1 + i
      <4>1. CASE a = p
        <5>1. queue'[a] = Tail(q) /\ ~ready'[a] /\ n'[a][a] = k + 1 /\ asked'[a] = asked[p]
          BY <1>5, <1>6, <2>5, <4>1
        <5> HIDE DEF k, q
        <5> QED BY <3>1, <3>2, <5>1
      <4>2. CASE a # p
        <5>1. queue'[a] = queue[a] /\ ready'[a] = ready[a] /\ n'[a][a] = n[a][a]
              /\ asked'[a] = asked[a]
          BY <1>5, <1>6, <2>5, <4>2
        <5> QED BY <5>1 DEF QueueInOrder
      <4> QED BY <4>1, <4>2
    <3> QED BY <3>3 DEF QueueInOrder
  <2>9. RepeatsOrigin' BY <1>5, <1>8, <2>2, <2>3 DEF RepeatsOrigin
  <2> QED BY <2>4, <2>7, <2>8, <2>9
<1> QED BY <1>9, <1>10


\* Deliver: the handlers of an instance repeat what its originator broadcast.
LEMMA ChannelTakes ==
    ASSUME ChannelInv, NEW p \in Correct, NEW m \in chSent,
           \/ Channel!Drop(p, m) \/ Channel!DeliverSend(p, m) \/ Channel!DeliverEcho(p, m)
    PROVE  ChannelInv'
<1> USE DEF ChannelInv
<1> DEFINE d == Channel!Domain(m.sender, m.number, m.inner)
           w == Channel!Wrapped("echo", p, m.sender, m.number, m.inner)
<1>1. /\ UNCHANGED <<n, queue, ready, asked, upcalls, chDelivered>>
      /\ chSent' = chSent \/ chSent' = chSent \cup {w}
      /\ calls' = calls \/ calls' = [calls EXCEPT ![p] = @ \cup {d}]
  BY DEF Channel!Drop, Channel!DeliverSend, Channel!DeliverEcho, Channel!Take,
         Channel!queueVars
<1>2. /\ m.sender \in Correct /\ m.number \in Nat /\ m.inner \in Nat
      /\ Origin(m) \in chSent
  BY DEF ChannelTypeOK, ChannelMessages, RepeatsOrigin
<1>3. d \in DomainMessages /\ Origin(d) = Origin(m)
  BY <1>2 DEF Channel!Domain, DomainMessages, Origin
<1>4. w \in ChannelMessages /\ w.type = "echo" BY <1>2, WrappedFields
<1>5. Origin(w) = Origin(m) BY DEF Origin, Channel!Wrapped
<1> HIDE DEF d, w
<1>6. ChannelTypeOK'
  <2>1. calls \in [Correct -> SUBSET DomainMessages] BY DEF ChannelTypeOK
  <2>2. calls' \in [Correct -> SUBSET DomainMessages]
    <3>1. CASE calls' = calls BY <2>1, <3>1
    <3>2. CASE calls' = [calls EXCEPT ![p] = @ \cup {d}] BY <1>3, <2>1, <3>2
    <3> QED BY <1>1, <3>1, <3>2
  <2> QED BY <1>1, <1>4, <2>2 DEF ChannelTypeOK
<1>7. \A a \in Correct : Sends(a)' = Sends(a) BY <1>1, <1>4 DEF Sends
<1>8. InstancesSingle' BY <1>1, <1>7 DEF InstancesSingle
<1>9. QueueInOrder' BY <1>1 DEF QueueInOrder
<1>10. RepeatsOrigin'
  <2>1. chSent \subseteq chSent' BY <1>1
  <2>2. ASSUME NEW x \in chSent' PROVE Origin(x) \in chSent'
    BY <1>1, <1>2, <1>5, <2>1, <2>2 DEF RepeatsOrigin
  <2>3. \A a \in Correct : calls'[a] \subseteq calls[a] \cup {d}
    BY <1>1 DEF ChannelTypeOK
  <2>4. ASSUME NEW a \in Correct, NEW x \in calls'[a] \cup upcalls'[a] \cup chDelivered'[a]
        PROVE  Origin(x) \in chSent'
    BY <1>1, <1>2, <1>3, <2>1, <2>3, <2>4 DEF RepeatsOrigin
  <2> QED BY <2>2, <2>4 DEF RepeatsOrigin
<1> QED BY <1>6, <1>8, <1>9, <1>10

LEMMA ChannelInvStep == ChannelInv /\ [Channel!Next]_channelVars => ChannelInv'
<1> SUFFICES ASSUME ChannelInv, [Channel!Next]_channelVars PROVE ChannelInv' OBVIOUS
<1>0. CASE UNCHANGED channelVars
  BY <1>0 DEF channelVars, ChannelInv, ChannelTypeOK, InstancesSingle, Sends, QueueInOrder,
              RepeatsOrigin
<1>1. ASSUME NEW p \in Correct, Channel!Broadcast(p) PROVE ChannelInv'
  BY <1>1, ChannelSendsFirst, ChannelQueues
<1>2. ASSUME NEW p \in Correct, NEW m \in chSent,
             \/ Channel!Drop(p, m) \/ Channel!DeliverSend(p, m) \/ Channel!DeliverEcho(p, m)
      PROVE  ChannelInv'
  BY <1>2, ChannelTakes
<1>3. ASSUME NEW p \in Correct, NEW d \in calls[p], Channel!OnBCBDelivered(p, d)
      PROVE  ChannelInv'
  <2>1. CASE d.sender = p /\ n[p][p] = d.number BY <1>3, <2>1, ChannelDeliversOwn
  <2>2. CASE d.sender # p \/ n[p][d.sender] # d.number
    BY <1>3, <2>2, ChannelDeliversOther
  <2> QED BY <2>1, <2>2
<1>4. ASSUME NEW p \in Correct, NEW d \in upcalls[p], Channel!Upcall(p, d)
      PROVE  ChannelInv'
  <2>1. /\ UNCHANGED <<n, queue, ready, asked, chSent, calls>>
        /\ upcalls' = [upcalls EXCEPT ![p] = @ \ {d}]
        /\ chDelivered' = [chDelivered EXCEPT ![p] = @ \cup {d}]
    BY <1>4 DEF Channel!Upcall, Channel!instanceVars, Channel!queueVars
  <2> USE DEF ChannelInv
  <2>2. /\ upcalls' \in [Correct -> SUBSET DomainMessages]
        /\ chDelivered' \in [Correct -> SUBSET DomainMessages]
        /\ \A a \in Correct : upcalls'[a] \cup chDelivered'[a]
                              \subseteq upcalls[a] \cup chDelivered[a]
    BY <2>1 DEF ChannelTypeOK
  <2>3. ChannelTypeOK' BY <2>1, <2>2 DEF ChannelTypeOK
  <2>4. InstancesSingle' BY <2>1 DEF InstancesSingle, Sends
  <2>5. QueueInOrder' BY <2>1 DEF QueueInOrder
  <2>6. RepeatsOrigin' BY <2>1, <2>2 DEF RepeatsOrigin
  <2> QED BY <2>3, <2>4, <2>5, <2>6
<1> QED BY <1>0, <1>1, <1>2, <1>3, <1>4 DEF Channel!Next, Channel!Work

\* The channel of every originator is in order in each behaviour, whatever protocol it
\* is about.
LEMMA ChannelInvHolds == Spec => []ChannelInv
<1>1. Init => ChannelInv BY ChannelInvInit DEF Init
<1>2. ChannelInv /\ [Next]_vars => ChannelInv'
  <2>1. [Next]_vars => [Channel!Next]_channelVars
    BY DEF Next, vars
  <2> QED BY <2>1, ChannelInvStep
<1> QED BY <1>1, <1>2, PTL DEF Spec

\* No instance ever carries two messages, and ready is FALSE exactly while the current
\* instance is in progress (dequeueLocked, onBCBDelivered).
THEOREM InstancesCarryOne == Spec => []ReadyMatchesInstance
<1>1. ChannelInv => ReadyMatchesInstance
  <2> SUFFICES ASSUME ChannelInv PROVE Channel!ReadyMatchesInstance
    BY DEF ReadyMatchesInstance
  <2> DEFINE out(p, k) == {m \in chSent : m.type = "send" /\ m.from = p /\ m.number = k}
  <2> USE DEF ChannelInv
  <2>1. ASSUME NEW p \in Correct, NEW k
        PROVE  out(p, k) = {m \in Sends(p) : m.number = k}
    BY DEF Sends
  <2>2. ASSUME NEW p \in Correct PROVE ready[p] <=> out(p, n[p][p]) = {}
    BY <2>1 DEF InstancesSingle
  <2>3. ASSUME NEW p \in Correct, NEW k \in 0 .. 2
        PROVE  Channel!Cardinality(out(p, k)) <= 1
    <3>1. \A l, m \in out(p, k) : l = m BY DEF InstancesSingle, Sends
    <3>2. out(p, k) = {} \/ \E m : out(p, k) = {m} BY <3>1
    <3>3. Cardinality({}) = 0 /\ \A m : Cardinality({m}) = 1 BY FS_EmptySet, FS_Singleton
    <3>4. Channel!Cardinality(out(p, k)) = Cardinality(out(p, k))
      BY DEF Channel!Cardinality, Cardinality
    <3> HIDE DEF out
    <3>5. Cardinality(out(p, k)) \in {0, 1} BY <3>2, <3>3
    <3> QED BY <3>4, <3>5
  <2>4. ASSUME NEW p \in Correct, NEW k \in n[p][p] + 1 .. 2 PROVE out(p, k) = {}
    <3>1. n[p][p] \in Nat BY DEF ChannelTypeOK
    <3>2. \A m \in Sends(p) : m.number # k
      <4> SUFFICES ASSUME NEW m \in Sends(p) PROVE m.number # k OBVIOUS
      <4>1. m.number \in Nat /\ m.number <= n[p][p]
        BY DEF InstancesSingle, Sends, ChannelTypeOK, ChannelMessages
      <4> QED BY <3>1, <4>1
    <3> QED BY <2>1, <3>2
  <2> QED BY <2>2, <2>3, <2>4 DEF Channel!ReadyMatchesInstance
<1> QED BY <1>1, ChannelInvHolds, PTL

\* The channel numbers messages in the order they were asked for, at every process
\* (Broadcast, dequeueLocked, onBCBDelivered).
THEOREM NumbersFollowOrder == Spec => []NumberedInOrder
<1>1. ChannelInv => NumberedInOrder
  <2> SUFFICES ASSUME ChannelInv, NEW p \in Correct, NEW d \in chDelivered[p]
               PROVE  d.inner = d.number + 1
    BY DEF NumberedInOrder, Channel!NumberedInOrder
  <2>1. d.sender \in Correct /\ Origin(d) \in chSent
    BY DEF ChannelInv, ChannelTypeOK, DomainMessages, RepeatsOrigin
  <2>2. /\ Origin(d).type = "send" /\ Origin(d).from = d.sender
        /\ Origin(d).number = d.number /\ Origin(d).inner = d.inner
    BY DEF Origin, Channel!Wrapped
  <2>3. Origin(d) \in Sends(d.sender) BY <2>1, <2>2 DEF Sends
  <2> QED BY <2>1, <2>2, <2>3 DEF ChannelInv, InstancesSingle
<1> QED BY <1>1, ChannelInvHolds, PTL


=============================================================================
