--------------------- MODULE ByzantineEpochChangeProofs ---------------------
(***************************************************************************)
(* Proofs about ByzantineEpochChange, for any ranking, any number of         *)
(* tolerated faults and any bounds: faulty processes alone change neither    *)
(* leader nor epoch, and what a process leaves or starts has f + 1 correct    *)
(* processes behind it.                                                    *)
(*                                                                         *)
(* More than 2f messages from different processes, of which f at most are    *)
(* faulty, come from more than f correct ones (MostAreCorrect); the sets that *)
(* are counted hold only senders whose message for the present round or      *)
(* epoch exists (Backed).  Where the detectors stay with their leader and     *)
(* nobody is faulty, the changers send nothing (Quiet).                      *)
(***************************************************************************)
EXTENDS MCEpochChange, FiniteSetTheorems, TLAPS

USE RankingAssumption, BoundsAssumption

\* The correct processes that have sent the message for number k.
Askers(sent, k) == {q \in Correct : <<q, k>> \in sent}

\* More than f of them, enough to make every other process join.
Supported(sent, k) == Cardinality(Askers(sent, k)) > Faults

\* Every process in got is faulty or has sent the message for number k.
Backed(got, sent, k) == got \subseteq Faulty \cup Askers(sent, k)

-----------------------------------------------------------------------------
(* Counting *)

\* What the instances mean by their operators.
LEMMA SameOperators ==
    /\ Detectors!Members \ Correct = Faulty /\ Changers!Members \ Correct = Faulty
    /\ \A S : /\ Detectors!Cardinality(S) = Cardinality(S)
              /\ Changers!Cardinality(S) = Cardinality(S)
              /\ Rotation!Cardinality(S) = Cardinality(S)
<1>1. Detectors!Members \ Correct = Faulty /\ Changers!Members \ Correct = Faulty
  BY DEF Faulty, Detectors!Members, Changers!Members
<1>2. \A S : /\ Detectors!Cardinality(S) = Cardinality(S)
             /\ Changers!Cardinality(S) = Cardinality(S)
             /\ Rotation!Cardinality(S) = Cardinality(S)
  BY DEF Detectors!Cardinality, Changers!Cardinality, Rotation!Cardinality, Cardinality
<1> QED BY <1>1, <1>2

\* Sets of processes that are counted are finite.
LEMMA AskersFinite ==
    ASSUME NEW sent, NEW k
    PROVE  /\ IsFiniteSet(Askers(sent, k)) /\ Cardinality(Askers(sent, k)) \in Nat
           /\ IsFiniteSet(Faulty) /\ Cardinality(Faulty) \in Nat
<1>1. Askers(sent, k) \subseteq Correct BY DEF Askers
<1>2. IsFiniteSet(Askers(sent, k)) BY <1>1, FS_Subset
<1> QED BY <1>2, FS_CardinalityType

\* More messages support more.
LEMMA SupportGrows ==
    ASSUME NEW sent, NEW more, sent \subseteq more, NEW k
    PROVE  /\ Supported(sent, k) => Supported(more, k)
           /\ \A got : Backed(got, sent, k) => Backed(got, more, k)
<1>1. Askers(sent, k) \subseteq Askers(more, k) BY DEF Askers
<1>2. Cardinality(Askers(sent, k)) <= Cardinality(Askers(more, k))
  BY <1>1, AskersFinite, FS_Subset
<1> QED BY <1>1, <1>2, AskersFinite DEF Supported, Backed

\* Of more than 2f senders more than f are correct.
LEMMA MostAreCorrect ==
    ASSUME NEW got, NEW sent, NEW k, Backed(got, sent, k), Cardinality(got) > 2 * Faults
    PROVE  Supported(sent, k)
<1> DEFINE A == Askers(sent, k)
<1>1. /\ IsFiniteSet(A) /\ Cardinality(A) \in Nat
      /\ IsFiniteSet(Faulty) /\ Cardinality(Faulty) \in Nat
  BY AskersFinite
<1>2. A \cap Faulty = {} BY DEF Askers, Faulty
<1>3. /\ IsFiniteSet(Faulty \cup A)
      /\ Cardinality(Faulty \cup A) = Cardinality(Faulty) + Cardinality(A)
  <2>1. Cardinality(Faulty \cap A) = 0 BY <1>2, FS_EmptySet
  <2>2. /\ IsFiniteSet(Faulty \cup A)
        /\ Cardinality(Faulty \cup A)
              = Cardinality(Faulty) + Cardinality(A) - Cardinality(Faulty \cap A)
    BY <1>1, FS_Union
  <2> QED BY <1>1, <2>1, <2>2
<1>4. got \subseteq Faulty \cup A BY DEF Backed
<1>5. Cardinality(got) <= Cardinality(Faulty) + Cardinality(A) /\ Cardinality(got) \in Nat
  BY <1>3, <1>4, FS_Subset, FS_CardinalityType
<1> QED BY <1>1, <1>5 DEF Supported

\* Of more than f senders one is correct.
LEMMA OneIsCorrect ==
    ASSUME NEW got, got \subseteq Faulty
    PROVE  ~(Cardinality(got) > Faults)
<1>1. IsFiniteSet(got) /\ Cardinality(got) <= Cardinality(Faulty) BY FS_Subset
<1>2. Cardinality(got) \in Nat /\ Cardinality(Faulty) \in Nat
  BY <1>1, FS_CardinalityType
<1> QED BY <1>1, <1>2

-----------------------------------------------------------------------------
(* The detectors *)

DetectorTypeOK ==
    /\ round \in [Correct -> Nat \ {0}]
    /\ DOMAIN complains = Correct
    /\ complained \in [Correct -> BOOLEAN]
    /\ complaints \in SUBSET (Correct \X Nat)

\* Complaints that are counted exist, and those of rounds that were left are enough.
RoundsBacked ==
    \A p \in Correct :
        /\ Backed(complains[p], complaints, round[p])
        /\ \A r \in Nat \ {0} : round[p] > r => Supported(complaints, r)

\* Without a complaint of a correct process there are faulty ones only, in round 1.
Calm ==
    complainers = {} =>
        /\ complaints = {}
        /\ \A p \in Correct : round[p] = 1 /\ ~complained[p] /\ complains[p] \subseteq Faulty

DetectorInv == DetectorTypeOK /\ RoundsBacked /\ Calm

LEMMA DetectorInvInit == Changers!Init => DetectorInv
<1> SUFFICES ASSUME Changers!Init PROVE DetectorInv OBVIOUS
<1> USE DEF Changers!Init
<1>1. DetectorTypeOK BY DEF DetectorTypeOK
<1>2. RoundsBacked BY DEF RoundsBacked, Backed
<1>3. Calm BY DEF Calm
<1> QED BY <1>1, <1>2, <1>3 DEF DetectorInv

\* OnComplain about the current leader.
LEMMA DetectorComplains ==
    ASSUME DetectorInv, NEW p \in Correct, Detectors!OnComplain(p)
    PROVE  DetectorInv'
<1> USE DEF DetectorInv, Detectors!OnComplain
<1>1. DetectorTypeOK' BY DEF DetectorTypeOK
<1>2. RoundsBacked'
  <2>1. complaints \subseteq complaints' OBVIOUS
  <2> QED BY <2>1, SupportGrows DEF RoundsBacked
<1>3. Calm' BY DEF Calm
<1> QED BY <1>1, <1>2, <1>3

\* handleComplaint of the current round: the process joins, counts, or leaves.
LEMMA DetectorHandles ==
    ASSUME DetectorInv, NEW p \in Correct,
           NEW m \in complaints \cup Detectors!FaultyMsgs, Detectors!HandleComplaint(p, m)
    PROVE  DetectorInv'
<1> USE DEF DetectorInv
<1> DEFINE got == complains[p] \cup {m[1]}
<1>1. m[1] \in Faulty \/ m \in complaints
  BY SameOperators DEF Detectors!FaultyMsgs
<1>2. Backed(got, complaints, round[p])
  <2>1. CASE m[1] \in Faulty BY <2>1 DEF RoundsBacked, Backed
  <2>2. CASE m \in complaints
    <3>1. m[2] = round[p] BY DEF Detectors!HandleComplaint
    <3>2. m \in Correct \X Nat BY <2>2 DEF DetectorTypeOK
    <3>3. m = <<m[1], round[p]>> /\ m[1] \in Correct BY <3>1, <3>2
    <3>4. m[1] \in Askers(complaints, round[p]) BY <2>2, <3>3 DEF Askers
    <3> QED BY <3>4 DEF RoundsBacked, Backed
  <2> QED BY <1>1, <2>1, <2>2
<1>3. complaints \subseteq complaints' /\ complainers' = complainers
  BY DEF Detectors!HandleComplaint
<1>4. complainers = {} => got \subseteq Faulty
  BY <1>1 DEF Calm
<1>5. CASE /\ Cardinality(got) > Faults /\ ~complained[p]
           /\ complains' = [complains EXCEPT ![p] = got]
           /\ complained' = [complained EXCEPT ![p] = TRUE]
           /\ complaints' = complaints \cup {<<p, round[p]>>}
           /\ UNCHANGED round
  <2>1. DetectorTypeOK' BY <1>5 DEF DetectorTypeOK
  <2>2. RoundsBacked'
    BY <1>2, <1>3, <1>5, SupportGrows DEF RoundsBacked, DetectorTypeOK
  <2>3. complainers # {} BY <1>4, <1>5, OneIsCorrect
  <2>4. Calm' BY <1>3, <2>3 DEF Calm
  <2> QED BY <2>1, <2>2, <2>4
<1>6. CASE /\ complains' = [complains EXCEPT ![p] = got]
           /\ UNCHANGED <<round, complained, complaints>>
  <2>1. DetectorTypeOK' BY <1>6 DEF DetectorTypeOK
  <2>2. RoundsBacked' BY <1>2, <1>6 DEF RoundsBacked, DetectorTypeOK
  <2>3. Calm' BY <1>3, <1>4, <1>6 DEF Calm, DetectorTypeOK
  <2> QED BY <2>1, <2>2, <2>3
<1>7. CASE /\ complained[p] /\ Cardinality(got) > 2 * Faults
           /\ round' = [round EXCEPT ![p] = @ + 1]
           /\ complains' = [complains EXCEPT ![p] = {}]
           /\ complained' = [complained EXCEPT ![p] = FALSE]
           /\ UNCHANGED complaints
  <2>1. round[p] \in Nat \ {0} BY DEF DetectorTypeOK
  <2>2. DetectorTypeOK' BY <1>7, <2>1 DEF DetectorTypeOK
  <2>3. Supported(complaints, round[p]) BY <1>2, <1>7, MostAreCorrect
  <2>4. RoundsBacked'
    <3>1. /\ round'[p] = round[p] + 1 /\ complains'[p] = {}
          /\ \A q \in Correct : q # p => round'[q] = round[q] /\ complains'[q] = complains[q]
      BY <1>7 DEF DetectorTypeOK
    <3>2. ASSUME NEW r \in Nat \ {0}, round[p] + 1 > r PROVE Supported(complaints, r)
      <4>1. r = round[p] \/ round[p] > r BY <2>1, <3>2
      <4> QED BY <2>3, <4>1 DEF RoundsBacked
    <3> QED BY <1>7, <3>1, <3>2 DEF RoundsBacked, Backed
  <2>5. Calm' BY <1>3, <1>7 DEF Calm
  <2> QED BY <2>2, <2>4, <2>5
<1> QED BY <1>5, <1>6, <1>7, SameOperators
        DEF Detectors!HandleComplaint, Detectors!ComplainJoin, Detectors!ComplainQuorum

LEMMA DetectorInvStep == DetectorInv /\ Detectors!DetectorNext => DetectorInv'
<1> SUFFICES ASSUME DetectorInv, NEW p \in Correct,
                    \/ Detectors!OnComplain(p)
                    \/ \E m \in complaints \cup Detectors!FaultyMsgs :
                            Detectors!HandleComplaint(p, m)
                    \/ \E m \in complaints : Detectors!LoseComplaint(p, m)
             PROVE  DetectorInv'
  BY DEF Detectors!DetectorNext
<1>1. CASE \E m \in complaints : Detectors!LoseComplaint(p, m)
  <2>1. UNCHANGED <<round, complains, complained, complaints, complainers>>
    BY <1>1 DEF Detectors!LoseComplaint, Detectors!Lose, Detectors!detector
  <2> QED BY <2>1 DEF DetectorInv, DetectorTypeOK, RoundsBacked, Calm
<1> QED BY <1>1, DetectorComplains, DetectorHandles

-----------------------------------------------------------------------------
(* The changers *)

\* The state of an epoch changer is a record of four fields.
IsChanger(ch) ==
    ch = [lastEpoch |-> ch.lastEpoch, nextEpoch |-> ch.nextEpoch,
          trusted |-> ch.trusted, newEpoches |-> ch.newEpoches]

\* The state ch of a changer when the NEWEPOCHs in sent exist: it asks for the next
\* epoch at most, counts NEWEPOCHs for it that exist, and each epoch it has begun is
\* supported.
ChangerOK(ch, sent) ==
    /\ IsChanger(ch)
    /\ ch.lastEpoch \in Nat \ {0} /\ ch.nextEpoch \in {ch.lastEpoch, ch.lastEpoch + 1}
    /\ Backed(ch.newEpoches, sent, ch.lastEpoch + 1)
    /\ \A e \in Nat : 2 <= e /\ e <= ch.lastEpoch => Supported(sent, e)

\* What an assignment of fields makes of it.
LEMMA ChangerAssigned ==
    ASSUME NEW l, NEW x, NEW t, NEW s, NEW ch,
           ch = [lastEpoch |-> l, nextEpoch |-> x, trusted |-> t, newEpoches |-> s],
           NEW k, NEW g
    PROVE  /\ [ch EXCEPT !.newEpoches = g]
                = [lastEpoch |-> l, nextEpoch |-> x, trusted |-> t, newEpoches |-> g]
           /\ [ch EXCEPT !.lastEpoch = k, !.newEpoches = g]
                = [lastEpoch |-> k, nextEpoch |-> x, trusted |-> t, newEpoches |-> g]
<1> DEFINE moved == [ch EXCEPT !.lastEpoch = k]
<1>1. [ch EXCEPT !.newEpoches = g]
        = [lastEpoch |-> l, nextEpoch |-> x, trusted |-> t, newEpoches |-> g]
  OBVIOUS
<1>2. moved = [lastEpoch |-> k, nextEpoch |-> x, trusted |-> t, newEpoches |-> s]
  OBVIOUS
<1>3. [ch EXCEPT !.lastEpoch = k, !.newEpoches = g] = [moved EXCEPT !.newEpoches = g]
  OBVIOUS
<1> HIDE DEF moved
<1>4. [moved EXCEPT !.newEpoches = g]
        = [lastEpoch |-> k, nextEpoch |-> x, trusted |-> t, newEpoches |-> g]
  BY <1>2
<1> QED BY <1>1, <1>3, <1>4

\* checkComplaint.
LEMMA CheckComplaintKeeps ==
    ASSUME NEW ch, NEW sent, ChangerOK(ch, sent)
    PROVE  ChangerOK(Changers!CheckComplaint(ch), sent)
  BY DEF Changers!CheckComplaint, ChangerOK, IsChanger

\* checkQuorums: an epoch is begun on more than 2f NEWEPOCHs only.
LEMMA CheckQuorumsKeeps ==
    ASSUME NEW ch, NEW sent, ChangerOK(ch, sent)
    PROVE  ChangerOK(Changers!CheckQuorums(ch), sent)
<1> DEFINE count == Changers!Cardinality(ch.newEpoches)
           joined == IF count > Changers!NewEpochJoin /\ ch.nextEpoch = ch.lastEpoch
                     THEN [ch EXCEPT !.nextEpoch = ch.lastEpoch + 1] ELSE ch
           begun == [joined EXCEPT !.lastEpoch = joined.nextEpoch, !.newEpoches = {}]
<1>1. ChangerOK(joined, sent) /\ joined.newEpoches = ch.newEpoches
  BY DEF ChangerOK, IsChanger
<1>2. CASE Changers!CheckQuorums(ch) = joined BY <1>1, <1>2
<1>3. CASE /\ count > Changers!NewEpochQuorum /\ joined.nextEpoch > joined.lastEpoch
           /\ Changers!CheckQuorums(ch) = begun
  <2>1. Cardinality(joined.newEpoches) > 2 * Faults
    BY <1>1, <1>3, SameOperators DEF Changers!NewEpochQuorum
  <2> HIDE DEF joined
  <2>2. Backed(joined.newEpoches, sent, joined.lastEpoch + 1) BY <1>1 DEF ChangerOK
  <2>3. Supported(sent, joined.lastEpoch + 1) BY <2>1, <2>2, MostAreCorrect
  <2>4. joined.lastEpoch \in Nat \ {0} /\ joined.nextEpoch = joined.lastEpoch + 1
    BY <1>1, <1>3 DEF ChangerOK
  <2>5. /\ begun.lastEpoch = joined.lastEpoch + 1
        /\ begun.nextEpoch = joined.lastEpoch + 1
        /\ begun.newEpoches = {} /\ IsChanger(begun)
    <3> DEFINE l == joined.lastEpoch  x == joined.nextEpoch
               t == joined.trusted  s == joined.newEpoches
    <3>1. joined = [lastEpoch |-> l, nextEpoch |-> x, trusted |-> t, newEpoches |-> s]
      BY <1>1 DEF ChangerOK, IsChanger
    <3> HIDE DEF l, x, t, s
    <3>2. begun = [joined EXCEPT !.lastEpoch = x, !.newEpoches = {}] BY DEF x
    <3> HIDE DEF begun
    <3>3. begun = [lastEpoch |-> x, nextEpoch |-> x, trusted |-> t, newEpoches |-> {}]
      BY <3>1, <3>2, ChangerAssigned
    <3>4. /\ begun.lastEpoch = x /\ begun.nextEpoch = x /\ begun.newEpoches = {}
          /\ IsChanger(begun)
      BY <3>3 DEF IsChanger
    <3> QED BY <2>4, <3>4 DEF x
  <2>6. ASSUME NEW e \in Nat, 2 <= e, e <= joined.lastEpoch + 1 PROVE Supported(sent, e)
    <3>1. e = joined.lastEpoch + 1 \/ e <= joined.lastEpoch BY <2>4, <2>6
    <3> QED BY <1>1, <2>3, <2>6, <3>1 DEF ChangerOK
  <2> HIDE DEF begun
  <2>7. ChangerOK(begun, sent) BY <2>4, <2>5, <2>6 DEF ChangerOK, Backed
  <2> QED BY <1>3, <2>7
<1> QED BY <1>2, <1>3 DEF Changers!CheckQuorums

\* What background does after an event.
LEMMA SettleKeeps ==
    ASSUME NEW ch, NEW sent, ChangerOK(ch, sent)
    PROVE  ChangerOK(Changers!Settle(ch), sent)
  BY CheckComplaintKeeps, CheckQuorumsKeeps DEF Changers!Settle

\* A changer stays so when more NEWEPOCHs are sent.
LEMMA ChangerGrows ==
    ASSUME NEW ch, NEW sent, NEW more, sent \subseteq more, ChangerOK(ch, sent)
    PROVE  ChangerOK(ch, more)
  BY SupportGrows DEF ChangerOK

ChangersInv ==
    /\ newEpochMsgs \in SUBSET (Correct \X Nat)
    /\ DOMAIN changer = Correct
    /\ \A p \in Correct : ChangerOK(changer[p], newEpochMsgs)

LEMMA ChangersInvInit == Changers!Init => ChangersInv
<1> SUFFICES ASSUME Changers!Init, NEW p \in Correct PROVE ChangerOK(changer[p], newEpochMsgs)
  BY DEF Changers!Init, ChangersInv
<1>1. changer[p] = [lastEpoch |-> 1, nextEpoch |-> 1, trusted |-> None, newEpoches |-> {}]
  BY DEF Changers!Init
<1> QED BY <1>1 DEF ChangerOK, IsChanger, Backed

\* A changer goes on as ch, which is right with the messages there are.
LEMMA ChangerBecomes ==
    ASSUME ChangersInv, NEW p \in Correct, NEW ch, ChangerOK(ch, newEpochMsgs),
           Changers!Become(p, ch)
    PROVE  ChangersInv'
<1> USE DEF ChangersInv
<1>1. changer[p].nextEpoch \in Nat /\ ch.nextEpoch \in Nat BY DEF ChangerOK
<1>2. /\ changer' = [changer EXCEPT ![p] = ch]
      /\ newEpochMsgs' = newEpochMsgs \cup
             {<<p, e>> : e \in (changer[p].nextEpoch + 1) .. ch.nextEpoch}
  BY DEF Changers!Become
<1>3. newEpochMsgs' \in SUBSET (Correct \X Nat) /\ newEpochMsgs \subseteq newEpochMsgs'
  BY <1>1, <1>2
<1>4. ASSUME NEW q \in Correct PROVE ChangerOK(changer'[q], newEpochMsgs)
  BY <1>2
<1>5. ASSUME NEW q \in Correct PROVE ChangerOK(changer'[q], newEpochMsgs')
  BY <1>3, <1>4, ChangerGrows
<1> QED BY <1>2, <1>3, <1>5

LEMMA ChangersInvStep == ChangersInv /\ Changers!RotatedNext => ChangersInv'
<1> SUFFICES ASSUME ChangersInv, Changers!RotatedNext PROVE ChangersInv' OBVIOUS
<1>1. ASSUME UNCHANGED <<changer, newEpochMsgs>> PROVE ChangersInv'
  BY <1>1 DEF ChangersInv
<1>2. ASSUME NEW p \in Correct, NEW r \in notices[p], Changers!NewTrust(p, r)
      PROVE  ChangersInv'
  <2> DEFINE ch == [changer[p] EXCEPT !.trusted = Changers!Leader(r)]
  <2>1. ChangerOK(changer[p], newEpochMsgs) BY DEF ChangersInv
  <2>2. ChangerOK(ch, newEpochMsgs) BY <2>1 DEF ChangerOK, IsChanger
  <2>3. ChangerOK(Changers!Settle(ch), newEpochMsgs) BY <2>2, SettleKeeps
  <2>4. Changers!Become(p, Changers!Settle(ch)) BY <1>2 DEF Changers!NewTrust
  <2> QED BY <2>3, <2>4, ChangerBecomes
<1>3. ASSUME NEW p \in Correct, NEW m \in newEpochMsgs \cup Changers!FaultyMsgs,
             Changers!HandleNewEpoch(p, m)
      PROVE  ChangersInv'
  <2> DEFINE ch == [changer[p] EXCEPT !.newEpoches = @ \cup {m[1]}]
  <2>1. ChangerOK(changer[p], newEpochMsgs) BY DEF ChangersInv
  <2>2. m[1] \in Faulty \cup Askers(newEpochMsgs, changer[p].lastEpoch + 1)
    <3>1. CASE m \in Changers!FaultyMsgs
      BY <3>1, SameOperators DEF Changers!FaultyMsgs
    <3>2. CASE m \in newEpochMsgs
      <4>1. m \in Correct \X Nat /\ m[2] = changer[p].lastEpoch + 1
        BY <1>3, <3>2 DEF ChangersInv, Changers!HandleNewEpoch
      <4>2. m = <<m[1], changer[p].lastEpoch + 1>> /\ m[1] \in Correct BY <4>1
      <4> QED BY <3>2, <4>2 DEF Askers
    <3> QED BY <3>1, <3>2
  <2>3. ch.newEpoches = changer[p].newEpoches \cup {m[1]} BY <2>1 DEF ChangerOK, IsChanger
  <2>4. Backed(ch.newEpoches, newEpochMsgs, changer[p].lastEpoch + 1)
    BY <2>1, <2>2, <2>3 DEF ChangerOK, Backed
  <2>5. ChangerOK(ch, newEpochMsgs)
    <3> DEFINE old == changer[p]
               l == old.lastEpoch  x == old.nextEpoch  t == old.trusted
               s == old.newEpoches  g == s \cup {m[1]}
    <3>1. old = [lastEpoch |-> l, nextEpoch |-> x, trusted |-> t, newEpoches |-> s]
      BY <2>1 DEF ChangerOK, IsChanger
    <3>2. ch = [old EXCEPT !.newEpoches = g] OBVIOUS
    <3> HIDE DEF ch, old, l, x, t, s, g
    <3>3. ch = [lastEpoch |-> l, nextEpoch |-> x, trusted |-> t, newEpoches |-> g]
      BY <3>1, <3>2, ChangerAssigned
    <3>4. ch.lastEpoch = l /\ ch.nextEpoch = x /\ IsChanger(ch) BY <3>3 DEF IsChanger
    <3>5. old.lastEpoch = l /\ old.nextEpoch = x BY <3>1
    <3> QED BY <2>1, <2>4, <3>4, <3>5 DEF ChangerOK, old
  <2>6. ChangerOK(Changers!Settle(Changers!CheckQuorums(ch)), newEpochMsgs)
    BY <2>5, CheckQuorumsKeeps, SettleKeeps
  <2>7. Changers!Become(p, Changers!Settle(Changers!CheckQuorums(ch)))
    BY <1>3 DEF Changers!HandleNewEpoch
  <2> QED BY <2>6, <2>7, ChangerBecomes
<1>4. ASSUME NEW p \in Correct, NEW m \in newEpochMsgs, Changers!LoseNewEpoch(p, m)
      PROVE  ChangersInv'
  BY <1>1, <1>4 DEF Changers!LoseNewEpoch, Changers!Lose
<1>5. ASSUME NEW p \in Correct, Changers!Rotate(p) PROVE ChangersInv'
  BY <1>1, <1>5 DEF Changers!Rotate
<1> QED BY <1>2, <1>3, <1>4, <1>5 DEF Changers!RotatedNext, Changers!ChangerNext

-----------------------------------------------------------------------------
(* Detectors and changers of correct processes *)

Everybody == {Peers[i] : i \in DOMAIN Peers}

\* A changer that has not asked for an epoch and counts nothing.
Resting(ch) ==
    ch = [lastEpoch |-> 1, nextEpoch |-> 1, trusted |-> ch.trusted, newEpoches |-> {}]

\* While no detector has moved on nobody has asked for an epoch.
Quiet ==
    (\A p \in Everybody : round[p] = 1) =>
        newEpochMsgs = {} /\ \A p \in Everybody : Resting(changer[p])

RotationInv ==
    /\ round \in [Everybody -> Nat \ {0}]
    /\ notices \in [Everybody -> SUBSET Nat]
    /\ \A p \in Everybody : \A r \in notices[p] : 1 <= r /\ r <= round[p]
    /\ DOMAIN changer = Everybody
    /\ Quiet

\* Nobody is faulty there.
LEMMA NoFaultyMsgs == Rotation!FaultyMsgs = {}
  BY DEF Rotation!FaultyMsgs, Rotation!Members

\* A changer that rests goes on resting when it learns the first leader.
LEMMA FirstLeaderSettles ==
    ASSUME NEW ch, Resting(ch)
    PROVE  Rotation!Settle([ch EXCEPT !.trusted = Rotation!Leader(1)])
              = [ch EXCEPT !.trusted = Rotation!Leader(1)]
           /\ Resting([ch EXCEPT !.trusted = Rotation!Leader(1)])
           /\ [ch EXCEPT !.trusted = Rotation!Leader(1)].nextEpoch = 1
<1> DEFINE told == [ch EXCEPT !.trusted = Rotation!Leader(1)]
<1>1. told = [lastEpoch |-> 1, nextEpoch |-> 1, trusted |-> Rotation!Leader(1),
              newEpoches |-> {}]
  BY DEF Resting
<1> HIDE DEF told
<1>2. /\ told.lastEpoch = 1 /\ told.nextEpoch = 1 /\ told.trusted = Rotation!Leader(1)
      /\ told.newEpoches = {} /\ Resting(told)
  BY <1>1 DEF Resting
<1>3. Rotation!CheckComplaint(told) = told BY <1>2 DEF Rotation!CheckComplaint
<1>4. Rotation!Cardinality(told.newEpoches) = 0 BY <1>2, SameOperators, FS_EmptySet
<1>5. Rotation!CheckQuorums(told) = told
  BY <1>4 DEF Rotation!CheckQuorums, Rotation!NewEpochJoin, Rotation!NewEpochQuorum
<1>6. Rotation!Settle(told) = told BY <1>3, <1>5 DEF Rotation!Settle
<1> QED BY <1>2, <1>6 DEF told

LEMMA RotationInvInit == Rotation!Init => RotationInv
<1> SUFFICES ASSUME Rotation!Init PROVE RotationInv OBVIOUS
<1> USE DEF Rotation!Init, Everybody
<1>1. /\ round \in [Everybody -> Nat \ {0}]
      /\ notices \in [Everybody -> SUBSET Nat]
      /\ \A p \in Everybody : \A r \in notices[p] : 1 <= r /\ r <= round[p]
      /\ DOMAIN changer = Everybody
  OBVIOUS
<1>2. Quiet BY DEF Quiet, Resting
<1> QED BY <1>1, <1>2 DEF RotationInv

\* What a detector does only ever adds rounds.
LEMMA RotationDetects ==
    ASSUME RotationInv, Rotation!DetectorNext
    PROVE  RotationInv'
<1> USE DEF RotationInv
<1>1. PICK p \in Everybody :
          \/ Rotation!OnComplain(p)
          \/ \E m \in complaints \cup Rotation!FaultyMsgs : Rotation!HandleComplaint(p, m)
          \/ \E m \in complaints : Rotation!LoseComplaint(p, m)
  BY DEF Rotation!DetectorNext, Everybody
<1>2. /\ UNCHANGED <<changer, newEpochMsgs>>
      /\ \/ UNCHANGED <<round, notices>>
         \/ /\ round' = [round EXCEPT ![p] = @ + 1]
            /\ notices' = [notices EXCEPT ![p] = @ \cup {round'[p]}]
  BY <1>1 DEF Rotation!OnComplain, Rotation!HandleComplaint, Rotation!LoseComplaint,
              Rotation!Lose, Rotation!detector
<1>3. CASE UNCHANGED <<round, notices>> BY <1>2, <1>3 DEF Quiet
<1>4. CASE /\ round' = [round EXCEPT ![p] = @ + 1]
           /\ notices' = [notices EXCEPT ![p] = @ \cup {round'[p]}]
  <2>1. round[p] \in Nat \ {0} /\ notices[p] \subseteq Nat OBVIOUS
  <2>2. round'[p] = round[p] + 1 /\ notices'[p] = notices[p] \cup {round[p] + 1}
    BY <1>4
  <2>3. round' \in [Everybody -> Nat \ {0}] /\ notices' \in [Everybody -> SUBSET Nat]
    BY <1>4, <2>1, <2>2
  <2>4. ASSUME NEW q \in Everybody, NEW r \in notices'[q] PROVE 1 <= r /\ r <= round'[q]
    <3>1. CASE q = p
      <4>1. r = round[p] + 1 \/ r \in notices[p] BY <2>2, <2>4, <3>1
      <4>2. r \in notices[p] => r \in Nat /\ 1 <= r /\ r <= round[p] BY <2>1
      <4> QED BY <2>1, <2>2, <3>1, <4>1, <4>2
    <3>2. CASE q # p BY <1>4, <2>4, <3>2
    <3> QED BY <3>1, <3>2
  <2>5. Quiet' BY <2>1, <2>2 DEF Quiet
  <2> QED BY <1>2, <2>3, <2>4, <2>5
<1> QED BY <1>2, <1>3, <1>4

\* What a changer does leaves it resting as long as the first leader is the only one.
LEMMA RotationChanges ==
    ASSUME RotationInv, Rotation!ChangerNext
    PROVE  RotationInv'
<1> USE DEF RotationInv
<1>1. PICK p \in Everybody :
          \/ \E r \in notices[p] : Rotation!NewTrust(p, r)
          \/ \E m \in newEpochMsgs \cup Rotation!FaultyMsgs : Rotation!HandleNewEpoch(p, m)
          \/ \E m \in newEpochMsgs : Rotation!LoseNewEpoch(p, m)
  BY DEF Rotation!ChangerNext, Everybody
<1>2. /\ UNCHANGED round
      /\ \/ UNCHANGED notices
         \/ \E r : notices' = [notices EXCEPT ![p] = @ \ {r}]
      /\ \/ UNCHANGED <<changer, newEpochMsgs>>
         \/ \E ch : changer' = [changer EXCEPT ![p] = ch]
  BY <1>1 DEF Rotation!NewTrust, Rotation!HandleNewEpoch, Rotation!LoseNewEpoch,
              Rotation!Lose, Rotation!Become, Rotation!detector
<1>3. /\ round' \in [Everybody -> Nat \ {0}] /\ DOMAIN changer' = Everybody
      /\ notices' \in [Everybody -> SUBSET Nat]
      /\ \A q \in Everybody : notices'[q] \subseteq notices[q] /\ round'[q] = round[q]
  BY <1>2
<1>4. Quiet'
  <2> SUFFICES ASSUME \A q \in Everybody : round[q] = 1
               PROVE  newEpochMsgs' = {} /\ \A q \in Everybody : Resting(changer'[q])
    BY <1>3 DEF Quiet
  <2>1. newEpochMsgs = {} /\ \A q \in Everybody : Resting(changer[q]) BY DEF Quiet
  <2>2. PICK r \in notices[p] : Rotation!NewTrust(p, r)
    BY <1>1, <2>1, NoFaultyMsgs
  <2>3. r = 1 BY <2>2
  <2> DEFINE told == [changer[p] EXCEPT !.trusted = Rotation!Leader(1)]
  <2>4. Rotation!Settle(told) = told /\ Resting(told) /\ told.nextEpoch = 1
    BY <2>1, FirstLeaderSettles
  <2>5. Rotation!Become(p, told) BY <2>2, <2>3, <2>4 DEF Rotation!NewTrust
  <2> HIDE DEF told
  <2>6. changer[p].nextEpoch = 1 BY <2>1 DEF Resting
  <2>7. newEpochMsgs' = {} BY <2>1, <2>4, <2>5, <2>6 DEF Rotation!Become
  <2>8. \A q \in Everybody : Resting(changer'[q]) BY <2>1, <2>4, <2>5 DEF Rotation!Become
  <2> QED BY <2>7, <2>8
<1> QED BY <1>3, <1>4

LEMMA RotationInvStep == RotationInv /\ Rotation!Next => RotationInv'
  BY RotationDetects, RotationChanges DEF Rotation!Next

-----------------------------------------------------------------------------
(* The systems together *)

SuiteInv ==
    /\ system = "detectors" => DetectorInv
    /\ system = "changers" => ChangersInv
    /\ system = "rotation" => RotationInv

LEMMA SuiteInvInit == MCInit => SuiteInv
  BY DetectorInvInit, ChangersInvInit, RotationInvInit DEF MCInit, SuiteInv

LEMMA SuiteInvStep == SuiteInv /\ [MCNext]_mcVars => SuiteInv'
<1> SUFFICES ASSUME SuiteInv, [MCNext]_mcVars PROVE SuiteInv' OBVIOUS
<1> USE DEF SuiteInv
<1>1. CASE UNCHANGED <<system, rotationVars>>
  BY <1>1 DEF rotationVars, DetectorInv, DetectorTypeOK, RoundsBacked, Calm,
              ChangersInv, RotationInv, Quiet
<1>2. CASE system = "rotation" /\ system' = system /\ Rotation!Next
  BY <1>2, RotationInvStep
<1>3. CASE system = "detectors" /\ system' = system /\ Detectors!DetectorNext
  BY <1>3, DetectorInvStep
<1>4. CASE system = "changers" /\ system' = system /\ Changers!RotatedNext
  BY <1>4, ChangersInvStep
<1> QED BY <1>1, <1>2, <1>3, <1>4 DEF MCNext, mcVars

\* In every reachable state complaints and NEWEPOCHs that are counted exist, rounds
\* that were left and epochs that were begun are supported, and rotation is quiet
\* without a change of leader (handleComplaint, checkQuorums, checkComplaint).
THEOREM ByzantineChangersCorrect == MCSpec => []SuiteInv
  BY SuiteInvInit, SuiteInvStep, PTL DEF MCSpec

\* For any ranking, any number of faulty processes up to the tolerated one, and
\* any number of rounds and epochs: a round is left, and an epoch begun, only with
\* f + 1 correct processes that ask for it (handleComplaint, checkQuorums).
THEOREM ChangesAreSupported == MCSpec => []ChangesSupported
<1>1. SuiteInv => ChangesSupported
  <2> SUFFICES ASSUME SuiteInv PROVE ChangesSupported OBVIOUS
  <2>1. CASE system = "detectors"
    <3>1. Detectors!Rounds \subseteq Nat \ {0} BY DEF Detectors!Rounds
    <3>2. RoundsBacked BY <2>1 DEF SuiteInv, DetectorInv
    <3>3. Detectors!RoundHasSupport
      BY <3>1, <3>2, SameOperators
      DEF Detectors!RoundHasSupport, RoundsBacked, Supported, Askers
    <3> QED BY <2>1, <3>3 DEF ChangesSupported
  <2>2. CASE system = "changers"
    <3>1. ASSUME NEW p \in Correct, NEW e \in 2 .. MaxEpochs, changer[p].lastEpoch >= e
          PROVE  Supported(newEpochMsgs, e)
      <4>1. ChangerOK(changer[p], newEpochMsgs) BY <2>2 DEF SuiteInv, ChangersInv
      <4> QED BY <3>1, <4>1 DEF ChangerOK
    <3>2. Changers!EpochHasSupport
      BY <3>1, SameOperators DEF Changers!EpochHasSupport, Supported, Askers
    <3> QED BY <2>2, <3>2 DEF ChangesSupported
  <2> QED BY <2>1, <2>2 DEF ChangesSupported
<1> QED BY <1>1, ByzantineChangersCorrect, PTL

\* Faulty processes alone do not change the leader (handleComplaint), and where there
\* are none an epoch is begun only after some detector has moved on (checkComplaint).
THEOREM NobodyHurried == MCSpec => []NoChangeWithoutCorrect
<1>1. SuiteInv => NoChangeWithoutCorrect
  <2> SUFFICES ASSUME SuiteInv PROVE NoChangeWithoutCorrect OBVIOUS
  <2>1. CASE system = "detectors"
    BY <2>1 DEF SuiteInv, DetectorInv, Calm, NoChangeWithoutCorrect,
                Detectors!NoRoundWithoutCorrect
  <2>2. CASE system = "rotation"
    <3>1. Quiet BY <2>2 DEF SuiteInv, RotationInv
    <3>2. ASSUME NEW ch, Resting(ch) PROVE ch.lastEpoch = 1 BY <3>2 DEF Resting
    <3>3. (\A p \in Everybody : round[p] = 1) => \A p \in Everybody : changer[p].lastEpoch = 1
      BY <3>1, <3>2 DEF Quiet
    <3>4. Rotation!NoEpochWithoutCorrect
      BY <3>3 DEF Rotation!NoEpochWithoutCorrect, Everybody
    <3> QED BY <2>2, <3>4 DEF NoChangeWithoutCorrect
  <2> QED BY <2>1, <2>2 DEF NoChangeWithoutCorrect
<1> QED BY <1>1, ByzantineChangersCorrect, PTL

=============================================================================
