--------------------------- MODULE ElectionProofs ---------------------------
(***************************************************************************)
(* Proof that the perfect failure detector below the monarchical election    *)
(* suspects nobody wrongly, for any number of processes and of crashes, if    *)
(* its timer is long enough.                                                *)
(*                                                                         *)
(* A live process is at all times in alive, or asked, or its answer is on     *)
(* its way (Heard); a timer that is long enough runs out only when nothing    *)
(* of a live process is on its way.                                         *)
(***************************************************************************)
EXTENDS MCElections, TLAPS

USE ObserversAssumption

DetectorTypeOK ==
    /\ crashed \in SUBSET Procs
    /\ alive \in [Procs -> SUBSET Procs]
    /\ detected \in [Procs -> SUBSET Procs]
    /\ requests \in [Procs -> SUBSET Procs]
    /\ responses \in [Procs -> SUBSET Procs]
    /\ reports \in [Procs -> SUBSET Procs]
    /\ suspected \in [Procs -> SUBSET Procs]

\* Whoever is live has been heard of in this round, or still will be.
Heard ==
    \A p \in Procs : Procs \ crashed \subseteq {p} \cup alive[p] \cup requests[p] \cup responses[p]

\* Whoever was found missing has crashed.
Rightly == \A p \in Procs : reports[p] \cup suspected[p] \subseteq crashed

DetectionInv == DetectorTypeOK /\ Heard /\ Rightly

LEMMA DetectionInvInit == Sync!Init => DetectionInv
  BY DEF Sync!Init, Sync!FirstAlive, DetectionInv, DetectorTypeOK, Heard, Rightly

\* detect with a timer that is long enough: the missing processes have crashed.
LEMMA DetectsCrashed ==
    ASSUME DetectionInv, NEW p \in Procs, Sync!Detect(p)
    PROVE  DetectionInv'
<1> USE DEF DetectionInv, Sync!Detect
<1>1. (requests[p] \cup responses[p]) \ crashed = {} BY DEF Sync!TimerFires
<1>2. Sync!Missing(p) \subseteq crashed BY <1>1 DEF Sync!Missing, Heard
<1>3. Sync!Missing(p) \subseteq Procs BY DEF Sync!Missing
<1>4. DetectorTypeOK' BY <1>3 DEF DetectorTypeOK, Sync!electionVars
<1>5. Heard' BY DEF Heard, DetectorTypeOK, Sync!electionVars
<1>6. Rightly' BY <1>2 DEF Rightly, DetectorTypeOK, Sync!electionVars
<1> QED BY <1>4, <1>5, <1>6

LEMMA DetectionInvStep == DetectionInv /\ Sync!Next => DetectionInv'
<1> SUFFICES ASSUME DetectionInv, Sync!Next PROVE DetectionInv' OBVIOUS
<1> USE DEF DetectionInv
<1>1. ASSUME NEW p \in Procs, NEW q \in Procs, Sync!Report(p, q) PROVE DetectionInv'
  <2> USE <1>1 DEF Sync!Report
  <2>1. DetectorTypeOK' BY DEF DetectorTypeOK
  <2>2. Heard' BY DEF Heard
  <2>3. Rightly' BY DEF Rightly, DetectorTypeOK
  <2> QED BY <2>1, <2>2, <2>3
<1>2. ASSUME NEW p \in Procs, NEW q \in Procs, Sync!Answer(q, p) PROVE DetectionInv'
  <2> USE <1>2 DEF Sync!Answer, Sync!electionVars
  <2>1. DetectorTypeOK' BY DEF DetectorTypeOK
  <2>2. Heard' BY DEF Heard, DetectorTypeOK
  <2>3. Rightly' BY DEF Rightly
  <2> QED BY <2>1, <2>2, <2>3
<1>3. ASSUME NEW p \in Procs, NEW q \in Procs, Sync!ReceiveAnswer(p, q) PROVE DetectionInv'
  <2> USE <1>3 DEF Sync!ReceiveAnswer, Sync!electionVars
  <2>1. DetectorTypeOK' BY DEF DetectorTypeOK
  <2>2. Heard' BY DEF Heard, DetectorTypeOK
  <2>3. Rightly' BY DEF Rightly
  <2> QED BY <2>1, <2>2, <2>3
<1>4. ASSUME NEW p \in Procs, Sync!TryElection(p) PROVE DetectionInv'
  BY <1>4 DEF Sync!TryElection, Sync!detectorVars, DetectorTypeOK, Heard, Rightly
<1>5. ASSUME NEW p \in Procs, Sync!Crash(p) PROVE DetectionInv'
  BY <1>5 DEF Sync!Crash, Sync!detectorVars, Sync!electionVars, DetectorTypeOK, Heard, Rightly
<1> QED BY <1>1, <1>2, <1>3, <1>4, <1>5, DetectsCrashed DEF Sync!Next, Sync!Background

\* The invariant of the synchronous system, whatever the others do in their behaviours.
SyncInv == system = "synchronous" => DetectionInv

\* In every reachable state of the synchronous system a live process has been heard of
\* or will be, and all that were found missing have crashed (detect, Deliver).
THEOREM DetectionCorrect == Spec => []SyncInv
<1>1. Init => SyncInv BY DetectionInvInit DEF Init, SyncInv
<1>2. SyncInv /\ [Next]_vars => SyncInv'
  <2> SUFFICES ASSUME SyncInv, [Next]_vars PROVE SyncInv' OBVIOUS
  <2>1. CASE UNCHANGED <<system, detectionVars>>
    BY <2>1 DEF SyncInv, DetectionInv, DetectorTypeOK, Heard, Rightly, detectionVars
  <2>2. CASE Synchronously(Sync!Next)
    BY <2>2, DetectionInvStep DEF SyncInv, Synchronously
  <2>3. CASE Asynchronously(Async!Next) BY <2>3 DEF SyncInv, Asynchronously
  <2>4. CASE InLower(Lower!Next) BY <2>4, <2>1 DEF InLower
  <2> QED BY <2>1, <2>2, <2>3, <2>4 DEF Next, vars
<1> QED BY <1>1, <1>2, PTL DEF Spec

\* With a timer that is long enough no live process is ever suspected, for any number
\* of processes and crashes (detect against Deliver).
THEOREM NobodyWronglySuspected == Spec => []StrongAccuracy
<1>1. SyncInv => StrongAccuracy
  BY DEF SyncInv, DetectionInv, Rightly, StrongAccuracy, Sync!StrongAccuracy
<1> QED BY <1>1, DetectionCorrect, PTL

=============================================================================
