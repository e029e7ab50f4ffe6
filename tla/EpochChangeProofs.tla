------------------------- MODULE EpochChangeProofs -------------------------
(***************************************************************************)
(* Proofs about EpochChange for any number of processes and any bound on    *)
(* the timestamps: no two leaders share a timestamp, and no epoch is        *)
(* started twice.                                                          *)
(***************************************************************************)
EXTENDS EpochChange, FiniteSetTheorems, TLAPS

\* The timestamps of p: its rank plus a multiple of N.
Own(p, t) == \E k \in Nat : t = Rank[p] + k * N

\* Every timestamp on its way from p to a Node belongs to p.
OwnTimestamps ==
    /\ \A p \in Procs :
          /\ Own(p, ts[p])
          /\ \A t \in queued[p] : Own(p, t)
          /\ pending[p] # None => Own(p, pending[p])
          /\ \A e \in starting[p] \cup started[p] : Own(e.leader, e.ts)
    /\ \A m \in msgs : m.type = "newEpoch" => Own(m.from, m.ts)

\* The calls of StartEpoch under way at one process have different timestamps.
StartingDistinct ==
    \A p \in Procs : \A e, f \in starting[p] : e.ts = f.ts => e = f

\* The inductive invariant of the epoch changer.
ChangerInv == TypeOK /\ OwnTimestamps /\ StartingDistinct /\ StartedOnce

-----------------------------------------------------------------------------
(* Arithmetic of the timestamps *)

\* There is at least one process.
LEMMA NPositive == N \in Nat \ {0}
BY ProcsAssumption, FS_CardinalityType, FS_EmptySet DEF N

\* Numbers r + k * n and s + j * n with r and s in 1 .. n differ when r and s do.
LEMMA Residues ==
    ASSUME NEW n \in Nat, NEW r \in 1 .. n, NEW s \in 1 .. n, NEW k \in Nat, NEW j \in Nat,
           r + k * n = s + j * n
    PROVE  r = s
<1>1. ASSUME NEW a \in 1 .. n, NEW b \in 1 .. n, NEW i \in Nat, NEW l \in Nat, i > l
      PROVE  a + i * n # b + l * n
  <2>1. PICK d \in Nat : i = l + 1 + d
    <3>1. i - l - 1 \in Nat /\ i = l + 1 + (i - l - 1) BY <1>1
    <3> QED BY <3>1
  <2>2. i * n = l * n + n + d * n BY <2>1
  <2>3. d * n >= 0 /\ d * n \in Int /\ l * n \in Int OBVIOUS
  <2> QED BY <2>2, <2>3
<1>2. ~(k > j) /\ ~(j > k) BY <1>1
<1>3. k = j BY <1>2
<1>4. k * n \in Int OBVIOUS
<1> QED BY <1>3, <1>4

\* A timestamp belongs to one process only.
LEMMA OneOwner ==
    ASSUME NEW p \in Procs, NEW q \in Procs, NEW t \in Nat, Own(p, t), Own(q, t)
    PROVE  p = q
<1>1. PICK k \in Nat : t = Rank[p] + k * N BY DEF Own
<1>2. PICK j \in Nat : t = Rank[q] + j * N BY DEF Own
<1>3. N \in Nat /\ Rank[p] \in 1 .. N /\ Rank[q] \in 1 .. N BY NPositive, RankAssumption
<1>4. Rank[p] = Rank[q] BY <1>1, <1>2, <1>3, Residues
<1> QED BY <1>4, RankAssumption

\* Adding a multiple of N to a timestamp of p gives a timestamp of p.
LEMMA OwnPlus ==
    ASSUME NEW p \in Procs, NEW t \in Nat, Own(p, t), NEW i \in Nat
    PROVE  t + N * i \in Nat /\ Own(p, t + N * i)
<1>1. PICK k \in Nat : t = Rank[p] + k * N BY DEF Own
<1>2. N \in Nat /\ Rank[p] \in Int BY NPositive, RankAssumption
<1>3. t + N * i = Rank[p] + (k + i) * N /\ k + i \in Nat BY <1>1, <1>2
<1>4. N * i \in Nat BY <1>2
<1> QED BY <1>3, <1>4 DEF Own

\* incTs stays within the timestamps of p.
LEMMA IncTsOwn ==
    ASSUME NEW p \in Procs, ts[p] \in Nat, Own(p, ts[p])
    PROVE  incTs(p) \in Nat /\ Own(p, incTs(p))
<1>1. incTs(p) = ts[p] + N * 1 BY NPositive DEF incTs
<1> QED BY <1>1, OwnPlus

\* So does the loop of handleSubscribe.
LEMMA CatchUpOwn ==
    ASSUME NEW p \in Procs, ts[p] \in Nat, Own(p, ts[p]), NEW other \in Nat, ts[p] <= other
    PROVE  CatchUp(p, other) \in Nat /\ Own(p, CatchUp(p, other))
<1>1. other - ts[p] \in Nat OBVIOUS
<1>2. ASSUME NEW a \in Nat, NEW n \in Nat \ {0} PROVE a \div n + 1 \in Nat OBVIOUS
<1>3. (other - ts[p]) \div N + 1 \in Nat BY <1>1, <1>2, NPositive
<1> QED BY <1>3, OwnPlus DEF CatchUp

-----------------------------------------------------------------------------
(* Preservation of the invariant *)

USE ProcsAssumption, NoneAssumption

\* The state right after init satisfies the invariant.
LEMMA ChangerInvInit == Init => ChangerInv
<1> SUFFICES ASSUME Init PROVE ChangerInv OBVIOUS
<1>1. \A p \in Procs : Rank[p] \in Nat /\ Own(p, Rank[p])
  <2> SUFFICES ASSUME NEW p \in Procs PROVE Rank[p] \in Nat /\ Own(p, Rank[p]) OBVIOUS
  <2>1. Rank[p] \in Nat /\ Rank[p] = Rank[p] + 0 * N BY NPositive, RankAssumption
  <2> QED BY <2>1 DEF Own
<1>2. TypeOK BY <1>1, RankAssumption DEF Init, TypeOK, Epoch, Message
<1> QED BY <1>1, <1>2 DEF Init, ChangerInv, OwnTimestamps, StartingDistinct, StartedOnce

\* Handlers that only announce an own timestamp, or send messages that are not
\* NewEpoch, preserve the invariant.
LEMMA AnnounceStep ==
    ASSUME ChangerInv, NEW p \in Procs, NEW t \in Nat, Own(p, t), Announce(p, t),
           trusted' \in [Procs -> Procs], msgs' \subseteq msgs,
           UNCHANGED <<lastTs, pending, collected, starting, started>>
    PROVE  ChangerInv'
<1> USE DEF ChangerInv
<1>1. ts' = [ts EXCEPT ![p] = t] /\ queued' = [queued EXCEPT ![p] = @ \cup {t}]
  BY DEF Announce
<1>2. TypeOK' BY <1>1 DEF TypeOK
<1>3. OwnTimestamps'
  <2>1. ASSUME NEW q \in Procs PROVE Own(q, ts'[q]) /\ \A u \in queued'[q] : Own(q, u)
    <3>1. CASE q = p BY <1>1, <3>1 DEF TypeOK, OwnTimestamps
    <3>2. CASE q # p BY <1>1, <3>2 DEF TypeOK, OwnTimestamps
    <3> QED BY <3>1, <3>2
  <2> QED BY <2>1 DEF OwnTimestamps, Own
<1> QED BY <1>2, <1>3 DEF StartingDistinct, StartedOnce

\* Sending or consuming messages, as long as no NewEpoch message is added.
LEMMA MessageStep ==
    ASSUME ChangerInv, trusted' \in [Procs -> Procs],
           msgs' \subseteq msgs \cup NAckMsg \cup SubscribeMsg,
           UNCHANGED <<lastTs, ts, queued, pending, collected, starting, started>>
    PROVE  ChangerInv'
<1> USE DEF ChangerInv
<1>1. TypeOK' BY DEF TypeOK, Message
<1>2. \A m \in msgs' : m.type = "newEpoch" => m \in msgs BY DEF NAckMsg, SubscribeMsg
<1>3. OwnTimestamps' BY <1>2 DEF OwnTimestamps, Own
<1> QED BY <1>1, <1>3 DEF StartingDistinct, StartedOnce

\* An accepted epoch is newer than all that were started or are being started.
LEMMA AcceptEpochStep ==
    ASSUME ChangerInv, NEW p \in Procs, NEW m \in msgs, AcceptEpoch(p, m)
    PROVE  ChangerInv'
<1> USE DEF ChangerInv
<1>0. PICK e : e = [ts |-> m.ts, leader |-> m.from] OBVIOUS
<1>1. /\ m.type = "newEpoch" /\ m.ts \in Nat /\ m.from \in Procs /\ m.ts > lastTs[p]
      /\ e \in Epoch /\ e.ts = m.ts /\ e.leader = m.from
      /\ lastTs' = [lastTs EXCEPT ![p] = m.ts]
      /\ starting' = [starting EXCEPT ![p] = @ \cup {e}]
      /\ msgs' = msgs \ {m}
      /\ UNCHANGED <<trusted, ts, queued, pending, collected, started>>
  BY <1>0 DEF AcceptEpoch, Acceptable, TypeOK, Message, NewEpochMsg, NAckMsg, SubscribeMsg, Epoch
<1>2. TypeOK' BY <1>1 DEF TypeOK
<1>3. \A q \in Procs : q # p => starting'[q] = starting[q] /\ lastTs'[q] = lastTs[q]
  BY <1>1 DEF TypeOK
<1>4. starting'[p] = starting[p] \cup {e} /\ lastTs'[p] = m.ts BY <1>1 DEF TypeOK
<1>5. \A f \in starting[p] \cup started[p] : f.ts \in Nat /\ f.ts <= lastTs[p] /\ f.ts < m.ts
  <2> SUFFICES ASSUME NEW f \in starting[p] \cup started[p]
               PROVE  f.ts \in Nat /\ f.ts <= lastTs[p] /\ f.ts < m.ts
    OBVIOUS
  <2>1. f.ts \in Nat /\ lastTs[p] \in Nat BY DEF TypeOK, Epoch
  <2>2. f.ts <= lastTs[p] BY DEF StartedOnce
  <2> QED BY <1>1, <2>1, <2>2
<1>6. OwnTimestamps'
  <2>1. Own(e.leader, e.ts) BY <1>1 DEF OwnTimestamps
  <2>2. ASSUME NEW q \in Procs, NEW f \in starting'[q] \cup started[q] PROVE Own(f.leader, f.ts)
    BY <1>3, <1>4, <2>1 DEF OwnTimestamps
  <2> QED BY <1>1, <2>2 DEF OwnTimestamps, Own
<1>7. StartingDistinct'
  BY <1>1, <1>3, <1>4, <1>5 DEF StartingDistinct
<1>8. StartedOnce'
  <2>1. \A q \in Procs : started'[q] = started[q] BY <1>1
  <2>2. ASSUME NEW q \in Procs
        PROVE  /\ \A d \in starting'[q] : \A f \in started[q] : d.ts # f.ts
               /\ \A d \in starting'[q] \cup started[q] : d.ts <= lastTs'[q]
    <3>1. CASE q = p BY <1>1, <1>4, <1>5, <3>1 DEF StartedOnce
    <3>2. CASE q # p BY <1>3, <3>2 DEF StartedOnce
    <3> QED BY <3>1, <3>2
  <2> QED BY <2>1, <2>2 DEF StartedOnce
<1> QED BY <1>2, <1>6, <1>7, <1>8

\* A call of StartEpoch that reaches the Node late does not repeat an epoch.
LEMMA StartEpochStep ==
    ASSUME ChangerInv, NEW p \in Procs, StartEpoch(p)
    PROVE  ChangerInv'
<1> USE DEF ChangerInv
<1>1. PICK e \in starting[p] :
        /\ starting' = [starting EXCEPT ![p] = @ \ {e}]
        /\ started' = [started EXCEPT ![p] = @ \cup {e}]
        /\ UNCHANGED <<trusted, lastTs, ts, queued, pending, collected, msgs>>
  BY DEF StartEpoch
<1>2. TypeOK' BY <1>1 DEF TypeOK
<1>3. /\ starting'[p] = starting[p] \ {e} /\ started'[p] = started[p] \cup {e}
      /\ \A q \in Procs : q # p => starting'[q] = starting[q] /\ started'[q] = started[q]
  BY <1>1 DEF TypeOK
<1>4. OwnTimestamps'
  <2>1. \A q \in Procs : starting'[q] \cup started'[q] = starting[q] \cup started[q]
    BY <1>3
  <2> QED BY <1>1, <2>1 DEF OwnTimestamps, Own
<1>5. StartingDistinct' BY <1>3 DEF StartingDistinct
<1>6. \A f \in starting'[p] : f.ts # e.ts BY <1>3 DEF StartingDistinct
<1>7. StartedOnce'
  <2>1. ASSUME NEW q \in Procs
        PROVE  /\ \A d \in starting'[q] : \A f \in started'[q] : d.ts # f.ts
               /\ \A d \in starting'[q] \cup started'[q] : d.ts <= lastTs[q]
    <3>1. CASE q = p BY <1>3, <1>6, <3>1 DEF StartedOnce
    <3>2. CASE q # p BY <1>3, <3>2 DEF StartedOnce
    <3> QED BY <3>1, <3>2
  <2> QED BY <1>1, <2>1 DEF StartedOnce
<1> QED BY <1>2, <1>4, <1>5, <1>7

\* Every step of the epoch changers preserves the invariant.
LEMMA ChangerInvStep == ChangerInv /\ [Next]_vars => ChangerInv'
<1> SUFFICES ASSUME ChangerInv, [Next]_vars PROVE ChangerInv' OBVIOUS
<1> USE DEF ChangerInv
<1>i. \A p \in Procs : incTs(p) \in Nat /\ Own(p, incTs(p))
  BY IncTsOwn DEF TypeOK, OwnTimestamps
<1>0. CASE UNCHANGED vars
  BY <1>0, MessageStep DEF vars, TypeOK
<1>1. ASSUME NEW p \in Procs, NEW l \in Procs, OnNewLeader(p, l) PROVE ChangerInv'
  <2>1. /\ trusted' \in [Procs -> Procs]
        /\ UNCHANGED <<lastTs, pending, collected, starting, started>>
    BY <1>1 DEF OnNewLeader, TypeOK
  <2>2. CASE l = p
    <3>1. Announce(p, incTs(p)) /\ msgs' = msgs BY <1>1, <2>2 DEF OnNewLeader
    <3> QED BY <1>i, <2>1, <3>1, AnnounceStep
  <2>3. CASE l # p
    <3>1. /\ UNCHANGED <<ts, queued>>
          /\ msgs' = msgs \cup {[type |-> "subscribe", from |-> p, to |-> l, ts |-> lastTs[p]]}
      BY <1>1, <2>3 DEF OnNewLeader
    <3>2. [type |-> "subscribe", from |-> p, to |-> l, ts |-> lastTs[p]] \in SubscribeMsg
      BY DEF SubscribeMsg, TypeOK
    <3> QED BY <2>1, <3>1, <3>2, MessageStep
  <2> QED BY <2>2, <2>3
<1>2. ASSUME NEW p \in Procs, NewEpoch(p) PROVE ChangerInv'
  BY <1>i, <1>2, AnnounceStep DEF NewEpoch, TypeOK
<1>3. ASSUME NEW p \in Procs, Collect(p) PROVE ChangerInv'
  <2>1. PICK t \in queued[p] :
          /\ queued' = [queued EXCEPT ![p] = @ \ {t}]
          /\ pending' = [pending EXCEPT ![p] = t]
          /\ collected' = [collected EXCEPT ![p] = @ \cup {t}]
          /\ UNCHANGED <<trusted, lastTs, ts, starting, started, msgs>>
    BY <1>3 DEF Collect
  <2>2. TypeOK' BY <2>1 DEF TypeOK
  <2>3. /\ \A q \in Procs : queued'[q] \subseteq queued[q]
        /\ \A q \in Procs : pending'[q] = pending[q] \/ pending'[q] \in queued[q]
    BY <2>1 DEF TypeOK
  <2>4. OwnTimestamps' BY <2>1, <2>3 DEF OwnTimestamps, Own
  <2> QED BY <2>1, <2>2, <2>4 DEF StartingDistinct, StartedOnce
<1>4. ASSUME NEW p \in Procs, tryBroadcast(p) PROVE ChangerInv'
  <2> DEFINE new == {[type |-> "newEpoch", from |-> p, to |-> q, ts |-> pending[p]] : q \in Procs}
  <2>1. /\ pending[p] # None /\ pending' = [pending EXCEPT ![p] = None]
        /\ collected' = [collected EXCEPT ![p] = {}]
        /\ msgs' = msgs \cup new
        /\ UNCHANGED <<trusted, lastTs, ts, queued, starting, started>>
    BY <1>4 DEF tryBroadcast
  <2>2. pending[p] \in Nat /\ Own(p, pending[p]) BY <2>1 DEF TypeOK, OwnTimestamps
  <2>3. new \subseteq Message /\ \A m \in new : m.from = p /\ m.ts = pending[p]
    BY <2>2 DEF Message, NewEpochMsg
  <2> HIDE DEF new
  <2>4. TypeOK' BY <2>1, <2>3 DEF TypeOK
  <2>5. \A q \in Procs : pending'[q] = pending[q] \/ pending'[q] = None
    BY <2>1 DEF TypeOK
  <2>6. OwnTimestamps' BY <2>1, <2>2, <2>3, <2>5 DEF OwnTimestamps, Own
  <2> QED BY <2>1, <2>4, <2>6 DEF StartingDistinct, StartedOnce
<1>5. ASSUME NEW p \in Procs, NEW m \in msgs, RefuseEpoch(p, m) PROVE ChangerInv'
  <2>1. [type |-> "nack", from |-> p, to |-> m.from, ts |-> m.ts] \in NAckMsg
    BY <1>5 DEF TypeOK, RefuseEpoch, Message, NewEpochMsg, NAckMsg, SubscribeMsg
  <2> QED BY <1>5, <2>1, MessageStep DEF RefuseEpoch, TypeOK
<1>6. ASSUME NEW p \in Procs, NEW m \in msgs, handleNAck(p, m) PROVE ChangerInv'
  <2>1. CASE Announce(p, incTs(p))
    BY <1>i, <1>6, <2>1, AnnounceStep DEF handleNAck, TypeOK
  <2>2. CASE UNCHANGED <<ts, queued>>
    BY <1>6, <2>2, MessageStep DEF handleNAck, TypeOK
  <2> QED BY <1>6, <2>1, <2>2 DEF handleNAck
<1>7. ASSUME NEW p \in Procs, NEW m \in msgs, handleSubscribe(p, m) PROVE ChangerInv'
  <2>1. CASE ts[p] <= m.ts /\ Announce(p, CatchUp(p, m.ts))
    <3>1. m.ts \in Nat BY DEF TypeOK, Message, NewEpochMsg, NAckMsg, SubscribeMsg
    <3>2. CatchUp(p, m.ts) \in Nat /\ Own(p, CatchUp(p, m.ts))
      BY <2>1, <3>1, CatchUpOwn DEF TypeOK, OwnTimestamps
    <3> QED BY <1>7, <2>1, <3>2, AnnounceStep DEF handleSubscribe, TypeOK
  <2>2. CASE UNCHANGED <<ts, queued>>
    BY <1>7, <2>2, MessageStep DEF handleSubscribe, TypeOK
  <2> QED BY <1>7, <2>1, <2>2 DEF handleSubscribe
<1> QED
  BY <1>0, <1>1, <1>2, <1>3, <1>4, <1>5, <1>6, <1>7, AcceptEpochStep, StartEpochStep
  DEF Next, Deliver

-----------------------------------------------------------------------------
(* Theorems *)

\* The invariant of the epoch changers holds in every reachable state.
THEOREM ChangerCorrect == Spec => []ChangerInv
BY ChangerInvInit, ChangerInvStep, PTL DEF Spec

\* Every variable of epoch_change.go keeps its type.
THEOREM TypeCorrect == Spec => []TypeOK
<1>1. ChangerInv => TypeOK BY DEF ChangerInv
<1> QED BY <1>1, ChangerCorrect, PTL

\* Epochs that OnNewLeader, NewEpoch, handleNAck and handleSubscribe lead to,
\* at whatever processes, have one leader per timestamp.
THEOREM TimestampsConsistent == Spec => []Consistency
<1>1. ASSUME ChangerInv PROVE Consistency
  <2> SUFFICES ASSUME NEW p \in Procs, NEW q \in Procs, NEW d \in started[p], NEW e \in started[q],
                      d.ts = e.ts
               PROVE  d.leader = e.leader
    BY DEF Consistency
  <2>1. /\ d.ts \in Nat /\ d.leader \in Procs /\ e.leader \in Procs
        /\ Own(d.leader, d.ts) /\ Own(e.leader, d.ts)
    BY <1>1 DEF ChangerInv, TypeOK, Epoch, OwnTimestamps
  <2> QED BY <2>1, OneOwner
<1> QED BY <1>1, ChangerCorrect, PTL

\* handleNewEpoch never tells a Node to start the same epoch twice.
THEOREM EpochsStartedOnce == Spec => []StartedOnce
<1>1. ChangerInv => StartedOnce BY DEF ChangerInv
<1> QED BY <1>1, ChangerCorrect, PTL

=============================================================================
