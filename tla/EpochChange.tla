---------------------------- MODULE EpochChange ----------------------------
(***************************************************************************)
(* LeaderBasedEpochChanger (consensus/failnoisy/uniform/epoch_change.go):    *)
(* announces epochs (timestamp and leader) to the consensus Node, driven by  *)
(* the leader the election trusts.  Timestamps of rank r are r + k * N.      *)
(*                                                                         *)
(* Handlers run in many goroutines: ec.mu covers the state, but a handler    *)
(* hands its NewEpoch message to bcastNewEpochCh, and an accepted epoch to   *)
(* the Node, after it has released the lock.  Between the two, other        *)
(* handlers run; the sets queued and starting hold what is under way.       *)
(***************************************************************************)
EXTENDS Integers, FiniteSets

CONSTANTS
    Procs,      \* the processes
    Rank,       \* their ranks
    InitTrusted,\* the maximal process id, trusted before the first election
    MaxTs,      \* bound: no handler runs that would push a counter beyond it
    None        \* no message pending

N == Cardinality(Procs)

ASSUME ProcsAssumption == IsFiniteSet(Procs) /\ InitTrusted \in Procs
ASSUME RankAssumption ==
    /\ Rank \in [Procs -> 1 .. N]
    /\ \A p, q \in Procs : Rank[p] = Rank[q] => p = q
ASSUME MaxTsAssumption == MaxTs \in Nat
ASSUME NoneAssumption == None \notin Int

VARIABLES
    trusted,    \* ec.trusted
    lastTs,     \* ec.lastTs
    ts,         \* ec.ts
    queued,     \* timestamps of NewEpoch messages on their way into bcastNewEpochCh
    pending,    \* background: the message the debounce timers hold back
    collected,  \* history: what background has taken since it last broadcast
    starting,   \* calls of StartEpoch under way: [ts, leader]
    started,    \* history: calls of StartEpoch the Node has received
    msgs        \* messages in flight

vars == <<trusted, lastTs, ts, queued, pending, collected, starting, started, msgs>>

NewEpochMsg  == [type : {"newEpoch"}, from : Procs, to : Procs, ts : Nat]
NAckMsg      == [type : {"nack"}, from : Procs, to : Procs, ts : Nat]
SubscribeMsg == [type : {"subscribe"}, from : Procs, to : Procs, ts : Nat]
Message      == NewEpochMsg \cup NAckMsg \cup SubscribeMsg
Epoch        == [ts : Nat, leader : Procs]

Init ==
    /\ trusted = [p \in Procs |-> InitTrusted]
    /\ lastTs = [p \in Procs |-> 0]
    /\ ts = Rank
    /\ queued = [p \in Procs |-> {}]
    /\ pending = [p \in Procs |-> None]
    /\ collected = [p \in Procs |-> {}]
    /\ starting = [p \in Procs |-> {}]
    /\ started = [p \in Procs |-> {}]
    /\ msgs = {}

-----------------------------------------------------------------------------

\* incTs, makeNewEpochMsg and the hand-over to triggerBroadcastNewEpoch, for the
\* new timestamp t.
Announce(p, t) ==
    /\ t <= MaxTs
    /\ ts' = [ts EXCEPT ![p] = t]
    /\ queued' = [queued EXCEPT ![p] = @ \cup {t}]

\* Mutant of incTs: the next number instead of the next own one.
incTsByOne(p) == ts[p] + 1

\* func incTs
incTs(p) == ts[p] + N

\* func OnNewLeader, called by the election.
OnNewLeader(p, l) ==
    /\ trusted' = [trusted EXCEPT ![p] = l]
    /\ \/ /\ l # p
          /\ msgs' = msgs \cup {[type |-> "subscribe", from |-> p, to |-> l,
                                 ts |-> lastTs[p]]}
          /\ UNCHANGED <<ts, queued>>
       \/ /\ l = p
          /\ Announce(p, incTs(p))
          /\ UNCHANGED msgs
    /\ UNCHANGED <<lastTs, pending, collected, starting, started>>

\* func NewEpoch, called by the owner of the changer.
NewEpoch(p) ==
    /\ trusted[p] = p
    /\ Announce(p, incTs(p))
    /\ UNCHANGED <<trusted, lastTs, pending, collected, starting, started, msgs>>

\* background: case msg := <-ec.bcastNewEpochCh.  The message taken last stays
\* pending.
Collect(p) ==
    \E t \in queued[p] :
        /\ queued' = [queued EXCEPT ![p] = @ \ {t}]
        /\ pending' = [pending EXCEPT ![p] = t]
        /\ collected' = [collected EXCEPT ![p] = @ \cup {t}]
        /\ UNCHANGED <<trusted, lastTs, ts, starting, started, msgs>>

\* Mutant of tryBroadcast: no check for a pending message.
broadcastAnyway(p) ==
    /\ pending' = [pending EXCEPT ![p] = None]
    /\ collected' = [collected EXCEPT ![p] = {}]
    /\ msgs' = msgs \cup {[type |-> "newEpoch", from |-> p, to |-> q,
                           ts |-> pending[p]] : q \in Procs}
    /\ UNCHANGED <<trusted, lastTs, ts, queued, starting, started>>

\* tryBroadcast, when one of the two timers fires.
tryBroadcast(p) ==
    /\ pending[p] # None
    /\ pending' = [pending EXCEPT ![p] = None]
    /\ collected' = [collected EXCEPT ![p] = {}]
    /\ msgs' = msgs \cup {[type |-> "newEpoch", from |-> p, to |-> q,
                           ts |-> pending[p]] : q \in Procs}
    /\ UNCHANGED <<trusted, lastTs, ts, queued, starting, started>>

-----------------------------------------------------------------------------
(* Deliver *)

\* Mutant of Acceptable: any timestamp of the trusted leader.
AcceptableAtAnyTs(p, m) == m.from = trusted[p]

\* The condition of handleNewEpoch.
Acceptable(p, m) == m.from = trusted[p] /\ m.ts > lastTs[p]

\* handleNewEpoch, a message of the trusted leader with a higher timestamp.
AcceptEpoch(p, m) ==
    /\ m.type = "newEpoch" /\ m.to = p
    /\ Acceptable(p, m)
    /\ lastTs' = [lastTs EXCEPT ![p] = m.ts]
    /\ starting' = [starting EXCEPT ![p] = @ \cup {[ts |-> m.ts, leader |-> m.from]}]
    /\ msgs' = msgs \ {m}
    /\ UNCHANGED <<trusted, ts, queued, pending, collected, started>>

\* handleNewEpoch, any other: the sender gets a NAck.  (The NAck carries
\* nothing; ts tells the NAcks of several messages apart.)
RefuseEpoch(p, m) ==
    /\ m.type = "newEpoch" /\ m.to = p
    /\ ~Acceptable(p, m)
    /\ msgs' = (msgs \ {m}) \cup {[type |-> "nack", from |-> p, to |-> m.from,
                                   ts |-> m.ts]}
    /\ UNCHANGED <<trusted, lastTs, ts, queued, pending, collected, starting,
                   started>>

\* starter.StartEpoch, after the lock was released.
StartEpoch(p) ==
    \E e \in starting[p] :
        /\ starting' = [starting EXCEPT ![p] = @ \ {e}]
        /\ started' = [started EXCEPT ![p] = @ \cup {e}]
        /\ UNCHANGED <<trusted, lastTs, ts, queued, pending, collected, msgs>>

handleNAck(p, m) ==
    /\ m.type = "nack" /\ m.to = p
    /\ msgs' = msgs \ {m}
    /\ \/ /\ trusted[p] = p
          /\ Announce(p, incTs(p))
       \/ /\ trusted[p] # p
          /\ UNCHANGED <<ts, queued>>
    /\ UNCHANGED <<trusted, lastTs, pending, collected, starting, started>>

\* for ec.ts <= otherTs { ec.incTs() }: the first timestamp of p above other.
CatchUp(p, other) == ts[p] + N * ((other - ts[p]) \div N + 1)

handleSubscribe(p, m) ==
    /\ m.type = "subscribe" /\ m.to = p
    /\ msgs' = msgs \ {m}
    /\ \/ /\ trusted[p] = p /\ ts[p] <= m.ts
          /\ Announce(p, CatchUp(p, m.ts))
       \/ /\ trusted[p] # p \/ ts[p] > m.ts
          /\ UNCHANGED <<ts, queued>>
    /\ UNCHANGED <<trusted, lastTs, pending, collected, starting, started>>

Deliver(p) ==
    \E m \in msgs :
        \/ AcceptEpoch(p, m)
        \/ RefuseEpoch(p, m)
        \/ handleNAck(p, m)
        \/ handleSubscribe(p, m)

Next ==
    \E p \in Procs :
        \/ \E l \in Procs : OnNewLeader(p, l)
        \/ NewEpoch(p)
        \/ Collect(p)
        \/ tryBroadcast(p)
        \/ Deliver(p)
        \/ StartEpoch(p)

Spec == Init /\ [][Next]_vars

-----------------------------------------------------------------------------
(* Properties *)

\* Every variable keeps to the type of the code's field.
TypeOK ==
    /\ trusted \in [Procs -> Procs]
    /\ lastTs \in [Procs -> Nat]
    /\ ts \in [Procs -> Nat]
    /\ queued \in [Procs -> SUBSET Nat]
    /\ pending \in [Procs -> Nat \cup {None}]
    /\ collected \in [Procs -> SUBSET Nat]
    /\ starting \in [Procs -> SUBSET Epoch]
    /\ started \in [Procs -> SUBSET Epoch]
    /\ msgs \subseteq Message

\* Epochs announced to any Nodes with the same timestamp have the same leader:
\* the rank-based partition of the timestamps survives every increment and
\* every catch-up.
Consistency ==
    \A p, q \in Procs : \A d \in started[p], e \in started[q] :
        d.ts = e.ts => d.leader = e.leader

\* No Node is told to start the same epoch twice, however late the call comes
\* after lastTs was advanced.
StartedOnce ==
    \A p \in Procs :
        /\ \A e \in starting[p] : \A f \in started[p] : e.ts # f.ts
        /\ \A e \in starting[p] \cup started[p] : e.ts <= lastTs[p]

\* "Only the latest message is broadcast since newer epochs supersede older
\* ones": what tryBroadcast would send is the newest of what was collected.
LatestIsPending ==
    \A p \in Procs : pending[p] # None => \A t \in collected[p] : t <= pending[p]

=============================================================================
