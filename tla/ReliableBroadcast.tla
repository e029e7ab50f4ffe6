------------------------- MODULE ReliableBroadcast -------------------------
(***************************************************************************)
(* The crash-stop broadcasts of broadcaster/reliable.go, lazy and eager,     *)
(* over bestEffortBroadcaster (broadcaster/best_effort.go) and perfect links *)
(* (p2p/perfect.go).                                                       *)
(*                                                                         *)
(* A best-effort broadcast is a loop of sends, so a process can crash, or    *)
(* the caller's context can end, when some of them are done.  The lazy       *)
(* broadcaster hands a message up between two critical sections, and the     *)
(* crash of its origin can be reported in between.  Each process broadcasts  *)
(* at most one message, which is named by its origin.                       *)
(***************************************************************************)
EXTENDS Integers, FiniteSets

CONSTANTS
    Procs,
    Eager,          \* eagerReliableBroadcaster instead of the lazy one
    Broadcasters,   \* bound: the processes that broadcast, once each
    MaxCrashes,     \* bound: the number of crashes
    MayCancel       \* the processes whose context for Broadcast can end

VARIABLES
    alive,
    correct,    \* b.correct of each process
    begun,      \* the processes that have called Broadcast
    outbox,     \* the sends a process is in the middle of: the message, the
                \* receiver, and whose context bounds the loop
    sent,       \* messages handed to the links, with their receivers
    taken,      \* perfectP2PLinks.delivered
    pending,    \* messages a process has handed up and not recorded yet
    received,   \* b.received
    delivered   \* history: messages handed to the layer above

vars == <<alive, correct, begun, outbox, sent, taken, pending, received, delivered>>

\* Every process has added every other one with AddCorrect.
Init ==
    /\ alive = Procs
    /\ correct = [p \in Procs |-> Procs]
    /\ begun = {}
    /\ outbox = [p \in Procs |-> {}]
    /\ sent = {}
    /\ taken = [p \in Procs |-> {}]
    /\ pending = [p \in Procs |-> {}]
    /\ received = [p \in Procs |-> {}]
    /\ delivered = [p \in Procs |-> {}]

\* The sends of a best-effort broadcast of each message of ms, under the
\* context of the caller of Broadcast or under the broadcaster's own.
ToAll(ms, ctx) == ms \X Procs \X {ctx}

Broadcast(p) ==
    /\ p \in (alive \cap Broadcasters) \ begun
    /\ begun' = begun \cup {p}
    /\ outbox' = [outbox EXCEPT ![p] = @ \cup ToAll({p}, "caller")]
    /\ UNCHANGED <<alive, correct, sent, taken, pending, received, delivered>>

\* One round of the loop in bestEffortBroadcaster.Broadcast.
SendOne(p, s) ==
    /\ s \in outbox[p]
    /\ outbox' = [outbox EXCEPT ![p] = @ \ {s}]
    /\ sent' = sent \cup {<<s[1], s[2]>>}
    /\ UNCHANGED <<alive, correct, begun, taken, pending, received, delivered>>

\* The loop finds that the context of the caller of Broadcast has ended.
Cancel(p) ==
    /\ p \in MayCancel
    /\ outbox[p] \cap ToAll({p}, "caller") # {}
    /\ outbox' = [outbox EXCEPT ![p] = @ \ ToAll({p}, "caller")]
    /\ UNCHANGED <<alive, correct, begun, sent, taken, pending, received, delivered>>

\* perfectP2PLinks.Deliver, and Deliver of the broadcaster up to the point
\* where the layer above has the message.
Deliver(p, m) ==
    /\ p \in alive
    /\ <<m, p>> \in sent
    /\ m \notin taken[p]
    /\ taken' = [taken EXCEPT ![p] = @ \cup {m}]
    /\ delivered' = [delivered EXCEPT ![p] = @ \cup {m}]
    /\ pending' = [pending EXCEPT ![p] = @ \cup {m}]
    /\ UNCHANGED <<alive, correct, begun, outbox, sent, received>>

\* The messages Deliver broadcasts again: the eager one does so always, the
\* lazy one when the origin is not in correct (a mutant: it does not).
MustRelayEagerOnly(p, m) == Eager
MustRelay(p, m) == Eager \/ m \notin correct[p]

\* The rest of Deliver.
Record(p, m) ==
    /\ m \in pending[p]
    /\ pending' = [pending EXCEPT ![p] = @ \ {m}]
    /\ received' = [received EXCEPT ![p] = @ \cup {m}]
    /\ outbox' = IF MustRelay(p, m) THEN [outbox EXCEPT ![p] = @ \cup ToAll({m}, "own")]
                 ELSE outbox
    /\ UNCHANGED <<alive, correct, begun, sent, taken, delivered>>

\* OnCrash, whether the report of the failure detector is right or not.
OnCrash(p, q) ==
    /\ ~Eager
    /\ p \in alive
    /\ q \in correct[p]
    /\ correct' = [correct EXCEPT ![p] = @ \ {q}]
    /\ outbox' = [outbox EXCEPT ![p] = @ \cup ToAll(received[p] \cap {q}, "own")]
    /\ UNCHANGED <<alive, begun, sent, taken, pending, received, delivered>>

Crash(p) ==
    /\ p \in alive
    /\ Cardinality(Procs \ alive) < MaxCrashes
    /\ alive' = alive \ {p}
    /\ outbox' = [outbox EXCEPT ![p] = {}]
    /\ pending' = [pending EXCEPT ![p] = {}]
    /\ UNCHANGED <<correct, begun, sent, taken, received, delivered>>

\* (A report of a process that broadcasts nothing has no effect.)
Next ==
    \E p \in Procs :
        \/ Broadcast(p) \/ Cancel(p) \/ Crash(p)
        \/ \E s \in outbox[p] : SendOne(p, s)
        \/ \E m \in Broadcasters : Deliver(p, m) \/ Record(p, m) \/ OnCrash(p, m)

\* A live process ends its loops and handlers, takes what the links have for
\* it, and is told of every crash (strong completeness of the detector).
Work(p) ==
    \/ \E s \in outbox[p] : SendOne(p, s)
    \/ \E m \in Broadcasters : Deliver(p, m) \/ Record(p, m)
    \/ \E q \in Broadcasters \ alive : OnCrash(p, q)

Spec == Init /\ [][Next]_vars /\ \A p \in Procs : WF_vars(Work(p))

-----------------------------------------------------------------------------
(* Properties *)

\* A message a live process has delivered is being sent or already sent to
\* everybody else by some live process, or that process still has its handler
\* to finish, or its origin is not yet known to have crashed: whenever the
\* origin crashes, no step of Deliver and OnCrash in any order loses the
\* message (the two critical sections of Deliver against OnCrash).
NoMessageLost ==
    \A p \in alive, m \in Procs \ alive : m \in delivered[p] =>
        \/ m \in pending[p]
        \/ ~Eager /\ m \in correct[p]
        \/ \A q \in Procs : <<m, q, "own">> \in outbox[p] \/ <<m, q>> \in sent

\* The processes that are alive have delivered the same messages.  In the end
\* this holds although an origin crashes or its caller's context ends in the
\* middle of the broadcast (Deliver, OnCrash).
AllOrNone == \A p, q \in alive : delivered[p] = delivered[q]

=============================================================================
