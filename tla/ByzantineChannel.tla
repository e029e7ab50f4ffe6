------------------------- MODULE ByzantineChannel --------------------------
(***************************************************************************)
(* byzantineChannel of broadcaster/byzantine_channel.go at the correct       *)
(* processes: a sequence of broadcast instances for each originator, of      *)
(* which only the current one takes messages.                               *)
(*                                                                         *)
(* An instance is an authenticated echo broadcast (EchoBroadcast) without    *)
(* faulty processes: the broadcast message of its originator, an echo from   *)
(* each process, delivery on a quorum of echoes.  The channel calls that      *)
(* deliver an instance's message run in goroutines of their own, and hand    *)
(* the message up after they have released the mutex.                       *)
(***************************************************************************)
EXTENDS Integers, Sequences, FiniteSets

CONSTANTS
    Procs,
    Faults,         \* the faults the instances are configured for
    Originators,    \* bound: the processes that broadcast
    MaxBroadcasts   \* bound: the messages of an originator, named 1, 2, ...

VARIABLES
    n,          \* b.n: the number of the current instance of each originator
    echos,      \* of the current instance: whose echoes have arrived
    sentEcho,   \* of the current instance
    queue,      \* b.queue
    ready,      \* b.ready
    asked,      \* how many messages the process has been asked to broadcast
    sent,       \* ByzChannelMessages handed to the link
    taken,      \* those the link has delivered to each process
    calls,      \* onBCBDelivered goroutines that have not run yet
    upcalls,    \* domain messages on their way to the layer above
    delivered   \* history: domain messages handed to the layer above

instanceVars == <<n, echos, sentEcho>>
queueVars == <<queue, ready, asked>>
vars == <<instanceVars, queueVars, sent, taken, calls, upcalls, delivered>>

quorum == (Cardinality(Procs) + Faults) \div 2

\* bcbLink.Send: a message of an instance is tagged with its originator and number.
Wrapped(type, from, s, k, m) ==
    [type |-> type, from |-> from, sender |-> s, number |-> k, inner |-> m]
Domain(s, k, m) == [sender |-> s, number |-> k, inner |-> m]

\* Init: instance 0 of every process.
Init ==
    /\ n = [p \in Procs |-> [s \in Procs |-> 0]]
    /\ echos = [p \in Procs |-> [s \in Procs |-> {}]]
    /\ sentEcho = [p \in Procs |-> [s \in Procs |-> FALSE]]
    /\ queue = [p \in Procs |-> <<>>]
    /\ ready = [p \in Procs |-> TRUE]
    /\ asked = [p \in Procs |-> 0]
    /\ sent = {}
    /\ taken = [p \in Procs |-> {}]
    /\ calls = [p \in Procs |-> {}]
    /\ upcalls = [p \in Procs |-> {}]
    /\ delivered = [p \in Procs |-> {}]

\* (A mutant: ready is not reset.)
DequeueStillReady(p, q, r, k) ==
    /\ queue' = [queue EXCEPT ![p] = IF r /\ q # <<>> THEN Tail(q) ELSE q]
    /\ ready' = [ready EXCEPT ![p] = r]
    /\ sent' = IF r /\ q # <<>> THEN sent \cup {Wrapped("send", p, p, k, Head(q))} ELSE sent

\* dequeueLocked with queue q and flag r, and Broadcast of instance k.
Dequeue(p, q, r, k) ==
    IF r /\ q # <<>>
    THEN /\ queue' = [queue EXCEPT ![p] = Tail(q)]
         /\ ready' = [ready EXCEPT ![p] = FALSE]
         /\ sent' = sent \cup {Wrapped("send", p, p, k, Head(q))}
    ELSE /\ queue' = [queue EXCEPT ![p] = q]
         /\ ready' = [ready EXCEPT ![p] = r]
         /\ UNCHANGED sent

Broadcast(p) ==
    /\ asked[p] < MaxBroadcasts
    /\ asked' = [asked EXCEPT ![p] = @ + 1]
    /\ Dequeue(p, Append(queue[p], asked'[p]), ready[p], n[p][p])
    /\ UNCHANGED <<instanceVars, taken, calls, upcalls, delivered>>

Take(p, m) ==
    /\ m \in sent \ taken[p]
    /\ taken' = [taken EXCEPT ![p] = @ \cup {m}]
    /\ UNCHANGED <<n, queueVars, upcalls, delivered>>

Current(p, m) == m.number = n[p][m.sender]

\* Deliver: a message of another instance than the current one is dropped.
Drop(p, m) ==
    /\ ~Current(p, m)
    /\ Take(p, m)
    /\ UNCHANGED <<echos, sentEcho, sent, calls>>

\* The instance's handler of the originator's message.
DeliverSend(p, m) ==
    /\ m.type = "send" /\ Current(p, m)
    /\ ~sentEcho[p][m.sender]
    /\ Take(p, m)
    /\ sentEcho' = [sentEcho EXCEPT ![p][m.sender] = TRUE]
    /\ sent' = sent \cup {Wrapped("echo", p, m.sender, m.number, m.inner)}
    /\ UNCHANGED <<echos, calls>>

\* The instance's handler of an echo; more than a quorum of others starts the
\* goroutine that delivers, once.
DeliverEcho(p, m) ==
    /\ m.type = "echo" /\ Current(p, m)
    /\ Take(p, m)
    /\ echos' = [echos EXCEPT ![p][m.sender] = @ \cup {m.from}]
    /\ LET count(e) == Cardinality(e[p][m.sender]) - 1 IN
        calls' = IF count(echos') > quorum /\ ~(count(echos) > quorum)
                 THEN [calls EXCEPT ![p] = @ \cup {Domain(m.sender, m.number, m.inner)}]
                 ELSE calls
    /\ UNCHANGED <<sentEcho, sent>>

\* onBCBDelivered up to the release of the mutex; the next broadcast of the
\* queue goes out when the current one was the process's own.
OnBCBDelivered(p, d) ==
    /\ d \in calls[p]
    /\ calls' = [calls EXCEPT ![p] = @ \ {d}]
    /\ IF n[p][d.sender] # d.number
       THEN UNCHANGED <<instanceVars, queueVars, sent, upcalls>>
       ELSE /\ n' = [n EXCEPT ![p][d.sender] = d.number + 1]
            /\ echos' = [echos EXCEPT ![p][d.sender] = {}]
            /\ sentEcho' = [sentEcho EXCEPT ![p][d.sender] = FALSE]
            /\ upcalls' = [upcalls EXCEPT ![p] = @ \cup {d}]
            /\ IF d.sender = p THEN Dequeue(p, queue[p], TRUE, d.number + 1)
                               ELSE UNCHANGED <<queue, ready, sent>>
            /\ UNCHANGED asked
    /\ UNCHANGED <<taken, delivered>>

\* onBCBDelivered: the layer above gets the domain message.
Upcall(p, d) ==
    /\ d \in upcalls[p]
    /\ upcalls' = [upcalls EXCEPT ![p] = @ \ {d}]
    /\ delivered' = [delivered EXCEPT ![p] = @ \cup {d}]
    /\ UNCHANGED <<instanceVars, queueVars, sent, taken, calls>>

Work(p) ==
    \/ \E m \in sent : Drop(p, m) \/ DeliverSend(p, m) \/ DeliverEcho(p, m)
    \/ \E d \in calls[p] : OnBCBDelivered(p, d)
    \/ \E d \in upcalls[p] : Upcall(p, d)

Next == \E p \in Procs : (p \in Originators /\ Broadcast(p)) \/ Work(p)

\* Links deliver every message once and goroutines run.
Spec == Init /\ [][Next]_vars /\ \A p \in Procs : WF_vars(Work(p))

-----------------------------------------------------------------------------
(* Properties *)

\* The channel of an originator has one instance in progress: ready is FALSE
\* exactly while the message of its current instance is out and not delivered,
\* so no instance ever carries two messages (dequeueLocked, onBCBDelivered).
ReadyMatchesInstance ==
    \A p \in Procs :
        LET out(k) == {m \in sent : m.type = "send" /\ m.from = p /\ m.number = k} IN
            /\ ready[p] <=> out(n[p][p]) = {}
            /\ \A k \in 0 .. MaxBroadcasts : Cardinality(out(k)) <= 1
            /\ \A k \in n[p][p] + 1 .. MaxBroadcasts : out(k) = {}

\* The message with number k of an originator is the one it was asked to
\* broadcast as number k + 1, at every process: the queue, the instances and
\* the goroutines that finish in any order never renumber a message
\* (Broadcast, dequeueLocked, onBCBDelivered).
NumberedInOrder ==
    \A p \in Procs : \A d \in delivered[p] : d.inner = d.number + 1

\* The first message a process was asked to broadcast is delivered everywhere.
\* In the end this holds however the messages of the second instance arrive in
\* between (Deliver, onBCBDelivered).  Of the second message it does not: a
\* process that is still in the first instance drops it for good.
FirstArrived ==
    \A s \in Originators : asked[s] >= 1 =>
        \A p \in Procs : \E d \in delivered[p] : d.sender = s /\ d.inner = 1

=============================================================================
