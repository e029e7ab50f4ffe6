--------------------------- MODULE EchoBroadcast ---------------------------
(***************************************************************************)
(* One instance of authenticatedEchoBroadcaster, the authenticated echo      *)
(* broadcast of broadcaster/byzantine_consistence.go.                       *)
(*                                                                         *)
(* The handler of a broadcast message reads and writes sentEcho without a    *)
(* lock, so it is two steps here, and up to Readers of them overlap at a     *)
(* process; the handler of an echo holds mu and is one step.                *)
(*                                                                         *)
(* Links are authenticated (external): a message names its real sender.      *)
(* The messages of a faulty process need not be recorded: any of them can    *)
(* arrive at any time.                                                     *)
(***************************************************************************)
EXTENDS ByzantineSystem

VARIABLES
    broadcast,  \* the value a correct sender has broadcast
    entered,    \* broadcast handlers that have read sentEcho = false
    sentEcho,
    sent,       \* history: the echoes each correct process has sent
    echos,      \* the first echo from each process
    flag,       \* b.delivered
    delivered   \* the last value handed to the layer above

vars == <<broadcast, entered, sentEcho, sent, echos, flag, delivered>>

quorumRoundedUp == (Cardinality(Processes) + Faults + 1) \div 2
quorum == (Cardinality(Processes) + Faults) \div 2

Init ==
    /\ broadcast = None
    /\ entered = [p \in Correct |-> {}]
    /\ sentEcho = [p \in Correct |-> FALSE]
    /\ sent = [p \in Correct |-> {}]
    /\ echos = [p \in Correct |-> [q \in Processes |-> None]]
    /\ flag = [p \in Correct |-> FALSE]
    /\ delivered = [p \in Correct |-> None]

\* The layer above uses an instance for one message, as byzantineChannel does.
Broadcast(v) ==
    /\ Sender \in Correct
    /\ broadcast = None
    /\ broadcast' = v
    /\ UNCHANGED <<entered, sentEcho, sent, echos, flag, delivered>>

\* What the sender's broadcast messages hold: a faulty one may send anything.
Offered == IF Sender \in Byzantine THEN Values ELSE {broadcast} \ {None}

\* Deliver of a broadcast message, up to the test of sentEcho.
EnterSend(p, v) ==
    /\ v \in Offered
    /\ ~sentEcho[p]
    /\ v \notin entered[p]
    /\ Cardinality(entered[p]) < Readers
    /\ entered' = [entered EXCEPT ![p] = @ \cup {v}]
    /\ UNCHANGED <<broadcast, sentEcho, sent, echos, flag, delivered>>

\* Deliver of a broadcast message, from the assignment to sentEcho on.
SendEcho(p, v) ==
    /\ v \in entered[p]
    /\ entered' = [entered EXCEPT ![p] = @ \ {v}]
    /\ sentEcho' = [sentEcho EXCEPT ![p] = TRUE]
    /\ sent' = [sent EXCEPT ![p] = @ \cup {v}]
    /\ UNCHANGED <<broadcast, echos, flag, delivered>>

\* The values an echo that says it is from q can hold.
Echoed(q) == IF q \in Byzantine THEN Values ELSE sent[q]

\* The echo of e[q] is equal to those of more than a quorum of the others
\* (a mutant: it counts itself, and a quorum is enough).
SupportedLoosely(e, q) == e[q] # None /\ Cardinality({r \in DOMAIN e : e[r] = e[q]}) >= quorum
Supported(e, q) ==
    /\ e[q] # None
    /\ Cardinality({r \in DOMAIN e \ {q} : e[r] = e[q]}) > quorum

\* What is handed up is decoded first.
Handed(p, v) == IF v \in Undecodable THEN delivered ELSE [delivered EXCEPT ![p] = v]

\* Deliver of an echo: the first one of each process counts; maybeDeliverInner.
ReceiveEcho(p, q, v) ==
    /\ v \in Echoed(q)
    /\ echos[p][q] = None
    /\ LET e == [echos[p] EXCEPT ![q] = v] IN
        /\ echos' = [echos EXCEPT ![p] = e]
        /\ \/ /\ flag[p] \/ \A r \in Processes : ~Supported(e, r)
              /\ UNCHANGED <<flag, delivered>>
           \/ /\ ~flag[p]
              /\ \E r \in Processes :
                  /\ Supported(e, r)
                  /\ flag' = [flag EXCEPT ![p] = TRUE]
                  /\ delivered' = Handed(p, e[r])
    /\ UNCHANGED <<broadcast, entered, sentEcho, sent>>

Next ==
    \E v \in Values :
        \/ Broadcast(v)
        \/ \E p \in Correct :
            \/ EnterSend(p, v)
            \/ SendEcho(p, v)
            \/ \E q \in Processes : ReceiveEcho(p, q, v)

\* What a process has to do with the messages of correct processes.
Progress(p) ==
    \E v \in Values :
        \/ EnterSend(p, v)
        \/ SendEcho(p, v)
        \/ \E q \in Correct : ReceiveEcho(p, q, v)

\* Links deliver what a correct process sent, and handlers run to their end:
\* there are finitely many such steps, so one condition for each process will do.
Spec == Init /\ [][Next]_vars /\ \A p \in Correct : WF_vars(Progress(p))

-----------------------------------------------------------------------------
(* Properties *)

\* The echoes that made a process deliver leave every other correct process
\* without a quorum for another value: no later echo can undo agreement.
\* (maybeDeliverInner; the reason two quorums cannot disagree.)
QuorumsIntersect ==
    \A p, q \in Correct : \A r, s \in Processes :
        Supported(echos[p], r) /\ Supported(echos[q], s)
            => echos[p][r] = echos[q][s]

=============================================================================
