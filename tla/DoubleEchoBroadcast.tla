------------------------ MODULE DoubleEchoBroadcast ------------------------
(***************************************************************************)
(* One instance of authenticatedDoubleEchoBroadcaster, the Byzantine         *)
(* reliable broadcast of broadcaster/byzantine_reliable.go.                 *)
(*                                                                         *)
(* No handler holds a lock while it tests and sets sentEcho, sentReady and   *)
(* delivered: a test and the assignment it guards are two steps, and up to   *)
(* Readers handlers overlap at a process.  The state of a handler between    *)
(* the two is an entry of busy.  Links are authenticated (external); the     *)
(* messages of faulty processes can arrive at any time.                     *)
(***************************************************************************)
EXTENDS ByzantineSystem

VARIABLES
    broadcast,  \* the value a correct sender has broadcast
    busy,       \* the handlers between a test and what it guards
    sentEcho, sentReady,
    flag,       \* b.delivered
    sent,       \* the echoes and readys of correct processes, relayed ones too
    echos,      \* the first echo from each process
    readys,     \* the first ready from each process
    delivered,  \* the last value handed to the layer above
    count       \* history: how often a value was handed to it

protocolVars == <<sentEcho, sentReady, flag, echos, readys>>
vars == <<broadcast, busy, protocolVars, sent, delivered, count>>

byzantineQuorum == (Cardinality(Processes) + Faults) \div 2

\* A message names the process it is from, also when another one relays it.
Echo(p, v) == [type |-> "echo", from |-> p, inner |-> v]
Ready(p, v) == [type |-> "ready", from |-> p, inner |-> v]

Init ==
    /\ broadcast = None
    /\ busy = [p \in Correct |-> {}]
    /\ sentEcho = [p \in Correct |-> FALSE]
    /\ sentReady = [p \in Correct |-> FALSE]
    /\ flag = [p \in Correct |-> FALSE]
    /\ sent = {}
    /\ echos = [p \in Correct |-> [q \in Processes |-> None]]
    /\ readys = [p \in Correct |-> [q \in Processes |-> None]]
    /\ delivered = [p \in Correct |-> None]
    /\ count = [p \in Correct |-> 0]

\* Broadcast does nothing at a process that is not the sender.
Broadcast(v) ==
    /\ Sender \in Correct
    /\ broadcast = None
    /\ broadcast' = v
    /\ UNCHANGED <<busy, protocolVars, sent, delivered, count>>

Offered == IF Sender \in Byzantine THEN Values ELSE {broadcast} \ {None}

Idle(p) == Cardinality(busy[p]) < Readers

\* A handler goes on to do op with the message m; the number tells handlers apart.
Entry(p, op, m) ==
    LET i == CHOOSE i \in 1 .. Readers + 1 : \A b \in busy[p] : b.reader # i
    IN  [op |-> op, msg |-> m, reader |-> i]

\* The processes whose message is equal to those of more than n others
\* (a mutant: it counts itself, and n are enough).
SupportedLoosely(received, n) ==
    {q \in Processes : received[q] # None
                       /\ Cardinality({r \in Processes : received[r] = received[q]}) >= n}
Supported(received, n) ==
    {q \in Processes :
        /\ received[q] # None
        /\ Cardinality({r \in Processes \ {q} : received[r] = received[q]}) > n}

\* handleSendMessage: the tests of the origin and of sentEcho.
EnterSend(p, v) ==
    /\ v \in Offered
    /\ ~sentEcho[p]
    /\ Idle(p)
    /\ busy' = [busy EXCEPT ![p] = @ \cup {Entry(p, "echo", Echo(p, v))}]
    /\ UNCHANGED <<broadcast, protocolVars, sent, delivered, count>>

SendEcho(p, b) ==
    /\ b.op = "echo"
    /\ busy' = [busy EXCEPT ![p] = @ \ {b}]
    /\ sentEcho' = [sentEcho EXCEPT ![p] = TRUE]
    /\ sent' = sent \cup {b.msg}
    /\ UNCHANGED <<broadcast, sentReady, flag, echos, readys, delivered, count>>

\* handleEchoMessage: the first echo of a process is kept; checkReadyStage.
ReceiveEcho(p, q, v) ==
    /\ q \in Byzantine \/ Echo(q, v) \in sent
    /\ Idle(p)
    /\ echos[p][q] = None
    /\ echos' = [echos EXCEPT ![p][q] = v]
    /\ LET quorum == Supported(echos'[p], byzantineQuorum) IN
        \/ /\ sentReady[p] \/ quorum = {}
           /\ UNCHANGED busy
        \/ /\ ~sentReady[p]
           /\ \E r \in quorum :
               busy' = [busy EXCEPT ![p] =
                           @ \cup {Entry(p, "ready", Ready(p, echos'[p][r]))}]
    /\ UNCHANGED <<broadcast, sentEcho, sentReady, flag, readys, sent, delivered, count>>

SendReady(p, b) ==
    /\ b.op = "ready"
    /\ busy' = [busy EXCEPT ![p] = @ \ {b}]
    /\ sentReady' = [sentReady EXCEPT ![p] = TRUE]
    /\ sent' = sent \cup {b.msg}
    /\ UNCHANGED <<broadcast, sentEcho, flag, echos, readys, delivered, count>>

\* checkDeliver: the handler goes on to deliver, or ends.
CheckDeliver(p, others) ==
    LET quorum == Supported(readys'[p], 2 * Faults) IN
        \/ /\ flag[p] \/ quorum = {}
           /\ busy' = [busy EXCEPT ![p] = others]
        \/ /\ ~flag[p]
           /\ \E r \in quorum :
               busy' = [busy EXCEPT ![p] =
                           others \cup {Entry(p, "deliver", Ready(r, readys'[p][r]))}]

\* handleReadyMessage: the first ready of a process is kept; checkEnhanceReady,
\* and checkDeliver where nothing is to be relayed.
ReceiveReady(p, q, v) ==
    /\ q \in Byzantine \/ Ready(q, v) \in sent
    /\ Idle(p)
    /\ readys[p][q] = None
    /\ readys' = [readys EXCEPT ![p][q] = v]
    /\ LET quorum == Supported(readys'[p], Faults) IN
        \/ /\ sentReady[p] \/ quorum = {}
           /\ CheckDeliver(p, busy[p])
        \/ /\ ~sentReady[p]
           /\ \E r \in quorum :
               busy' = [busy EXCEPT ![p] =
                           @ \cup {Entry(p, "relay", Ready(r, readys'[p][r]))}]
    /\ UNCHANGED <<broadcast, sentEcho, sentReady, flag, echos, sent, delivered, count>>

\* (A mutant: the handler ends with the relay.)
RelayReadyOnly(p, b) ==
    /\ b.op = "relay"
    /\ sentReady' = [sentReady EXCEPT ![p] = TRUE]
    /\ sent' = sent \cup {b.msg}
    /\ busy' = [busy EXCEPT ![p] = @ \ {b}]
    /\ UNCHANGED <<broadcast, sentEcho, flag, echos, readys, delivered, count>>

\* handleReadyMessage: the ready of another process is sent on as it is, in
\* place of one of its own; then checkDeliver.
RelayReady(p, b) ==
    /\ b.op = "relay"
    /\ sentReady' = [sentReady EXCEPT ![p] = TRUE]
    /\ sent' = sent \cup {b.msg}
    /\ UNCHANGED readys
    /\ CheckDeliver(p, busy[p] \ {b})
    /\ UNCHANGED <<broadcast, sentEcho, flag, echos, delivered, count>>

\* (A mutant: delivered is not set.)
DeliverReadyUnflagged(p, b) ==
    /\ b.op = "deliver"
    /\ busy' = [busy EXCEPT ![p] = @ \ {b}]
    /\ delivered' = [delivered EXCEPT ![p] = b.msg.inner]
    /\ count' = [count EXCEPT ![p] = @ + 1]
    /\ UNCHANGED <<broadcast, sentEcho, sentReady, flag, sent, echos, readys>>

DeliverReady(p, b) ==
    /\ b.op = "deliver"
    /\ busy' = [busy EXCEPT ![p] = @ \ {b}]
    /\ flag' = [flag EXCEPT ![p] = TRUE]
    /\ IF b.msg.inner \in Undecodable THEN UNCHANGED <<delivered, count>>
       ELSE /\ delivered' = [delivered EXCEPT ![p] = b.msg.inner]
            /\ count' = [count EXCEPT ![p] = @ + 1]
    /\ UNCHANGED <<broadcast, sentEcho, sentReady, sent, echos, readys>>

Act(p, b) == SendEcho(p, b) \/ SendReady(p, b) \/ RelayReady(p, b) \/ DeliverReady(p, b)

Next ==
    \/ \E v \in Values :
        \/ Broadcast(v)
        \/ \E p \in Correct :
            \/ EnterSend(p, v)
            \/ \E q \in Processes : ReceiveEcho(p, q, v) \/ ReceiveReady(p, q, v)
    \/ \E p \in Correct : \E b \in busy[p] : Act(p, b)

\* What a process still has to do with the messages of correct processes.
Progress(p) ==
    \/ \E b \in busy[p] : Act(p, b)
    \/ \E v \in Values :
        \/ EnterSend(p, v)
        \/ \E q \in Processes :
            \/ Echo(q, v) \in sent /\ ReceiveEcho(p, q, v)
            \/ Ready(q, v) \in sent /\ ReceiveReady(p, q, v)

\* Handlers run to their end and links deliver whatever a correct process sent:
\* there are finitely many such steps, so one condition for each process will do.
Spec == Init /\ [][Next]_vars /\ \A p \in Correct : WF_vars(Progress(p))

-----------------------------------------------------------------------------
(* Properties *)

\* A ready sent by a correct process, its own or relayed, is never for another
\* value than the ready of another correct process (checkReadyStage,
\* checkEnhanceReady): the step that makes the delivery quorums agree.
ReadysAgree ==
    \A m, n \in sent :
        m.type = "ready" /\ n.type = "ready" => m.inner = n.inner

\* A process hands a value to the layer above at most once, in whatever order
\* its goroutines run handleReadyMessage.  It needs Readers = 1.
NoDuplication == \A p \in Correct : count[p] <= 1

=============================================================================
