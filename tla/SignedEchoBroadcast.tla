------------------------ MODULE SignedEchoBroadcast ------------------------
(***************************************************************************)
(* One instance of signedEchoBroadcast, the signed echo broadcast of         *)
(* broadcaster/byzantine_consistence.go: echoes are signed and go to the     *)
(* sender alone, which collects a quorum of signatures in a final message.   *)
(*                                                                         *)
(* No handler holds a lock.  The handlers that test a flag and set it later  *)
(* (of the broadcast message and of the final one) are two steps, and up to  *)
(* Readers of them overlap at a process.  Signatures cannot be forged        *)
(* (types.Identify, external): the ones of correct processes exist only for  *)
(* what they echoed, and leave the sender only in a final message.           *)
(***************************************************************************)
EXTENDS ByzantineSystem

VARIABLES
    broadcast,  \* the value a correct sender has broadcast
    busy,       \* the handlers past their test, with the value they hold
    sentEcho,
    signed,     \* the values each correct process has signed
    echos,      \* at the sender: the first echo from each process
    final,      \* the value and the signers of a correct sender's final message
    flag,       \* b.delivered
    delivered   \* the last value handed to the layer above

vars == <<broadcast, busy, sentEcho, signed, echos, final, flag, delivered>>

quorumFaults == Faults
quorum == (Cardinality(Processes) + Faults) \div 2
NoFinal == [inner |-> None, signs |-> {}]

Init ==
    /\ broadcast = None
    /\ busy = [p \in Correct |-> {}]
    /\ sentEcho = [p \in Correct |-> FALSE]
    /\ signed = [p \in Correct |-> {}]
    /\ echos = [q \in Processes |-> None]
    /\ final = NoFinal
    /\ flag = [p \in Correct |-> FALSE]
    /\ delivered = [p \in Correct |-> None]

\* Broadcast does nothing at a process that is not the sender.
Broadcast(v) ==
    /\ Sender \in Correct
    /\ broadcast = None
    /\ broadcast' = v
    /\ UNCHANGED <<busy, sentEcho, signed, echos, final, flag, delivered>>

Offered == IF Sender \in Byzantine THEN Values ELSE {broadcast} \ {None}

\* A goroutine's handler passes its test; the number tells two of them apart.
Enter(p, h, v) ==
    /\ Cardinality(busy[p]) < Readers
    /\ \E i \in 1 .. Readers :
        /\ \A b \in busy[p] : b.reader # i
        /\ busy' = [busy EXCEPT ![p] =
                        @ \cup {[handler |-> h, inner |-> v, reader |-> i]}]

\* handleBroadcastedMsg: the tests of sentEcho and of the message's origin.
EnterSend(p, v) ==
    /\ v \in Offered
    /\ ~sentEcho[p]
    /\ Enter(p, "send", v)
    /\ UNCHANGED <<broadcast, sentEcho, signed, echos, final, flag, delivered>>

\* handleBroadcastedMsg: sign, set sentEcho, send the echo to the sender.
SendEcho(p, b) ==
    /\ b \in busy[p] /\ b.handler = "send"
    /\ busy' = [busy EXCEPT ![p] = @ \ {b}]
    /\ sentEcho' = [sentEcho EXCEPT ![p] = TRUE]
    /\ signed' = [signed EXCEPT ![p] = @ \cup {b.inner}]
    /\ UNCHANGED <<broadcast, echos, final, flag, delivered>>

\* maybeBroadcastFinal: an echo equal to those of more than a quorum of others.
Supported(e, q) ==
    /\ e[q] # None
    /\ Cardinality({r \in DOMAIN e \ {q} : e[r] = e[q]}) > quorum

FinalOf(e) ==
    IF \E q \in Processes : Supported(e, q)
    THEN LET q == CHOOSE q \in Processes : Supported(e, q)
         IN  [inner |-> e[q], signs |-> {r \in Processes : e[r] = e[q]}]
    ELSE NoFinal

\* handleEchoMsg, with the signature verified, and maybeBroadcastFinal.
ReceiveEcho(q, v) ==
    /\ Sender \in Correct
    /\ v \in IF q \in Byzantine THEN Values ELSE signed[q]
    /\ echos[q] = None
    /\ echos' = [echos EXCEPT ![q] = v]
    /\ final' = IF final = NoFinal THEN FinalOf(echos') ELSE final
    /\ UNCHANGED <<broadcast, busy, sentEcho, signed, flag, delivered>>

\* The signers whose signatures on v a final message can carry: all of a
\* correct sender's message, or what a faulty process has or was sent.
Signers(v) ==
    IF Sender \in Correct
    THEN {Byzantine} \cup (IF final.inner = v THEN {final.signs} ELSE {})
    ELSE {Byzantine \cup {q \in Correct : v \in signed[q]}}

\* handleFinal: the test of delivered, the distinct valid signatures counted,
\* the value decoded.
EnterFinal(p, v) ==
    /\ ~flag[p]
    /\ \E signs \in Signers(v) : Cardinality(signs) > quorum
    /\ v \notin Undecodable
    /\ Enter(p, "final", v)
    /\ UNCHANGED <<broadcast, sentEcho, signed, echos, final, flag, delivered>>

\* handleFinal: delivered is set and the value handed to the layer above.
DeliverFinal(p, b) ==
    /\ b \in busy[p] /\ b.handler = "final"
    /\ busy' = [busy EXCEPT ![p] = @ \ {b}]
    /\ flag' = [flag EXCEPT ![p] = TRUE]
    /\ delivered' = [delivered EXCEPT ![p] = b.inner]
    /\ UNCHANGED <<broadcast, sentEcho, signed, echos, final>>

Next ==
    \/ \E v \in Values : Broadcast(v) \/ \E q \in Processes : ReceiveEcho(q, v)
    \/ \E p \in Correct :
        \/ \E v \in Values : EnterSend(p, v) \/ EnterFinal(p, v)
        \/ \E b \in busy[p] : SendEcho(p, b) \/ DeliverFinal(p, b)

\* What a process has to do with the messages of correct processes.
Progress(p) ==
    \/ \E v \in Values :
        \/ EnterSend(p, v) \/ EnterFinal(p, v)
        \/ p = Sender /\ \E q \in Correct : ReceiveEcho(q, v)
    \/ \E b \in busy[p] : SendEcho(p, b) \/ DeliverFinal(p, b)

Spec == Init /\ [][Next]_vars /\ \A p \in Correct : WF_vars(Progress(p))

=============================================================================
