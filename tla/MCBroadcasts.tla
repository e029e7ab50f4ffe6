---------------------------- MODULE MCBroadcasts ----------------------------
(***************************************************************************)
(* Instances of the broadcasters for TLC.  The variable protocol says which   *)
(* of them a behaviour is about; the variables of the others stay as they    *)
(* are in the beginning, so the states of the protocols add up.              *)
(*                                                                         *)
(* The three Byzantine broadcasters have the variables of their structs in   *)
(* common, and with them the promises of ConsistentBroadcast.                *)
(***************************************************************************)
EXTENDS ByzantineSystem, TLC

CONSTANTS
    Protocols,      \* the protocols of the run
    Originator      \* the process that broadcasts in the others

VARIABLES
    protocol,
    broadcast, sentEcho, echos, flag, delivered,    \* all Byzantine broadcasters
    sent, busy,                                     \* two of them each
    entered, signed, final, sentReady, readys, count,
    alive, correct, begun, outbox, rbSent, rbTaken, pending, received, rbDelivered,
    n, chEchos, chSentEcho, queue, ready, asked, chSent, chTaken, calls, upcalls, chDelivered

commonVars == <<broadcast, sentEcho, echos, flag, delivered>>
reliableVars == <<alive, correct, begun, outbox, rbSent, rbTaken, pending, received, rbDelivered>>
channelVars == <<n, chEchos, chSentEcho, queue, ready, asked, chSent, chTaken, calls, upcalls,
                 chDelivered>>
byzantineVars == <<commonVars, sent, busy, entered, signed, final, sentReady, readys, count>>
vars == <<protocol, byzantineVars, reliableVars, channelVars>>

Echo == INSTANCE EchoBroadcast
Signed == INSTANCE SignedEchoBroadcast
Double == INSTANCE DoubleEchoBroadcast

Reliable(Eager) == INSTANCE ReliableBroadcast WITH
    Procs <- Correct, Broadcasters <- {Originator}, MaxCrashes <- 2,
    MayCancel <- IF Eager THEN {Originator} ELSE {},
    sent <- rbSent, taken <- rbTaken, delivered <- rbDelivered

Channel == INSTANCE ByzantineChannel WITH
    Procs <- Correct, Originators <- {Originator}, MaxBroadcasts <- 2,
    echos <- chEchos, sentEcho <- chSentEcho, sent <- chSent, taken <- chTaken,
    delivered <- chDelivered

\* The variables that only other Byzantine broadcasters have.
EchoOthers == <<busy, signed, final, sentReady, readys, count>>
SignedOthers == <<sent, entered, sentReady, readys, count>>
DoubleOthers == <<entered, signed, final>>

Init ==
    /\ protocol \in Protocols
    /\ \/ protocol \notin {"signed", "double echo"} /\ Echo!Init
          /\ busy = None /\ signed = None /\ final = None
          /\ sentReady = None /\ readys = None /\ count = None
       \/ protocol = "signed" /\ Signed!Init
          /\ sent = None /\ entered = None
          /\ sentReady = None /\ readys = None /\ count = None
       \/ protocol = "double echo" /\ Double!Init
          /\ entered = None /\ signed = None /\ final = None
    /\ Reliable(FALSE)!Init
    /\ Channel!Init

ReliableName(eager) == IF eager THEN "eager" ELSE "lazy"

Next ==
    /\ UNCHANGED protocol
    /\ \/ /\ UNCHANGED <<reliableVars, channelVars>>
          /\ \/ protocol = "echo" /\ Echo!Next /\ UNCHANGED EchoOthers
             \/ protocol = "signed" /\ Signed!Next /\ UNCHANGED SignedOthers
             \/ protocol = "double echo" /\ Double!Next /\ UNCHANGED DoubleOthers
       \/ /\ UNCHANGED <<byzantineVars, channelVars>>
          /\ \E eager \in BOOLEAN : protocol = ReliableName(eager) /\ Reliable(eager)!Next
       \/ /\ UNCHANGED <<byzantineVars, reliableVars>>
          /\ protocol = "channel" /\ Channel!Next

\* The steps a process owes to its own handlers and to the links.
Work(p) ==
    /\ UNCHANGED protocol
    /\ \/ /\ UNCHANGED <<reliableVars, channelVars>>
          /\ \/ protocol = "echo" /\ Echo!Progress(p) /\ UNCHANGED EchoOthers
             \/ protocol = "signed" /\ Signed!Progress(p) /\ UNCHANGED SignedOthers
             \/ protocol = "double echo" /\ Double!Progress(p) /\ UNCHANGED DoubleOthers
       \/ /\ UNCHANGED <<byzantineVars, channelVars>>
          /\ \E eager \in BOOLEAN : protocol = ReliableName(eager) /\ Reliable(eager)!Work(p)
       \/ /\ UNCHANGED <<byzantineVars, reliableVars>>
          /\ protocol = "channel" /\ Channel!Work(p)

\* Links deliver what was sent and handlers run to their end.  Each process has
\* finitely many such steps to take, so one condition for each process will do.
Spec == Init /\ [][Next]_vars /\ \A p \in Correct : WF_vars(Work(p))

\* For the runs without liveness.
Symmetry == Permutations(Correct) \cup Permutations(Values)

-----------------------------------------------------------------------------
(* Properties *)

CB == INSTANCE ConsistentBroadcast

\* The three Byzantine broadcasters implement one abstract broadcast: a correct
\* process delivers one value at most, no two correct processes deliver
\* different ones, and a correct sender's value is the one it broadcast, whatever
\* a faulty sender says to whom and however handlers interleave
\* (maybeDeliverInner, handleFinal, checkDeliver).
Consistent == CB!Spec

\* The echoes that let one process deliver exclude another value at any other
\* (maybeDeliverInner).
QuorumsIntersect == protocol = "echo" => Echo!QuorumsIntersect

\* Readys of correct processes, own or relayed, are for one value
\* (checkReadyStage, checkEnhanceReady).
ReadysAgree == protocol = "double echo" => Double!ReadysAgree

\* A process hands one value up, once (checkDeliver).
NoDuplication == protocol = "double echo" => Double!NoDuplication

\* In the end every correct process has delivered what a correct sender has
\* broadcast, if it can be decoded (maybeDeliverInner, handleFinal, checkDeliver),
\* and the first message of the channel of an originator (byzantineChannel.Deliver).
Validity ==
    <>[](/\ broadcast \in Values \ Undecodable => \A p \in Correct : delivered[p] = broadcast
         /\ Channel!FirstArrived)

\* In the end every correct process has delivered if one has: a Byzantine
\* reliable broadcast relays readys (checkEnhanceReady), the others relay messages
\* whose origin crashed (Deliver, OnCrash) or all of them.
Agreement ==
    <>[](/\ protocol = "double echo" =>
                \A p, q \in Correct : delivered[p] = delivered[q]
         /\ Reliable(FALSE)!AllOrNone)

\* No message of a crashed origin is lost between Deliver and OnCrash.
NoMessageLost ==
    \A eager \in BOOLEAN : protocol = ReliableName(eager) => Reliable(eager)!NoMessageLost

\* One instance of the channel is in progress for each originator
\* (dequeueLocked, onBCBDelivered).
ReadyMatchesInstance == Channel!ReadyMatchesInstance

\* The channel numbers messages in the order they were broadcast
\* (Broadcast, onBCBDelivered).
NumberedInOrder == Channel!NumberedInOrder

=============================================================================
