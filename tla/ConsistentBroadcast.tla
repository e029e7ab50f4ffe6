------------------------ MODULE ConsistentBroadcast ------------------------
(***************************************************************************)
(* What one instance of a Byzantine broadcaster promises the layer above     *)
(* (the book's Byzantine consistent broadcast, named in                      *)
(* broadcaster/byzantine_channel.go): each correct process delivers at most  *)
(* one value, no two correct processes deliver different ones, and what is   *)
(* delivered for a correct sender is what that sender broadcast.             *)
(***************************************************************************)
CONSTANTS
    Correct,    \* the processes that follow the protocol
    Sender,     \* the originator of this instance, correct or not
    Values,
    None        \* no value

VARIABLES
    broadcast,  \* what a correct sender has broadcast
    delivered   \* what each correct process has delivered

vars == <<broadcast, delivered>>

Init ==
    /\ broadcast = None
    /\ delivered = [p \in Correct |-> None]

Broadcast(v) ==
    /\ Sender \in Correct
    /\ broadcast = None
    /\ broadcast' = v
    /\ UNCHANGED delivered

Deliver(p, v) ==
    /\ delivered[p] = None
    /\ \A q \in Correct : delivered[q] \in {None, v}
    /\ Sender \in Correct => broadcast = v
    /\ delivered' = [delivered EXCEPT ![p] = v]
    /\ UNCHANGED broadcast

Next == \E v \in Values : Broadcast(v) \/ \E p \in Correct : Deliver(p, v)

Spec == Init /\ [][Next]_vars

=============================================================================
