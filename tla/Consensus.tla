----------------------------- MODULE Consensus ------------------------------
(***************************************************************************)
(* What a consensus promises its callers (the Decided channels of the nodes   *)
(* under consensus/): a process decides once, no two processes decide        *)
(* differently, and the decision is a value that may be decided.             *)
(***************************************************************************)
CONSTANTS
    Decidable,  \* the proposed values that the validator does not refuse
    None        \* no decision yet

VARIABLE output     \* the decision of each process

Init == \A p \in DOMAIN output : output[p] = None

Decide(p, v) ==
    /\ output[p] = None
    /\ \A q \in DOMAIN output : output[q] \in {None, v}
    /\ output' = [output EXCEPT ![p] = v]

Next == \E p \in DOMAIN output, v \in Decidable : Decide(p, v)

Spec == Init /\ [][Next]_output

=============================================================================
