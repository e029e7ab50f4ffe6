---------------------------- MODULE MCConsensus -----------------------------
(***************************************************************************)
(* Instances of ConsensusSystems for TLC.                                   *)
(*                                                                         *)
(*   "pair"       two processes with different proposals                     *)
(*   "unanimous"  three with the same proposal, one of them stops            *)
(*   "rounds"     two rounds of the coin, both processes in each             *)
(*   "late"       two rounds of the coin, one process stops in the first      *)
(*   "led"        three correct processes led by a faulty one                *)
(***************************************************************************)
EXTENDS ConsensusSystems, TLC, Bitwise

CONSTANTS c, z      \* processes; z is faulty

MCPair == [proposal |-> (a :> "v" @@ b :> "w"), stopped |-> {}, crashFaults |-> 0, rounds |-> 3]
MCUnanimous == [proposal |-> [p \in {a, b, c} |-> "v"], stopped |-> {c}, crashFaults |-> 1,
                rounds |-> 2]

MCFull == [procs |-> {a, b}, faults |-> 0, domain |-> {1, 2}, maxTs |-> 2, reveals |-> 2,
             stopped |-> {}]
MCLate == [MCFull EXCEPT !.faults = 1, !.stopped = {b}]
MCXORBytes(x, y) == x ^^ y

MCCorrect == {a, b, c}
MCFaulty == {z}
MCProposal == (a :> "w" @@ b :> "v" @@ c :> "v")
MCLeader == <<z>>
MCFaultyStates == {[epoch |-> 1, value |-> v, writeSet |-> {}] : v \in {"v", "w"}}
MCSlow == {c}

=============================================================================
