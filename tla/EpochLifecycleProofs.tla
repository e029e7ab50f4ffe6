------------------------ MODULE EpochLifecycleProofs ------------------------
(***************************************************************************)
(* Proofs about EpochLifecycle for every capacity of the queue and any      *)
(* number of events: an epoch instance has one outcome, the state it reports *)
(* when it is aborted misses no event, and no goroutine sends on a closed    *)
(* channel.                                                                *)
(***************************************************************************)
EXTENDS EpochLifecycle, TLAPS

\* The variables that are TRUE or FALSE.
Flags ==
    /\ evtsClosed \in BOOLEAN /\ cancelled \in BOOLEAN /\ stopped \in BOOLEAN
    /\ abortedCh \in BOOLEAN /\ decidedCh \in BOOLEAN
    /\ nodeAborted \in BOOLEAN /\ nodeDecided \in BOOLEAN

\* The control states.
Controls ==
    /\ once \in {"free", "abort", "decide", "done"}
    /\ loop \in {"select", "check", "decide", "awaitStop", "exited"}
    /\ back \in {"select", "abort", "awaitStop", "drain", "selfDeadlock", "returned", "left"}
    /\ wait \in {"select", "ended"}

\* The queue and the counters.
Queue ==
    /\ evts \in Seq(Events) /\ Len(evts) <= QueueCap
    /\ accepted \in Nat /\ accepted <= MaxEvents
    /\ applied \in Nat

\* Who is inside the Once, and how far the instance is then.
OnceInv ==
    /\ once = "free" => back \in {"select", "abort", "left"} /\ loop # "awaitStop"
    /\ once = "abort" => back \in {"awaitStop", "drain", "selfDeadlock"} /\ loop # "awaitStop"
    /\ once = "decide" => back \in {"select", "abort", "left"} /\ loop = "awaitStop"
    /\ once = "done" => back = "returned"

\* abort goes on when the event loop has ended, and closes the channels last.
StopInv ==
    /\ stopped <=> loop = "exited"
    /\ back \in {"drain", "selfDeadlock", "returned"} => stopped
    /\ evtsClosed <=> back = "returned"
    /\ back = "returned" => evts = <<>>

\* An aborted state was put into its channel by an Abort that returned, a
\* decision by a loop that has waited for itself ever since.
OutcomeInv ==
    /\ abortedCh \/ nodeAborted => back = "returned"
    /\ decidedCh \/ nodeDecided => loop = "awaitStop"

\* The decisions that were taken from the queue and not applied: one in the
\* event loop's hands, one in those of drainEvents.
InLoop == IF loop \in {"decide", "awaitStop"} THEN 1 ELSE 0
InDrain == IF back = "selfDeadlock" THEN 1 ELSE 0

\* Every accepted event is applied, in the queue or in somebody's hands.
CountInv == accepted = applied + Len(evts) + InLoop + InDrain

LifecycleInv ==
    Flags /\ Controls /\ Queue /\ OnceInv /\ StopInv /\ OutcomeInv /\ CountInv

USE EventsAssumption, CapAssumption

\* A started instance satisfies the invariant (newEpochConsensus, StartEpoch).
LEMMA LifecycleInvInit == Init => LifecycleInv
<1> SUFFICES ASSUME Init PROVE LifecycleInv OBVIOUS
<1>1. Flags /\ Controls BY DEF Init, Flags, Controls
<1>2. Queue BY DEF Init, Queue
<1>3. OnceInv /\ StopInv /\ OutcomeInv
  BY DEF Init, OnceInv, StopInv, OutcomeInv
<1>4. CountInv BY DEF Init, CountInv, InLoop, InDrain
<1> QED BY <1>1, <1>2, <1>3, <1>4 DEF LifecycleInv

\* What the queue looks like when its first event is taken.
LEMMA TakeFirst ==
    ASSUME Queue, evts # <<>>, evts' = Tail(evts)
    PROVE  evts' \in Seq(Events) /\ Len(evts') = Len(evts) - 1 /\ Len(evts) \in Nat
  BY DEF Queue

\* No step leaves the invariant.
LEMMA LifecycleInvStep == LifecycleInv /\ [Next]_vars => LifecycleInv'
<1> SUFFICES ASSUME LifecycleInv, [Next]_vars PROVE LifecycleInv' OBVIOUS
<1> USE DEF LifecycleInv
<1>0. CASE UNCHANGED vars
  BY <1>0 DEF vars, Flags, Controls, Queue, OnceInv, StopInv, OutcomeInv, CountInv,
    InLoop, InDrain
<1>1. ASSUME NEW ev \in Events, Deliver(ev) PROVE LifecycleInv'
  <2> USE <1>1 DEF Deliver
  <2>1. Flags' /\ Controls' BY DEF Flags, Controls
  <2>2. Queue' BY DEF Queue
  <2>3. OnceInv' /\ OutcomeInv' BY DEF OnceInv, OutcomeInv
  <2>4. StopInv' BY DEF StopInv
  <2>5. CountInv' BY DEF CountInv, InLoop, InDrain, Queue
  <2> QED BY <2>1, <2>2, <2>3, <2>4, <2>5
<1>2. CASE NewEpoch
  <2> USE <1>2 DEF NewEpoch
  <2>1. Flags' /\ Controls' BY DEF Flags, Controls
  <2>2. Queue' BY DEF Queue
  <2>3. OnceInv' /\ OutcomeInv' /\ StopInv' BY DEF OnceInv, OutcomeInv, StopInv, Controls
  <2>4. CountInv' BY DEF CountInv, InLoop, InDrain
  <2> QED BY <2>1, <2>2, <2>3, <2>4
<1>3. CASE Abort
  <2> USE <1>3 DEF Abort
  <2>1. Flags' /\ Controls' BY DEF Flags, Controls
  <2>2. Queue' BY DEF Queue
  <2>3. OnceInv' /\ OutcomeInv' /\ StopInv' BY DEF OnceInv, OutcomeInv, StopInv
  <2>4. CountInv' BY DEF CountInv, InLoop, InDrain
  <2> QED BY <2>1, <2>2, <2>3, <2>4
<1>4. CASE AwaitStop
  <2> USE <1>4 DEF AwaitStop
  <2>1. Flags' /\ Controls' BY DEF Flags, Controls
  <2>2. Queue' BY DEF Queue
  <2>3. OnceInv' /\ OutcomeInv' /\ StopInv' BY DEF OnceInv, OutcomeInv, StopInv
  <2>4. CountInv' BY DEF CountInv, InLoop, InDrain
  <2> QED BY <2>1, <2>2, <2>3, <2>4
<1>5. CASE Drain
  <2> USE <1>5 DEF Drain
  <2>1. Flags' /\ Controls' BY DEF Flags, Controls
  <2>2. Queue' BY TakeFirst DEF Queue
  <2>3. OnceInv' /\ OutcomeInv' /\ StopInv' BY DEF OnceInv, OutcomeInv, StopInv, Controls
  <2>4. CountInv' BY TakeFirst DEF CountInv, InLoop, InDrain, Queue
  <2> QED BY <2>1, <2>2, <2>3, <2>4
<1>6. CASE FinishAbort
  <2> USE <1>6 DEF FinishAbort
  <2>1. Flags' /\ Controls' BY DEF Flags, Controls
  <2>2. Queue' BY DEF Queue
  <2>3. OnceInv' /\ OutcomeInv' /\ StopInv' BY DEF OnceInv, OutcomeInv, StopInv, Controls
  <2>4. CountInv' BY DEF CountInv, InLoop, InDrain
  <2> QED BY <2>1, <2>2, <2>3, <2>4
<1>7. CASE TakeEvent
  <2> USE <1>7 DEF TakeEvent
  <2>1. Flags' /\ Controls' BY DEF Flags, Controls
  <2>2. Queue' BY TakeFirst DEF Queue
  <2>3. OnceInv' /\ OutcomeInv' BY DEF OnceInv, OutcomeInv, Controls
  <2>4. StopInv' BY DEF StopInv, Controls
  <2>5. CountInv' BY TakeFirst DEF CountInv, InLoop, InDrain, Queue
  <2> QED BY <2>1, <2>2, <2>3, <2>4, <2>5
<1>8. CASE CheckContext
  <2> USE <1>8 DEF CheckContext
  <2>1. Flags' /\ Controls' BY DEF Flags, Controls
  <2>2. Queue' BY DEF Queue
  <2>3. OnceInv' /\ OutcomeInv' /\ StopInv' BY DEF OnceInv, OutcomeInv, StopInv
  <2>4. CountInv' BY DEF CountInv, InLoop, InDrain
  <2> QED BY <2>1, <2>2, <2>3, <2>4
<1>9. CASE ExitLoop
  <2> USE <1>9 DEF ExitLoop
  <2>1. Flags' /\ Controls' BY DEF Flags, Controls
  <2>2. Queue' BY DEF Queue
  <2>3. OnceInv' /\ OutcomeInv' /\ StopInv' BY DEF OnceInv, OutcomeInv, StopInv, Controls
  <2>4. CountInv' BY DEF CountInv, InLoop, InDrain
  <2> QED BY <2>1, <2>2, <2>3, <2>4
<1>10. CASE Decide
  <2> USE <1>10 DEF Decide
  <2>1. Flags' /\ Controls' BY DEF Flags, Controls
  <2>2. Queue' BY DEF Queue
  <2>3. OnceInv' /\ OutcomeInv' /\ StopInv' BY DEF OnceInv, OutcomeInv, StopInv, Controls
  <2>4. CountInv' BY DEF CountInv, InLoop, InDrain
  <2> QED BY <2>1, <2>2, <2>3, <2>4
<1>11. CASE ForwardAborted
  <2> USE <1>11 DEF ForwardAborted
  <2>1. Flags' /\ Controls' BY DEF Flags, Controls
  <2>2. Queue' BY DEF Queue
  <2>3. OnceInv' /\ OutcomeInv' /\ StopInv' BY DEF OnceInv, OutcomeInv, StopInv
  <2>4. CountInv' BY DEF CountInv, InLoop, InDrain
  <2> QED BY <2>1, <2>2, <2>3, <2>4
<1>12. CASE ForwardDecided
  <2> USE <1>12 DEF ForwardDecided
  <2>1. Flags' /\ Controls' BY DEF Flags, Controls
  <2>2. Queue' BY DEF Queue
  <2>3. OnceInv' /\ OutcomeInv' /\ StopInv' BY DEF OnceInv, OutcomeInv, StopInv
  <2>4. CountInv' BY DEF CountInv, InLoop, InDrain
  <2> QED BY <2>1, <2>2, <2>3, <2>4
<1>13. CASE EndWait
  <2> USE <1>13 DEF EndWait
  <2>1. Flags' /\ Controls' BY DEF Flags, Controls
  <2>2. Queue' BY DEF Queue
  <2>3. OnceInv' /\ OutcomeInv' /\ StopInv' BY DEF OnceInv, OutcomeInv, StopInv
  <2>4. CountInv' BY DEF CountInv, InLoop, InDrain
  <2> QED BY <2>1, <2>2, <2>3, <2>4
<1> QED BY <1>0, <1>1, <1>2, <1>3, <1>4, <1>5, <1>6, <1>7, <1>8, <1>9, <1>10, <1>11, <1>12,
    <1>13 DEF Next, Background, EventLoop, WaitFinish

\* The inductive invariant of the goroutines around an instance holds in every
\* state: who is inside the Once and who has stopped determines the rest.
THEOREM LifecycleCorrect == Spec => []LifecycleInv
<1> QED BY LifecycleInvInit, LifecycleInvStep, PTL DEF Spec

\* The counters stay within the number of events.
LEMMA CountersBounded == LifecycleInv => applied <= MaxEvents
  BY DEF LifecycleInv, Queue, CountInv, InLoop, InDrain

\* Every goroutine keeps to its control states, and the queue to its capacity
\* (triggerApply, drainEvents).
THEOREM TypeCorrect == Spec => []TypeOK
<1>1. LifecycleInv => TypeOK
  <2> SUFFICES ASSUME LifecycleInv PROVE TypeOK OBVIOUS
  <2>1. accepted \in 0 .. MaxEvents /\ applied \in 0 .. MaxEvents
    BY CountersBounded DEF LifecycleInv, Queue
  <2>2. \A b \in {evtsClosed, cancelled, stopped, abortedCh, decidedCh,
                 nodeAborted, nodeDecided} : b \in BOOLEAN
    BY Zenon DEF LifecycleInv, Flags
  <2> QED BY <2>1, <2>2 DEF LifecycleInv, Controls, Queue, TypeOK
<1> QED BY <1>1, LifecycleCorrect, PTL

\* An instance reports a decision or an aborted state to the Node, never both:
\* abort and decide share stopOnce, and each keeps the other from going on.
THEOREM OneOutcome == Spec => []AtMostOneOutcome
<1>1. LifecycleInv => AtMostOneOutcome
  BY DEF LifecycleInv, OutcomeInv, StopInv, AtMostOneOutcome
<1> QED BY <1>1, LifecycleCorrect, PTL

\* The state that abort reports includes every event the queue has accepted:
\* drainEvents leaves none, and the loop took none that it did not apply.
THEOREM AbortComplete == Spec => []AbortReportsAllEvents
<1>1. LifecycleInv => AbortReportsAllEvents
  BY DEF LifecycleInv, OutcomeInv, StopInv, CountInv, InLoop, InDrain, Queue,
    AbortReportsAllEvents
<1> QED BY <1>1, LifecycleCorrect, PTL

\* While the Node may still deliver to the instance its channels are open.
THEOREM SendsOpen == Spec => []NoSendOnClosed
<1>1. LifecycleInv => NoSendOnClosed
  BY DEF LifecycleInv, StopInv, NoSendOnClosed
<1> QED BY <1>1, LifecycleCorrect, PTL

=============================================================================
