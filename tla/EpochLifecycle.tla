--------------------------- MODULE EpochLifecycle ---------------------------
(***************************************************************************)
(* The goroutines around one epochConsensus instance                       *)
(* (consensus/failnoisy/uniform/epoch_consensus.go) and the Node that owns  *)
(* it (node.go): the instance's event loop with its bounded queue evts, the *)
(* Node's background goroutine, which delivers messages to the instance and *)
(* aborts it when a new epoch is announced, and waitFinishEpoch, which      *)
(* forwards the outcome to the Node.  Abort and decide exclude each other   *)
(* with a sync.Once, and both wait for the event loop to close stopCh.      *)
(*                                                                         *)
(* What the events do to the protocol is in UniformConsensus; here an event *)
(* is "decided", which runs decide inside its handler, or "other".          *)
(***************************************************************************)
EXTENDS Naturals, Sequences

CONSTANTS
    Events,     \* the kinds of events messages lead to, within {"decided", "other"}
    QueueCap,   \* capacity of ec.evts (100 in the code)
    MaxEvents   \* bound: the events delivered to the instance

ASSUME EventsAssumption == Events \subseteq {"decided", "other"}
ASSUME CapAssumption == QueueCap \in Nat \ {0} /\ MaxEvents \in Nat

VARIABLES
    evts,       \* ec.evts
    evtsClosed, \* doCleanup has closed evts, and with it aborted and decided
    cancelled,  \* ec.cancel was called
    stopped,    \* ec.stopCh is closed
    once,       \* ec.stopOnce: "free", who runs inside it, or "done"
    loop,       \* the event loop
    back,       \* the Node's background goroutine
    wait,       \* waitFinishEpoch
    abortedCh,  \* ec.aborted holds the aborted state
    decidedCh,  \* ec.decided holds the decided value
    nodeAborted,\* the Node received the aborted state
    nodeDecided,\* the Node received the decision
    accepted,   \* events put into evts
    applied     \* events applied by the state machine

vars == <<evts, evtsClosed, cancelled, stopped, once, loop, back, wait,
          abortedCh, decidedCh, nodeAborted, nodeDecided, accepted, applied>>

\* newEpochConsensus and StartEpoch.
Init ==
    /\ evts = <<>> /\ evtsClosed = FALSE
    /\ cancelled = FALSE /\ stopped = FALSE
    /\ once = "free"
    /\ loop = "select" /\ back = "select" /\ wait = "select"
    /\ abortedCh = FALSE /\ decidedCh = FALSE
    /\ nodeAborted = FALSE /\ nodeDecided = FALSE
    /\ accepted = 0 /\ applied = 0

-----------------------------------------------------------------------------
(* The background goroutine of the Node *)

\* Mutant of Deliver: the queue has no capacity.
DeliverUnbounded(ev) ==
    /\ back = "select"
    /\ accepted < MaxEvents
    /\ evts' = Append(evts, ev)
    /\ accepted' = accepted + 1
    /\ UNCHANGED <<evtsClosed, cancelled, stopped, once, loop, back, wait,
                   abortedCh, decidedCh, nodeAborted, nodeDecided, applied>>

\* Deliver and triggerApply: a message becomes an event.  With the context
\* cancelled the select may also drop it, and does when the queue is full.
Deliver(ev) ==
    /\ back = "select"
    /\ accepted < MaxEvents
    /\ Len(evts) < QueueCap
    /\ evts' = Append(evts, ev)
    /\ accepted' = accepted + 1
    /\ UNCHANGED <<evtsClosed, cancelled, stopped, once, loop, back, wait,
                   abortedCh, decidedCh, nodeAborted, nodeDecided, applied>>

\* case newEpoch: a node that has decided leaves the instance alone; otherwise
\* n.inner becomes nil, no message is delivered to it any more, and Abort is
\* called.
NewEpoch ==
    /\ back = "select"
    /\ back' = IF nodeDecided THEN "left" ELSE "abort"
    /\ UNCHANGED <<evts, evtsClosed, cancelled, stopped, once, loop, wait,
                   abortedCh, decidedCh, nodeAborted, nodeDecided, accepted,
                   applied>>

\* stopOnce.Do(ec.abort).  If decide is inside the Once, the call waits for it.
\* The Node calls Abort once per instance, so it never finds the Once done.
Abort ==
    /\ back = "abort"
    /\ once = "free"
    /\ once' = "abort"
    /\ cancelled' = TRUE
    /\ back' = "awaitStop"
    /\ UNCHANGED <<evts, evtsClosed, stopped, loop, wait, abortedCh, decidedCh,
                   nodeAborted, nodeDecided, accepted, applied>>

\* <-ec.stopCh in abort.
AwaitStop ==
    /\ back = "awaitStop"
    /\ stopped
    /\ back' = "drain"
    /\ UNCHANGED <<evts, evtsClosed, cancelled, stopped, once, loop, wait,
                   abortedCh, decidedCh, nodeAborted, nodeDecided, accepted,
                   applied>>

\* drainEvents, inside the Once: the handler of a "decided" event calls
\* stopOnce.Do again and waits for itself.
Drain ==
    /\ back = "drain"
    /\ evts # <<>>
    /\ evts' = Tail(evts)
    /\ \/ /\ Head(evts) = "decided"
          /\ back' = "selfDeadlock"
          /\ UNCHANGED applied
       \/ /\ Head(evts) # "decided"
          /\ applied' = applied + 1
          /\ UNCHANGED back
    /\ UNCHANGED <<evtsClosed, cancelled, stopped, once, loop, wait, abortedCh,
                   decidedCh, nodeAborted, nodeDecided, accepted>>

\* Mutant of FinishAbort: abort without drainEvents.
AbortUndrained ==
    /\ back = "drain"
    /\ abortedCh' = TRUE
    /\ evtsClosed' = TRUE
    /\ once' = "done"
    /\ back' = "returned"
    /\ UNCHANGED <<evts, cancelled, stopped, loop, wait, decidedCh, nodeAborted,
                   nodeDecided, accepted, applied>>

\* Mutant of FinishAbort: the Node keeps n.inner and goes on delivering to it.
AbortKeepsInner ==
    /\ back = "drain"
    /\ evts = <<>>
    /\ abortedCh' = TRUE
    /\ evtsClosed' = TRUE
    /\ once' = "done"
    /\ back' = "select"
    /\ UNCHANGED <<evts, cancelled, stopped, loop, wait, decidedCh, nodeAborted,
                   nodeDecided, accepted, applied>>

\* The rest of abort: report the state, doCleanup, leave the Once.
FinishAbort ==
    /\ back = "drain"
    /\ evts = <<>>
    /\ abortedCh' = TRUE
    /\ evtsClosed' = TRUE
    /\ once' = "done"
    /\ back' = "returned"
    /\ UNCHANGED <<evts, cancelled, stopped, loop, wait, decidedCh, nodeAborted,
                   nodeDecided, accepted, applied>>

-----------------------------------------------------------------------------
(* The event loop *)

\* case evt := <-ec.evts, also chosen when the context is already cancelled
\* but the loop condition was read before.
TakeEvent ==
    /\ loop = "select"
    /\ evts # <<>>
    /\ evts' = Tail(evts)
    /\ \/ /\ Head(evts) = "decided"
          /\ loop' = "decide"
          /\ UNCHANGED applied
       \/ /\ Head(evts) # "decided"
          /\ loop' = "check"
          /\ applied' = applied + 1
    /\ UNCHANGED <<evtsClosed, cancelled, stopped, once, back, wait, abortedCh,
                   decidedCh, nodeAborted, nodeDecided, accepted>>

\* for ec.ctx.Err() == nil
CheckContext ==
    /\ loop = "check"
    /\ ~cancelled
    /\ loop' = "select"
    /\ UNCHANGED <<evts, evtsClosed, cancelled, stopped, once, back, wait,
                   abortedCh, decidedCh, nodeAborted, nodeDecided, accepted,
                   applied>>

\* Mutant of ExitLoop: stopCh is not closed.
ExitSilently ==
    /\ loop \in {"select", "check"}
    /\ cancelled
    /\ loop' = "exited"
    /\ UNCHANGED <<evts, evtsClosed, cancelled, stopped, once, back, wait, abortedCh,
                   decidedCh, nodeAborted, nodeDecided, accepted, applied>>

\* The loop ends and its deferred close(ec.stopCh) runs.
ExitLoop ==
    /\ loop \in {"select", "check"}
    /\ cancelled
    /\ loop' = "exited"
    /\ stopped' = TRUE
    /\ UNCHANGED <<evts, evtsClosed, cancelled, once, back, wait, abortedCh,
                   decidedCh, nodeAborted, nodeDecided, accepted, applied>>

\* Mutant of Decide: decide without stopOnce and without waiting for stopCh.
DecideWithoutOnce ==
    /\ loop = "decide"
    /\ decidedCh' = TRUE
    /\ cancelled' = TRUE
    /\ loop' = "check"
    /\ UNCHANGED <<evts, evtsClosed, stopped, once, back, wait, abortedCh,
                   nodeAborted, nodeDecided, accepted, applied>>

\* decide, in the handler of the event: inside the Once the value is put into
\* ec.decided and the loop waits for stopCh, which only its own return closes.
\* The rest of decide is not reached, nor is the Once done here: it is free, or
\* held by an abort that waits for this loop.
Decide ==
    /\ loop = "decide"
    /\ once = "free"
    /\ once' = "decide"
    /\ decidedCh' = TRUE
    /\ cancelled' = TRUE
    /\ loop' = "awaitStop"
    /\ UNCHANGED <<evts, evtsClosed, stopped, back, wait, abortedCh,
                   nodeAborted, nodeDecided, accepted, applied>>

-----------------------------------------------------------------------------
(* waitFinishEpoch *)

ForwardAborted ==
    /\ wait = "select"
    /\ abortedCh
    /\ abortedCh' = FALSE
    /\ nodeAborted' = TRUE
    /\ UNCHANGED <<evts, evtsClosed, cancelled, stopped, once, loop, back, wait,
                   decidedCh, nodeDecided, accepted, applied>>

\* Forwarded to decidedEnvsCh, and taken from there by background if it still
\* selects.
ForwardDecided ==
    /\ wait = "select"
    /\ decidedCh
    /\ back = "select"
    /\ decidedCh' = FALSE
    /\ nodeDecided' = TRUE
    /\ UNCHANGED <<evts, evtsClosed, cancelled, stopped, once, loop, back, wait,
                   abortedCh, nodeAborted, accepted, applied>>

\* Both channels are closed and drained.
EndWait ==
    /\ wait = "select"
    /\ evtsClosed /\ ~abortedCh /\ ~decidedCh
    /\ wait' = "ended"
    /\ UNCHANGED <<evts, evtsClosed, cancelled, stopped, once, loop, back,
                   abortedCh, decidedCh, nodeAborted, nodeDecided, accepted,
                   applied>>

-----------------------------------------------------------------------------

Background == Abort \/ AwaitStop \/ Drain \/ FinishAbort
EventLoop  == TakeEvent \/ CheckContext \/ ExitLoop \/ Decide
WaitFinish == ForwardAborted \/ ForwardDecided \/ EndWait

Next ==
    \/ \E ev \in Events : Deliver(ev)
    \/ NewEpoch
    \/ Background
    \/ EventLoop
    \/ WaitFinish

\* The Go scheduler runs every goroutine that can run; nothing makes messages
\* or new epochs arrive.
Spec == /\ Init /\ [][Next]_vars
        /\ WF_vars(Background) /\ WF_vars(EventLoop) /\ WF_vars(WaitFinish)

-----------------------------------------------------------------------------
(* Properties *)

\* The queue keeps to its capacity and every goroutine to its control states.
TypeOK ==
    /\ evts \in Seq(Events) /\ Len(evts) <= QueueCap
    /\ once \in {"free", "abort", "decide", "done"}
    /\ loop \in {"select", "check", "decide", "awaitStop", "exited"}
    /\ back \in {"select", "abort", "awaitStop", "drain", "selfDeadlock", "returned", "left"}
    /\ wait \in {"select", "ended"}
    /\ \A b \in {evtsClosed, cancelled, stopped, abortedCh, decidedCh,
                nodeAborted, nodeDecided} : b \in BOOLEAN
    /\ accepted \in 0 .. MaxEvents /\ applied \in 0 .. MaxEvents

\* Abort racing a decision: one instance reports a decision or an aborted state
\* to the Node, never both.
AtMostOneOutcome ==
    ~ ((abortedCh \/ nodeAborted) /\ (decidedCh \/ nodeDecided))

\* The state an abort reports includes every event that was accepted before,
\* so a WRITE that was acknowledged to the queue is never missing from it.
AbortReportsAllEvents == abortedCh \/ nodeAborted => applied = accepted

\* While background can still deliver to the instance its channels are open: a
\* send on the closed evts would panic.
NoSendOnClosed == back = "select" => ~evtsClosed

\* A call of Abort returns: what the tests of Abort after and during Decide
\* demand ("must not hang").
AbortReturns == back = "abort" ~> back = "returned"

\* Neither the event loop nor the queue has a decision to make.
Undecided ==
    /\ loop \notin {"decide", "awaitStop"}
    /\ \A i \in DOMAIN evts : evts[i] # "decided"

\* Abort called while no decision is under way returns and its state reaches the
\* Node, which can then start the next epoch (abort, drainEvents, waitFinishEpoch).
AbortCompletes ==
    back = "abort" /\ Undecided ~> (back = "returned" /\ nodeAborted /\ wait = "ended")

=============================================================================
