------------------------- MODULE UniformConsensus -------------------------
(***************************************************************************)
(* Leader-driven uniform consensus of the fail-noisy model:                *)
(* consensus/failnoisy/uniform/node.go (Node: the background loop that      *)
(* switches epochs) together with epoch_consensus.go (epochConsensus: the   *)
(* read/write protocol of one epoch, run as a small state machine).         *)
(*                                                                         *)
(* The links below (perfect link over stubborn link, best-effort broadcast) *)
(* are the set msgs of everything ever sent and, per process, the set of    *)
(* messages its perfect link has handed over.  A message may stay           *)
(* undelivered for ever; none is handed over twice, except that messages    *)
(* buffered in Node.inbox are replayed when their epoch starts.             *)
(*                                                                         *)
(* Delivering a message to epochConsensus and applying the queued event     *)
(* are one step: the queue is FIFO, is drained before an abort reports its  *)
(* state, and nothing but the event handlers reads the instance, so the     *)
(* handler can be moved back to the moment its event was queued.  What that *)
(* queue, sync.Once and the channels do to liveness is in EpochLifecycle.   *)
(***************************************************************************)
EXTENDS Integers, FiniteSets

CONSTANTS
    Procs,      \* the processes
    Values,     \* what can be proposed
    None,       \* Go's nil value pointer
    Epochs,     \* the timestamps the epoch changer can announce, and 0
    LeaderOf,   \* the leader announced with a timestamp (EpochChange!Consistency)
    Wishes,     \* Wishes[p]: the values the client of p may pass to Propose
    Announced,  \* Announced[p]: the epochs the epoch changer of p announces
    MayStop     \* the processes that may stop or crash

ASSUME ProcsAssumption  == IsFiniteSet(Procs)
ASSUME EpochsAssumption == Epochs \subseteq Nat /\ 0 \in Epochs
ASSUME LeaderAssumption == LeaderOf \in [Epochs -> Procs]
ASSUME ValuesAssumption == None \notin Values
ASSUME WishesAssumption == Wishes \in [Procs -> SUBSET Values]
ASSUME AnnouncedAssumption == Announced \in [Procs -> SUBSET Epochs]
ASSUME MayStopAssumption == MayStop \subseteq Procs

VARIABLES
    (* Node *)
    loop,       \* where the background goroutine is
    val,        \* n.val, None for nil
    proposed,   \* n.proposed
    ets,        \* n.ets; n.leader is LeaderOf[ets]
    newTs,      \* n.newTs; n.newLeader is LeaderOf[newTs]
    decision,   \* n.decided and n.decidedVal, with the epoch of the decision
    inner,      \* n.inner # nil
    inbox,      \* n.inbox: messages that arrived while n.inner was nil
    decidedEnvs,\* n.decidedEnvsCh and what waits to be put there
    abortedEnvs,\* n.aborted and what waits to be put there
    (* the epochConsensus instance of epoch ets *)
    phase,      \* ec.sm.state
    temp,       \* ec.tempValue
    current,    \* ec.current
    rcvStates,  \* ec.receivedStates
    rcvAccepts, \* ec.receivedAccepted
    (* links *)
    msgs,       \* everything sent
    delivered,  \* the delivered sets of the perfect links, without the messages
                \* of epochs the process has left
    (* history *)
    proposals   \* every value passed to Propose

nodeVars == <<loop, val, proposed, ets, newTs, decision, inner, inbox,
              decidedEnvs, abortedEnvs>>
ecVars   == <<phase, temp, current, rcvStates, rcvAccepts>>
vars     == <<nodeVars, ecVars, msgs, delivered, proposals>>

-----------------------------------------------------------------------------
(* Data *)

Vals == Values \cup {None}

\* type State struct { Ts int; Val *types.Value }
State == [ts : Epochs, val : Vals]

\* The zero State a node starts its first epoch with.
InitState == [ts |-> 0, val |-> None]

\* An absent key of the map receivedStates.
NoState == [ts |-> 0 - 1, val |-> None]

Decision == [ts : Epochs, val : Values]
NoDecision == [ts |-> 0 - 1, val |-> None]

ReadMsg    == [type : {"read"}, from : Procs, epoch : Epochs]
StateMsg   == [type : {"state"}, from : Procs, to : Procs, epoch : Epochs,
               ts : Epochs, val : Vals]
WriteMsg   == [type : {"write"}, from : Procs, epoch : Epochs, val : Values]
AcceptMsg  == [type : {"accept"}, from : Procs, to : Procs, epoch : Epochs]
DecidedMsg == [type : {"decide"}, from : Procs, epoch : Epochs, val : Values]

Message == ReadMsg \cup StateMsg \cup WriteMsg \cup AcceptMsg \cup DecidedMsg

\* abortedEnvelope; cause, the announcement it answers, tells the goroutines of
\* several announcements apart.
AbortedState == [ts : Epochs, state : State, cause : Epochs]

leader(p) == LeaderOf[ets[p]]

\* func (ec *epochConsensus) quorum
quorum == Cardinality(Procs) \div 2 + 1

\* len(ec.receivedStates) once the state of one more process is in.
Reported(rcv) == {q \in Procs : rcv[q] # NoState}

\* Mutant of HighestStates: any state of the quorum.
AnyReportedState(rcv) == {rcv[q] : q \in Reported(rcv)}

\* func highestState: the map is ranged over in no fixed order and >= replaces
\* the maximum by a later equal one, so any state of the highest timestamp can
\* come out.
HighestStates(rcv) ==
    {rcv[q] : q \in {q \in Reported(rcv) :
                        \A r \in Reported(rcv) : rcv[r].ts <= rcv[q].ts}}

\* The condition of maybePropose, for a node that leads epoch e.
CanPropose(p, e, done) == LeaderOf[e] = p /\ ~done /\ val[p] # None

-----------------------------------------------------------------------------
(* New, Init and Start: every node starts epoch 0 at once. *)

\* Mutant of FirstPhase: onInit takes no notice of the leader.
IdlePhase(p, e) == "idle"

\* onInit: the phase after the initEvent.
FirstPhase(p, e) == IF LeaderOf[e] = p THEN "propose" ELSE "idle"

Init ==
    /\ loop = [p \in Procs |-> "select"]
    /\ val = [p \in Procs |-> None]
    /\ proposed = [p \in Procs |-> FALSE]
    /\ ets = [p \in Procs |-> 0]
    /\ newTs = [p \in Procs |-> 0]
    /\ decision = [p \in Procs |-> NoDecision]
    /\ inner = [p \in Procs |-> TRUE]
    /\ inbox = [p \in Procs |-> {}]
    /\ decidedEnvs = [p \in Procs |-> {}]
    /\ abortedEnvs = [p \in Procs |-> {}]
    /\ phase = [p \in Procs |-> FirstPhase(p, 0)]
    /\ temp = [p \in Procs |-> None]
    /\ current = [p \in Procs |-> InitState]
    /\ rcvStates = [p \in Procs |-> [q \in Procs |-> NoState]]
    /\ rcvAccepts = [p \in Procs |-> 0]
    /\ msgs = {}
    /\ delivered = [p \in Procs |-> {}]
    /\ proposals = {}

-----------------------------------------------------------------------------
(* The client and the proposal *)

\* func (n *Node) Propose: any goroutine, at any time.
Propose(p, v) ==
    /\ loop[p] # "stopped"
    /\ v \in Wishes[p]
    /\ val' = [val EXCEPT ![p] = v]
    /\ proposals' = proposals \cup {v}
    /\ UNCHANGED <<loop, proposed, ets, newTs, decision, inner, inbox,
                   decidedEnvs, abortedEnvs, ecVars, msgs, delivered>>

\* The end of an iteration of background that did not `continue`: maybePropose
\* runs next, before any other event is selected.
ThenMaybePropose(p) ==
    loop' = [loop EXCEPT ![p] =
                IF CanPropose(p, ets[p], proposed[p]) THEN "propose" ELSE "select"]

onPropose(p) ==
    /\ phase' = [phase EXCEPT ![p] = "reading"]
    /\ temp' = [temp EXCEPT ![p] = val[p]]
    /\ msgs' = msgs \cup {[type |-> "read", from |-> p, epoch |-> ets[p]]}

\* func maybePropose, from the end of an iteration or from the propose timer.
\* Its condition does not look at n.inner.  With an instance the proposeEvent
\* finds the machine in StatePropose (LeaderReady) and runs onPropose.
MaybePropose(p) ==
    /\ loop[p] \in {"select", "propose"}
    /\ CanPropose(p, ets[p], proposed[p])
    /\ proposed' = [proposed EXCEPT ![p] = TRUE]
    /\ \/ /\ inner[p] /\ phase[p] = "propose"
          /\ loop' = [loop EXCEPT ![p] = "select"]
          /\ onPropose(p)
       \/ /\ ~inner[p]
          /\ loop' = [loop EXCEPT ![p] = "panicked"]
          /\ UNCHANGED <<phase, temp, msgs>>
    /\ UNCHANGED <<val, ets, newTs, decision, inner, inbox, decidedEnvs,
                   abortedEnvs, current, rcvStates, rcvAccepts, delivered,
                   proposals>>

-----------------------------------------------------------------------------
(* Messages: Node.Deliver, deliver, deliverOrPrepare and, with an instance,
   epochConsensus.Deliver, its handle... guards and the state machine. *)

\* The perfect link hands m to p, which takes it from msgsCh.
Receive(p, m) ==
    /\ loop[p] = "select"
    /\ m \in msgs \ delivered[p]
    /\ m.type \in {"state", "accept"} => m.to = p
    /\ delivered' = [delivered EXCEPT ![p] = @ \cup {m}]
    /\ ThenMaybePropose(p)

\* The guards of handleState, handleAccept, handleRead, handleWrite and
\* handleDecide.
Relevant(p, m) ==
    /\ m.epoch = ets[p]
    /\ leader(p) = (IF m.type \in {"state", "accept"} THEN p ELSE m.from)

\* initMachine: the phases in which the event of a message has a handler.  An
\* instance that has decided handles nothing any more: its event loop never
\* returns from decide.
PhasesOf(type) ==
    CASE type \in {"read", "write"} -> {"idle", "propose", "reading", "writing", "deciding"}
      [] type = "state"  -> {"reading"}
      [] type = "accept" -> {"writing"}
      [] type = "decide" -> {"idle", "deciding"}

Handles(p, m) == inner[p] /\ Relevant(p, m) /\ phase[p] \in PhasesOf(m.type)

\* deliverOrPrepare while n.inner is nil.
Buffer(p, m) ==
    /\ Receive(p, m)
    /\ ~inner[p]
    /\ inbox' = [inbox EXCEPT ![p] = @ \cup {m}]
    /\ UNCHANGED <<val, proposed, ets, newTs, decision, inner, decidedEnvs,
                   abortedEnvs, ecVars, msgs, proposals>>

\* A message of an epoch the node has not started yet is lost: handleState and
\* the others drop it and the link does not hand it over again.  (A message of
\* an earlier epoch, or of this one without a handler in the present phase,
\* changes nothing: no later phase of the epoch handles it either.)
Lose(p, m) ==
    /\ Receive(p, m)
    /\ inner[p] /\ m.epoch > ets[p]
    /\ UNCHANGED <<val, proposed, ets, newTs, decision, inner, inbox,
                   decidedEnvs, abortedEnvs, ecVars, msgs, proposals>>

onHandleRead(p, m) ==
    /\ Receive(p, m)
    /\ m.type = "read" /\ Handles(p, m)
    /\ msgs' = msgs \cup {[type |-> "state", from |-> p, to |-> m.from,
                           epoch |-> ets[p], ts |-> current[p].ts,
                           val |-> current[p].val]}
    /\ UNCHANGED <<val, proposed, ets, newTs, decision, inner, inbox,
                   decidedEnvs, abortedEnvs, ecVars, proposals>>

onHandleWrite(p, m) ==
    /\ Receive(p, m)
    /\ m.type = "write" /\ Handles(p, m)
    /\ current' = [current EXCEPT ![p] = [ts |-> ets[p], val |-> m.val]]
    /\ msgs' = msgs \cup {[type |-> "accept", from |-> p, to |-> m.from,
                           epoch |-> ets[p]]}
    /\ UNCHANGED <<val, proposed, ets, newTs, decision, inner, inbox,
                   decidedEnvs, abortedEnvs, phase, temp, rcvStates,
                   rcvAccepts, proposals>>

\* The map receivedStates after the state message m.
WithState(p, m) == [rcvStates[p] EXCEPT ![m.from] = [ts |-> m.ts, val |-> m.val]]

\* onReceivedRead below the quorum.
CollectState(p, m) ==
    /\ Receive(p, m)
    /\ m.type = "state" /\ Handles(p, m)
    /\ Cardinality(Reported(WithState(p, m))) < quorum
    /\ rcvStates' = [rcvStates EXCEPT ![p] = WithState(p, m)]
    /\ UNCHANGED <<val, proposed, ets, newTs, decision, inner, inbox,
                   decidedEnvs, abortedEnvs, phase, temp, current, rcvAccepts,
                   msgs, proposals>>

\* Mutant of ValueToWrite: the nil check of onReceivedRead is missing.
UncheckedValue(p, st) == st.val

\* The value onReceivedRead writes when highestState returned st.
ValueToWrite(p, st) == IF st.val # None THEN st.val ELSE temp[p]

\* onReceivedRead with the state that completes the quorum.
StartWriting(p, m) ==
    /\ Receive(p, m)
    /\ m.type = "state" /\ Handles(p, m)
    /\ Cardinality(Reported(WithState(p, m))) >= quorum
    /\ \E st \in HighestStates(WithState(p, m)) :
          /\ temp' = [temp EXCEPT ![p] = ValueToWrite(p, st)]
          /\ msgs' = msgs \cup {[type |-> "write", from |-> p, epoch |-> ets[p],
                                 val |-> ValueToWrite(p, st)]}
    /\ rcvStates' = [rcvStates EXCEPT ![p] = [q \in Procs |-> NoState]]
    /\ phase' = [phase EXCEPT ![p] = "writing"]
    /\ UNCHANGED <<val, proposed, ets, newTs, decision, inner, inbox,
                   decidedEnvs, abortedEnvs, current, rcvAccepts, proposals>>

onReceivedAccept(p, m) ==
    /\ Receive(p, m)
    /\ m.type = "accept" /\ Handles(p, m)
    /\ rcvAccepts' = [rcvAccepts EXCEPT ![p] = @ + 1]
    /\ \/ /\ rcvAccepts[p] + 1 < quorum
          /\ UNCHANGED <<phase, msgs>>
       \/ /\ rcvAccepts[p] + 1 >= quorum
          /\ phase' = [phase EXCEPT ![p] = "deciding"]
          /\ msgs' = msgs \cup {[type |-> "decide", from |-> p,
                                 epoch |-> ets[p], val |-> temp[p]]}
    /\ UNCHANGED <<val, proposed, ets, newTs, decision, inner, inbox,
                   decidedEnvs, abortedEnvs, temp, current, rcvStates,
                   proposals>>

\* Mutant of onDecided: the node's own value is decided.
onDecidedOwn(p, m) ==
    /\ Receive(p, m)
    /\ m.type = "decide" /\ Handles(p, m)
    /\ phase' = [phase EXCEPT ![p] = "decided"]
    /\ decidedEnvs' = [decidedEnvs EXCEPT ![p] = @ \cup {[ts |-> ets[p], val |-> val[p]]}]
    /\ UNCHANGED <<val, proposed, ets, newTs, decision, inner, inbox,
                   abortedEnvs, temp, current, rcvStates, rcvAccepts, msgs,
                   proposals>>

\* onDecided and decide: the value goes to the channel that waitFinishEpoch
\* forwards to decidedEnvsCh; decide then waits for its own event loop.
onDecided(p, m) ==
    /\ Receive(p, m)
    /\ m.type = "decide" /\ Handles(p, m)
    /\ phase' = [phase EXCEPT ![p] = "decided"]
    /\ decidedEnvs' = [decidedEnvs EXCEPT ![p] =
                          @ \cup {[ts |-> ets[p], val |-> m.val]}]
    /\ UNCHANGED <<val, proposed, ets, newTs, decision, inner, inbox,
                   abortedEnvs, temp, current, rcvStates, rcvAccepts, msgs,
                   proposals>>

-----------------------------------------------------------------------------
(* The other cases of the select in background *)

\* case decided := <-n.decidedEnvsCh
HandleDecided(p, env) ==
    /\ loop[p] = "select"
    /\ env \in decidedEnvs[p]
    /\ decidedEnvs' = [decidedEnvs EXCEPT ![p] = @ \ {env}]
    /\ \/ /\ env.ts # ets[p] \/ decision[p] # NoDecision
          /\ UNCHANGED <<loop, decision>>
       \/ /\ env.ts = ets[p] /\ decision[p] = NoDecision
          /\ decision' = [decision EXCEPT ![p] = env]
          /\ ThenMaybePropose(p)
    /\ UNCHANGED <<val, proposed, ets, newTs, inner, inbox, abortedEnvs,
                   ecVars, msgs, delivered, proposals>>

\* What triggerAborted reports for a node that has decided: its decision, under
\* the timestamp of the epoch it leaves.
DecidedState(p) == [ts |-> ets[p], val |-> decision[p].val]

\* Mutant of Overtakes: no comparison with the current epoch.
AlwaysOvertakes(p, e) == TRUE

\* newEpoch.ts > n.ets; other announcements change nothing.
Overtakes(p, e) == e > ets[p]

\* case newEpoch := <-n.newEpochCh.  A decided node does not abort its instance.  Abort of an instance
\* that has decided blocks behind sync.Once: the loop never selects again.
HandleNewEpoch(p, e) ==
    /\ loop[p] = "select"
    /\ e \in Announced[p]
    /\ Overtakes(p, e)
    /\ newTs' = [newTs EXCEPT ![p] = e]
    /\ \/ /\ decision[p] # NoDecision
          /\ abortedEnvs' = [abortedEnvs EXCEPT ![p] =
                @ \cup {[ts |-> ets[p], state |-> DecidedState(p), cause |-> e]}]
          /\ UNCHANGED <<loop, inner>>
       \/ /\ decision[p] = NoDecision
          /\ ~inner[p]
          /\ ThenMaybePropose(p)
          /\ UNCHANGED <<inner, abortedEnvs>>
       \/ /\ decision[p] = NoDecision
          /\ inner[p] /\ phase[p] # "decided"
          /\ inner' = [inner EXCEPT ![p] = FALSE]
          /\ abortedEnvs' = [abortedEnvs EXCEPT ![p] =
                @ \cup {[ts |-> ets[p], state |-> current[p], cause |-> e]}]
          /\ ThenMaybePropose(p)
       \/ /\ decision[p] = NoDecision
          /\ inner[p] /\ phase[p] = "decided"
          /\ inner' = [inner EXCEPT ![p] = FALSE]
          /\ loop' = [loop EXCEPT ![p] = "blocked"]
          /\ UNCHANGED abortedEnvs
    /\ UNCHANGED <<val, proposed, ets, decision, inbox, decidedEnvs, ecVars,
                   msgs, delivered, proposals>>

\* The messages of epoch e in the inbox of p.
Buffered(p, e) == {m \in inbox[p] : m.epoch = e}

\* case abortedEnv := <-n.aborted for an epoch that is no longer current.
HandleStaleAborted(p, env) ==
    /\ loop[p] = "select"
    /\ env \in abortedEnvs[p]
    /\ env.ts # ets[p]
    /\ abortedEnvs' = [abortedEnvs EXCEPT ![p] = @ \ {env}]
    /\ inbox' = [inbox EXCEPT ![p] = @ \ Buffered(p, env.ts)]
    /\ UNCHANGED <<loop, val, proposed, ets, newTs, decision, inner,
                   decidedEnvs, ecVars, msgs, delivered, proposals>>

\* startEpoch and StartEpoch: a new instance for epoch e with state st.  The
\* buffered messages of the epoch are delivered again, in no fixed order; one
\* that overtakes the initEvent of the instance is lost.
startEpoch(p, e, st) ==
    /\ inner' = [inner EXCEPT ![p] = TRUE]
    /\ phase' = [phase EXCEPT ![p] = FirstPhase(p, e)]
    /\ temp' = [temp EXCEPT ![p] = None]
    /\ current' = [current EXCEPT ![p] = st]
    /\ rcvStates' = [rcvStates EXCEPT ![p] = [q \in Procs |-> NoState]]
    /\ rcvAccepts' = [rcvAccepts EXCEPT ![p] = 0]
    /\ delivered' = [delivered EXCEPT ![p] =
                        {m \in @ : m.epoch >= e} \ Buffered(p, e)]

\* case abortedEnv := <-n.aborted for the current epoch.
HandleAborted(p, env) ==
    /\ loop[p] = "select"
    /\ env \in abortedEnvs[p]
    /\ env.ts = ets[p]
    /\ abortedEnvs' = [abortedEnvs EXCEPT ![p] = @ \ {env}]
    /\ ets' = [ets EXCEPT ![p] = newTs[p]]
    /\ proposed' = [proposed EXCEPT ![p] = FALSE]
    /\ startEpoch(p, newTs[p], env.state)
    /\ inbox' = [inbox EXCEPT ![p] = @ \ Buffered(p, env.ts)]
    /\ loop' = [loop EXCEPT ![p] =
                   IF CanPropose(p, newTs[p], FALSE) THEN "propose" ELSE "select"]
    /\ UNCHANGED <<val, newTs, decision, decidedEnvs, msgs, proposals>>

\* Stop, or a crash of the process.
Stop(p) ==
    /\ p \in MayStop
    /\ loop[p] \in {"select", "propose", "blocked"}
    /\ loop' = [loop EXCEPT ![p] = "stopped"]
    /\ UNCHANGED <<val, proposed, ets, newTs, decision, inner, inbox,
                   decidedEnvs, abortedEnvs, ecVars, msgs, delivered, proposals>>

-----------------------------------------------------------------------------

Deliver(p) ==
    \E m \in msgs :
        \/ Buffer(p, m)
        \/ Lose(p, m)
        \/ onHandleRead(p, m)
        \/ onHandleWrite(p, m)
        \/ CollectState(p, m)
        \/ StartWriting(p, m)
        \/ onReceivedAccept(p, m)
        \/ onDecided(p, m)

Next ==
    \E p \in Procs :
        \/ \E v \in Values : Propose(p, v)
        \/ MaybePropose(p)
        \/ Deliver(p)
        \/ \E env \in decidedEnvs[p] : HandleDecided(p, env)
        \/ \E e \in Epochs : HandleNewEpoch(p, e)
        \/ \E env \in abortedEnvs[p] : HandleStaleAborted(p, env)
        \/ \E env \in abortedEnvs[p] : HandleAborted(p, env)
        \/ Stop(p)

Spec == Init /\ [][Next]_vars

-----------------------------------------------------------------------------
(* Properties *)

\* Every variable keeps to the type of the code's field.
TypeOK ==
    /\ loop \in [Procs -> {"select", "propose", "blocked", "panicked", "stopped"}]
    /\ val \in [Procs -> Vals]
    /\ proposed \in [Procs -> BOOLEAN]
    /\ ets \in [Procs -> Epochs]
    /\ newTs \in [Procs -> Epochs]
    /\ decision \in [Procs -> Decision \cup {NoDecision}]
    /\ inner \in [Procs -> BOOLEAN]
    /\ inbox \in [Procs -> SUBSET Message]
    /\ decidedEnvs \in [Procs -> SUBSET Decision]
    /\ abortedEnvs \in [Procs -> SUBSET AbortedState]
    /\ phase \in [Procs -> {"idle", "propose", "reading", "writing", "deciding", "decided"}]
    /\ temp \in [Procs -> Vals]
    /\ current \in [Procs -> State]
    /\ rcvStates \in [Procs -> [Procs -> State \cup {NoState}]]
    /\ rcvAccepts \in [Procs -> Nat]
    /\ msgs \subseteq Message
    /\ delivered \in [Procs -> SUBSET Message]
    /\ proposals \subseteq Values

Decided(p) == decision[p] # NoDecision

\* Validity: a decided value was passed to Propose at some node, whatever
\* highestState made of the states it read.
Validity == \A p \in Procs : Decided(p) => decision[p].val \in proposals

\* Two nodes that decide in the same epoch decide the same value: the leader of
\* an epoch writes one value only.
EpochAgreement ==
    \A p, q \in Procs :
        Decided(p) /\ Decided(q) /\ decision[p].ts = decision[q].ts
            => decision[p].val = decision[q].val

\* Uniform agreement, what MustUniqAgreement asserts of the decisions.
Agreement ==
    \A p, q \in Procs :
        Decided(p) /\ Decided(q) => decision[p].val = decision[q].val

\* Uniform agreement as far as the code guarantees it: as long as nobody has
\* decided in epoch 0, all decisions agree, in whatever epochs they were made.
AgreementAfterInitialEpoch ==
    (\A p \in Procs : Decided(p) => decision[p].ts > 0) => Agreement

\* A leader that may propose has an instance waiting for the proposal, so
\* that the proposeEvent is never swallowed by the state machine.
LeaderReady ==
    \A p \in Procs :
        inner[p] /\ leader(p) = p /\ ~proposed[p] => phase[p] = "propose"

\* The epoch of a node only grows: however announcements overtake each other
\* while an abort is under way, no abort leads to an epoch already left.
EpochsGrow == [][\A p \in Procs : ets'[p] # ets[p] => ets'[p] > ets[p]]_vars

=============================================================================
